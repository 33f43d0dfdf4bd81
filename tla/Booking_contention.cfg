SPECIFICATION Spec
CONSTANTS
    leader1 = leader1
    leader2 = leader2
    operator = operator
    safety = safety
    v1 = v1
    v2 = v2
    Users = {leader1, operator}
    RoleOf <- MCRoleOf
    Cohorts = {c1, c2}
    Items = {i1, i2, i3}
    Venues = {v1, v2}
    Capacity <- MCCapacity
    Mentors = {m1, m2}
    Sizes = {1, 2}
    ScheduleTimes = {2, 4, 6}
    TicksPerSecond = 2
    HoldFor = 2
    GrossAmounts = {10, 20}
    ShortNotice = 3
    LongNotice = 4
    Half = 512
    MaxNow = 0
    MaxReroutes = 2
CHECK_DEADLOCK FALSE
SYMMETRY Symmetry
INVARIANTS
    VenueCapacity
    MentorExclusive
    CancelledReleased
    RerouteTrail
    SettlementFair
PROPERTY ImplementsLedger
