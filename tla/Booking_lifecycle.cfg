SPECIFICATION Spec
CONSTANTS
    leader1 = leader1
    leader2 = leader2
    operator = operator
    safety = safety
    v1 = v1
    v2 = v2
    Users = {leader1, leader2, operator, safety}
    RoleOf <- MCRoleOf
    Cohorts = {c1}
    Items = {i1, i2}
    Venues = {v1, v2}
    Capacity <- MCCapacity
    Mentors = {m1, m2}
    Sizes = {1}
    ScheduleTimes = {1, 2, 4}
    TicksPerSecond = 2
    HoldFor = 2
    GrossAmounts = {0, 7, 20}
    ShortNotice = 1
    LongNotice = 2
    Half = 512
    MaxNow = 4
    MaxReroutes = 2
CHECK_DEADLOCK FALSE
SYMMETRY Symmetry
INVARIANTS
    IInv
    ConfirmedComplete
    ConfirmedAcknowledged
    OutboxMatches
    AuditMatches
PROPERTIES
    LifecycleSteps
    ConfirmedInTime
