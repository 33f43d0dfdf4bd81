SPECIFICATION Spec
CONSTANTS
    leader1 = leader1
    leader2 = leader2
    operator = operator
    safety = safety
    v1 = v1
    v2 = v2
    Users = {leader1, leader2, operator, safety}
    RoleOf <- MCRoleOf
    Cohorts = {c1, c2}
    Items = {i1, i2}
    Venues = {v1, v2}
    Capacity <- MCCapacity
    Mentors = {m1, m2}
    Sizes = {1}
    ScheduleTimes = {2, 3, 4}
    TicksPerSecond = 2
    HoldFor = 2
    GrossAmounts = {20}
    ShortNotice = 1
    LongNotice = 2
    Half = 2048
    MaxNow = 0
    MaxReroutes = 2
CHECK_DEADLOCK FALSE
INVARIANT MentorExclusive
