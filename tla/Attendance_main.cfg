SPECIFICATION AttendanceSpec
CONSTANTS
    leader1 = leader1
    operator = operator
    safety = safety
    mentor = mentor
    v1 = v1
    g1 = g1
    g2 = g2
    p1 = p1
    p2 = p2
    Users = {leader1, operator, mentor}
    RoleOf <- MCRoleOf
    Cohorts = {c1, c2}
    Items = {i1, i2}
    Venues = {v1}
    Capacity <- MCCapacity
    Mentors = {m1, m2}
    Sizes = {2}
    ScheduleTimes = {1, 2}
    TicksPerSecond = 1
    HoldFor = 1
    GrossAmounts = {20}
    ShortNotice = 1
    LongNotice = 2
    Half = 2048
    MaxNow = 0
    MaxReroutes = 0
    Groups = {g1, g2}
    GroupNames = {n1}
    GroupCapacities = {1}
    Participants = {p1, p2}
    Artifacts = {a1}
    BatchInputs <- MCBatchInputs
    MaxCreating = 1
CHECK_DEADLOCK FALSE
SYMMETRY Symmetry
INVARIANTS
    AttendanceTypeOK
    GroupCapacity
    ActiveMeansAttended
    BatchTruthful
    ArtifactsEligible
    AttendanceAudited
