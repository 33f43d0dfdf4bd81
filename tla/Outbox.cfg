SPECIFICATION FairSpec
CONSTANTS
    bad = bad
    Jobs = {j1, bad}
    Workers = {w1, w2}
    Permanent = {bad}
    MaxAttempts = 5
    StaleAfter = 1
    MaxBackoff = 1
    Half = 4
    MaxCrashes = 1
    MaxLosses = 1
CHECK_DEADLOCK FALSE
INVARIANTS
    OutboxTypeOK
    ClaimsDistinct
    AttemptsAccounted
PROPERTIES
    ImplementsAtLeastOnce
    FailureFenced
    SettlesOrOrphaned
