SPECIFICATION FairSpec
CONSTANTS
    bad = bad
    Jobs = {j1}
    Workers = {w1}
    Permanent = {}
    MaxAttempts = 2
    StaleAfter = 1
    Half = 4
    MaxBackoff = 2
    MaxCrashes = 1
    MaxLosses = 0
CHECK_DEADLOCK FALSE
PROPERTY EveryJobSettles
