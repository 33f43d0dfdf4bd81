SPECIFICATION Spec
CONSTANTS
    Requests = {q1, q2, q3}
    Keys = {k1}
    Payloads = {a, b}
    TicksPerSecond = 2
    TTL = 3
    MaxTime = 6
CHECK_DEADLOCK FALSE
SYMMETRY Symmetry
INVARIANTS
    IdempotencyTypeOK
    OutcomeIsOwn
    AnswersAgree
PROPERTIES
    StoredRunsOnce
