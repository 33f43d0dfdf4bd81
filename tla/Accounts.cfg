SPECIFICATION AccountsSpec
CONSTANTS
    Emails = {e1, e2}
    Tokens = {t1, t2}
    Requests = {q1, q2, q3}
CHECK_DEADLOCK FALSE
SYMMETRY Symmetry
INVARIANTS
    AccountsTypeOK
    DeadStaysOut
