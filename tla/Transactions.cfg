SPECIFICATION FairSpec
CONSTANTS
    add1 = add1
    cancel1 = cancel1
    Adds = {add1, add2, add3}
    Cancels = {cancel1}
    Applies = {apply1}
    Target <- MCTarget
    Capacity = 1
    MaxConns = 3
    MaxCrashes = 1
CHECK_DEADLOCK FALSE
INVARIANTS
    TransactionsTypeOK
    RowsPaired
PROPERTIES
    ImplementsSerial
    EveryTransactionEnds
