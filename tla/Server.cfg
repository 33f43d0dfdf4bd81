SPECIFICATION FairSpec
CONSTANTS
    admin = admin
    Emails = {admin}
    Tokens = {t1}
    Requests = {q1}
    Procs = {p1, p2}
    BootstrapEmail = admin
    MaxFaults = 2
CHECK_DEADLOCK FALSE
INVARIANTS
    ServerTypeOK
    ServingPrepared
    FailedStartHadRival
PROPERTIES
    CleanExitCutsNobody
    SignalEndsProcess
