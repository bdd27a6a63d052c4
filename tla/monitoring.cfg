SPECIFICATION FairSpec
CONSTANTS
    Window = 2
    MinRate = 50
    FailureLimit = 2
    MaxProcessed = 4
    MaxTime = 2
    FailureThreshold = 2
    Checks = {c1, c2}
INVARIANTS
    TypeOK
PROPERTIES
    VerdictLiftedByWork
    SilenceReported
    RecoveryReported
CHECK_DEADLOCK FALSE
