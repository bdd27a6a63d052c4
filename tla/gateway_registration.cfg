SPECIFICATION FairSpec
CONSTANTS
    r1 = r1
    r2 = r2
    r3 = r3
    e1 = e1
    e2 = e2
    NoAccount = NoAccount
    Requests <- ThreeRequests
    Email <- MCEmail
    MaxRetries = 1
    FailureThreshold = 2
INVARIANTS
    TypeOK
    CircuitCountsFailures
    OpensAfterExhaustion
PROPERTIES
    AccountsRefined
    AdmittedAnswered
CHECK_DEADLOCK FALSE
