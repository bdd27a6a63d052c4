SPECIFICATION Spec
CONSTANTS
    r1 = r1
    NoOrder = NoOrder
    Requests = {r1}
    MaxRetries = 1
    FailureThreshold = 2
INVARIANT
    ContractPreserved
CHECK_DEADLOCK FALSE
