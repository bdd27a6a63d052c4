SPECIFICATION Spec
CONSTANTS
    w1 = w1
    w2 = w2
    o1 = o1
    o2 = o2
    NoOrder = NoOrder
    NoMsg = NoMsg
    NoResult = NoResult
    Orders <- OneOrder
    Workers <- TwoWorkers
    Cents <- MCCents
    MaxOrderMsgs = 1
    MaxResultMsgs = 2
    MaxRetries = 3
    FaultKinds <- AllFaults
    MaxFaults = 1
INVARIANT
    ResultsReflectPayments
CHECK_DEADLOCK FALSE
