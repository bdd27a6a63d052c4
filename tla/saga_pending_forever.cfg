SPECIFICATION FairSpec
CONSTANTS
    w1 = w1
    w2 = w2
    o1 = o1
    o2 = o2
    NoOrder = NoOrder
    NoMsg = NoMsg
    NoResult = NoResult
    Orders <- OneOrder
    Workers <- OneWorker
    Cents <- MCCents
    MaxOrderMsgs = 1
    MaxResultMsgs = 1
    MaxRetries = 3
    FaultKinds <- ServerFaults
    MaxFaults = 1
PROPERTY
    PendingOrdersSettle
CHECK_DEADLOCK FALSE
