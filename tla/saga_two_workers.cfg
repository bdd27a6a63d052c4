SPECIFICATION FairSpec
CONSTANTS
    w1 = w1
    w2 = w2
    o1 = o1
    o2 = o2
    NoOrder = NoOrder
    NoMsg = NoMsg
    NoResult = NoResult
    Orders <- OneOrder
    Workers <- TwoWorkers
    Cents <- MCCents
    MaxOrderMsgs = 2
    MaxResultMsgs = 3
    MaxRetries = 1
    FaultKinds <- AllFaults
    MaxFaults = 3
INVARIANTS
    ResultsArePersisted
    NothingDropped
    OneConsumerPerMessage
PROPERTIES
    LifecycleRefined
    QueuedOrdersSettle
CHECK_DEADLOCK FALSE
