SPECIFICATION Spec
CONSTANTS
    w1 = w1
    w2 = w2
    o1 = o1
    o2 = o2
    NoOrder = NoOrder
    NoMsg = NoMsg
    NoResult = NoResult
    Orders <- TwoOrders
    Workers <- OneWorker
    Cents <- MCCents
    MaxOrderMsgs = 3
    MaxResultMsgs = 3
    MaxRetries = 1
    FaultKinds <- AllFaults
    MaxFaults = 2
INVARIANTS
    TypeOK
    OrdersFollowPayments
    ResultsReflectPayments
PROPERTY
    NoChargeAfterFinal
CHECK_DEADLOCK FALSE
