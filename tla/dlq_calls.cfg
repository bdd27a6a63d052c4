SPECIFICATION FairSpec
CONSTANTS
    k1 = k1
    k2 = k2
    o1 = o1
    o2 = o2
    NoOrder = NoOrder
    NoMsg = NoMsg
    Garbage = Garbage
    Orders <- TwoOrders
    Calls <- TwoCalls
    MaxMessages = 2
    MaxFaults = 1
INVARIANTS
    TypeOK
    OutMeansHandled
    
PROPERTY
    CallsEnd
CHECK_DEADLOCK FALSE
