SPECIFICATION FairSpec
CONSTANTS
    k1 = k1
    k2 = k2
    o1 = o1
    o2 = o2
    NoOrder = NoOrder
    NoMsg = NoMsg
    Garbage = Garbage
    Orders <- TwoOrders
    Calls <- OneCall
    MaxMessages = 2
    MaxFaults = 0
PROPERTY
    ReprocessFindsItsOrder
CHECK_DEADLOCK FALSE
