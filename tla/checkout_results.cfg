SPECIFICATION FairSpec
CONSTANTS
    o1 = o1
    NoOrder = NoOrder
    NoResult = NoResult
    Orders <- OneOrder
    MaxOrderMsgs = 1
    MaxResultMsgs = 3
    MaxRetries = 1
    FaultKinds <- AllFaults
    MaxFaults = 1
INVARIANTS
    TypeOK
    AckedResultsApplied
PROPERTIES
    TerminalOrdersStay
    ResultsLeaveTheQueue
CHECK_DEADLOCK FALSE
