SPECIFICATION FairSpec
CONSTANTS
    r1 = r1
    r2 = r2
    r3 = r3
    r4 = r4
    p1 = p1
    p2 = p2
    NoCart = NoCart
    NoItem = NoItem
    Requests <- FourRequests
    Asks <- MCAsks
    Products <- TwoProducts
    Quantities <- One
    Price <- MCPrice
    MaxCents = 35
    MaxQuantity = 2
    MaxAttempts = 2
INVARIANTS
    TypeOK
    TotalsAgree
    OrdersMatchCarts
    ConflictNeedsCheckouts
PROPERTIES
    CompletedCartsFrozen
    CartRefined
    RequestsAnswered
CHECK_DEADLOCK FALSE
