SPECIFICATION Spec
CONSTANTS
    Trader = {t1, t2}
    Product = {p1, p2}
    NotNumeric = NotNumeric
    IdWord = {0, 1}
    QuantityWord = {1, 3, 1026}
    PriceWord = {30, 60}
    INT_RANGE = 1024
    MAX_QUANTITY = 2
    MAX_UNIT_PRICE = 60
    MaxOrders = 3
SYMMETRY Symmetry
INVARIANTS
    LiveOrdersHaveUnits
    LiveOrdersReachable
    IdsConsecutive
    BookUncrossedWithoutAmend
    MoneyConserved
    HoldingsMatchTrades
PROPERTIES
    ClosedOrdersStayClosed
    PriceTimePriority
    LimitsRespected
    ImplementsLedger
