SPECIFICATION FairSpec
CONSTANTS
    Trader = {t1, t2}
    Product = {p1}
    NotNumeric = NotNumeric
    IdWord = {0}
    QuantityWord = {1}
    PriceWord = {50, 120}
    INT_RANGE = 1024
    MAX_QUANTITY = 100
    MAX_UNIT_PRICE = 200
    MaxOrders = 3
PROPERTIES
    PriceTimePriorityAlways
