SPECIFICATION XSpec
CONSTANTS
    Trader = {0, 1}
    Product = {p1}
    NotNumeric = NotNumeric
    IdWord = {0}
    QuantityWord = {1}
    PriceWord = {50}
    INT_RANGE = 1024
    MAX_QUANTITY = 100
    MAX_UNIT_PRICE = 200
    MaxOrders = 2
    PerRead = 1
    MAX_SIGNALS = 100
    Spare = 10
    MemoryShort = FALSE
    Patient = TRUE
    MaxSent <- OneEach
PROPERTIES
    EndsWithTraders
