SPECIFICATION XSpec
CONSTANTS
    Trader = {0}
    Product = {p1}
    NotNumeric = NotNumeric
    IdWord = {0}
    QuantityWord = {1}
    PriceWord = {50}
    INT_RANGE = 1024
    MAX_QUANTITY = 100
    MAX_UNIT_PRICE = 200
    MaxOrders = 3
    PerRead = 1
    MAX_SIGNALS = 2
    Spare = 1
    MemoryShort = FALSE
    Patient = TRUE
    MaxSent <- Three
INVARIANTS
    SignalsStored
