SPECIFICATION OpenedSpec
CONSTANTS
    Trader = {0, 1}
    Product = {p1}
    NotNumeric = NotNumeric
    IdWord = {1, 2}
    QuantityWord = {1, 524289}
    PriceWord = {55}
    INT_RANGE = 1024
    MAX_QUANTITY = 100
    MAX_UNIT_PRICE = 200
    MaxOrders = 7
    PerRead = 1
    MAX_SIGNALS = 100
    Spare = 10
    MemoryShort = FALSE
    Patient = TRUE
    MaxSent <- OneMore
PROPERTIES
    CommandsAnswered
    StopsAfterTraders
    MatchingEnds
