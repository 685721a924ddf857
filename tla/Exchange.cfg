SPECIFICATION XSpec
CONSTANTS
    Trader = {0, 1}
    Product = {p1}
    NotNumeric = NotNumeric
    IdWord = {0}
    QuantityWord = {1}
    PriceWord = {50, NotNumeric}
    INT_RANGE = 1024
    MAX_QUANTITY = 100
    MAX_UNIT_PRICE = 200
    MaxOrders = 3
    PerRead = 2
    MAX_SIGNALS = 2
    Spare = 1
    MemoryShort = TRUE
    Patient = FALSE
    MaxSent <- TwoAndOne
INVARIANTS
    AnswersNeedSignals
    MessagesSignalled
    EndsForAReason
    TradesReported
PROPERTIES
    CommandsInOrder
