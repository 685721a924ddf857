SPECIFICATION TSpec
CONSTANTS
    Quantity = {0, 1, 2}
    MAX_QUANTITY = 3
    TooMany = 2
    PerRead = 2
    MaxMessages = 5
INVARIANTS
    AcceptedInSequence
    RepliesInOrder
PROPERTIES
    RefusedForGood
    SellsAnswered
\* The trader may wait in read() for ever.
CHECK_DEADLOCK FALSE
