SPECIFICATION SSpec
CONSTANTS
    trader_count = 3
INVARIANTS
    STypeOK
    TradersConnected
    SignalsFindHandlers
PROPERTIES
    MarketOpens
    LostChildHangs
CHECK_DEADLOCK FALSE
