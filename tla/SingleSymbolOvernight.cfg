CONSTANTS
    Symbols = {a}
    Prices <- ThreePrices
    StopPct = 25
    ProfitPct = 50
    TxCost = 1
    OrderId = {1, 2}
    InitialCash = 500
    MarketHoursOnly = TRUE
    OrderMenu = {}
    Traded = a
SPECIFICATION SingleSpec
INVARIANTS StopBelowEntry
CHECK_DEADLOCK FALSE
