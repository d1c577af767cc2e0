CONSTANTS
    Symbols = {u, d}
    Prices <- TwoPrices
    StopPct = 25
    ProfitPct = 100
    TxCost = 1
    OrderId = {1, 2}
    InitialCash = 500
    MarketHoursOnly = TRUE
    OrderMenu = {}
    Bull = u
    Bear = d
    HoldingPeriod = 1
    NoSymbol = none
SPECIFICATION HoldingSpec
PROPERTIES SwitchesOnlyAfterHolding
CHECK_DEADLOCK FALSE
