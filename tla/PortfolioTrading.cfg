CONSTANTS
    Symbols = {u, d}
    Prices <- ThreePrices
    DualPrices <- TwoPrices
    StopPct = 25
    ProfitPct = 50
    TxCost = 1
    OrderId = {1, 2}
    InitialCash = 500
    MarketHoursOnly = TRUE
    OrderMenu = {}
    Traded = u
    Bull = u
    Bear = d
    HoldingPeriod = 1
    NoSymbol = none
SPECIFICATION PortfolioSpec
INVARIANTS NeverRaises BracketsAreTheBooks OneBracket SwitchLeaves
CHECK_DEADLOCK FALSE
