CONSTANTS
    Symbols = {a, b}
    Prices <- NearPrices
    StopPct = 25
    ProfitPct = 50
    TxCost = 200
    OrderId = {1, 2}
    InitialCash = 400
    MarketHoursOnly = FALSE
    OrderMenu <- MixedMenu
SPECIFICATION Spec
INVARIANTS TypeOK Books StraddlesEntry SnapshotAgrees LedgerExact OverdrawnByFeesOnly ShortOnlyByFees
PROPERTIES ImplementsLifecycle TrailingOnlyTightens
CHECK_DEADLOCK FALSE
SYMMETRY SymbolSymmetry
