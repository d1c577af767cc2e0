CONSTANTS
    OrderId = {1, 2}
    Menu = {"BUY", "SELL", "BRACKET"}
    SyncInterval = 2
    SyncOrders = TRUE
    MaxFailures = 1
    MaxRestarts = 1
SPECIFICATION Spec
INVARIANTS TypeOK NoneForgotten PositionAgrees
PROPERTIES WalksLifecycle SyncHeals EveryFillSeen
