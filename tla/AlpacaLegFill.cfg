CONSTANTS
    OrderId = {1, 2}
    Menu = {"BUY", "SELL", "BRACKET"}
    SyncInterval = 2
    SyncOrders = TRUE
    MaxFailures = 0
    MaxRestarts = 0
SPECIFICATION Spec
PROPERTIES LegFillSeen
