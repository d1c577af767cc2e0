CONSTANTS
    MaxTicks = 4
    Symbols = {a, b}
    Period = 2
    Gap = 1
SPECIFICATION AggregatingSpec
INVARIANTS KeepsProcessing
CHECK_DEADLOCK FALSE
