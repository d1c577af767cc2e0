CONSTANTS
    MaxTicks = 3
    Symbols = {a, b}
    Period = 2
    Gap = 1
SPECIFICATION AggregatingSpec
INVARIANTS AggTypeOK CountIsExact InOrder StopDrains ExactWindows MissingOnlyIfRaised InWindowOrder
  
CHECK_DEADLOCK FALSE
