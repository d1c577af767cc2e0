CONSTANTS
    Modes = {"self", "immediate", "next_optimization_boundary", "when_flat"}
    Runs = {1, 2}
SPECIFICATION Spec
INVARIANTS TypeOK OneSearch WholePair OnlyApproved
PROPERTIES StillDuringTick NeverBack TicksEnd SearchesEnd
