CONSTANTS
    Modes = {"immediate", "next_optimization_boundary", "when_flat"}
    Runs = {1, 2}
SPECIFICATION Spec
INVARIANTS ValidatedPair
