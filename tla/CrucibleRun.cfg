CONSTANTS
    Backends = {"local", "mlflow"}
    Commands <- MCCommands
    MaxCrashes = 1
    MaxExtras = 2
    MaxMoves = 1
SPECIFICATION Spec
INVARIANTS TypeOK SkippedIsWhole FreshUnlessRerun
PROPERTIES EndsUnlessTrapped
