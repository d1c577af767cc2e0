CONSTANTS
    MaxTicks = 5
SPECIFICATION Spec
PROPERTIES FinalizeTerminates
CHECK_DEADLOCK FALSE
