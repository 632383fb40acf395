SPECIFICATION Spec
CONSTANTS
    MaxStarts = 2
    MaxSnapshots = 1
PROPERTY StopLeavesNoBridge
CHECK_DEADLOCK FALSE
