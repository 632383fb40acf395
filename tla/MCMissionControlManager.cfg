SPECIFICATION Spec
CONSTANTS
    MaxStarts = 3
    MaxSnapshots = 1
INVARIANTS
    HandleIsNewest
    NoBridgeEscapes
PROPERTIES
    EndsVisibly
CHECK_DEADLOCK FALSE
