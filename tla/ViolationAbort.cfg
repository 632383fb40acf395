SPECIFICATION ChatSpec
CONSTANTS
    MaxPrompts = 2
    MaxLines = 2
    MaxViews = 1
INVARIANT AbortIsFinal
CHECK_DEADLOCK FALSE
