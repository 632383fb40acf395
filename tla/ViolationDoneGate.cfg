SPECIFICATION BridgeSpec
CONSTANTS
    a = a
    b = b
    c = c
    ghost = ghost
    None = None
    MaxEdges = 2
    Id <- MCId
    FailClass = {"action_failure"}
    Dependency = {b}
    DepNode <- MCDepNode
    Role <- MCRole
    Gain <- MCGain
    Manifests <- MCManifests
    Causes <- MCCauses
    Scores = {}
    MaxFailures = 1
    MaxConstraints = 1
    MaxSteps = 2
INVARIANT DoneGateMeansDone
CHECK_DEADLOCK FALSE
