SPECIFICATION BridgeSpec
CONSTANTS
    a = a
    b = b
    c = c
    ghost = ghost
    None = None
    MaxEdges = 4
    Id <- MCId
    FailClass = {"action_failure"}
    Dependency = {b}
    DepNode <- MCDepNode
    Role <- MCRole
    Gain <- MCGain
    Manifests <- MCManifests
    Causes <- MCCauses
    Scores = {}
    MaxFailures = 1
    MaxConstraints = 1
    MaxSteps = 2
INVARIANTS
    OneNodeInWork
    MirrorCountsTheGraph
    FinalLineIsCurrent
PROPERTIES
    KeepsSprintRun
    Termination
CHECK_DEADLOCK FALSE
