SPECIFICATION Spec
CONSTANTS
    api = api
    tool = tool
    depLib = depLib
    libPath = libPath
    None = None
    Id <- MCId
    FailClass <- MCFailClass
    Dependency <- MCDependency
    DepNode <- MCDepNode
    Role <- MCRole
    Gain <- MCGain
    Manifests <- MCManifests
    Causes <- MCCauses
    Scores <- MCScores
    MaxFailures = 2
    MaxConstraints = 2
PROPERTY HealingLeadsOn
CHECK_DEADLOCK FALSE
