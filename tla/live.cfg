SPECIFICATION ProgressSpec
CONSTANTS
    NoPod = NoPod
    NoNode = NoNode
    EnableCreatingFailed = FALSE
    RestartsCreating = FALSE
    JobSpecs <- LiveSpecs
    Nodes = {"n1"}
    ExitCodes <- Code
    Faults <- LiveFaults
    Prompt = FALSE
    Annotations = {}
    UpdateTries = 2
    MaxLag = 1
    MaxTime = 0
PROPERTIES
    DueJobEnds
    RestartEnds
\* An ended job, or one the operator lost sight of, takes no further step.
CHECK_DEADLOCK FALSE
