SPECIFICATION FairSpec
CONSTANTS
    NoPod = NoPod
    NoNode = NoNode
    EnableCreatingFailed = FALSE
    RestartsCreating = FALSE
    JobSpecs <- PlainSpecs
    Nodes = {"n1"}
    ExitCodes <- Codes
    Faults <- Outage
    Prompt = TRUE
    Annotations = {}
    UpdateTries = 5
    MaxLag = 1
    MaxTime = 0
PROPERTIES
    EndingIsStored
\* An ended job, or one the operator lost sight of, takes no further step.
CHECK_DEADLOCK FALSE
