SPECIFICATION FairSpec
CONSTANTS
    NoPod = NoPod
    NoNode = NoNode
    EnableCreatingFailed = FALSE
    RestartsCreating = FALSE
    JobSpecs <- PairSpecs
    Nodes = {"n1"}
    ExitCodes <- Codes
    Faults <- LossFaults
    Prompt = TRUE
    Annotations = {}
    UpdateTries = 2
    MaxLag = 1
    MaxTime = 0
PROPERTIES
    FinishedIsCleaned
\* An ended job, or one the operator lost sight of, takes no further step.
CHECK_DEADLOCK FALSE
