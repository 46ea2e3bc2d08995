SPECIFICATION Spec
CONSTANTS
    NoPod = NoPod
    NoNode = NoNode
    EnableCreatingFailed = TRUE
    RestartsCreating = TRUE
    JobSpecs <- PromptSpecs
    Nodes = {"n1"}
    ExitCodes <- Codes
    Faults <- PromptFaults
    Prompt = TRUE
    Annotations = {"Preempted"}
    UpdateTries = 2
    MaxLag = 1
    MaxTime = 0
INVARIANTS
    ReleasedWhenEnded
    SameGeneration
    SucceedIsEarned
\* An ended job, or one the operator lost sight of, takes no further step.
CHECK_DEADLOCK FALSE
