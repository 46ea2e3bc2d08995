SPECIFICATION Spec
CONSTANTS
    NoPod = NoPod
    NoNode = NoNode
    EnableCreatingFailed = FALSE
    RestartsCreating = FALSE
    JobSpecs <- PlainSpecs
    Nodes = {"n1"}
    ExitCodes <- Codes
    Faults <- NodeFaults
    Prompt = FALSE
    Annotations = {}
    UpdateTries = 2
    MaxLag = 1
    MaxTime = 0
INVARIANTS
    NodeFailMeansNodeFailed
\* An ended job, or one the operator lost sight of, takes no further step.
CHECK_DEADLOCK FALSE
