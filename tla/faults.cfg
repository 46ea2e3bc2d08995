SPECIFICATION Spec
CONSTANTS
    NoPod = NoPod
    NoNode = NoNode
    EnableCreatingFailed = FALSE
    RestartsCreating = FALSE
    JobSpecs <- CoreSpecs
    Nodes = {"n1"}
    ExitCodes <- Code
    Faults <- CoreFaults
    Prompt = FALSE
    Annotations = {}
    UpdateTries = 2
    MaxLag = 1
    MaxTime = 0
INVARIANTS
    TypeOK
    SealedHasVerdict
    RestartsWithinLimit
    SucceedIsEarned
PROPERTIES
    EndedIsFinal
    NoPodsAfterVerdict
    KeepsLifecycle
\* An ended job, or one the operator lost sight of, takes no further step.
CHECK_DEADLOCK FALSE
