\* Submitted twice; one fault.
SPECIFICATION Spec
CONSTANTS
    NoPod = NoPod
    NoNode = NoNode
    EnableCreatingFailed = FALSE
    RestartsCreating = FALSE
    JobSpec <- OneWorker
    Node = n1
    MaxJobs = 2
    Propagations <- Either
    UpdateTries = 2
    MaxLag = 2
    Faults = 1
INVARIANTS TypeOK SuccessIsOwn
PROPERTY OwnPodsOnly
CHECK_DEADLOCK FALSE
