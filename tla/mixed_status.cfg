\* Submitted twice; no faults.
SPECIFICATION Spec
CONSTANTS
    NoPod = NoPod
    NoNode = NoNode
    EnableCreatingFailed = FALSE
    RestartsCreating = FALSE
    JobSpec <- OneWorker
    Node = n1
    MaxJobs = 2
    Propagations <- Either
    UpdateTries = 2
    MaxLag = 2
    Faults = 0
INVARIANT StatusIsOwn
CHECK_DEADLOCK FALSE
