\* Submitted twice, withdrawn either way; no faults.
SPECIFICATION FairSpec
CONSTANTS
    NoPod = NoPod
    NoNode = NoNode
    EnableCreatingFailed = FALSE
    RestartsCreating = FALSE
    JobSpec <- OneWorker
    Node = n1
    MaxJobs = 2
    Propagations <- Either
    UpdateTries = 2
    MaxLag = 1
    Faults = 0
PROPERTIES GetsPods WithdrawnGoes
CHECK_DEADLOCK FALSE
