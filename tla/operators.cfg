\* Processes fail one after another; with leader election and without.
\* Requests are answered in time: 1 + 1 + 3 * 1 <= 5.
SPECIFICATION FairSpec
CONSTANTS
    Procs <- Two
    Scope <- SameScope
    Modes <- ElectedOrNot
    LeaseDuration = 5
    RenewDeadline = 1
    RetryPeriod = 1
    MaxDelay = 1
    Faults = 2
INVARIANTS TypeOK OneWriter
PROPERTIES IdleLeaderEnds Served
CHECK_DEADLOCK FALSE
