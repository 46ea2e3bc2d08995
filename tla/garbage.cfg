\* Two jobs and three pods of one name: what is forced out, and what must go.
SPECIFICATION FairSpec
CONSTANTS
    Namespaces <- Home
    Watched <- Home
    Indices <- OneIndex
    Nodes <- Node
    Grace = 1
    MaxJobs = 2
    MaxPods = 3
    MaxTime = 2
    Failures = 1
INVARIANT TypeOK
PROPERTIES LivingPodsSpared StoppedPodsGo OrphansGo
CHECK_DEADLOCK FALSE
