SPECIFICATION Spec
CONSTANT MaxConditions = 5
INVARIANTS
    TypeOK
    PhaseIsLastCondition
    CompletedMeansEndingPhase
    CreatingIsAbstraction
PROPERTY StoppedIsKept
\* A completed job, or a list at its bound, takes no further call.
CHECK_DEADLOCK FALSE
