----------------------------- MODULE Conditions ------------------------------
(***************************************************************************)
(* The list of conditions of a job's status, which only                    *)
(* updateTrainingJobConditions writes, and what its readers see of it.     *)
(*                                                                         *)
(* The controller module keeps one value of this list, "creating": what    *)
(* getTrainingJobCondition answers for the phase Creating, which is about  *)
(* the FIRST condition of that type.  Here it is kept beside the list, so  *)
(* that CreatingIsAbstraction shows that nothing is lost.                  *)
(***************************************************************************)
EXTENDS AITrainingJob, Sequences

CONSTANT MaxConditions   \* bound on the length of the list, for TLC

ASSUME MaxConditionsAssumption == MaxConditions \in Nat

VARIABLES conditions,    \* Status.Conditions: type and status of each
          phase,         \* Status.Phase
          creating       \* the controller's summary: never, current or past

vars == <<conditions, phase, creating>>

Condition == [type : Phases, status : BOOLEAN]

\* The indices of the conditions of one type.
OfType(type) == {i \in DOMAIN conditions : conditions[i].type = type}

\* getTrainingJobCondition returns the first condition of the type; IsTrue
\* says that there is one and that its status is True.
IsTrue(type) ==
    \E i \in OfType(type) : /\ conditions[i].status
                            /\ \A j \in OfType(type) : i <= j

\* Seeded fault: a timeout is forgotten.
IsJobCompletedButTimeout == \E p \in CompletedPhases \ {"Timeout"} : IsTrue(p)

IsJobCompleted == \E p \in CompletedPhases : IsTrue(p)

\* Seeded fault: the condition that was the last keeps its status.
KeepLastStatus(type) ==
    conditions' = Append(conditions, [type |-> type, status |-> TRUE])

\* The reason of a condition is a function of its type, so the last condition
\* is kept (its message apart) when type and status are the same.
SetCondition(type) ==
    LET n == Len(conditions)
    IN  conditions' =
          IF n > 0 /\ conditions[n] = [type |-> type, status |-> TRUE]
          THEN conditions
          ELSE Append([i \in 1..n |-> IF i = n
                                      THEN [conditions[i] EXCEPT !.status = FALSE]
                                      ELSE conditions[i]],
                      [type |-> type, status |-> TRUE])

\* Seeded faults: the first Creating condition is taken to stay True, or a
\* second creating period is told from the first.
NextCreatingForever(summary, from, to) ==
    IF to = "Creating" THEN "current" ELSE summary

NextCreatingAgain(summary, from, to) ==
    IF to # "Creating" THEN summary
    ELSE IF summary = "never" THEN "current" ELSE "again"

\* What becomes of the summary when the phase changes from "from" to "to".
NextCreating(summary, from, to) ==
    CASE to = "Creating" /\ summary = "never" -> "current"
      [] to # "Creating" /\ summary = "current" -> "past"
      [] OTHER -> summary

\* Seeded fault: a stopped job is not left alone.
UpdateStoppedConditions(type) ==
    /\ Len(conditions) < MaxConditions
    /\ SetCondition(type)
    /\ phase' = type
    /\ creating' = NextCreating(creating, phase, type)

UpdateConditions(type) ==
    /\ ~IsJobCompleted
    /\ Len(conditions) < MaxConditions
    /\ SetCondition(type)
    /\ phase' = type
    /\ creating' = NextCreating(creating, phase, type)

Init == /\ conditions = <<>>
        /\ phase = NoPhase
        /\ creating = "never"

Next == \E type \in Phases \ {NoPhase} : UpdateConditions(type)

Spec == Init /\ [][Next]_vars

------------------------------------------------------------------------------

TypeOK == /\ conditions \in Seq(Condition)
          /\ phase \in Phases
          /\ creating \in {"never", "current", "past"}

\* At most the last condition is True, and then it is the one of the phase:
\* setTrainingJobCondition clears the previous last condition each time it
\* appends one, so Phase and Conditions never tell two stories.
PhaseIsLastCondition ==
    /\ \A i \in DOMAIN conditions :
           conditions[i].status <=> i = Len(conditions)
    /\ conditions # <<>> => phase = conditions[Len(conditions)].type

\* isJobCompleted looks for the first condition of each ending type; that is
\* enough to recognise every completed job, whatever happened to it before:
\* no ending condition can hide behind an older one of its type.
CompletedMeansEndingPhase == IsJobCompleted <=> phase \in CompletedPhases

\* reconcileContainers asks whether the first Creating condition is True.  In
\* a second creating period it is not, although the job is creating: the
\* summary the controller module keeps says exactly when.
CreatingIsAbstraction ==
    /\ creating = "never" <=> OfType("Creating") = {}
    /\ creating = "current" <=> IsTrue("Creating")

\* "Do nothing if trainingJobStatus is stopped" (status.go): once one of the
\* four conditions of isJobCompleted holds, no later call changes the status.
StoppedIsKept ==
    [][phase \notin CompletedPhases]_<<phase, conditions>>
==============================================================================
