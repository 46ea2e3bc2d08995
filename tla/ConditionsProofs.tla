--------------------------- MODULE ConditionsProofs ---------------------------
(***************************************************************************)
(* The properties of the condition list, proved for every bound on its     *)
(* length and every sequence of calls.  Beyond what the properties say the *)
(* induction needs that only the last condition can be one that stops the  *)
(* job: then the first condition of an ending type is the last of all.     *)
(***************************************************************************)
EXTENDS Conditions, SequenceTheorems, TLAPS

\* updateTrainingJobConditions does nothing once an ending condition is there,
\* so that none is ever followed by another condition.
OnlyLastStops ==
    \A i \in DOMAIN conditions :
        conditions[i].type \in CompletedPhases => i = Len(conditions)

\* A job has a phase as soon as it has a condition, and not before.
PhaseMeansCondition == conditions = <<>> <=> phase = NoPhase

IInv == /\ TypeOK
        /\ PhaseIsLastCondition
        /\ OnlyLastStops
        /\ PhaseMeansCondition
        /\ CreatingIsAbstraction

\* The completed phases are ending phases, and all are phases.
LEMMA PhaseFacts ==
    /\ NoPhase \in Phases /\ NoPhase \notin CompletedPhases
    /\ CompletedPhases \subseteq Phases /\ "Creating" \in Phases
    /\ "Creating" \notin CompletedPhases
BY DEF NoPhase, Phases, CompletedPhases, ReconciledPhases, EndingPhases

\* The last condition is of a type already, and True.
IsLast(type) == /\ Len(conditions) > 0
                /\ conditions[Len(conditions)] = [type |-> type, status |-> TRUE]

\* What the list is after a condition was appended to it.
LEMMA AppendedList ==
    ASSUME NEW type \in Phases, TypeOK, PhaseIsLastCondition,
           SetCondition(type), ~IsLast(type)
    PROVE  /\ conditions' \in Seq(Condition)
           /\ Len(conditions') = Len(conditions) + 1
           /\ \A i \in 1..Len(conditions) :
                 /\ conditions'[i].type = conditions[i].type
                 /\ conditions'[i].status = FALSE
           /\ conditions'[Len(conditions) + 1] = [type |-> type, status |-> TRUE]
<1> DEFINE n == Len(conditions)
           cleared == [i \in 1..n |-> IF i = n
                                      THEN [conditions[i] EXCEPT !.status = FALSE]
                                      ELSE conditions[i]]
           new == [type |-> type, status |-> TRUE]
<1>1. conditions \in Seq(Condition) /\ n \in Nat /\ DOMAIN conditions = 1..n
  BY DEF TypeOK
<1>2. conditions' = Append(cleared, new)
  BY DEF SetCondition, IsLast
<1>3. \A i \in 1..n : conditions[i] \in Condition
  BY <1>1
<1>4. \A i \in 1..n : /\ cleared[i] \in Condition
                      /\ cleared[i].type = conditions[i].type
                      /\ cleared[i].status = FALSE
  <2> TAKE i \in 1..n
  <2>1. CASE i = n
    BY <2>1, <1>3 DEF Condition
  <2>2. CASE i # n
    BY <2>2, <1>3, <1>1 DEF Condition, PhaseIsLastCondition
  <2> QED BY <2>1, <2>2
<1>5. cleared \in Seq(Condition) /\ Len(cleared) = n
  <2>1. cleared \in [1..n -> Condition]
    BY <1>4
  <2>2. cleared \in Seq(Condition)
    BY <1>1, <2>1, SeqDef
  <2>3. DOMAIN cleared = 1..n
    OBVIOUS
  <2> HIDE DEF cleared
  <2> QED BY <1>1, <2>2, <2>3, LenProperties
<1>6. new \in Condition
  BY DEF Condition
<1> HIDE DEF cleared, new
<1>7. /\ Append(cleared, new) \in Seq(Condition)
      /\ Len(Append(cleared, new)) = n + 1
      /\ \A i \in 1..n : Append(cleared, new)[i] = cleared[i]
      /\ Append(cleared, new)[n + 1] = new
  BY <1>1, <1>5, <1>6, AppendProperties
<1> QED BY <1>2, <1>4, <1>7 DEF new

\* A condition that is the last one already is the phase as well.
LEMMA KeptList ==
    ASSUME NEW type \in Phases \ {NoPhase}, IInv, IsLast(type)
    PROVE  /\ conditions # <<>> /\ phase = type
           /\ NextCreating(creating, phase, type) = creating
<1>1. /\ conditions \in Seq(Condition) /\ Len(conditions) \in Nat
      /\ DOMAIN conditions = 1..Len(conditions)
  BY DEF IInv, TypeOK
<1>2. /\ Len(conditions) > 0
      /\ conditions[Len(conditions)] = [type |-> type, status |-> TRUE]
  BY DEF IsLast
<1>3. conditions # <<>>
  BY <1>1, <1>2
<1>4. phase = type
  BY <1>2, <1>3 DEF IInv, PhaseIsLastCondition
<1>5. NextCreating(creating, phase, type) = creating
  <2>1. CASE type = "Creating"
    <3>1. Len(conditions) \in OfType("Creating")
      BY <1>1, <1>2, <2>1 DEF OfType
    <3>2. creating # "never"
      BY <3>1 DEF IInv, CreatingIsAbstraction
    <3> QED BY <2>1, <3>2 DEF NextCreating
  <2>2. CASE type # "Creating"
    <3>1. ~IsTrue("Creating")
      <4> SUFFICES ASSUME NEW i \in OfType("Creating"), conditions[i].status
                   PROVE  FALSE
        BY DEF IsTrue
      <4>1. i = Len(conditions)
        BY DEF OfType, IInv, PhaseIsLastCondition
      <4> QED BY <4>1, <1>2, <2>2 DEF OfType
    <3>2. creating # "current"
      BY <3>1 DEF IInv, CreatingIsAbstraction
    <3> QED BY <2>2, <3>2 DEF NextCreating
  <2> QED BY <2>1, <2>2
<1> QED BY <1>3, <1>4, <1>5

\* A status nobody has written yet.
LEMMA InitIInv == Init => IInv
<1> SUFFICES ASSUME Init PROVE IInv
  OBVIOUS
<1>1. TypeOK
  BY PhaseFacts DEF Init, TypeOK
<1>2. DOMAIN conditions = {}
  BY DEF Init
<1>3. PhaseIsLastCondition /\ OnlyLastStops /\ PhaseMeansCondition
  BY <1>2 DEF Init, PhaseIsLastCondition, OnlyLastStops, PhaseMeansCondition
<1>4. CreatingIsAbstraction
  BY <1>2 DEF Init, CreatingIsAbstraction, OfType, IsTrue
<1> QED BY <1>1, <1>3, <1>4 DEF IInv

\* A stopped job is recognised by its phase, whatever came before.
LEMMA CompletedByPhase == IInv => CompletedMeansEndingPhase
<1> SUFFICES ASSUME IInv PROVE IsJobCompleted <=> phase \in CompletedPhases
  BY DEF CompletedMeansEndingPhase
<1>1. conditions \in Seq(Condition) /\ Len(conditions) \in Nat
      /\ DOMAIN conditions = 1..Len(conditions)
  BY DEF IInv, TypeOK
<1>2. ASSUME IsJobCompleted PROVE phase \in CompletedPhases
  <2>1. PICK p \in CompletedPhases : IsTrue(p)
    BY <1>2 DEF IsJobCompleted
  <2>2. PICK i \in OfType(p) : conditions[i].status
    BY <2>1 DEF IsTrue
  <2>3. i \in 1..Len(conditions) /\ i = Len(conditions) /\ conditions[i].type = p
    BY <2>2, <1>1 DEF OfType, IInv, PhaseIsLastCondition
  <2>4. conditions # <<>>
    BY <2>3, <1>1
  <2> QED BY <2>1, <2>3, <2>4 DEF IInv, PhaseIsLastCondition
<1>3. ASSUME phase \in CompletedPhases PROVE IsJobCompleted
  <2> DEFINE n == Len(conditions)
  <2>1. conditions # <<>>
    BY <1>3, PhaseFacts DEF IInv, PhaseMeansCondition
  <2>2. n \in 1..n
    BY <1>1, <2>1, EmptySeq
  <2>3. conditions[n].type = phase /\ conditions[n].status
    BY <2>1, <2>2, <1>1 DEF IInv, PhaseIsLastCondition
  <2>4. \A j \in OfType(phase) : j = n
    BY <1>3 DEF OfType, IInv, OnlyLastStops
  <2>5. n \in OfType(phase)
    BY <2>2, <2>3, <1>1 DEF OfType
  <2>6. n <= n
    BY <1>1
  <2>7. IsTrue(phase)
    BY <2>3, <2>4, <2>5, <2>6 DEF IsTrue
  <2> QED BY <2>7, <1>3 DEF IsJobCompleted
<1> QED BY <1>2, <1>3

\* The summary that the controller keeps follows an append.
LEMMA AppendedSummary ==
    ASSUME NEW type \in Phases \ {NoPhase}, IInv, ~IsLast(type),
           UpdateConditions(type)
    PROVE  CreatingIsAbstraction'
<1> DEFINE n == Len(conditions)
<1>1. /\ conditions \in Seq(Condition) /\ n \in Nat /\ DOMAIN conditions = 1..n
      /\ creating \in {"never", "current", "past"}
  BY DEF IInv, TypeOK
<1>2. /\ Len(conditions') = n + 1 /\ DOMAIN conditions' = 1..(n + 1)
      /\ \A i \in 1..n : /\ conditions'[i].type = conditions[i].type
                         /\ conditions'[i].status = FALSE
      /\ conditions'[n + 1] = [type |-> type, status |-> TRUE]
  <2>1. TypeOK /\ PhaseIsLastCondition /\ SetCondition(type)
    BY DEF IInv, UpdateConditions
  <2>2. conditions' \in Seq(Condition) /\ Len(conditions') = n + 1
    BY <2>1, AppendedList
  <2>3. DOMAIN conditions' = 1..(n + 1)
    BY <2>2, LenProperties
  <2> QED BY <2>1, <2>2, <2>3, AppendedList
<1>3. creating' = NextCreating(creating, phase, type)
  BY DEF UpdateConditions
<1>4. /\ creating = "never" <=> OfType("Creating") = {}
      /\ creating = "current" <=> IsTrue("Creating")
  BY DEF IInv, CreatingIsAbstraction
<1>5. CASE type # "Creating"
  <2>1. OfType("Creating")' = OfType("Creating")
    BY <1>1, <1>2, <1>5 DEF OfType
  <2>2. ~IsTrue("Creating")'
    BY <1>1, <1>2, <2>1 DEF IsTrue, OfType
  <2>3. creating' = "never" <=> creating = "never"
    BY <1>1, <1>3, <1>5 DEF NextCreating
  <2>4. creating' # "current"
    BY <1>1, <1>3, <1>5 DEF NextCreating
  <2> QED BY <1>4, <2>1, <2>2, <2>3, <2>4 DEF CreatingIsAbstraction
<1>6. CASE type = "Creating"
  <2>1. OfType("Creating")' = OfType("Creating") \union {n + 1}
    BY <1>1, <1>2, <1>6 DEF OfType
  <2>2. creating' # "never"
    BY <1>1, <1>3, <1>6 DEF NextCreating
  <2>3. CASE creating = "never"
    <3>1. creating' = "current"
      BY <1>3, <1>6, <2>3 DEF NextCreating
    <3>2. OfType("Creating")' = {n + 1}
      BY <1>4, <2>1, <2>3
    <3>3. IsTrue("Creating")'
      BY <1>1, <1>2, <3>2 DEF IsTrue
    <3> QED BY <2>1, <2>2, <3>1, <3>3 DEF CreatingIsAbstraction
  <2>4. CASE creating # "never"
    <3>1. PICK j \in OfType("Creating") : TRUE
      BY <1>4, <2>4
    <3>2. j \in 1..n /\ ~(n + 1 <= j)
      BY <1>1, <3>1 DEF OfType
    <3>3. ~IsTrue("Creating")'
      <4> SUFFICES ASSUME NEW i \in OfType("Creating")', conditions'[i].status,
                          \A k \in OfType("Creating")' : i <= k
                   PROVE  FALSE
        BY DEF IsTrue
      <4>1. CASE i = n + 1
        BY <4>1, <2>1, <3>1, <3>2
      <4>2. CASE i # n + 1
        BY <4>2, <1>1, <1>2, <2>1 DEF OfType
      <4> QED BY <4>1, <4>2
    <3>4. ~IsTrue("Creating")
      <4> SUFFICES ASSUME NEW i \in OfType("Creating"), conditions[i].status
                   PROVE  FALSE
        BY DEF IsTrue
      <4>1. i = n /\ n > 0 /\ conditions[n].type = type
        BY <1>1, <1>6 DEF OfType, IInv, PhaseIsLastCondition
      <4>2. conditions[n] \in Condition
        BY <1>1, <4>1
      <4>3. conditions[n] = [type |-> type, status |-> TRUE]
        BY <4>1, <4>2 DEF Condition
      <4> QED BY <4>1, <4>3 DEF IsLast
    <3>5. creating' = creating /\ creating # "current"
      BY <1>3, <1>4, <1>6, <2>4, <3>4 DEF NextCreating
    <3> QED BY <2>2, <2>1, <3>3, <3>5 DEF CreatingIsAbstraction
  <2> QED BY <2>3, <2>4
<1> QED BY <1>5, <1>6

\* Every call of updateTrainingJobConditions keeps the invariant.
LEMMA NextIInv == IInv /\ [Next]_vars => IInv'
<1> SUFFICES ASSUME IInv, [Next]_vars PROVE IInv'
  OBVIOUS
<1>1. ASSUME NEW type \in Phases \ {NoPhase}, UpdateConditions(type)
      PROVE  IInv'
  <2> DEFINE n == Len(conditions)
  <2>1. /\ conditions \in Seq(Condition) /\ n \in Nat /\ DOMAIN conditions = 1..n
        /\ phase \in Phases /\ creating \in {"never", "current", "past"}
    BY DEF IInv, TypeOK
  <2>2. /\ ~IsJobCompleted /\ SetCondition(type) /\ phase' = type
        /\ creating' = NextCreating(creating, phase, type)
    BY <1>1 DEF UpdateConditions
  <2>3. CASE IsLast(type)
    <3>1. conditions' = conditions
      BY <2>2, <2>3 DEF SetCondition, IsLast
    <3>2. phase' = phase /\ creating' = creating
      BY <2>2, <2>3, KeptList
    <3> QED BY <3>1, <3>2 DEF IInv, TypeOK, PhaseIsLastCondition, OnlyLastStops,
                             PhaseMeansCondition, CreatingIsAbstraction, OfType, IsTrue
  <2>4. CASE ~IsLast(type)
    <3>1. /\ conditions' \in Seq(Condition) /\ Len(conditions') = n + 1
          /\ \A i \in 1..n : /\ conditions'[i].type = conditions[i].type
                             /\ conditions'[i].status = FALSE
          /\ conditions'[n + 1] = [type |-> type, status |-> TRUE]
      BY <2>2, <2>4, AppendedList DEF IInv
    <3>2. DOMAIN conditions' = 1..(n + 1) /\ conditions' # <<>>
      BY <2>1, <3>1, LenProperties, EmptySeq
    <3>3. TypeOK'
      BY <2>1, <2>2, <3>1 DEF TypeOK, NextCreating
    <3>4. PhaseIsLastCondition'
      BY <2>1, <2>2, <3>1, <3>2 DEF PhaseIsLastCondition
    <3>5. OnlyLastStops'
      <4>1. phase \notin CompletedPhases
        BY <2>2, CompletedByPhase DEF CompletedMeansEndingPhase
      <4>2. \A i \in 1..n : conditions[i].type \notin CompletedPhases
        <5> SUFFICES ASSUME NEW i \in 1..n, conditions[i].type \in CompletedPhases
                     PROVE  FALSE
          OBVIOUS
        <5>1. i = n
          BY <2>1 DEF IInv, OnlyLastStops
        <5>2. conditions # <<>>
          BY <2>1, EmptySeq
        <5> QED BY <4>1, <5>1, <5>2 DEF IInv, PhaseIsLastCondition
      <4> QED BY <2>1, <3>1, <3>2, <4>2 DEF OnlyLastStops
    <3>6. PhaseMeansCondition'
      BY <2>2, <3>2 DEF PhaseMeansCondition
    <3>7. CreatingIsAbstraction'
      BY <1>1, <2>4, AppendedSummary
    <3> QED BY <3>3, <3>4, <3>5, <3>6, <3>7 DEF IInv
  <2> QED BY <2>3, <2>4
<1>2. ASSUME UNCHANGED vars PROVE IInv'
  BY <1>2 DEF vars, IInv, TypeOK, PhaseIsLastCondition, OnlyLastStops,
              PhaseMeansCondition, CreatingIsAbstraction, OfType, IsTrue
<1> QED BY <1>1, <1>2 DEF Next

\* The invariant of the induction holds at all times.
THEOREM ListInvariant == Spec => []IInv
<1> QED BY InitIInv, NextIInv, PTL DEF Spec

\* The list, the phase and the summary are always of their types.
THEOREM ListTypeCorrect == Spec => []TypeOK
<1>1. IInv => TypeOK
  BY DEF IInv
<1> QED BY <1>1, ListInvariant, PTL

\* Phase and Conditions never tell two stories: setTrainingJobCondition.
THEOREM PhaseFollowsConditions == Spec => []PhaseIsLastCondition
<1>1. IInv => PhaseIsLastCondition
  BY DEF IInv
<1> QED BY <1>1, ListInvariant, PTL

\* isJobCompleted recognises every job in one of its four phases, and no other.
THEOREM CompletionIsSeen == Spec => []CompletedMeansEndingPhase
<1> QED BY CompletedByPhase, ListInvariant, PTL

\* What the controller module keeps of the list is all its readers ask of it.
THEOREM SummaryIsExact == Spec => []CreatingIsAbstraction
<1>1. IInv => CreatingIsAbstraction
  BY DEF IInv
<1> QED BY <1>1, ListInvariant, PTL

\* The status of a stopped job is never changed by a later call.
THEOREM StoppedStatusIsKept == Spec => StoppedIsKept
<1>1. IInv /\ [Next]_vars => [phase \notin CompletedPhases]_<<phase, conditions>>
  <2> SUFFICES ASSUME IInv, [Next]_vars, phase \in CompletedPhases
               PROVE  UNCHANGED <<phase, conditions>>
    OBVIOUS
  <2>1. IsJobCompleted
    BY CompletedByPhase DEF CompletedMeansEndingPhase
  <2> QED BY <2>1 DEF Next, UpdateConditions, vars
<1> QED BY <1>1, ListInvariant, PTL DEF Spec, StoppedIsKept
==============================================================================
