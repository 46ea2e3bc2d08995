---------------------------- MODULE ReconcileProofs ----------------------------
(***************************************************************************)
(* What every reconciliation guarantees of the plans it makes, for any     *)
(* specification, any job and any view of the pods: the plans are of their *)
(* type, a verdict is never without its annotation, and no more restarts   *)
(* are counted than the limits allow.                                      *)
(***************************************************************************)
EXTENDS Reconcile, FiniteSetTheorems, TLAPS

\* What the lemmas need of a specification with its defaults.
FullSpec(spec) ==
    /\ NoReplica \notin Types(spec)
    /\ spec.timeLimit \in Nat \union {NoLimit}
    /\ \A t \in Types(spec) :
          /\ spec.replicaSpecs[t].restartLimit \in Nat \union {NoLimit}
          /\ spec.replicaSpecs[t].replicas \in Nat

\* What is a phase, and which phases end a job.
LEMMA PhaseFacts ==
    /\ NoPhase \in Phases /\ CompletedPhases \subseteq Phases
    /\ EndingPhases \subseteq Phases /\ ReconciledPhases \subseteq Phases
    /\ EndingPhases \intersect ReconciledPhases = {}
    /\ {"Terminating", "Restarting", "Pending", "Creating", "Running"}
          \subseteq ReconciledPhases
    /\ \A phase : IsFailedPhase(phase) => phase \in EndingPhases
BY DEF NoPhase, Phases, CompletedPhases, ReconciledPhases, EndingPhases,
       IsFailedPhase

\* SetPhase changes the phase to the one asked for, or nothing.
LEMMA SetPhaseFacts ==
    ASSUME NEW spec, NEW job \in Jobs(spec), NEW phase \in Phases
    PROVE  /\ SetPhase(job, phase) \in Jobs(spec)
           /\ SetPhase(job, phase).restart = job.restart
           /\ SetPhase(job, phase).counts = job.counts
           /\ SetPhase(job, phase).start = job.start
           /\ SetPhase(job, phase).annotations = job.annotations
           /\ \/ SetPhase(job, phase).phase = phase
              \/ SetPhase(job, phase) = job /\ job.phase \in CompletedPhases
<1>1. CASE IsJobCompleted(job)
  BY <1>1 DEF SetPhase, IsJobCompleted
<1>2. CASE ~IsJobCompleted(job)
  <2>1. NextCreating(job.creating, phase) \in {"never", "current", "past"}
    BY DEF NextCreating, Jobs
  <2> QED BY <1>2, <2>1 DEF SetPhase, Jobs
<1> QED BY <1>1, <1>2

\* A non-empty set of naturals has a least element: the initial segments that end in
\* its elements are finite, and strict inclusion is well-founded on finite sets.
LEMMA LeastNatural ==
    ASSUME NEW S \in SUBSET Nat, S # {}
    PROVE  MinOf(S) \in S /\ \A y \in S : MinOf(S) <= y
<1> DEFINE below == {0..n : n \in S}
           R == StrictSubsetOrdering(Nat)
<1>1. IsWellFoundedOn(R, FiniteSubsetsOf(Nat))
  BY FS_StrictSubsetOrderingWellFounded
<1>2. \A b \in below : b \in FiniteSubsetsOf(Nat)
  <2> TAKE b \in below
  <2>1. PICK n \in S : b = 0..n
    OBVIOUS
  <2>2. IsFiniteSet(0..n)
    BY FS_Interval
  <2>3. 0..n \subseteq Nat
    OBVIOUS
  <2> QED BY <2>1, <2>2, <2>3 DEF FiniteSubsetsOf
<1>3. below # {}
  OBVIOUS
<1> HIDE DEF below, R
<1>4. PICK b \in below : \A c \in below : <<c, b>> \notin R
  BY <1>1, <1>2, <1>3, WFMin
<1>5. PICK n \in S : b = 0..n
  BY DEF below
<1>6. ASSUME NEW y \in S PROVE n <= y
  <2>1. 0..y \in below
    BY DEF below
  <2>2. <<0..y, 0..n>> \notin R
    BY <1>4, <1>5, <2>1
  <2>3. SUFFICES ASSUME y < n PROVE <<0..y, 0..n>> \in R
    BY <2>2
  <2>4. 0..y \subseteq 0..n /\ n \in 0..n /\ n \notin 0..y
    BY <2>3
  <2> QED BY <2>4 DEF R, StrictSubsetOrdering
<1> QED BY <1>5, <1>6 DEF MinOf

\* The final phase of an annotated job is one of its annotations.
LEMMA FirstAnnotationFacts ==
    ASSUME NEW job, job.annotations \in SUBSET EndingPhases, job.annotations # {}
    PROVE  FirstAnnotation(job) \in job.annotations
<1> DEFINE S == {i \in DOMAIN EndingPhaseOrder :
                   EndingPhaseOrder[i] \in job.annotations}
<1>1. DOMAIN EndingPhaseOrder = 1..5
  BY DEF EndingPhaseOrder
<1>2. \A phase \in EndingPhases : \E i \in 1..5 : EndingPhaseOrder[i] = phase
  BY DEF EndingPhaseOrder, EndingPhases
<1>3. S \in SUBSET Nat /\ S # {}
  BY <1>1, <1>2
<1>4. MinOf(S) \in S
  <2> HIDE DEF S
  <2> QED BY <1>3, LeastNatural
<1> QED BY <1>4 DEF FirstAnnotation

\* What updateStatus may do to a job: it counts no restart, a verdict is not
\* without its annotation, and the time limit has a time to be reached.
GoodOutcome(spec, job, o) ==
    /\ o = Outcome(o.job, o.deletes, o.svcDeletes, o.wake)
    /\ o.job \in Jobs(spec)
    /\ o.job.counts = job.counts
    /\ HasVerdict(job) \/ job.restart # NoReplica => HasVerdict(o.job)
    /\ o.deletes \subseteq Slots(spec) /\ o.svcDeletes \subseteq Slots(spec)
    /\ o.wake \in {"none", "soon", "limit"}
    /\ o.wake = "limit" => o.job.start \in Nat /\ spec.timeLimit \in Nat

\* The fields of an outcome of updateStatus.
LEMMA OutcomeFields ==
    ASSUME NEW j, NEW d, NEW s, NEW w
    PROVE  /\ Outcome(j, d, s, w).job = j /\ Outcome(j, d, s, w).deletes = d
           /\ Outcome(j, d, s, w).svcDeletes = s /\ Outcome(j, d, s, w).wake = w
BY DEF Outcome

\* terminateTrainingJob seals a job with its verdict, or ends it.
LEMMA TerminateIsGood ==
    ASSUME NEW spec, NEW job \in Jobs(spec), NEW view, NEW svcs, NEW phase,
           DOMAIN view = Slots(spec), svcs \subseteq Slots(spec),
           phase \in EndingPhases
    PROVE  GoodOutcome(spec, job,
                       TerminateTrainingJob(spec, job, view, svcs, phase))
<1> DEFINE noted == [job EXCEPT !.annotations = @ \union {phase}]
<1>1. CASE spec.cleanPodPolicy = "None" /\ phase \in {"Succeed", "Failed"}
  <2>1. phase \in Phases /\ phase # "Terminating"
    BY PhaseFacts
  <2>2. HasVerdict(job) => HasVerdict(SetPhase(job, phase))
    BY <2>1, SetPhaseFacts DEF HasVerdict, Sealed
  <2>3. job.restart # NoReplica => HasVerdict(SetPhase(job, phase))
    BY <2>1, SetPhaseFacts DEF HasVerdict, Sealed
  <2> QED BY <1>1, <2>1, <2>2, <2>3, SetPhaseFacts, OutcomeFields
          DEF TerminateTrainingJob, GoodOutcome
<1>2. CASE ~(spec.cleanPodPolicy = "None" /\ phase \in {"Succeed", "Failed"})
  <2>1. noted \in Jobs(spec) /\ noted.counts = job.counts /\ noted.annotations # {}
    BY DEF Jobs
  <2>2. "Terminating" \in Phases
    BY PhaseFacts
  <2> HIDE DEF noted
  <2>3. /\ SetPhase(noted, "Terminating") \in Jobs(spec)
        /\ SetPhase(noted, "Terminating").counts = job.counts
        /\ HasVerdict(SetPhase(noted, "Terminating"))
    BY <2>1, <2>2, SetPhaseFacts DEF HasVerdict
  <2>4. Present(view) \subseteq Slots(spec)
    BY DEF Present
  <2>5. TerminateTrainingJob(spec, job, view, svcs, phase)
          = Outcome(SetPhase(noted, "Terminating"), Present(view),
                    IF Present(view) = {} THEN {} ELSE svcs, "none")
    BY <1>2 DEF TerminateTrainingJob, noted
  <2> QED BY <2>3, <2>4, <2>5, OutcomeFields DEF GoodOutcome
<1> QED BY <1>1, <1>2

\* A job that waits for a restart stays a good job.
LEMMA WaitIsGood ==
    ASSUME NEW spec, NEW job \in Jobs(spec), NEW view, job.restart # NoReplica
    PROVE  GoodOutcome(spec, job, WaitForRestart(spec, job, view))
<1>1. CASE RestartIsOver(spec, job, view)
  <2> DEFINE s == SetPhase(job, "Restarting")
             over == [s EXCEPT !.restart = NoReplica]
  <2>1. /\ "Restarting" \in Phases /\ "Restarting" # "Terminating"
        /\ "Terminating" \notin CompletedPhases
    BY PhaseFacts DEF CompletedPhases
  <2>2. /\ s \in Jobs(spec) /\ s.counts = job.counts
        /\ s.phase = "Restarting" \/ s.phase \in CompletedPhases
    BY <2>1, SetPhaseFacts
  <2> HIDE DEF s
  <2>3. over \in Jobs(spec) /\ over.counts = job.counts /\ over.phase = s.phase
    BY <2>2 DEF Jobs
  <2>4. HasVerdict(over)
    BY <2>1, <2>2, <2>3 DEF HasVerdict, Sealed
  <2>5. WaitForRestart(spec, job, view) = Outcome(over, {}, {}, "none")
    BY <1>1 DEF WaitForRestart, s
  <2> HIDE DEF over
  <2> QED BY <2>3, <2>4, <2>5, OutcomeFields DEF GoodOutcome
<1>2. CASE ~RestartIsOver(spec, job, view)
  <2>1. WaitForRestart(spec, job, view) = Outcome(job, {}, {}, "none")
    BY <1>2 DEF WaitForRestart
  <2>2. HasVerdict(job)
    BY DEF HasVerdict, Sealed
  <2> QED BY <2>1, <2>2, OutcomeFields DEF GoodOutcome
<1> QED BY <1>1, <1>2

\* An annotated job ends with one of its annotations, or waits.
LEMMA EndIsGood ==
    ASSUME NEW spec, NEW job \in Jobs(spec), NEW view, job.annotations # {}
    PROVE  GoodOutcome(spec, job, EndWhenReleased(job, view))
<1>1. CASE Present(view) = {}
  <2> DEFINE ended == [job EXCEPT !.ended = TRUE]
             final == FirstAnnotation(job)
  <2>1. ended \in Jobs(spec) /\ ended.counts = job.counts
        /\ ended.annotations = job.annotations
    BY DEF Jobs
  <2>2. final \in Phases
    <3>1. job.annotations \in SUBSET EndingPhases
      BY DEF Jobs
    <3> QED BY <3>1, FirstAnnotationFacts, PhaseFacts
  <2> HIDE DEF ended, final
  <2>3. /\ SetPhase(ended, final) \in Jobs(spec)
        /\ SetPhase(ended, final).counts = job.counts
        /\ HasVerdict(SetPhase(ended, final))
    BY <2>1, <2>2, SetPhaseFacts DEF HasVerdict
  <2>4. EndWhenReleased(job, view) = Outcome(SetPhase(ended, final), {}, {}, "none")
    BY <1>1 DEF EndWhenReleased, ended, final
  <2> QED BY <2>3, <2>4, OutcomeFields DEF GoodOutcome
<1>2. CASE Present(view) # {}
  <2>1. EndWhenReleased(job, view) = Outcome(job, {}, {}, "soon")
    BY <1>2 DEF EndWhenReleased
  <2>2. HasVerdict(job)
    BY DEF HasVerdict
  <2> QED BY <2>1, <2>2, OutcomeFields DEF GoodOutcome
<1> QED BY <1>1, <1>2

\* A job that goes on keeps its counts and does not become Terminating.
GoesOn(spec, job, j) ==
    /\ j \in Jobs(spec) /\ j.counts = job.counts
    /\ HasVerdict(job) => HasVerdict(j)

\* A job that goes on is not sealed and keeps its counts.
LEMMA SetPhaseGoesOn ==
    ASSUME NEW spec, NEW job, NEW j, NEW phase \in Phases,
           GoesOn(spec, job, j), phase # "Terminating"
    PROVE  GoesOn(spec, job, SetPhase(j, phase))
<1>1. j \in Jobs(spec)
  BY DEF GoesOn
<1>2. SetPhase(j, phase).phase = phase \/ SetPhase(j, phase) = j
  BY <1>1, SetPhaseFacts
<1> QED BY <1>1, <1>2, SetPhaseFacts DEF GoesOn, HasVerdict, Sealed

\* The phase read off the pods is one of a job that goes on.
LEMMA ObserveGoesOn ==
    ASSUME NEW spec, NEW job \in Jobs(spec), NEW view, NEW now \in Nat
    PROVE  GoesOn(spec, job, ObservePods(spec, job, view, now))
<1> DEFINE restarting(s) == IsPendingPod(view[s]) /\ job.counts[s[1]] > 0
           scheduled(s) == /\ IsPendingPod(view[s])
                           /\ job.counts[s[1]] = 0
                           /\ view[s].node # NoNode
           isScheduled == \A s \in Slots(spec) :
                              /\ s \in Present(view)
                              /\ \/ restarting(s) \/ scheduled(s)
                                 \/ ~IsPendingPod(view[s])
           isCreating == \E s \in Present(view) : scheduled(s)
           isRestarting == \E s \in Present(view) : restarting(s)
           isRunning == \A s \in Slots(spec) :
                            s \in Present(view) /\ view[s].state = "Running"
           started == [job EXCEPT !.start = IF @ = NotStarted THEN now ELSE @]
           running == IF isRunning /\ job.phase # "Running"
                      THEN SetPhase(started, "Running") ELSE job
           creating == IF isCreating /\ isScheduled /\ running.phase # "Restarting"
                       THEN SetPhase(running, "Creating") ELSE running
           restarted == IF isRestarting /\ creating.phase # "Restarting"
                        THEN SetPhase(creating, "Restarting") ELSE creating
           result == IF ~isScheduled /\ ~isRestarting /\ restarted.phase # "Restarting"
                     THEN SetPhase(restarted, "Pending") ELSE restarted
<1>1. ObservePods(spec, job, view, now) = result
  BY DEF ObservePods
<1>2. \A phase \in {"Running", "Creating", "Restarting", "Pending"} :
         phase \in Phases /\ phase # "Terminating"
  BY PhaseFacts
<1>3. GoesOn(spec, job, job) /\ GoesOn(spec, job, started)
  BY DEF GoesOn, Jobs, HasVerdict, Sealed
<1> HIDE DEF isScheduled, isCreating, isRestarting, isRunning, started
<1>4. GoesOn(spec, job, running)
  BY <1>2, <1>3, SetPhaseGoesOn
<1> HIDE DEF running
<1>5. GoesOn(spec, job, creating)
  BY <1>2, <1>4, SetPhaseGoesOn
<1> HIDE DEF creating
<1>6. GoesOn(spec, job, restarted)
  BY <1>2, <1>5, SetPhaseGoesOn
<1> HIDE DEF restarted
<1>7. GoesOn(spec, job, result)
  BY <1>2, <1>6, SetPhaseGoesOn
<1> QED BY <1>1, <1>7

\* The policies settle on ending phases of the types, and no others.
LEMMA PolicyVerdictsAreEndings ==
    ASSUME NEW spec, NEW endings, NEW v \in PolicyVerdicts(spec, endings)
    PROVE  v \in EndingPhases
<1> DEFINE failed == {t \in DOMAIN endings : IsFailedPhase(endings[t])}
<1>1. v = "Succeed" \/ v \in {endings[t] : t \in failed}
  BY DEF PolicyVerdicts
<1>2. "Succeed" \in EndingPhases
  BY DEF EndingPhases
<1> QED BY <1>1, <1>2, PhaseFacts

\* Every outcome of updateStatus is a good one.
LEMMA UpdateIsGood ==
    ASSUME NEW spec, FullSpec(spec), NEW job \in Jobs(spec), NEW view, NEW svcs,
           NEW endings, NEW now \in Nat,
           DOMAIN view = Slots(spec), svcs \subseteq Slots(spec),
           NEW o \in UpdateStatus(spec, job, view, svcs, endings, now)
    PROVE  GoodOutcome(spec, job, o)
<1> DEFINE observed == ObservePods(spec, job, view, now)
           wake == IF spec.timeLimit # NoLimit /\ observed.start # NotStarted
                   THEN "limit" ELSE "none"
<1>1. CASE job.restart # NoReplica
  BY <1>1, WaitIsGood DEF UpdateStatus
<1>2. CASE job.restart = NoReplica
  <2>1. CASE \E v \in PolicyVerdicts(spec, endings) :
                o = TerminateTrainingJob(spec, job, view, svcs, v)
    BY <2>1, PolicyVerdictsAreEndings, TerminateIsGood
  <2>2. CASE job.annotations # {} /\ o = EndWhenReleased(job, view)
    BY <2>2, EndIsGood
  <2>3. CASE o = TerminateTrainingJob(spec, job, view, svcs, "Timeout")
    <3>1. "Timeout" \in EndingPhases
      BY DEF EndingPhases
    <3> QED BY <2>3, <3>1, TerminateIsGood
  <2>4. CASE o = Outcome(observed, {}, {}, wake)
    <3>1. GoesOn(spec, job, observed)
      BY ObserveGoesOn
    <3> HIDE DEF observed
    <3>2. observed.start \in Nat \union {NotStarted}
      BY <3>1 DEF GoesOn, Jobs
    <3>3. wake = "limit" => observed.start \in Nat /\ spec.timeLimit \in Nat
      BY <3>2 DEF FullSpec
    <3>4. wake \in {"none", "soon", "limit"}
      OBVIOUS
    <3> HIDE DEF wake
    <3> QED BY <1>2, <2>4, <3>1, <3>3, <3>4, OutcomeFields DEF GoodOutcome, GoesOn
  <2> QED BY <1>2, <2>1, <2>2, <2>3, <2>4 DEF UpdateStatus
<1> QED BY <1>1, <1>2

\* The walk over a type creates and deletes pods of the job's slots only, and
\* it asks for a restart only if the limit of the type allows one.
LEMMA WalkFacts ==
    ASSUME NEW spec, NEW job, NEW view, NEW rtype \in Types(spec), NEW ready,
           NEW clock, DOMAIN view = Slots(spec),
           NEW walk, walk = ReconcilePods(spec, job, view, rtype, ready, clock)
    PROVE  /\ walk.creates \subseteq Slots(spec) /\ walk.deletes \subseteq Slots(spec)
           /\ walk.force \in BOOLEAN
           /\ walk.phase = "Restarting" =>
                MayRestart(spec.replicaSpecs[rtype], job.counts[rtype])
<1> DEFINE rs == spec.replicaSpecs[rtype]
           slots == SlotsOf(spec, rtype)
           present == {i \in Indices(spec, rtype) : <<rtype, i>> \in Present(view)}
           verdict == [i \in present |->
                         ReconcileContainers(spec, job, rtype, view[<<rtype, i>>],
                                             ready, clock)]
           restarts == {i \in present : /\ verdict[i].isRestart
                                        /\ MayRestart(rs, job.counts[rtype])}
           ends == {i \in present :
                      EndsWalk(rs, i, view[<<rtype, i>>], verdict[i]) # NoPhase}
           stops == restarts \union ends
           stop == MinOf(stops)
           missing == {s \in slots : s \notin Present(view)}
           failedPhase == IF \E i \in present : verdict[i].phase = "NodeFail"
                          THEN "NodeFail" ELSE "Failed"
           before == {s \in missing : s[2] < stop}
           early == [creates |-> {}, phase |-> EarlyEnd(job), deletes |-> {},
                     force |-> FALSE]
           whole == [creates |-> missing,
                     phase |-> EndsType(rs, view, slots, failedPhase),
                     deletes |-> {}, force |-> FALSE]
           restart == [creates |-> before, phase |-> "Restarting",
                       deletes |-> RestartScope(rs, view, slots, <<rtype, stop>>),
                       force |-> verdict[stop].phase = "NodeFail"]
           end == [creates |-> before,
                   phase |-> EndsWalk(rs, stop, view[<<rtype, stop>>], verdict[stop]),
                   deletes |-> {}, force |-> FALSE]
<1>1. walk = IF EarlyEnd(job) # NoPhase THEN early
             ELSE IF stops = {} THEN whole
             ELSE IF stop \in restarts THEN restart ELSE end
  BY DEF ReconcilePods
<1>2. slots \subseteq Slots(spec)
  BY DEF Slots
<1>3. Present(view) \subseteq Slots(spec)
  BY DEF Present
<1>4. missing \subseteq Slots(spec) /\ before \subseteq Slots(spec)
  BY <1>2
<1>5. EarlyEnd(job) # "Restarting"
  BY DEF EarlyEnd, NoPhase
<1>6. EndsType(rs, view, slots, failedPhase) # "Restarting"
  BY DEF EndsType, NoPhase
<1>7. \A index, pod, v : EndsWalk(rs, index, pod, v) # "Restarting"
  BY DEF EndsWalk, NoPhase
<1>8. stop \in restarts =>
        /\ <<rtype, stop>> \in Slots(spec)
        /\ MayRestart(rs, job.counts[rtype])
  BY <1>3
<1>9. stop \in restarts =>
        RestartScope(rs, view, slots, <<rtype, stop>>) \subseteq Slots(spec)
  BY <1>2, <1>3, <1>8 DEF RestartScope
<1> HIDE DEF stops, stop, missing, before, slots, restarts, verdict, failedPhase
<1>10. CASE walk = early
  BY <1>5, <1>10
<1>11. CASE walk = whole
  BY <1>4, <1>6, <1>11
<1>12. CASE walk = restart /\ stop \in restarts
  BY <1>4, <1>8, <1>9, <1>12
<1>13. CASE walk = end
  BY <1>4, <1>7, <1>13
<1> QED BY <1>1, <1>10, <1>11, <1>12, <1>13

\* A restart is counted for its type, and stays within the limits.
LEMMA CountFacts ==
    ASSUME NEW spec, FullSpec(spec), NEW job \in Jobs(spec),
           NEW rtype \in Types(spec)
    PROVE  /\ UpdateRestartCount(spec, job, rtype) \in Jobs(spec)
           /\ UpdateRestartCount(spec, job, rtype).phase = job.phase
           /\ UpdateRestartCount(spec, job, rtype).annotations = job.annotations
           /\ \A t \in Types(spec) :
                UpdateRestartCount(spec, job, rtype).counts[t] >= job.counts[t]
           /\ /\ WithinLimit(spec, job)
              /\ MayRestart(spec.replicaSpecs[rtype], job.counts[rtype])
              => WithinLimit(spec, UpdateRestartCount(spec, job, rtype))
<1> DEFINE counted == [t \in Types(spec) |->
                         IF t = rtype \/ spec.replicaSpecs[rtype].restartScope = "All"
                         THEN job.counts[t] + 1 ELSE job.counts[t]]
<1>1. job.counts \in [Types(spec) -> Nat]
  BY DEF Jobs
<1>2. counted \in [Types(spec) -> Nat]
  BY <1>1
<1>3. UpdateRestartCount(spec, job, rtype) = [job EXCEPT !.counts = counted]
  BY <1>1 DEF UpdateRestartCount, Jobs
<1>4. \A t \in Types(spec) : counted[t] >= job.counts[t]
  BY <1>1
<1>5. ASSUME WithinLimit(spec, job),
             MayRestart(spec.replicaSpecs[rtype], job.counts[rtype]),
             NEW t \in Types(spec),
             spec.replicaSpecs[t].restartLimit # NoLimit,
             ~\E r \in Types(spec) \ {t} : spec.replicaSpecs[r].restartScope = "All"
      PROVE  counted[t] <= spec.replicaSpecs[t].restartLimit
  <2>1. spec.replicaSpecs[t].restartLimit \in Nat /\ job.counts[t] \in Nat
    BY <1>1, <1>5 DEF FullSpec
  <2>2. CASE t = rtype
    BY <1>5, <2>1, <2>2 DEF MayRestart
  <2>3. CASE t # rtype
    BY <1>5, <2>1, <2>3 DEF WithinLimit
  <2> QED BY <2>2, <2>3
<1> HIDE DEF counted
<1>6. /\ [job EXCEPT !.counts = counted] \in Jobs(spec)
      /\ [job EXCEPT !.counts = counted].counts = counted
      /\ [job EXCEPT !.counts = counted].phase = job.phase
      /\ [job EXCEPT !.counts = counted].annotations = job.annotations
  BY <1>2 DEF Jobs
<1> QED BY <1>3, <1>4, <1>5, <1>6 DEF WithinLimit

\* A plan a sync may rely on.
GoodPlan(spec, plan) ==
    /\ plan \in Plans(spec)
    /\ HasVerdict(plan.job)
    /\ WithinLimit(spec, plan.job)
    /\ plan.wake = "limit" => plan.job.start \in Nat /\ spec.timeLimit \in Nat

\* A plan inherits what is good from its outcome.
LEMMA GoodOutcomeGivesGoodPlan ==
    ASSUME NEW spec, NEW job, NEW o, GoodOutcome(spec, job, o),
           HasVerdict(job) \/ job.restart # NoReplica, WithinLimit(spec, job),
           NEW creates \in SUBSET Slots(spec), NEW svcCreates \in SUBSET Slots(spec),
           NEW deletes \in SUBSET Slots(spec), NEW force \in BOOLEAN
    PROVE  GoodPlan(spec, Plan(creates, svcCreates, o, deletes, force))
<1> DEFINE plan == Plan(creates, svcCreates, o, deletes, force)
<1>1. /\ plan.job = o.job /\ plan.wake = o.wake
      /\ plan \in Plans(spec)
  BY DEF Plan, Plans, GoodOutcome
<1>2. HasVerdict(o.job) /\ WithinLimit(spec, o.job)
  BY DEF GoodOutcome, WithinLimit
<1> QED BY <1>1, <1>2 DEF GoodPlan, GoodOutcome

\* Every plan of every sync is a good one, if the job it starts from is.
THEOREM PlansAreGood ==
    ASSUME NEW spec, FullSpec(spec), NEW job \in Jobs(spec),
           HasVerdict(job), WithinLimit(spec, job),
           NEW view, DOMAIN view = Slots(spec), NEW svcs, svcs \subseteq Slots(spec),
           NEW ready, NEW now \in Nat, NEW clock,
           NEW plan \in ReconcileTrainingJobs(spec, job, view, svcs, ready, now, clock)
    PROVE  GoodPlan(spec, plan)
<1> DEFINE walk == [t \in Types(spec) |->
                      ReconcilePods(spec, job, view, t, ready, clock)]
           restarting == {t \in Types(spec) : walk[t].phase = "Restarting"}
           creates(visited) == UNION {walk[t].creates : t \in visited}
           svcCreates(visited) ==
               UNION {MissingServices(spec, svcs, t) :
                        t \in {v \in visited : walk[v].phase = NoPhase}}
           restart(rtype) ==
               [SetPhase(UpdateRestartCount(spec, job, rtype), "Terminating")
                  EXCEPT !.restart = rtype]
           restartPlan(visited, rtype) ==
               Plan(creates(visited \union {rtype}), svcCreates(visited),
                    WaitForRestart(spec, restart(rtype), view),
                    walk[rtype].deletes, walk[rtype].force)
<1>1. \A t \in Types(spec) :
         /\ walk[t].creates \subseteq Slots(spec) /\ walk[t].deletes \subseteq Slots(spec)
         /\ walk[t].force \in BOOLEAN
         /\ walk[t].phase = "Restarting" =>
              MayRestart(spec.replicaSpecs[t], job.counts[t])
  <2> TAKE t \in Types(spec)
  <2>1. walk[t] = ReconcilePods(spec, job, view, t, ready, clock)
    OBVIOUS
  <2> HIDE DEF walk
  <2> QED BY <2>1, WalkFacts
<1>2. \/ /\ job.restart # NoReplica
         /\ \E o \in UpdateStatus(spec, job, view, svcs, <<>>, now) :
               plan = Plan({}, {}, o, {}, FALSE)
      \/ /\ restarting = {}
         /\ \E o \in UpdateStatus(spec, job, view, svcs,
                                 [t \in Types(spec) |-> walk[t].phase], now) :
               plan = Plan(creates(Types(spec)), svcCreates(Types(spec)), o, {}, FALSE)
      \/ \E visited \in SUBSET (Types(spec) \ restarting), rtype \in restarting :
            plan = restartPlan(visited, rtype)
  <2> DEFINE waiting == {Plan({}, {}, o, {}, FALSE) :
                           o \in UpdateStatus(spec, job, view, svcs, <<>>, now)}
             calm == {Plan(creates(Types(spec)), svcCreates(Types(spec)), o, {}, FALSE) :
                        o \in UpdateStatus(spec, job, view, svcs,
                                          [t \in Types(spec) |-> walk[t].phase], now)}
             busy == UNION {{restartPlan(visited, rtype) :
                               visited \in SUBSET (Types(spec) \ restarting)} :
                            rtype \in restarting}
  <2>1. ReconcileTrainingJobs(spec, job, view, svcs, ready, now, clock)
          = IF job.restart # NoReplica THEN waiting
            ELSE IF restarting = {} THEN calm ELSE busy
    BY Zenon DEF ReconcileTrainingJobs
  <2> HIDE DEF walk, restarting, creates, svcCreates, restartPlan
  <2>2. CASE plan \in waiting /\ job.restart # NoReplica
    BY <2>2
  <2>3. CASE plan \in calm /\ restarting = {}
    BY <2>3
  <2>4. CASE plan \in busy
    BY <2>4
  <2> HIDE DEF waiting, calm, busy
  <2> QED BY <2>1, <2>2, <2>3, <2>4
<1>3. \A t \in Types(spec) : MissingServices(spec, svcs, t) \subseteq Slots(spec)
  BY DEF MissingServices, Slots
<1> HIDE DEF walk
<1>4. \A visited \in SUBSET Types(spec) :
         creates(visited) \subseteq Slots(spec) /\ svcCreates(visited) \subseteq Slots(spec)
  BY <1>1, <1>3
<1> HIDE DEF creates, svcCreates
<1>5. CASE \E o \in UpdateStatus(spec, job, view, svcs, <<>>, now) :
             plan = Plan({}, {}, o, {}, FALSE)
  BY <1>5, UpdateIsGood, GoodOutcomeGivesGoodPlan
<1>6. CASE \E o \in UpdateStatus(spec, job, view, svcs,
                               [t \in Types(spec) |-> walk[t].phase], now) :
             plan = Plan(creates(Types(spec)), svcCreates(Types(spec)), o, {}, FALSE)
  BY <1>4, <1>6, UpdateIsGood, GoodOutcomeGivesGoodPlan
<1>7. ASSUME NEW visited \in SUBSET (Types(spec) \ restarting), NEW rtype \in restarting
      PROVE  GoodPlan(spec, restartPlan(visited, rtype))
  <2> DEFINE counted == UpdateRestartCount(spec, job, rtype)
             sealed == SetPhase(counted, "Terminating")
             j == restart(rtype)
  <2>1. rtype \in Types(spec) /\ MayRestart(spec.replicaSpecs[rtype], job.counts[rtype])
    BY <1>1
  <2>2. counted \in Jobs(spec) /\ WithinLimit(spec, counted)
    BY <2>1, CountFacts
  <2>3. "Terminating" \in Phases
    BY PhaseFacts
  <2> HIDE DEF counted
  <2>4. sealed \in Jobs(spec) /\ sealed.counts = counted.counts
    BY <2>2, <2>3, SetPhaseFacts
  <2>5. j = [sealed EXCEPT !.restart = rtype]
    BY DEF counted
  <2> HIDE DEF sealed, restart
  <2>6. /\ j \in Jobs(spec) /\ j.counts = counted.counts
        /\ j.restart # NoReplica
    BY <2>1, <2>4, <2>5 DEF Jobs, FullSpec
  <2>7. WithinLimit(spec, j)
    BY <2>2, <2>6 DEF WithinLimit
  <2>8. GoodOutcome(spec, j, WaitForRestart(spec, j, view))
    BY <2>6, WaitIsGood
  <2>9. visited \union {rtype} \in SUBSET Types(spec) /\ visited \in SUBSET Types(spec)
    BY <2>1
  <2> QED BY <1>1, <1>4, <2>1, <2>6, <2>7, <2>8, <2>9, GoodOutcomeGivesGoodPlan
<1> QED BY <1>2, <1>5, <1>6, <1>7

\* A sealed job stays sealed until it ends, whatever updateStatus sees.
LEMMA SealedOutcomes ==
    ASSUME NEW spec, NEW job \in Jobs(spec), Sealed(job), job.annotations # {},
           NEW view, NEW svcs, NEW endings, NEW now,
           NEW o \in UpdateStatus(spec, job, view, svcs, endings, now)
    PROVE  Sealed(o.job) \/ Ended(o.job)
<1> DEFINE observed == ObservePods(spec, job, view, now)
           wake == IF spec.timeLimit # NoLimit /\ observed.start # NotStarted
                   THEN "limit" ELSE "none"
<1>1. /\ job.restart = NoReplica /\ job.phase = "Terminating"
      /\ "Terminating" \notin CompletedPhases /\ "Terminating" \in Phases
      /\ EndingPhases \subseteq Phases /\ {"Succeed", "Failed", "Timeout"} \subseteq EndingPhases
  BY PhaseFacts DEF Sealed, CompletedPhases, EndingPhases
<1>2. \A j \in Jobs(spec), phase \in EndingPhases \union {"Terminating"} :
         j.phase = "Terminating" /\ j.restart = NoReplica =>
           Sealed(SetPhase(j, phase)) \/ Ended(SetPhase(j, phase))
  <2> TAKE j \in Jobs(spec), phase \in EndingPhases \union {"Terminating"}
  <2> HAVE j.phase = "Terminating" /\ j.restart = NoReplica
  <2>1. phase \in Phases
    BY <1>1
  <2>2. /\ SetPhase(j, phase).restart = j.restart
        /\ SetPhase(j, phase).phase = phase \/ j.phase \in CompletedPhases
    BY <2>1, SetPhaseFacts
  <2> QED BY <1>1, <2>2 DEF Sealed, Ended
<1>3. \/ \E v \in PolicyVerdicts(spec, endings) \union {"Timeout"} :
            o = TerminateTrainingJob(spec, job, view, svcs, v)
      \/ o = EndWhenReleased(job, view)
  BY <1>1 DEF UpdateStatus
<1>4. ASSUME NEW v \in EndingPhases, o = TerminateTrainingJob(spec, job, view, svcs, v)
      PROVE  Sealed(o.job) \/ Ended(o.job)
  <2> DEFINE noted == [job EXCEPT !.annotations = @ \union {v}]
  <2>1. noted \in Jobs(spec) /\ noted.phase = job.phase /\ noted.restart = job.restart
    BY DEF Jobs
  <2> HIDE DEF noted
  <2>2. o.job = SetPhase(job, v) \/ o.job = SetPhase(noted, "Terminating")
    BY <1>4, OutcomeFields DEF TerminateTrainingJob, noted
  <2> QED BY <1>1, <1>2, <2>1, <2>2
<1>5. ASSUME o = EndWhenReleased(job, view) PROVE Sealed(o.job) \/ Ended(o.job)
  <2> DEFINE ended == [job EXCEPT !.ended = TRUE]
             final == FirstAnnotation(job)
  <2>1. /\ ended \in Jobs(spec) /\ ended.phase = job.phase
        /\ ended.restart = job.restart
        /\ job.annotations \in SUBSET EndingPhases
    BY DEF Jobs
  <2>2. final \in EndingPhases
    BY <2>1, FirstAnnotationFacts
  <2> HIDE DEF ended, final
  <2>3. o.job = SetPhase(ended, final) \/ o.job = job
    BY <1>5, OutcomeFields DEF EndWhenReleased, ended, final
  <2> QED BY <1>1, <1>2, <2>1, <2>2, <2>3
<1>6. \A v \in PolicyVerdicts(spec, endings) \union {"Timeout"} : v \in EndingPhases
  BY <1>1, PolicyVerdictsAreEndings
<1> QED BY <1>3, <1>4, <1>5, <1>6

\* A sync of a sealed job creates nothing and does not reopen it.
THEOREM SealedPlans ==
    ASSUME NEW spec, NEW job \in Jobs(spec), Sealed(job), HasVerdict(job),
           NEW view, NEW svcs, NEW ready, NEW now, NEW clock,
           NEW plan \in ReconcileTrainingJobs(spec, job, view, svcs, ready, now, clock)
    PROVE  /\ plan.creates = {} /\ plan.svcCreates = {}
           /\ Sealed(plan.job) \/ Ended(plan.job)
<1> DEFINE walk == [t \in Types(spec) |->
                      ReconcilePods(spec, job, view, t, ready, clock)]
           creates == UNION {walk[t].creates : t \in Types(spec)}
           svcCreates == UNION {MissingServices(spec, svcs, t) :
                                  t \in {v \in Types(spec) : walk[v].phase = NoPhase}}
           outcomes == UpdateStatus(spec, job, view, svcs,
                                    [t \in Types(spec) |-> walk[t].phase], now)
<1>1. /\ job.restart = NoReplica /\ job.phase = "Terminating"
      /\ job.annotations # {} /\ NoPhase # "Terminating"
  BY DEF Sealed, HasVerdict, NoPhase
<1>2. \A t \in Types(spec) : walk[t].creates = {} /\ walk[t].phase = "Terminating"
  BY <1>1 DEF ReconcilePods, EarlyEnd
<1>3. {t \in Types(spec) : walk[t].phase = "Restarting"} = {}
  BY <1>2
<1>4. creates = {} /\ svcCreates = {}
  BY <1>1, <1>2
<1>5. ReconcileTrainingJobs(spec, job, view, svcs, ready, now, clock)
        = {Plan(creates, svcCreates, o, {}, FALSE) : o \in outcomes}
  BY <1>1, <1>3, Zenon DEF ReconcileTrainingJobs
<1> HIDE DEF creates, svcCreates, outcomes
<1>6. PICK o \in outcomes : plan = Plan(creates, svcCreates, o, {}, FALSE)
  BY <1>5
<1>7. /\ plan.creates = creates /\ plan.svcCreates = svcCreates /\ plan.job = o.job
  BY <1>6 DEF Plan
<1>8. Sealed(o.job) \/ Ended(o.job)
  BY <1>1, SealedOutcomes DEF outcomes
<1> QED BY <1>4, <1>7, <1>8

\* updateStatus deletes pods only through terminateTrainingJob: those it was given.
LEMMA OutcomesDeleteSeen ==
    ASSUME NEW spec, NEW job, NEW view, NEW svcs, NEW endings, NEW now,
           NEW o \in UpdateStatus(spec, job, view, svcs, endings, now)
    PROVE  o.deletes \subseteq Present(view)
<1> DEFINE observed == ObservePods(spec, job, view, now)
           wake == IF spec.timeLimit # NoLimit /\ observed.start # NotStarted
                   THEN "limit" ELSE "none"
<1>1. WaitForRestart(spec, job, view).deletes = {}
  BY OutcomeFields DEF WaitForRestart
<1>2. EndWhenReleased(job, view).deletes = {}
  BY OutcomeFields DEF EndWhenReleased
<1>3. \A v : TerminateTrainingJob(spec, job, view, svcs, v).deletes \subseteq Present(view)
  BY OutcomeFields DEF TerminateTrainingJob
<1>4. Outcome(observed, {}, {}, wake).deletes = {}
  BY OutcomeFields
<1>5. \/ o = WaitForRestart(spec, job, view) \/ o = EndWhenReleased(job, view)
      \/ \E v : o = TerminateTrainingJob(spec, job, view, svcs, v)
      \/ o = Outcome(observed, {}, {}, wake)
  BY DEF UpdateStatus
<1> QED BY <1>1, <1>2, <1>3, <1>4, <1>5

\* The walk over a type deletes pods only for a restart: those of its scope.
LEMMA WalkDeletesSeen ==
    ASSUME NEW spec, NEW job, NEW view, NEW rtype, NEW ready, NEW clock
    PROVE  ReconcilePods(spec, job, view, rtype, ready, clock).deletes \subseteq Present(view)
<1> DEFINE rs == spec.replicaSpecs[rtype]
           slots == SlotsOf(spec, rtype)
           present == {i \in Indices(spec, rtype) : <<rtype, i>> \in Present(view)}
           verdict == [i \in present |->
                         ReconcileContainers(spec, job, rtype, view[<<rtype, i>>],
                                             ready, clock)]
           restarts == {i \in present : /\ verdict[i].isRestart
                                        /\ MayRestart(rs, job.counts[rtype])}
           ends == {i \in present :
                      EndsWalk(rs, i, view[<<rtype, i>>], verdict[i]) # NoPhase}
           stops == restarts \union ends
           stop == MinOf(stops)
           missing == {s \in slots : s \notin Present(view)}
           failedPhase == IF \E i \in present : verdict[i].phase = "NodeFail"
                          THEN "NodeFail" ELSE "Failed"
           result(creates, phase, deletes, force) ==
               [creates |-> creates, phase |-> phase, deletes |-> deletes,
                force |-> force]
           before == {s \in missing : s[2] < stop}
           forced == verdict[stop].phase = "NodeFail"
           walk == ReconcilePods(spec, job, view, rtype, ready, clock)
<1>1. walk = IF EarlyEnd(job) # NoPhase
             THEN result({}, EarlyEnd(job), {}, FALSE)
             ELSE IF stops = {}
             THEN result(missing, EndsType(rs, view, slots, failedPhase), {}, FALSE)
             ELSE IF stop \in restarts
             THEN result(before, "Restarting",
                         RestartScope(rs, view, slots, <<rtype, stop>>), forced)
             ELSE result(before,
                         EndsWalk(rs, stop, view[<<rtype, stop>>], verdict[stop]),
                         {}, FALSE)
  BY Zenon DEF ReconcilePods
<1>2. stop \in restarts => <<rtype, stop>> \in Present(view)
  OBVIOUS
<1> HIDE DEF walk, stop, restarts, slots, missing, failedPhase, before, stops, verdict,
             rs, present, forced
<1>3. \/ walk.deletes = {}
      \/ /\ stop \in restarts
         /\ walk.deletes = RestartScope(rs, view, slots, <<rtype, stop>>)
  BY <1>1
<1> QED BY <1>2, <1>3 DEF RestartScope, walk

\* A sync deletes no pod but those its view showed it.
THEOREM DeletionsAreSeen ==
    ASSUME NEW spec, NEW job, NEW view, NEW svcs, NEW ready, NEW now, NEW clock,
           NEW plan \in ReconcileTrainingJobs(spec, job, view, svcs, ready, now, clock)
    PROVE  plan.deletes \subseteq Present(view)
<1> DEFINE walk == [t \in Types(spec) |->
                      ReconcilePods(spec, job, view, t, ready, clock)]
           restarting == {t \in Types(spec) : walk[t].phase = "Restarting"}
           restart(rtype) ==
               [SetPhase(UpdateRestartCount(spec, job, rtype), "Terminating")
                  EXCEPT !.restart = rtype]
<1>1. \A t \in Types(spec) : walk[t].deletes \subseteq Present(view)
  BY WalkDeletesSeen
<1>2. \A j : WaitForRestart(spec, j, view).deletes = {}
  BY OutcomeFields DEF WaitForRestart
<1>3. \A c, s, o, d, f : Plan(c, s, o, d, f).deletes = d \union o.deletes
  BY DEF Plan
<1>4. \/ \E c, s, endings : \E o \in UpdateStatus(spec, job, view, svcs, endings, now) :
            plan = Plan(c, s, o, {}, FALSE)
      \/ \E c, s, j, f : \E t \in Types(spec) :
            plan = Plan(c, s, WaitForRestart(spec, j, view), walk[t].deletes, f)
  <2> DEFINE creates(visited) == UNION {walk[t].creates : t \in visited}
             svcCreates(visited) ==
                 UNION {MissingServices(spec, svcs, t) :
                          t \in {v \in visited : walk[v].phase = NoPhase}}
             restartPlan(visited, rtype) ==
                 Plan(creates(visited \union {rtype}), svcCreates(visited),
                      WaitForRestart(spec, restart(rtype), view),
                      walk[rtype].deletes, walk[rtype].force)
             waiting == {Plan({}, {}, o, {}, FALSE) :
                           o \in UpdateStatus(spec, job, view, svcs, <<>>, now)}
             calm == {Plan(creates(Types(spec)), svcCreates(Types(spec)), o, {}, FALSE) :
                        o \in UpdateStatus(spec, job, view, svcs,
                                          [t \in Types(spec) |-> walk[t].phase], now)}
             busy == UNION {{restartPlan(visited, rtype) :
                               visited \in SUBSET (Types(spec) \ restarting)} :
                            rtype \in restarting}
  <2>1. ReconcileTrainingJobs(spec, job, view, svcs, ready, now, clock)
          = IF job.restart # NoReplica THEN waiting
            ELSE IF restarting = {} THEN calm ELSE busy
    BY Zenon DEF ReconcileTrainingJobs
  <2>2. plan \in waiting \/ plan \in calm \/ plan \in busy
    BY <2>1, Zenon
  <2> HIDE DEF walk, creates, svcCreates, restart
  <2>3. CASE plan \in waiting
    BY <2>3, Zenon
  <2>4. CASE plan \in calm
    BY <2>4, Zenon
  <2>5. CASE plan \in busy
    <3>1. PICK rtype \in restarting, visited \in SUBSET (Types(spec) \ restarting) :
             plan = restartPlan(visited, rtype)
      BY <2>5
    <3> QED BY <3>1, Zenon
  <2> QED BY <2>2, <2>3, <2>4, <2>5
<1> HIDE DEF walk
<1>5. CASE \E c, s, endings : \E o \in UpdateStatus(spec, job, view, svcs, endings, now) :
              plan = Plan(c, s, o, {}, FALSE)
  <2>1. PICK c, s, endings :
           \E o \in UpdateStatus(spec, job, view, svcs, endings, now) :
              plan = Plan(c, s, o, {}, FALSE)
    BY <1>5, Zenon
  <2>2. PICK o \in UpdateStatus(spec, job, view, svcs, endings, now) :
           plan = Plan(c, s, o, {}, FALSE)
    BY <2>1
  <2>3. o.deletes \subseteq Present(view)
    BY <2>2, OutcomesDeleteSeen
  <2>4. plan.deletes = {} \union o.deletes
    BY <2>2 DEF Plan
  <2> QED BY <2>3, <2>4
<1>6. CASE \E c, s, j, f : \E t \in Types(spec) :
              plan = Plan(c, s, WaitForRestart(spec, j, view), walk[t].deletes, f)
  BY <1>1, <1>2, <1>3, <1>6
<1> QED BY <1>4, <1>5, <1>6

(***************************************************************************)
(* How a sync may end a job.                                               *)
(***************************************************************************)

\* A final phase was noted as an annotation, or is a success or a failure whose
\* pods are kept.
EndsRightly(j) == Ended(j) => j.phase \in j.annotations \union {"Succeed", "Failed"}

\* A job that has not ended gets the phase it is given.
LEMMA SetPhaseSets ==
    ASSUME NEW spec, NEW job \in Jobs(spec), ~Ended(job), NEW phase \in Phases
    PROVE  /\ SetPhase(job, phase) \in Jobs(spec)
           /\ SetPhase(job, phase).phase = phase
           /\ SetPhase(job, phase).counts = job.counts
           /\ SetPhase(job, phase).annotations = job.annotations
<1>1. job.phase \notin CompletedPhases
  BY DEF Ended, CompletedPhases, EndingPhases
<1> QED BY <1>1, SetPhaseFacts

\* A job of the right type that has not ended.
StaysOpen(spec, j) == j \in Jobs(spec) /\ ~Ended(j)

\* No phase of a job that goes on ends it.
LEMMA SetPhaseStaysOpen ==
    ASSUME NEW spec, NEW j, StaysOpen(spec, j), NEW phase \in ReconciledPhases
    PROVE  StaysOpen(spec, SetPhase(j, phase))
<1>1. phase \in Phases /\ phase \notin EndingPhases
  BY PhaseFacts
<1> QED BY <1>1, SetPhaseSets DEF StaysOpen, Ended

\* SetPhase leaves all else of a job as it is, but for the note of its creation.
LEMMA SetPhaseKeeps ==
    ASSUME NEW spec, NEW job \in Jobs(spec), NEW phase
    PROVE  /\ SetPhase(job, phase).restart = job.restart
           /\ SetPhase(job, phase).counts = job.counts
           /\ SetPhase(job, phase).ended = job.ended
           /\ SetPhase(job, phase).annotations = job.annotations
BY DEF SetPhase, Jobs

\* The open job j differs from the job only in its phase and its start.
StillOpen(spec, job, j) ==
    /\ StaysOpen(spec, j)
    /\ j.restart = job.restart /\ j.counts = job.counts
    /\ j.ended = job.ended /\ j.annotations = job.annotations

\* A phase of a job that goes on keeps it as it is.
LEMMA SetPhaseStillOpen ==
    ASSUME NEW spec, NEW job, NEW j, StillOpen(spec, job, j),
           NEW phase \in ReconciledPhases
    PROVE  StillOpen(spec, job, SetPhase(j, phase))
BY SetPhaseStaysOpen, SetPhaseKeeps DEF StillOpen, StaysOpen

\* What is read off the pods does not end a job, nor touch its restarts and
\* annotations.
LEMMA ObserveStaysOpen ==
    ASSUME NEW spec, NEW job, StaysOpen(spec, job), NEW view, NEW now \in Nat
    PROVE  StillOpen(spec, job, ObservePods(spec, job, view, now))
<1> DEFINE restarting(s) == IsPendingPod(view[s]) /\ job.counts[s[1]] > 0
           scheduled(s) == /\ IsPendingPod(view[s])
                           /\ job.counts[s[1]] = 0
                           /\ view[s].node # NoNode
           isScheduled == \A s \in Slots(spec) :
                              /\ s \in Present(view)
                              /\ \/ restarting(s) \/ scheduled(s)
                                 \/ ~IsPendingPod(view[s])
           isCreating == \E s \in Present(view) : scheduled(s)
           isRestarting == \E s \in Present(view) : restarting(s)
           isRunning == \A s \in Slots(spec) :
                            s \in Present(view) /\ view[s].state = "Running"
           started == [job EXCEPT !.start = IF @ = NotStarted THEN now ELSE @]
           running == IF isRunning /\ job.phase # "Running"
                      THEN SetPhase(started, "Running") ELSE job
           creating == IF isCreating /\ isScheduled /\ running.phase # "Restarting"
                       THEN SetPhase(running, "Creating") ELSE running
           restarted == IF isRestarting /\ creating.phase # "Restarting"
                        THEN SetPhase(creating, "Restarting") ELSE creating
           result == IF ~isScheduled /\ ~isRestarting /\ restarted.phase # "Restarting"
                     THEN SetPhase(restarted, "Pending") ELSE restarted
<1>1. ObservePods(spec, job, view, now) = result
  BY DEF ObservePods
<1>2. {"Running", "Creating", "Restarting", "Pending"} \subseteq ReconciledPhases
  BY PhaseFacts
<1>3. StillOpen(spec, job, job) /\ StillOpen(spec, job, started)
  BY DEF StillOpen, StaysOpen, Jobs, Ended
<1> HIDE DEF isScheduled, isCreating, isRestarting, isRunning, started
<1>4. StillOpen(spec, job, running)
  BY <1>2, <1>3, SetPhaseStillOpen
<1> HIDE DEF running
<1>5. StillOpen(spec, job, creating)
  BY <1>2, <1>4, SetPhaseStillOpen
<1> HIDE DEF creating
<1>6. StillOpen(spec, job, restarted)
  BY <1>2, <1>5, SetPhaseStillOpen
<1> HIDE DEF restarted
<1>7. StillOpen(spec, job, result)
  BY <1>2, <1>6, SetPhaseStillOpen
<1> QED BY <1>1, <1>7

\* terminateTrainingJob ends only jobs whose pods are kept.
LEMMA TerminateEndsRightly ==
    ASSUME NEW spec, NEW job, StaysOpen(spec, job), NEW view, NEW svcs,
           NEW phase \in EndingPhases
    PROVE  EndsRightly(TerminateTrainingJob(spec, job, view, svcs, phase).job)
<1> DEFINE noted == [job EXCEPT !.annotations = @ \union {phase}]
<1>1. StaysOpen(spec, noted)
  BY DEF StaysOpen, Jobs, Ended
<1> HIDE DEF noted
<1>2. phase \in Phases /\ "Terminating" \in ReconciledPhases
  BY PhaseFacts
<1>3. \/ /\ phase \in {"Succeed", "Failed"}
         /\ TerminateTrainingJob(spec, job, view, svcs, phase).job = SetPhase(job, phase)
      \/ TerminateTrainingJob(spec, job, view, svcs, phase).job
           = SetPhase(noted, "Terminating")
  BY OutcomeFields DEF TerminateTrainingJob, noted
<1>4. SetPhase(job, phase).phase = phase
  BY <1>2, SetPhaseSets DEF StaysOpen
<1>5. ~Ended(SetPhase(noted, "Terminating"))
  BY <1>1, <1>2, SetPhaseStaysOpen DEF StaysOpen
<1> QED BY <1>3, <1>4, <1>5 DEF EndsRightly

\* A restart that waits does not end a job.
LEMMA WaitStaysOpen ==
    ASSUME NEW spec, NEW job, StaysOpen(spec, job), NEW view
    PROVE  ~Ended(WaitForRestart(spec, job, view).job)
<1> DEFINE s == SetPhase(job, "Restarting")
           over == [s EXCEPT !.restart = NoReplica]
<1>1. "Restarting" \in ReconciledPhases
  BY PhaseFacts
<1>2. StaysOpen(spec, s)
  BY <1>1, SetPhaseStaysOpen
<1> HIDE DEF s
<1>3. over.phase = s.phase
  BY <1>2 DEF StaysOpen, Jobs
<1>4. WaitForRestart(spec, job, view).job = over \/ WaitForRestart(spec, job, view).job = job
  BY OutcomeFields DEF WaitForRestart, s
<1> HIDE DEF over
<1> QED BY <1>2, <1>3, <1>4 DEF StaysOpen, Ended

\* An annotated job ends with one of its annotations, which it keeps.
LEMMA ReleaseEndsRightly ==
    ASSUME NEW spec, NEW job, StaysOpen(spec, job), job.annotations # {}, NEW view
    PROVE  LET j == EndWhenReleased(job, view).job
           IN  /\ j.counts = job.counts
               /\ Ended(j) => j.phase \in j.annotations
<1> DEFINE ended == [job EXCEPT !.ended = TRUE]
           final == FirstAnnotation(job)
           j == EndWhenReleased(job, view).job
<1>1. /\ StaysOpen(spec, ended) /\ ended.counts = job.counts
      /\ ended.annotations = job.annotations
  BY DEF StaysOpen, Jobs, Ended
<1>2. final \in job.annotations /\ final \in Phases
  <2>1. job.annotations \in SUBSET EndingPhases
    BY DEF StaysOpen, Jobs
  <2> QED BY <2>1, FirstAnnotationFacts, PhaseFacts
<1>3. j = SetPhase(ended, final) \/ j = job
  BY OutcomeFields DEF EndWhenReleased
<1> HIDE DEF ended, final, j
<1>4. /\ SetPhase(ended, final).phase = final
      /\ SetPhase(ended, final).counts = job.counts
      /\ SetPhase(ended, final).annotations = job.annotations
  BY <1>1, <1>2, SetPhaseSets DEF StaysOpen
<1>5. j.counts = job.counts /\ (Ended(j) => j.phase \in j.annotations)
  BY <1>2, <1>3, <1>4 DEF StaysOpen
<1> QED BY <1>5 DEF j

\* Every outcome of updateStatus ends a job rightly, if it ends it.
LEMMA OutcomesEndRightly ==
    ASSUME NEW spec, NEW job, StaysOpen(spec, job), NEW view, NEW svcs,
           NEW endings, NEW now \in Nat,
           NEW o \in UpdateStatus(spec, job, view, svcs, endings, now)
    PROVE  EndsRightly(o.job)
<1> DEFINE observed == ObservePods(spec, job, view, now)
           wake == IF spec.timeLimit # NoLimit /\ observed.start # NotStarted
                   THEN "limit" ELSE "none"
<1>1. "Timeout" \in EndingPhases
  BY DEF EndingPhases
<1>2. \/ o = WaitForRestart(spec, job, view)
      \/ \E v \in PolicyVerdicts(spec, endings) \union {"Timeout"} :
            o = TerminateTrainingJob(spec, job, view, svcs, v)
      \/ job.annotations # {} /\ o = EndWhenReleased(job, view)
      \/ o = Outcome(observed, {}, {}, wake)
  BY DEF UpdateStatus
<1>3. CASE o = WaitForRestart(spec, job, view)
  BY <1>3, WaitStaysOpen DEF EndsRightly
<1>4. CASE \E v \in PolicyVerdicts(spec, endings) \union {"Timeout"} :
              o = TerminateTrainingJob(spec, job, view, svcs, v)
  BY <1>1, <1>4, PolicyVerdictsAreEndings, TerminateEndsRightly
<1>5. CASE job.annotations # {} /\ o = EndWhenReleased(job, view)
  BY <1>5, ReleaseEndsRightly DEF EndsRightly
<1>6. CASE o = Outcome(observed, {}, {}, wake)
  BY <1>6, ObserveStaysOpen, OutcomeFields DEF StillOpen, StaysOpen, EndsRightly
<1> QED BY <1>2, <1>3, <1>4, <1>5, <1>6

\* A job whose restart of a type has just been counted.
CountedRestart(spec, job, t) ==
    [SetPhase(UpdateRestartCount(spec, job, t), "Terminating") EXCEPT !.restart = t]

\* The job of a plan is an outcome of updateStatus, or waits for a restart that
\* has been counted.
LEMMA PlannedJobs ==
    ASSUME NEW spec, NEW job, NEW view, NEW svcs, NEW ready, NEW now, NEW clock,
           NEW plan \in ReconcileTrainingJobs(spec, job, view, svcs, ready, now, clock)
    PROVE  \/ \E endings : \E o \in UpdateStatus(spec, job, view, svcs, endings, now) :
                 plan.job = o.job
           \/ \E t \in Types(spec) :
                 plan.job = WaitForRestart(spec, CountedRestart(spec, job, t), view).job
<1> DEFINE walk == [t \in Types(spec) |->
                      ReconcilePods(spec, job, view, t, ready, clock)]
           restarting == {t \in Types(spec) : walk[t].phase = "Restarting"}
           creates(visited) == UNION {walk[t].creates : t \in visited}
           svcCreates(visited) ==
               UNION {MissingServices(spec, svcs, t) :
                        t \in {v \in visited : walk[v].phase = NoPhase}}
           restart(rtype) ==
               [SetPhase(UpdateRestartCount(spec, job, rtype), "Terminating")
                  EXCEPT !.restart = rtype]
           restartPlan(visited, rtype) ==
               Plan(creates(visited \union {rtype}), svcCreates(visited),
                    WaitForRestart(spec, restart(rtype), view),
                    walk[rtype].deletes, walk[rtype].force)
           waiting == {Plan({}, {}, o, {}, FALSE) :
                         o \in UpdateStatus(spec, job, view, svcs, <<>>, now)}
           endings == [t \in Types(spec) |-> walk[t].phase]
           calm == {Plan(creates(Types(spec)), svcCreates(Types(spec)), o, {}, FALSE) :
                      o \in UpdateStatus(spec, job, view, svcs, endings, now)}
           busy == UNION {{restartPlan(visited, rtype) :
                             visited \in SUBSET (Types(spec) \ restarting)} :
                          rtype \in restarting}
<1>1. \A c, s, o, d, f : Plan(c, s, o, d, f).job = o.job
  BY DEF Plan
<1>2. ReconcileTrainingJobs(spec, job, view, svcs, ready, now, clock)
        = IF job.restart # NoReplica THEN waiting
          ELSE IF restarting = {} THEN calm ELSE busy
  BY Zenon DEF ReconcileTrainingJobs
<1>3. plan \in waiting \/ plan \in calm \/ plan \in busy
  BY <1>2, Zenon
<1> HIDE DEF walk, creates, svcCreates, endings
<1>4. CASE plan \in waiting
  <2>1. PICK o \in UpdateStatus(spec, job, view, svcs, <<>>, now) :
           plan = Plan({}, {}, o, {}, FALSE)
    BY <1>4
  <2>2. plan.job = o.job
    BY <2>1 DEF Plan
  <2> QED BY <2>2
<1>5. CASE plan \in calm
  <2>1. PICK o \in UpdateStatus(spec, job, view, svcs, endings, now) :
           plan = Plan(creates(Types(spec)), svcCreates(Types(spec)), o, {}, FALSE)
    BY <1>5
  <2>2. plan.job = o.job
    BY <2>1 DEF Plan
  <2> QED BY <2>2
<1>6. CASE plan \in busy
  <2>1. PICK t \in restarting, visited \in SUBSET (Types(spec) \ restarting) :
           plan = restartPlan(visited, t)
    BY <1>6
  <2> HIDE DEF restart
  <2>2. plan.job = WaitForRestart(spec, restart(t), view).job
    BY <1>1, <2>1
  <2>3. restart(t) = CountedRestart(spec, job, t)
    BY DEF restart, CountedRestart
  <2> QED BY <2>2, <2>3
<1> QED BY <1>3, <1>4, <1>5, <1>6

\* A sync takes no count of restarts back, and ends a job rightly.
THEOREM PlansMoveOn ==
    ASSUME NEW spec, FullSpec(spec), NEW job, StaysOpen(spec, job),
           NEW view, DOMAIN view = Slots(spec), NEW svcs, svcs \subseteq Slots(spec),
           NEW ready, NEW now \in Nat, NEW clock,
           NEW plan \in ReconcileTrainingJobs(spec, job, view, svcs, ready, now, clock)
    PROVE  /\ \A t \in Types(spec) : plan.job.counts[t] >= job.counts[t]
           /\ EndsRightly(plan.job)
<1>1. job \in Jobs(spec) /\ job.counts \in [Types(spec) -> Nat]
  BY DEF StaysOpen, Jobs
<1>2. ASSUME NEW endings, NEW o \in UpdateStatus(spec, job, view, svcs, endings, now),
             plan.job = o.job
      PROVE  (\A t \in Types(spec) : plan.job.counts[t] >= job.counts[t])
               /\ EndsRightly(plan.job)
  <2>1. o.job.counts = job.counts
    BY <1>1, UpdateIsGood DEF GoodOutcome
  <2> QED BY <1>1, <1>2, <2>1, OutcomesEndRightly
<1>3. ASSUME NEW r \in Types(spec),
             plan.job = WaitForRestart(spec, CountedRestart(spec, job, r), view).job
      PROVE  (\A t \in Types(spec) : plan.job.counts[t] >= job.counts[t])
               /\ EndsRightly(plan.job)
  <2> DEFINE counted == UpdateRestartCount(spec, job, r)
             sealed == SetPhase(counted, "Terminating")
             j == [sealed EXCEPT !.restart = r]
  <2>1. /\ counted \in Jobs(spec) /\ counted.phase = job.phase
        /\ \A t \in Types(spec) : counted.counts[t] >= job.counts[t]
    BY <1>1, CountFacts
  <2>2. "Terminating" \in ReconciledPhases /\ "Terminating" \in Phases
    BY PhaseFacts
  <2>3. StaysOpen(spec, counted)
    BY <2>1 DEF StaysOpen, Ended
  <2> HIDE DEF counted
  <2>4. StaysOpen(spec, sealed) /\ sealed.counts = counted.counts
    BY <2>2, <2>3, SetPhaseSets, SetPhaseStaysOpen DEF StaysOpen
  <2>5. plan.job = WaitForRestart(spec, j, view).job
    BY <1>3 DEF counted, CountedRestart
  <2> HIDE DEF sealed
  <2>6. StaysOpen(spec, j) /\ j.counts = counted.counts /\ j.restart = r
    BY <2>4 DEF StaysOpen, Jobs, Ended
  <2> HIDE DEF j
  <2>7. ~Ended(plan.job)
    BY <2>5, <2>6, WaitStaysOpen
  <2>8. j \in Jobs(spec) /\ j.restart # NoReplica
    BY <2>6 DEF StaysOpen, FullSpec
  <2>9. GoodOutcome(spec, j, WaitForRestart(spec, j, view))
    BY <2>8, WaitIsGood
  <2>10. WaitForRestart(spec, j, view).job.counts = j.counts
    BY <2>9 DEF GoodOutcome
  <2>11. plan.job.counts = counted.counts
    BY <2>5, <2>6, <2>10
  <2> QED BY <2>1, <2>7, <2>11 DEF EndsRightly
<1>4. \/ \E endings : \E o \in UpdateStatus(spec, job, view, svcs, endings, now) :
            plan.job = o.job
      \/ \E t \in Types(spec) :
            plan.job = WaitForRestart(spec, CountedRestart(spec, job, t), view).job
  BY PlannedJobs
<1>5. CASE \E endings : \E o \in UpdateStatus(spec, job, view, svcs, endings, now) :
              plan.job = o.job
  BY <1>2, <1>5
<1>6. CASE \E t \in Types(spec) :
              plan.job = WaitForRestart(spec, CountedRestart(spec, job, t), view).job
  <2>1. PICK t \in Types(spec) : plan.job = WaitForRestart(spec, CountedRestart(spec, job, t), view).job
    BY <1>6
  <2> QED BY <1>3, <2>1
<1> QED BY <1>4, <1>5, <1>6

\* The sync of a sealed job counts no restart, and ends it with an annotation.
THEOREM SealedPlansRelease ==
    ASSUME NEW spec, Types(spec) # {}, NEW job \in Jobs(spec), Sealed(job), HasVerdict(job),
           NEW view, NEW svcs, NEW ready, NEW now, NEW clock,
           NEW plan \in ReconcileTrainingJobs(spec, job, view, svcs, ready, now, clock)
    PROVE  /\ plan.job.counts = job.counts
           /\ Ended(plan.job) => plan.job.phase \in plan.job.annotations
<1> DEFINE walk == [t \in Types(spec) |->
                      ReconcilePods(spec, job, view, t, ready, clock)]
           creates == UNION {walk[t].creates : t \in Types(spec)}
           svcCreates == UNION {MissingServices(spec, svcs, t) :
                                  t \in {v \in Types(spec) : walk[v].phase = NoPhase}}
           endings == [t \in Types(spec) |-> walk[t].phase]
<1>1. /\ job.restart = NoReplica /\ job.phase = "Terminating"
      /\ job.annotations # {} /\ ~Ended(job)
  BY DEF Sealed, HasVerdict, Ended, EndingPhases
<1>2. \A t \in Types(spec) : walk[t].phase = "Terminating"
  BY <1>1 DEF ReconcilePods, EarlyEnd, NoPhase
<1>3. {t \in Types(spec) : walk[t].phase = "Restarting"} = {}
  BY <1>2
<1>4. ReconcileTrainingJobs(spec, job, view, svcs, ready, now, clock)
        = {Plan(creates, svcCreates, o, {}, FALSE) :
             o \in UpdateStatus(spec, job, view, svcs, endings, now)}
  BY <1>1, <1>3, Zenon DEF ReconcileTrainingJobs
<1>5. DOMAIN endings = Types(spec) /\ \A t \in Types(spec) : endings[t] = "Terminating"
  BY <1>2
<1> HIDE DEF walk, creates, svcCreates, endings
<1>6. PICK o \in UpdateStatus(spec, job, view, svcs, endings, now) :
         plan = Plan(creates, svcCreates, o, {}, FALSE)
  BY <1>4
<1>7. plan.job = o.job
  BY <1>6 DEF Plan
<1>8. PolicyVerdicts(spec, endings) = {}
  <2> DEFINE failed == {t \in DOMAIN endings : IsFailedPhase(endings[t])}
             succeeded == {t \in DOMAIN endings : endings[t] = "Succeed"}
  <2>1. ~IsFailedPhase("Terminating")
    BY DEF IsFailedPhase, EndingPhases
  <2>2. failed = {} /\ succeeded = {}
    BY <1>5, <2>1
  <2>3. PolicyVerdicts(spec, endings)
          = IF (spec.completePolicy = "Any" /\ succeeded # {})
                 \/ (spec.completePolicy = "All" /\ succeeded = Types(spec))
            THEN {"Succeed"}
            ELSE IF (spec.failPolicy = "Any" /\ failed # {})
                      \/ (spec.failPolicy = "All" /\ failed = Types(spec))
            THEN {endings[t] : t \in failed}
            ELSE {}
    BY Zenon DEF PolicyVerdicts
  <2> HIDE DEF failed, succeeded
  <2> QED BY <2>2, <2>3
<1>9. o = EndWhenReleased(job, view)
  BY <1>1, <1>6, <1>8 DEF UpdateStatus
<1> QED BY <1>1, <1>7, <1>9, ReleaseEndsRightly DEF StaysOpen

(***************************************************************************)
(* What a sync makes of the pods its view shows: what it creates, when it  *)
(* takes a job for a success, and when for one that is released.           *)
(***************************************************************************)

\* reconcilePods for every type of a job.
Walk(spec, job, view, ready, clock) ==
    [t \in Types(spec) |-> ReconcilePods(spec, job, view, t, ready, clock)]

\* How the walk over a type goes: not at all, to the end, to a pod that
\* restarts the job, or to one that ends it.
LEMMA WalkCases ==
    ASSUME NEW spec, FullSpec(spec), NEW job, NEW view, NEW rtype \in Types(spec),
           NEW ready, NEW clock
    PROVE  LET walk == ReconcilePods(spec, job, view, rtype, ready, clock)
               rs == spec.replicaSpecs[rtype]
               slots == SlotsOf(spec, rtype)
           IN  \/ /\ EarlyEnd(job) # NoPhase
                  /\ walk.creates = {} /\ walk.phase = EarlyEnd(job)
               \/ /\ EarlyEnd(job) = NoPhase
                  /\ walk.creates = slots \ Present(view)
                  /\ \E failed \in {"NodeFail", "Failed"} :
                        walk.phase = EndsType(rs, view, slots, failed)
               \/ /\ EarlyEnd(job) = NoPhase
                  /\ walk.creates \subseteq slots \ Present(view)
                  /\ \E i \in Indices(spec, rtype) :
                        /\ <<rtype, i>> \in Present(view)
                        /\ \/ walk.phase = "Restarting"
                           \/ walk.phase =
                                EndsWalk(rs, i, view[<<rtype, i>>],
                                   ReconcileContainers(spec, job, rtype,
                                      view[<<rtype, i>>], ready, clock))
<1> DEFINE rs == spec.replicaSpecs[rtype]
           slots == SlotsOf(spec, rtype)
           present == {i \in Indices(spec, rtype) : <<rtype, i>> \in Present(view)}
           verdict == [i \in present |->
                         ReconcileContainers(spec, job, rtype, view[<<rtype, i>>],
                                             ready, clock)]
           restarts == {i \in present : /\ verdict[i].isRestart
                                        /\ MayRestart(rs, job.counts[rtype])}
           ends == {i \in present :
                      EndsWalk(rs, i, view[<<rtype, i>>], verdict[i]) # NoPhase}
           stops == restarts \union ends
           stop == MinOf(stops)
           missing == {s \in slots : s \notin Present(view)}
           failedPhase == IF \E i \in present : verdict[i].phase = "NodeFail"
                          THEN "NodeFail" ELSE "Failed"
           result(creates, phase, deletes, force) ==
               [creates |-> creates, phase |-> phase, deletes |-> deletes,
                force |-> force]
           before == {s \in missing : s[2] < stop}
           forced == verdict[stop].phase = "NodeFail"
           walk == ReconcilePods(spec, job, view, rtype, ready, clock)
<1>1. walk = IF EarlyEnd(job) # NoPhase
             THEN result({}, EarlyEnd(job), {}, FALSE)
             ELSE IF stops = {}
             THEN result(missing, EndsType(rs, view, slots, failedPhase), {}, FALSE)
             ELSE IF stop \in restarts
             THEN result(before, "Restarting",
                         RestartScope(rs, view, slots, <<rtype, stop>>), forced)
             ELSE result(before,
                         EndsWalk(rs, stop, view[<<rtype, stop>>], verdict[stop]),
                         {}, FALSE)
  BY Zenon DEF ReconcilePods
<1>2. Indices(spec, rtype) \subseteq Nat
  BY DEF Indices, FullSpec
<1>3. stops # {} => stop \in present
  <2>1. stops \in SUBSET Nat /\ stops \subseteq present
    BY <1>2
  <2> HIDE DEF stops
  <2> QED BY <2>1, LeastNatural
<1>4. \A i \in present :
         verdict[i] = ReconcileContainers(spec, job, rtype, view[<<rtype, i>>],
                                          ready, clock)
  OBVIOUS
<1>5. \A i \in present : i \in Indices(spec, rtype) /\ <<rtype, i>> \in Present(view)
  OBVIOUS
<1>6. missing = slots \ Present(view) /\ before \subseteq missing
  OBVIOUS
<1>7. failedPhase \in {"NodeFail", "Failed"}
  OBVIOUS
<1> HIDE DEF stop, restarts, slots, missing, failedPhase, before, stops, verdict,
             rs, present, forced, walk
<1>8. CASE EarlyEnd(job) # NoPhase
  BY <1>1, <1>8 DEF walk
<1>9. CASE EarlyEnd(job) = NoPhase /\ stops = {}
  BY <1>1, <1>6, <1>7, <1>9 DEF rs, slots, walk
<1>10. CASE EarlyEnd(job) = NoPhase /\ stops # {}
  <2>1. stop \in present
    BY <1>3, <1>10
  <2>2. \/ walk.phase = "Restarting"
        \/ walk.phase = EndsWalk(rs, stop, view[<<rtype, stop>>], verdict[stop])
    BY <1>1, <1>10
  <2>3. walk.creates = before
    BY <1>1, <1>10
  <2> QED BY <1>4, <1>5, <1>6, <1>10, <2>1, <2>2, <2>3 DEF rs, slots, walk
<1> QED BY <1>8, <1>9, <1>10

\* A sync waits for a restart, decides on a walk over all types, or restarts one.
LEMMA PlanCases ==
    ASSUME NEW spec, NEW job, NEW view, NEW svcs, NEW ready, NEW now, NEW clock,
           NEW plan \in ReconcileTrainingJobs(spec, job, view, svcs, ready, now, clock)
    PROVE  LET walk == Walk(spec, job, view, ready, clock) IN
           \/ /\ job.restart # NoReplica
              /\ plan.creates = {} /\ plan.svcCreates = {}
              /\ plan.job = WaitForRestart(spec, job, view).job
           \/ /\ job.restart = NoReplica
              /\ plan.creates = UNION {walk[t].creates : t \in Types(spec)}
              /\ \E o \in UpdateStatus(spec, job, view, svcs,
                                       [t \in Types(spec) |-> walk[t].phase], now) :
                    plan.job = o.job
           \/ /\ job.restart = NoReplica
              /\ plan.creates \subseteq UNION {walk[t].creates : t \in Types(spec)}
              /\ \E t \in Types(spec) :
                    /\ walk[t].phase = "Restarting"
                    /\ plan.job = WaitForRestart(spec, CountedRestart(spec, job, t), view).job
<1> DEFINE walk == [t \in Types(spec) |->
                      ReconcilePods(spec, job, view, t, ready, clock)]
           restarting == {t \in Types(spec) : walk[t].phase = "Restarting"}
           creates(visited) == UNION {walk[t].creates : t \in visited}
           svcCreates(visited) ==
               UNION {MissingServices(spec, svcs, t) :
                        t \in {v \in visited : walk[v].phase = NoPhase}}
           restart(rtype) ==
               [SetPhase(UpdateRestartCount(spec, job, rtype), "Terminating")
                  EXCEPT !.restart = rtype]
           restartPlan(visited, rtype) ==
               Plan(creates(visited \union {rtype}), svcCreates(visited),
                    WaitForRestart(spec, restart(rtype), view),
                    walk[rtype].deletes, walk[rtype].force)
           waiting == {Plan({}, {}, o, {}, FALSE) :
                         o \in UpdateStatus(spec, job, view, svcs, <<>>, now)}
           endings == [t \in Types(spec) |-> walk[t].phase]
           calm == {Plan(creates(Types(spec)), svcCreates(Types(spec)), o, {}, FALSE) :
                      o \in UpdateStatus(spec, job, view, svcs, endings, now)}
           busy == UNION {{restartPlan(visited, rtype) :
                             visited \in SUBSET (Types(spec) \ restarting)} :
                          rtype \in restarting}
<1>1. walk = Walk(spec, job, view, ready, clock)
  BY DEF Walk
<1>2. ReconcileTrainingJobs(spec, job, view, svcs, ready, now, clock)
        = IF job.restart # NoReplica THEN waiting
          ELSE IF restarting = {} THEN calm ELSE busy
  BY Zenon DEF ReconcileTrainingJobs
<1> HIDE DEF walk, svcCreates, endings
<1>3. CASE plan \in waiting /\ job.restart # NoReplica
  <2>1. PICK o \in UpdateStatus(spec, job, view, svcs, <<>>, now) :
           plan = Plan({}, {}, o, {}, FALSE)
    BY <1>3
  <2>2. o = WaitForRestart(spec, job, view)
    BY <1>3, <2>1 DEF UpdateStatus
  <2>3. plan.job = o.job /\ plan.creates = {} /\ plan.svcCreates = {}
    BY <2>1 DEF Plan
  <2> QED BY <1>1, <1>3, <2>2, <2>3
<1>4. CASE plan \in calm /\ job.restart = NoReplica
  <2>1. PICK o \in UpdateStatus(spec, job, view, svcs, endings, now) :
           plan = Plan(creates(Types(spec)), svcCreates(Types(spec)), o, {}, FALSE)
    BY <1>4
  <2> HIDE DEF creates
  <2>2. plan.job = o.job /\ plan.creates = creates(Types(spec))
    BY <2>1 DEF Plan
  <2> QED BY <1>1, <1>4, <2>1, <2>2 DEF creates, endings
<1>5. CASE plan \in busy /\ job.restart = NoReplica
  <2>1. PICK t \in restarting, visited \in SUBSET (Types(spec) \ restarting) :
           plan = restartPlan(visited, t)
    BY <1>5
  <2>2. restart(t) = CountedRestart(spec, job, t)
    BY DEF restart, CountedRestart
  <2> HIDE DEF restart, creates
  <2>3. /\ plan.job = WaitForRestart(spec, restart(t), view).job
        /\ plan.creates = creates(visited \union {t})
    BY <2>1 DEF Plan
  <2>4. visited \union {t} \subseteq Types(spec)
    OBVIOUS
  <2>5. plan.creates \subseteq UNION {walk[r].creates : r \in Types(spec)}
    BY <2>3, <2>4 DEF creates
  <2> QED BY <1>1, <1>5, <2>2, <2>3, <2>5
<1> HIDE DEF waiting, calm, busy
<1> QED BY <1>2, <1>3, <1>4, <1>5

\* The walk over a type creates pods that its view does not show, and none of a
\* job that is stopped.
LEMMA WalkCreates ==
    ASSUME NEW spec, FullSpec(spec), NEW job, NEW view, NEW rtype \in Types(spec),
           NEW ready, NEW clock
    PROVE  LET walk == ReconcilePods(spec, job, view, rtype, ready, clock)
           IN  /\ walk.creates \subseteq SlotsOf(spec, rtype) \ Present(view)
               /\ EarlyEnd(job) # NoPhase => walk.creates = {}
<1> DEFINE walk == ReconcilePods(spec, job, view, rtype, ready, clock)
<1>1. \/ EarlyEnd(job) # NoPhase /\ walk.creates = {}
      \/ /\ EarlyEnd(job) = NoPhase
         /\ walk.creates \subseteq SlotsOf(spec, rtype) \ Present(view)
  <2>1. \/ EarlyEnd(job) # NoPhase /\ walk.creates = {}
        \/ /\ EarlyEnd(job) = NoPhase
           /\ walk.creates = SlotsOf(spec, rtype) \ Present(view)
        \/ /\ EarlyEnd(job) = NoPhase
           /\ walk.creates \subseteq SlotsOf(spec, rtype) \ Present(view)
    BY WalkCases, Zenon
  <2> QED BY <2>1
<1> HIDE DEF walk
<1> QED BY <1>1 DEF walk

\* A sync creates only pods that its view does not show.
THEOREM CreationsAreMissing ==
    ASSUME NEW spec, FullSpec(spec), NEW job, NEW view, NEW svcs, NEW ready, NEW now,
           NEW clock,
           NEW plan \in ReconcileTrainingJobs(spec, job, view, svcs, ready, now, clock)
    PROVE  plan.creates \intersect Present(view) = {}
<1> DEFINE walk == Walk(spec, job, view, ready, clock)
<1>1. \A t \in Types(spec) : walk[t].creates \intersect Present(view) = {}
  <2> TAKE t \in Types(spec)
  <2>1. walk[t] = ReconcilePods(spec, job, view, t, ready, clock)
    BY DEF Walk
  <2> HIDE DEF walk
  <2> QED BY <2>1, WalkCreates
<1> HIDE DEF walk
<1>2. plan.creates \subseteq UNION {walk[t].creates : t \in Types(spec)}
  BY PlanCases DEF walk
<1> QED BY <1>1, <1>2

\* A job that is Terminating, preempted or failed gets no pod.
LEMMA StoppedCreatesNothing ==
    ASSUME NEW spec, FullSpec(spec), NEW job, NEW view, NEW svcs, NEW ready, NEW now,
           NEW clock,
           NEW plan \in ReconcileTrainingJobs(spec, job, view, svcs, ready, now, clock),
           EarlyEnd(job) # NoPhase
    PROVE  plan.creates = {}
<1> DEFINE walk == Walk(spec, job, view, ready, clock)
<1>1. \A t \in Types(spec) : walk[t].creates = {}
  <2> TAKE t \in Types(spec)
  <2>1. walk[t] = ReconcilePods(spec, job, view, t, ready, clock)
    BY DEF Walk
  <2> HIDE DEF walk
  <2> QED BY <2>1, WalkCreates
<1> HIDE DEF walk
<1>2. plan.creates \subseteq UNION {walk[t].creates : t \in Types(spec)}
  BY PlanCases DEF walk
<1> QED BY <1>1, <1>2

\* A job is a success once its phase or an annotation says so.
NamesSuccess(j) == j.phase = "Succeed" \/ "Succeed" \in j.annotations

\* What updateStatus may make of an open job, given the verdicts of its types: it
\* takes it for a success, annotates it, takes it for released and declares a
\* restart over only for a reason.
Justified(spec, job, view, verdicts, j) ==
    /\ NamesSuccess(j) => NamesSuccess(job) \/ "Succeed" \in verdicts
    /\ Sealed(j) \/ Ended(j) \/ j.annotations = job.annotations
    /\ j.ended =>
         job.ended \/ (Ended(j) /\ Present(view) = {} /\ job.annotations # {})
    /\ j.restart = job.restart
         \/ (j.restart = NoReplica /\ RestartIsOver(spec, job, view))

\* A job that waits for a restart.
LEMMA WaitIsJustified ==
    ASSUME NEW spec, NEW job, StaysOpen(spec, job), NEW view, NEW verdicts
    PROVE  Justified(spec, job, view, verdicts, WaitForRestart(spec, job, view).job)
<1> DEFINE s == SetPhase(job, "Restarting")
           over == [s EXCEPT !.restart = NoReplica]
           j == WaitForRestart(spec, job, view).job
<1>1. "Restarting" \in ReconciledPhases /\ "Restarting" \in Phases
  BY PhaseFacts
<1>2. /\ s \in Jobs(spec) /\ s.phase = "Restarting" /\ s.ended = job.ended
      /\ s.annotations = job.annotations
  BY <1>1, SetPhaseSets, SetPhaseKeeps DEF StaysOpen
<1> HIDE DEF s
<1>3. /\ over.phase = s.phase /\ over.ended = s.ended /\ over.restart = NoReplica
      /\ over.annotations = s.annotations
  BY <1>2 DEF Jobs
<1>4. (j = over /\ RestartIsOver(spec, job, view)) \/ j = job
  BY OutcomeFields DEF WaitForRestart, s
<1> HIDE DEF over, j
<1>5. Justified(spec, job, view, verdicts, j)
  BY <1>2, <1>3, <1>4 DEF Justified, NamesSuccess
<1> QED BY <1>5 DEF j

\* A job that gets a verdict.
LEMMA TerminateIsJustified ==
    ASSUME NEW spec, NEW job, StaysOpen(spec, job), job.restart = NoReplica,
           NEW view, NEW svcs, NEW phase \in EndingPhases, NEW verdicts,
           phase = "Succeed" => "Succeed" \in verdicts
    PROVE  Justified(spec, job, view, verdicts,
                     TerminateTrainingJob(spec, job, view, svcs, phase).job)
<1> DEFINE noted == [job EXCEPT !.annotations = @ \union {phase}]
           sealed == SetPhase(noted, "Terminating")
           done == SetPhase(job, phase)
           j == TerminateTrainingJob(spec, job, view, svcs, phase).job
<1>1. /\ StaysOpen(spec, noted) /\ noted.ended = job.ended
      /\ noted.restart = NoReplica /\ noted.annotations = job.annotations \union {phase}
  BY DEF StaysOpen, Jobs, Ended
<1> HIDE DEF noted
<1>2. phase \in Phases /\ "Terminating" \in Phases
  BY PhaseFacts
<1>3. /\ sealed.phase = "Terminating" /\ sealed.restart = NoReplica
      /\ sealed.ended = job.ended /\ sealed.annotations = job.annotations \union {phase}
  BY <1>1, <1>2, SetPhaseSets, SetPhaseKeeps DEF StaysOpen
<1>4. /\ done.phase = phase /\ done.restart = job.restart
      /\ done.ended = job.ended /\ done.annotations = job.annotations
  BY <1>2, SetPhaseSets, SetPhaseKeeps DEF StaysOpen
<1>5. j = sealed \/ j = done
  BY OutcomeFields DEF TerminateTrainingJob, noted
<1> HIDE DEF sealed, done, j
<1>6. Justified(spec, job, view, verdicts, j)
  BY <1>3, <1>4, <1>5 DEF Justified, NamesSuccess, Sealed
<1> QED BY <1>6 DEF j

\* An annotated job that is released, or waits.
LEMMA EndIsJustified ==
    ASSUME NEW spec, NEW job, StaysOpen(spec, job), job.annotations # {},
           NEW view, NEW verdicts
    PROVE  Justified(spec, job, view, verdicts, EndWhenReleased(job, view).job)
<1> DEFINE ended == [job EXCEPT !.ended = TRUE]
           final == FirstAnnotation(job)
           done == SetPhase(ended, final)
           j == EndWhenReleased(job, view).job
<1>1. /\ StaysOpen(spec, ended) /\ ended.restart = job.restart
      /\ ended.annotations = job.annotations
  BY DEF StaysOpen, Jobs, Ended
<1>2. final \in job.annotations /\ final \in Phases /\ final \in EndingPhases
  <2>1. job.annotations \in SUBSET EndingPhases
    BY DEF StaysOpen, Jobs
  <2> QED BY <2>1, FirstAnnotationFacts, PhaseFacts
<1>3. (j = done /\ Present(view) = {}) \/ j = job
  BY OutcomeFields DEF EndWhenReleased
<1> HIDE DEF ended, final
<1>4. /\ done.phase = final /\ done.restart = job.restart
      /\ done.annotations = job.annotations
  BY <1>1, <1>2, SetPhaseSets, SetPhaseKeeps DEF StaysOpen
<1> HIDE DEF done, j
<1>5. Justified(spec, job, view, verdicts, j)
  BY <1>2, <1>3, <1>4 DEF Justified, NamesSuccess, Ended
<1> QED BY <1>5 DEF j

\* Every outcome of updateStatus for an open job has its reason.
LEMMA OutcomesAreJustified ==
    ASSUME NEW spec, NEW job, StaysOpen(spec, job), NEW view, NEW svcs,
           NEW endings, NEW now \in Nat,
           NEW o \in UpdateStatus(spec, job, view, svcs, endings, now)
    PROVE  Justified(spec, job, view,
                     IF job.restart = NoReplica THEN PolicyVerdicts(spec, endings) ELSE {},
                     o.job)
<1> DEFINE observed == ObservePods(spec, job, view, now)
           wake == IF spec.timeLimit # NoLimit /\ observed.start # NotStarted
                   THEN "limit" ELSE "none"
           verdicts == IF job.restart = NoReplica THEN PolicyVerdicts(spec, endings)
                       ELSE {}
<1>1. "Timeout" \in EndingPhases
  BY DEF EndingPhases
<1>2. \/ o = WaitForRestart(spec, job, view)
      \/ /\ job.restart = NoReplica
         /\ \/ \E v \in PolicyVerdicts(spec, endings) \union {"Timeout"} :
                  o = TerminateTrainingJob(spec, job, view, svcs, v)
            \/ job.annotations # {} /\ o = EndWhenReleased(job, view)
            \/ o = Outcome(observed, {}, {}, wake)
  BY DEF UpdateStatus
<1>3. CASE o = WaitForRestart(spec, job, view)
  BY <1>3, WaitIsJustified
<1>4. ASSUME job.restart = NoReplica,
             NEW v \in PolicyVerdicts(spec, endings) \union {"Timeout"},
             o = TerminateTrainingJob(spec, job, view, svcs, v)
      PROVE  Justified(spec, job, view, verdicts, o.job)
  <2>1. v \in EndingPhases /\ (v = "Succeed" => "Succeed" \in verdicts)
    BY <1>1, <1>4, PolicyVerdictsAreEndings
  <2> HIDE DEF verdicts
  <2> QED BY <1>4, <2>1, TerminateIsJustified
<1>5. CASE job.annotations # {} /\ o = EndWhenReleased(job, view)
  BY <1>5, EndIsJustified
<1>6. CASE o = Outcome(observed, {}, {}, wake)
  <2>1. StillOpen(spec, job, observed) /\ o.job = observed
    BY <1>6, ObserveStaysOpen, OutcomeFields
  <2>2. observed.phase # "Succeed"
    BY <2>1 DEF StillOpen, StaysOpen, Ended, EndingPhases
  <2> HIDE DEF observed, verdicts
  <2>3. Justified(spec, job, view, verdicts, o.job)
    BY <2>1, <2>2 DEF StillOpen, Justified, NamesSuccess
  <2> QED BY <2>3 DEF verdicts
<1> QED BY <1>2, <1>3, <1>4, <1>5, <1>6

\* A job whose restart has just been counted is open, and waits for that restart.
LEMMA CountedIsOpen ==
    ASSUME NEW spec, FullSpec(spec), NEW job, StaysOpen(spec, job), NEW t \in Types(spec)
    PROVE  LET j == CountedRestart(spec, job, t)
           IN  /\ StaysOpen(spec, j) /\ j.restart = t
               /\ j.counts = UpdateRestartCount(spec, job, t).counts
               /\ j.ended = job.ended /\ j.annotations = job.annotations
               /\ j.phase = "Terminating"
<1> DEFINE counted == UpdateRestartCount(spec, job, t)
           sealed == SetPhase(counted, "Terminating")
           j == [sealed EXCEPT !.restart = t]
<1>1. /\ StaysOpen(spec, counted) /\ counted.ended = job.ended
      /\ counted.annotations = job.annotations
  <2>1. counted \in Jobs(spec) /\ counted.phase = job.phase
    BY CountFacts DEF StaysOpen
  <2>2. counted.ended = job.ended /\ counted.annotations = job.annotations
    BY DEF UpdateRestartCount, StaysOpen, Jobs
  <2> QED BY <2>1, <2>2 DEF StaysOpen, Ended
<1> HIDE DEF counted
<1>2. "Terminating" \in Phases /\ "Terminating" \in ReconciledPhases
  BY PhaseFacts
<1>3. /\ StaysOpen(spec, sealed) /\ sealed.phase = "Terminating"
      /\ sealed.counts = counted.counts /\ sealed.ended = job.ended
      /\ sealed.annotations = job.annotations
  BY <1>1, <1>2, SetPhaseSets, SetPhaseStaysOpen, SetPhaseKeeps DEF StaysOpen
<1> HIDE DEF sealed
<1>4. /\ StaysOpen(spec, j) /\ j.restart = t /\ j.counts = counted.counts
      /\ j.ended = job.ended /\ j.annotations = job.annotations
      /\ j.phase = "Terminating"
  BY <1>3 DEF StaysOpen, Jobs, Ended
<1>5. j = CountedRestart(spec, job, t)
  BY DEF CountedRestart, counted, sealed
<1> HIDE DEF j
<1> QED BY <1>4, <1>5 DEF counted

\* A sync of an open job names a success, adds annotations or sets the end time
\* only for a reason.
THEOREM PlansAreJustified ==
    ASSUME NEW spec, FullSpec(spec), NEW job, StaysOpen(spec, job), NEW view, NEW svcs,
           NEW ready, NEW now \in Nat, NEW clock,
           NEW plan \in ReconcileTrainingJobs(spec, job, view, svcs, ready, now, clock)
    PROVE  LET walk == Walk(spec, job, view, ready, clock) IN
           /\ NamesSuccess(plan.job) =>
                \/ NamesSuccess(job)
                \/ /\ plan.creates = UNION {walk[t].creates : t \in Types(spec)}
                   /\ "Succeed" \in PolicyVerdicts(spec,
                                      [t \in Types(spec) |-> walk[t].phase])
           /\ Sealed(plan.job) \/ Ended(plan.job)
                \/ plan.job.annotations = job.annotations
           /\ plan.job.ended =>
                \/ job.ended
                \/ Ended(plan.job) /\ Present(view) = {} /\ job.annotations # {}
<1> DEFINE walk == Walk(spec, job, view, ready, clock)
           endings == [t \in Types(spec) |-> walk[t].phase]
           creates == UNION {walk[t].creates : t \in Types(spec)}
<1>1. \/ plan.job = WaitForRestart(spec, job, view).job
      \/ /\ job.restart = NoReplica /\ plan.creates = creates
         /\ \E o \in UpdateStatus(spec, job, view, svcs, endings, now) : plan.job = o.job
      \/ \E t \in Types(spec) :
            plan.job = WaitForRestart(spec, CountedRestart(spec, job, t), view).job
  BY PlanCases
<1> HIDE DEF walk, endings, creates
<1>2. CASE plan.job = WaitForRestart(spec, job, view).job
  <2>1. Justified(spec, job, view, {}, plan.job)
    BY <1>2, WaitIsJustified
  <2> QED BY <2>1 DEF Justified, walk, endings, creates
<1>3. CASE /\ job.restart = NoReplica /\ plan.creates = creates
           /\ \E o \in UpdateStatus(spec, job, view, svcs, endings, now) : plan.job = o.job
  <2>1. Justified(spec, job, view, PolicyVerdicts(spec, endings), plan.job)
    BY <1>3, OutcomesAreJustified
  <2> QED BY <1>3, <2>1 DEF Justified, walk, endings, creates
<1>4. ASSUME NEW t \in Types(spec),
             plan.job = WaitForRestart(spec, CountedRestart(spec, job, t), view).job
      PROVE  /\ NamesSuccess(plan.job) => NamesSuccess(job)
             /\ Sealed(plan.job) \/ Ended(plan.job)
                  \/ plan.job.annotations = job.annotations
             /\ plan.job.ended =>
                  \/ job.ended
                  \/ Ended(plan.job) /\ Present(view) = {} /\ job.annotations # {}
  <2> DEFINE j == CountedRestart(spec, job, t)
  <2>1. /\ StaysOpen(spec, j) /\ j.ended = job.ended
        /\ j.annotations = job.annotations /\ j.phase = "Terminating"
    BY CountedIsOpen
  <2> HIDE DEF j
  <2>2. Justified(spec, j, view, {}, plan.job)
    BY <1>4, <2>1, WaitIsJustified DEF j
  <2> QED BY <2>1, <2>2 DEF Justified, NamesSuccess
<1> QED BY <1>1, <1>2, <1>3, <1>4 DEF walk, endings, creates

\* A type succeeds with one of its pods, or with all of them.
LEMMA WalkSucceeds ==
    ASSUME NEW spec, FullSpec(spec), NEW job, NEW view, NEW rtype \in Types(spec),
           NEW ready, NEW clock,
           ReconcilePods(spec, job, view, rtype, ready, clock).phase = "Succeed"
    PROVE  LET rs == spec.replicaSpecs[rtype]
               slots == SlotsOf(spec, rtype)
           IN  \/ /\ rs.completePolicy # "All"
                  /\ \E s \in slots : s \in Present(view) /\ view[s].state = "Succeeded"
               \/ /\ \A s \in slots : s \in Present(view) /\ view[s].state = "Succeeded"
                  /\ ReconcilePods(spec, job, view, rtype, ready, clock).creates = {}
<1> DEFINE rs == spec.replicaSpecs[rtype]
           slots == SlotsOf(spec, rtype)
           walk == ReconcilePods(spec, job, view, rtype, ready, clock)
           verdict(i) == ReconcileContainers(spec, job, rtype, view[<<rtype, i>>],
                                             ready, clock)
<1>1. EarlyEnd(job) # "Succeed"
  BY DEF EarlyEnd, NoPhase
<1>2. \/ walk.phase = EarlyEnd(job)
      \/ /\ walk.creates = slots \ Present(view)
         /\ \E failed \in {"NodeFail", "Failed"} :
               walk.phase = EndsType(rs, view, slots, failed)
      \/ \E i \in Indices(spec, rtype) :
            /\ <<rtype, i>> \in Present(view)
            /\ \/ walk.phase = "Restarting"
               \/ walk.phase = EndsWalk(rs, i, view[<<rtype, i>>], verdict(i))
  BY WalkCases
<1>3. walk.phase = "Succeed"
  OBVIOUS
<1>4. \A i : verdict(i).phase = "Succeed" => view[<<rtype, i>>].state = "Succeeded"
  <2> TAKE i
  <2> DEFINE pod == view[<<rtype, i>>]
             retried == pod.state = "ImageError" /\ job.creating = "current"
             isRestart == retried /\ clock.young /\ clock.stuck
             other == CASE pod.state = "ImageError" -> "Creating"
                        [] pod.state = "Succeeded" -> "Succeed"
                        [] OTHER -> NoPhase
  <2>1. \/ verdict(i).phase \in {"Failed", "NodeFail"} \/ verdict(i).phase = other
    BY DEF ReconcileContainers
  <2> HIDE DEF verdict
  <2> QED BY <2>1 DEF NoPhase
<1> HIDE DEF walk, verdict
<1>5. CASE /\ walk.creates = slots \ Present(view)
           /\ \E failed \in {"NodeFail", "Failed"} :
                 walk.phase = EndsType(rs, view, slots, failed)
  <2>1. \A s \in slots : s \in Present(view) /\ view[s].state = "Succeeded"
    BY <1>3, <1>5 DEF EndsType, NoPhase
  <2> QED BY <1>5, <2>1 DEF walk
<1>6. CASE \E i \in Indices(spec, rtype) :
              /\ <<rtype, i>> \in Present(view)
              /\ \/ walk.phase = "Restarting"
                 \/ walk.phase = EndsWalk(rs, i, view[<<rtype, i>>], verdict(i))
  <2>1. PICK i \in Indices(spec, rtype) :
           /\ <<rtype, i>> \in Present(view)
           /\ walk.phase = EndsWalk(rs, i, view[<<rtype, i>>], verdict(i))
    BY <1>3, <1>6
  <2>2. verdict(i).phase = "Succeed" /\ rs.completePolicy \in {"Any", "Rank0"}
    BY <1>3, <2>1 DEF EndsWalk, NoPhase
  <2>3. <<rtype, i>> \in slots
    BY DEF SlotsOf
  <2> QED BY <1>4, <2>1, <2>2, <2>3
<1> QED BY <1>1, <1>2, <1>3, <1>5, <1>6

\* What the complete policy of the job asks for when it names a success.
LEMMA SuccessVerdicts ==
    ASSUME NEW spec, NEW endings, DOMAIN endings = Types(spec),
           "Succeed" \in PolicyVerdicts(spec, endings)
    PROVE  \/ spec.completePolicy = "Any" /\ \E t \in Types(spec) : endings[t] = "Succeed"
           \/ spec.completePolicy = "All" /\ \A t \in Types(spec) : endings[t] = "Succeed"
<1> DEFINE failed == {t \in DOMAIN endings : IsFailedPhase(endings[t])}
           succeeded == {t \in DOMAIN endings : endings[t] = "Succeed"}
<1>1. ~IsFailedPhase("Succeed")
  BY DEF IsFailedPhase
<1>2. PolicyVerdicts(spec, endings)
        = IF (spec.completePolicy = "Any" /\ succeeded # {})
               \/ (spec.completePolicy = "All" /\ succeeded = Types(spec))
          THEN {"Succeed"}
          ELSE IF (spec.failPolicy = "Any" /\ failed # {})
                    \/ (spec.failPolicy = "All" /\ failed = Types(spec))
          THEN {endings[t] : t \in failed}
          ELSE {}
  BY Zenon DEF PolicyVerdicts
<1>3. "Succeed" \notin {endings[t] : t \in failed}
  BY <1>1
<1> HIDE DEF failed
<1>4. \/ spec.completePolicy = "Any" /\ succeeded # {}
      \/ spec.completePolicy = "All" /\ succeeded = Types(spec)
  <2> HIDE DEF succeeded
  <2> QED BY <1>2, <1>3
<1> QED BY <1>4

\* The pods of every slot have succeeded.
AllSucceeded(spec, view) ==
    \A s \in Slots(spec) : s \in Present(view) /\ view[s].state = "Succeeded"

\* Job and types complete only when all of theirs have.
CompletesWithAll(spec) ==
    /\ spec.completePolicy = "All"
    /\ \A t \in Types(spec) : spec.replicaSpecs[t].completePolicy = "All"

\* With every complete policy All, a sync that takes a job for a success sees all
\* its pods succeeded, and makes none.
THEOREM SuccessIsSeen ==
    ASSUME NEW spec, FullSpec(spec), CompletesWithAll(spec),
           NEW job, StaysOpen(spec, job), ~NamesSuccess(job), NEW view, NEW svcs,
           NEW ready, NEW now \in Nat, NEW clock,
           NEW plan \in ReconcileTrainingJobs(spec, job, view, svcs, ready, now, clock),
           NamesSuccess(plan.job)
    PROVE  AllSucceeded(spec, view) /\ plan.creates = {}
<1> DEFINE walk == Walk(spec, job, view, ready, clock)
           endings == [t \in Types(spec) |-> walk[t].phase]
<1>1. /\ plan.creates = UNION {walk[t].creates : t \in Types(spec)}
      /\ "Succeed" \in PolicyVerdicts(spec, endings)
  BY PlansAreJustified
<1>2. \A t \in Types(spec) :
         /\ endings[t] = walk[t].phase
         /\ walk[t] = ReconcilePods(spec, job, view, t, ready, clock)
  BY DEF Walk
<1>3. DOMAIN endings = Types(spec)
  OBVIOUS
<1> HIDE DEF walk, endings
<1>4. \A t \in Types(spec) : endings[t] = "Succeed"
  BY <1>1, <1>3, SuccessVerdicts DEF CompletesWithAll
<1>5. ASSUME NEW t \in Types(spec)
      PROVE  /\ \A s \in SlotsOf(spec, t) :
                   s \in Present(view) /\ view[s].state = "Succeeded"
             /\ walk[t].creates = {}
  <2>1. ReconcilePods(spec, job, view, t, ready, clock).phase = "Succeed"
    BY <1>2, <1>4
  <2>2. spec.replicaSpecs[t].completePolicy = "All"
    BY DEF CompletesWithAll
  <2>3. /\ \A s \in SlotsOf(spec, t) :
              s \in Present(view) /\ view[s].state = "Succeeded"
        /\ ReconcilePods(spec, job, view, t, ready, clock).creates = {}
    BY <2>1, <2>2, WalkSucceeds
  <2> QED BY <1>2, <2>3
<1> QED BY <1>1, <1>5 DEF AllSucceeded, Slots

\* Whatever the policies, a sync that takes a job for a success sees a pod of it
\* that has succeeded.
THEOREM SuccessHasAPod ==
    ASSUME NEW spec, FullSpec(spec), Types(spec) # {},
           \A t \in Types(spec) : spec.replicaSpecs[t].replicas > 0,
           NEW job, StaysOpen(spec, job), ~NamesSuccess(job), NEW view, NEW svcs,
           NEW ready, NEW now \in Nat, NEW clock,
           NEW plan \in ReconcileTrainingJobs(spec, job, view, svcs, ready, now, clock),
           NamesSuccess(plan.job)
    PROVE  \E s \in Present(view) : view[s].state = "Succeeded"
<1> DEFINE walk == Walk(spec, job, view, ready, clock)
           endings == [t \in Types(spec) |-> walk[t].phase]
<1>1. "Succeed" \in PolicyVerdicts(spec, endings)
  BY PlansAreJustified
<1>2. \A t \in Types(spec) :
         endings[t] = ReconcilePods(spec, job, view, t, ready, clock).phase
  BY DEF Walk
<1>3. DOMAIN endings = Types(spec)
  OBVIOUS
<1> HIDE DEF walk, endings
<1>4. PICK t \in Types(spec) : endings[t] = "Succeed"
  BY <1>1, <1>3, SuccessVerdicts
<1>5. \/ \E s \in SlotsOf(spec, t) : s \in Present(view) /\ view[s].state = "Succeeded"
      \/ \A s \in SlotsOf(spec, t) : s \in Present(view) /\ view[s].state = "Succeeded"
  <2>1. ReconcilePods(spec, job, view, t, ready, clock).phase = "Succeed"
    BY <1>2, <1>4
  <2>2. \/ /\ spec.replicaSpecs[t].completePolicy # "All"
           /\ \E s \in SlotsOf(spec, t) :
                 s \in Present(view) /\ view[s].state = "Succeeded"
        \/ /\ \A s \in SlotsOf(spec, t) :
                 s \in Present(view) /\ view[s].state = "Succeeded"
           /\ ReconcilePods(spec, job, view, t, ready, clock).creates = {}
    BY <2>1, WalkSucceeds
  <2> QED BY <2>2
<1>6. <<t, 0>> \in SlotsOf(spec, t)
  <2>1. 0 \in 0 .. spec.replicaSpecs[t].replicas - 1
    BY DEF FullSpec
  <2> QED BY <2>1 DEF SlotsOf, Indices
<1> QED BY <1>5, <1>6

\* Every restart of the job is one of all its pods.
RestartsTogether(spec) ==
    \A t \in Types(spec) : spec.replicaSpecs[t].restartScope = "All"

\* One restart more, for every type.
CountedByAll(spec, job) == [t \in Types(spec) |-> job.counts[t] + 1]

\* With every restart scope All a sync leaves restart and counts alone, declares a
\* restart over when it sees no pod, or restarts the job and counts it for every
\* type.  While the job waits for a restart nothing is made.
THEOREM RestartIsForAll ==
    ASSUME NEW spec, FullSpec(spec), RestartsTogether(spec),
           NEW job, StaysOpen(spec, job), NEW view, NEW svcs,
           NEW ready, NEW now \in Nat, NEW clock,
           DOMAIN view = Slots(spec), svcs \subseteq Slots(spec),
           NEW plan \in ReconcileTrainingJobs(spec, job, view, svcs, ready, now, clock)
    PROVE  /\ job.restart # NoReplica => plan.creates = {} /\ plan.svcCreates = {}
           /\ \/ plan.job.counts = job.counts /\ plan.job.restart = job.restart
              \/ /\ plan.job.counts = job.counts /\ plan.job.restart = NoReplica
                 /\ job.restart # NoReplica /\ Present(view) = {}
              \/ /\ plan.job.counts = CountedByAll(spec, job)
                 /\ plan.job.restart # NoReplica
<1> DEFINE walk == Walk(spec, job, view, ready, clock)
           endings == [t \in Types(spec) |-> walk[t].phase]
<1>1. job \in Jobs(spec) /\ job.counts \in [Types(spec) -> Nat]
  BY DEF StaysOpen, Jobs
<1>2. \/ /\ job.restart # NoReplica
         /\ plan.creates = {} /\ plan.svcCreates = {}
         /\ plan.job = WaitForRestart(spec, job, view).job
      \/ /\ job.restart = NoReplica
         /\ \E o \in UpdateStatus(spec, job, view, svcs, endings, now) : plan.job = o.job
      \/ /\ job.restart = NoReplica
         /\ \E t \in Types(spec) :
               /\ walk[t].phase = "Restarting"
               /\ plan.job = WaitForRestart(spec, CountedRestart(spec, job, t), view).job
  BY PlanCases
<1> HIDE DEF walk, endings
<1>3. \A j : j.restart \in Types(spec) /\ RestartIsOver(spec, j, view) => Present(view) = {}
  BY DEF RestartIsOver, RestartsTogether
<1>4. CASE /\ job.restart # NoReplica
           /\ plan.creates = {} /\ plan.svcCreates = {}
           /\ plan.job = WaitForRestart(spec, job, view).job
  <2>1. Justified(spec, job, view, {}, plan.job)
    BY <1>4, WaitIsJustified
  <2>2. plan.job.counts = job.counts
    BY <1>1, <1>4, WaitIsGood DEF GoodOutcome
  <2>3. job.restart \in Types(spec)
    BY <1>1, <1>4 DEF Jobs
  <2> QED BY <1>3, <1>4, <2>1, <2>2, <2>3 DEF Justified
<1>5. CASE /\ job.restart = NoReplica
           /\ \E o \in UpdateStatus(spec, job, view, svcs, endings, now) : plan.job = o.job
  <2>1. PICK o \in UpdateStatus(spec, job, view, svcs, endings, now) : plan.job = o.job
    BY <1>5
  <2>2. Justified(spec, job, view, PolicyVerdicts(spec, endings), plan.job)
    BY <1>5, <2>1, OutcomesAreJustified
  <2>3. plan.job.counts = job.counts
    BY <1>1, <2>1, UpdateIsGood DEF GoodOutcome
  <2> QED BY <1>5, <2>2, <2>3 DEF Justified
<1>6. ASSUME job.restart = NoReplica, NEW t \in Types(spec),
             walk[t].phase = "Restarting",
             plan.job = WaitForRestart(spec, CountedRestart(spec, job, t), view).job
      PROVE  /\ plan.job.counts = CountedByAll(spec, job)
             /\ plan.job.restart # NoReplica
  <2> DEFINE j == CountedRestart(spec, job, t)
  <2>1. /\ StaysOpen(spec, j) /\ j.restart = t
        /\ j.counts = UpdateRestartCount(spec, job, t).counts
    BY CountedIsOpen
  <2>2. UpdateRestartCount(spec, job, t).counts = CountedByAll(spec, job)
    BY <1>1 DEF CountedByAll, UpdateRestartCount, RestartsTogether, Jobs
  <2> HIDE DEF j
  <2>3. Present(view) # {}
    <3>1. ReconcilePods(spec, job, view, t, ready, clock).phase = "Restarting"
      BY <1>6 DEF walk, Walk
    <3>2. \A rs, slots, failed : EndsType(rs, view, slots, failed) # "Restarting"
             \/ failed \notin {"NodeFail", "Failed"}
      BY DEF EndsType, NoPhase
    <3>3. EarlyEnd(job) # "Restarting"
      BY DEF EarlyEnd, NoPhase
    <3> DEFINE w == ReconcilePods(spec, job, view, t, ready, clock)
    <3>4. \/ w.phase = EarlyEnd(job)
          \/ \E failed \in {"NodeFail", "Failed"} :
                w.phase = EndsType(spec.replicaSpecs[t], view, SlotsOf(spec, t), failed)
          \/ \E i \in Indices(spec, t) : <<t, i>> \in Present(view)
      BY WalkCases
    <3> QED BY <3>1, <3>2, <3>3, <3>4
  <2>4. Justified(spec, j, view, {}, plan.job)
    BY <1>6, <2>1, WaitIsJustified DEF j
  <2>5. NoReplica \notin Types(spec) /\ j \in Jobs(spec)
    BY <2>1 DEF FullSpec, StaysOpen
  <2>6. plan.job.restart = t
    BY <1>3, <2>1, <2>3, <2>4 DEF Justified
  <2>7. plan.job.counts = j.counts
    BY <1>6, <2>1, <2>5, WaitIsGood DEF GoodOutcome, j
  <2> QED BY <2>1, <2>2, <2>5, <2>6, <2>7
<1> QED BY <1>2, <1>4, <1>5, <1>6
==============================================================================
