---------------------------- MODULE LifecycleProofs ----------------------------
(***************************************************************************)
(* The stored job of TrainingJobController behaves as JobLifecycle says,   *)
(* for every specification, every number of nodes, faults and tries.       *)
(*                                                                         *)
(* What a sync stores may be several steps older than what it replaces, so *)
(* each copy of the job, in the cache and in the plan of a sync, is shown  *)
(* to be a later stage of the stored one at every moment, and not only     *)
(* when it is stored.                                                      *)
(***************************************************************************)
EXTENDS TrainingJobControllerProofs

\* The copy k of the job j is a later stage of it: it has counted no fewer
\* restarts, none after a verdict, and if it ends the job it does so as it may.
Later(s, j, k) ==
    /\ \A t \in Types(s) : k.counts[t] >= j.counts[t]
    /\ Decided(j) => k.counts = j.counts
    /\ EndsRightly(k)
    /\ Sealed(j) /\ Ended(k) => k.phase \in k.annotations

Lineage == /\ Later(spec, job, job)
           /\ Later(spec, job, cache)
           /\ worker.pc # "idle" => Later(spec, job, worker.plan.job)

\* A job that ends rightly, if at all, is the first of its later stages.
LEMMA LaterThanItself ==
    ASSUME NEW s, NEW j \in Jobs(s), EndsRightly(j)
    PROVE  Later(s, j, j)
<1>1. j.counts \in [Types(s) -> Nat]
  BY DEF Jobs
<1>2. ~(Sealed(j) /\ Ended(j))
  BY DEF Sealed, Ended, EndingPhases
<1> QED BY <1>1, <1>2 DEF Later

\* Annotations are no matter of later or earlier.
LEMMA LaterThanAnnotated ==
    ASSUME NEW s, NEW j, NEW annotated, NEW k, Later(s, j, k),
           annotated.phase = j.phase, annotated.restart = j.restart,
           annotated.counts = j.counts
    PROVE  Later(s, annotated, k)
BY DEF Later, Decided, Sealed, Ended

\* The plan of a sync that knows of the verdict is later than what it read.
LEMMA LaterPlan ==
    ASSUME NEW s, FullSpec(s), Types(s) # {},
           NEW j \in Jobs(s), ~Ended(j),
           NEW k \in Jobs(s), ~Ended(k), HasVerdict(k), WithinLimit(s, k),
           Later(s, j, k),
           Sealed(j) => Sealed(k),
           NEW view, DOMAIN view = Slots(s), NEW services \in SUBSET Slots(s),
           NEW nodes, NEW time \in Nat, NEW clock,
           NEW plan \in ReconcileTrainingJobs(s, k, view, services, nodes, time, clock)
    PROVE  Later(s, j, plan.job)
<1>1. plan.job \in Jobs(s)
  <2>1. GoodPlan(s, plan)
    BY PlansAreGood
  <2> QED BY <2>1 DEF GoodPlan, Plans
<1>2. /\ \A t \in Types(s) : plan.job.counts[t] >= k.counts[t]
      /\ EndsRightly(plan.job)
  BY PlansMoveOn DEF StaysOpen
<1>3. \A t \in Types(s) : plan.job.counts[t] >= j.counts[t]
  <2> TAKE t \in Types(s)
  <2>1. plan.job.counts[t] \in Nat /\ k.counts[t] \in Nat /\ j.counts[t] \in Nat
    BY <1>1 DEF Jobs
  <2>2. plan.job.counts[t] >= k.counts[t] /\ k.counts[t] >= j.counts[t]
    BY <1>2 DEF Later
  <2> QED BY <2>1, <2>2
<1>4. CASE Sealed(j)
  <2>1. /\ plan.job.counts = k.counts
        /\ Ended(plan.job) => plan.job.phase \in plan.job.annotations
    BY <1>4, SealedPlansRelease
  <2>2. k.counts = j.counts
    BY <1>4 DEF Later, Decided
  <2> QED BY <1>2, <1>3, <2>1, <2>2 DEF Later
<1>5. CASE ~Sealed(j)
  BY <1>2, <1>3, <1>5 DEF Later, Decided
<1> QED BY <1>4, <1>5

\* A new job has neither counted nor ended.
LEMMA InitLineage == Init => Lineage
<1> SUFFICES ASSUME Init PROVE Lineage
  OBVIOUS
<1>1. FullSpec(spec)
  BY DefaultsAreFull DEF Init
<1>2. job \in Jobs(spec) /\ cache = job /\ worker.pc = "idle"
  BY <1>1, NewJobIsGood DEF Init, Idle
<1>3. EndsRightly(job)
  BY DEF Init, NewJob, EndsRightly, Ended, EndingPhases, NoPhase
<1> QED BY <1>2, <1>3, LaterThanItself DEF Lineage

\* The steps that leave the stored job, or change only its annotations, and
\* leave the copies.
LEMMA OthersFollow ==
    ASSUME IInv, Lineage, IInv', spec' = spec, job'.phase = job.phase,
           job'.restart = job.restart, job'.counts = job.counts,
           job.annotations \subseteq job'.annotations,
           cache' \in {cache, job'},
           \/ worker'.pc = "idle"
           \/ worker'.pc = worker.pc /\ worker'.plan.job = worker.plan.job
    PROVE  Lineage'
<1>1. job' \in Jobs(spec')
  BY DEF IInv, TypeOK
<1>2. EndsRightly(job')
  BY DEF Lineage, Later, EndsRightly, Ended
<1>3. Later(spec', job', job')
  BY <1>1, <1>2, LaterThanItself
<1>4. Later(spec', job', cache')
  BY <1>3, LaterThanAnnotated DEF Lineage
<1>5. worker'.pc # "idle" => Later(spec', job', worker'.plan.job)
  BY LaterThanAnnotated DEF Lineage
<1> QED BY <1>3, <1>4, <1>5 DEF Lineage

\* The steps that put the job of the sync in the place of the stored one, of the
\* cached one, or of both.
LEMMA PlanFollows ==
    ASSUME IInv, Lineage, IInv', spec' = spec, worker.pc # "idle",
           job' \in {job, worker.plan.job}, cache' \in {cache, worker.plan.job},
           job' = job \/ cache' = worker.plan.job,
           \/ worker'.pc = "idle"
           \/ worker'.plan.job = worker.plan.job
    PROVE  Lineage'
<1>1. CASE job' = job
  BY <1>1 DEF Lineage
<1>2. CASE job' = worker.plan.job /\ cache' = worker.plan.job
  <2>1. job' \in Jobs(spec')
    BY DEF IInv, TypeOK
  <2>2. EndsRightly(job')
    BY <1>2 DEF Lineage, Later
  <2>3. Later(spec', job', job')
    BY <2>1, <2>2, LaterThanItself
  <2> QED BY <1>2, <2>3 DEF Lineage
<1> QED BY <1>1, <1>2

\* A sync that starts decides on a later stage of the job.
LEMMA SyncFollows ==
    IInv /\ Agreement /\ Lineage /\ IInv' /\ (SyncHandler \/ Commit) => Lineage'
<1> SUFFICES ASSUME IInv, Agreement, Lineage, IInv', SyncHandler \/ Commit
             PROVE  Lineage'
  OBVIOUS
<1>1. /\ FullSpec(spec) /\ worker \in Workers
      /\ job \in Jobs(spec) /\ cache \in Jobs(spec)
      /\ HasVerdict(cache) /\ WithinLimit(spec, cache)
      /\ DOMAIN podCache = Slots(spec) /\ svcCache \in SUBSET Slots(spec)
      /\ now \in Nat
  BY DEF IInv, TypeOK, GoodJob, Views
<1>2. ASSUME SyncHandler PROVE Lineage'
  <2> DEFINE started(plan, changed) ==
               [pc |-> "create", plan |-> plan, gens |-> cache.counts,
                aliased |-> TRUE, update |-> changed, tries |-> 0]
             plans(clock) ==
               ReconcileTrainingJobs(spec, cache, podCache, svcCache,
                                     IF api THEN ready ELSE {}, now, clock)
             goesOn(plan, touched) ==
               LET w == started(plan, touched \/ StatusChanged(plan.job))
               IN  IF NothingToCreate(plan) THEN Decide(w)
                   ELSE worker' = w /\ UNCHANGED <<cache, timer>>
  <2>1. PICK clock \in CreatingClocks, touched \in BOOLEAN :
               \E plan \in plans(clock) : goesOn(plan, touched)
    BY <1>2 DEF SyncHandler
  <2>2. PICK plan \in plans(clock) : goesOn(plan, touched)
    BY <2>1
  <2> DEFINE w == started(plan, touched \/ StatusChanged(plan.job))
  <2>3. /\ spec' = spec /\ job' = job
        /\ cache.phase \in ReconciledPhases /\ SatisfiedExpectations
    BY <1>2 DEF SyncHandler, NeedsSync, stored
  <2>4. Types(spec) # {}
    BY <2>3 DEF SatisfiedExpectations
  <2>5. ~Ended(cache) /\ ~Ended(job) /\ (Sealed(job) => Sealed(cache))
    BY <2>3, PhaseFacts DEF Agreement, Knows, Decided, Ended
  <2>6. Later(spec, job, plan.job)
    BY <1>1, <2>4, <2>5, LaterPlan DEF Lineage
  <2>7. w.plan = plan
    OBVIOUS
  <2>8. CASE NothingToCreate(plan)
    <3>1. Decide(w)
      BY <2>2, <2>8
    <3> HIDE DEF w
    <3>2. /\ worker'.pc # "idle" => worker'.plan.job = plan.job
          /\ cache' \in {cache, plan.job}
      BY <2>7, <3>1 DEF Decide, Idle
    <3> QED BY <2>3, <2>6, <3>2 DEF Lineage
  <2>9. CASE ~NothingToCreate(plan)
    <3>1. worker' = w /\ cache' = cache
      BY <2>2, <2>9
    <3> HIDE DEF w
    <3> QED BY <2>3, <2>6, <2>7, <3>1 DEF Lineage
  <2> QED BY <2>8, <2>9
<1>3. ASSUME Commit PROVE Lineage'
  <2>1. /\ worker.pc = "create" /\ Decide(worker)
        /\ job' = job /\ spec' = spec
    BY <1>3 DEF Commit, stored
  <2>2. /\ worker'.pc # "idle" => worker'.plan.job = worker.plan.job
        /\ cache' \in {cache, worker.plan.job}
    BY <1>1, <2>1 DEF Decide, Idle, Workers
  <2> QED BY <2>1, <2>2, PlanFollows
<1> QED BY <1>2, <1>3

\* A call of a sync leaves the three copies of the job alone.
LEMMA CallsFollow ==
    IInv /\ Lineage /\ IInv' /\ (Creates \/ Deletes) => Lineage'
<1> SUFFICES ASSUME IInv, Lineage, IInv', Creates \/ Deletes PROVE Lineage'
  OBVIOUS
<1>1. worker \in Workers /\ worker.plan \in Plans(spec)
  BY DEF IInv, TypeOK, Workers
<1>2. CASE Creates
  <2>1. PICK s \in Slots(spec) :
           \/ CreatePod(s) \/ CreatePodFails(s)
           \/ CreatePodTimesOut(s) \/ CreatePodReplyLost(s)
           \/ CreateService(s) \/ CreateServiceFails(s)
           \/ CreateServiceTimesOut(s)
    BY <1>2 DEF Creates
  <2>2. /\ spec' = spec /\ job' = job /\ cache' = cache
        /\ PodDone(s) \/ ServiceDone(s) \/ Abort
    BY <2>1 DEF CreatePod, CreatePodFails, CreatePodTimesOut, CreatePodReplyLost,
                CreateService, CreateServiceFails, CreateServiceTimesOut,
                stored, caches
  <2>3. \/ worker'.pc = "idle"
        \/ worker'.pc = worker.pc /\ worker'.plan.job = worker.plan.job
    BY <1>1, <2>2 DEF PodDone, ServiceDone, Abort, Idle, Workers, Plans
  <2> QED BY <2>2, <2>3, OthersFollow
<1>3. CASE Deletes
  <2>1. \/ \E s \in Slots(spec) : DeletePod(s) \/ DeletePodFails(s) \/ DeleteService(s)
        \/ DeleteServiceFails
    BY <1>3 DEF Deletes
  <2>2. spec' = spec /\ job' = job /\ cache' = cache
    BY <2>1 DEF DeletePod, DeletePodFails, DeleteService, DeleteServiceFails,
                stored, caches
  <2>3. \/ \E rest : worker' = [worker EXCEPT !.plan.deletes = rest]
        \/ \E rest : worker' = [worker EXCEPT !.plan.svcDeletes = rest]
        \/ worker' = [worker EXCEPT !.plan.deletes = {}, !.plan.svcDeletes = {}]
    BY <2>1 DEF DeletePod, DeletePodFails, DeleteService, DeleteServiceFails
  <2>4. worker'.pc = worker.pc /\ worker'.plan.job = worker.plan.job
    BY <1>1, <2>3 DEF Workers, Plans
  <2> QED BY <2>2, <2>4, OthersFollow
<1> QED BY <1>2, <1>3

\* An update that is stored, refused or retried moves the job of the sync.
LEMMA UpdatesFollow ==
    /\ IInv /\ Agreement /\ Lineage /\ IInv'
    /\ UpdateAccepted \/ UpdateReplyLost \/ UpdateRejected
    => Lineage'
<1> SUFFICES ASSUME IInv, Agreement, Lineage, IInv',
                    UpdateAccepted \/ UpdateReplyLost \/ UpdateRejected
             PROVE  Lineage'
  OBVIOUS
<1>1. worker \in Workers
  BY DEF IInv, TypeOK
<1>2. Updating /\ spec' = spec
  BY DEF UpdateAccepted, UpdateReplyLost, UpdateRejected, Accepted
<1>3. worker.pc = "delete"
  BY <1>2 DEF Updating
<1>4. CASE UpdateAccepted
  <2>1. job' = worker.plan.job /\ cache' = worker.plan.job /\ worker'.pc = "idle"
    BY <1>3, <1>4 DEF UpdateAccepted, Accepted, Idle, Agreement, Storing
  <2> QED BY <1>2, <1>3, <2>1, PlanFollows
<1>5. CASE UpdateReplyLost \/ UpdateRejected
  <2>1. Retry /\ job' \in {job, worker.plan.job}
    BY <1>5 DEF UpdateReplyLost, UpdateRejected, Accepted, stored
  <2>2. /\ cache' = worker.plan.job
        /\ worker'.pc = "idle" \/ worker'.plan.job = worker.plan.job
    <3>1. CASE worker.tries + 1 < UpdateTries
      BY <1>1, <2>1, <3>1 DEF Retry, Workers
    <3>2. CASE ~(worker.tries + 1 < UpdateTries)
      BY <2>1, <3>2 DEF Retry, Abort, Idle
    <3> QED BY <3>1, <3>2
  <2> QED BY <1>2, <1>3, <2>1, <2>2, PlanFollows
<1> QED BY <1>4, <1>5

\* Every step keeps the copies later than the stored job.
LEMMA NextLineage == IInv /\ Agreement /\ Lineage /\ [Next]_vars => Lineage'
<1> SUFFICES ASSUME IInv, Agreement, Lineage, [Next]_vars PROVE Lineage'
  OBVIOUS
<1>1. IInv' /\ worker \in Workers /\ job \in Jobs(spec)
  BY NextIInv DEF IInv, TypeOK
<1>2. CASE \E phase \in Annotations : Annotate(phase)
  <2>1. PICK phase \in Annotations : Annotate(phase)
    BY <1>2
  <2>2. /\ job'.phase = job.phase /\ job'.restart = job.restart
        /\ job'.counts = job.counts /\ job.annotations \subseteq job'.annotations
    BY <1>1, <2>1 DEF Annotate, Jobs
  <2>3. spec' = spec /\ cache' = cache /\ worker' = worker
    BY <2>1 DEF Annotate, memory
  <2> QED BY <1>1, <2>2, <2>3, OthersFollow
<1>3. CASE \/ Cluster /\ ~(\E phase \in Annotations : Annotate(phase))
           \/ TimerFires \/ SkipSync \/ UNCHANGED vars
  <2>1. spec' = spec /\ job' = job /\ cache' = cache /\ worker' = worker
    BY <1>3 DEF Cluster, StartPod, ImageError, Succeed, PodGone, CollectPod, LosePod,
                Schedule, FailPod, NodeDown, NodeUp, Tick, ApiDown, ApiUp,
                OnlyPods, TimerFires, SkipSync, vars, stored, caches, memory
  <2> QED BY <1>1, <2>1, OthersFollow
<1>4. CASE Watches \/ Crash \/ TakeOver
  <2>1. spec' = spec /\ job' = job
    BY <1>4 DEF Watches, DeliverJob, DeliverPods, DeliverNewService,
                DeliverGoneService, ExpectationsExpire, Crash, TakeOver, stored
  <2>2. cache' \in {cache, job'}
    BY <1>4, <2>1 DEF Watches, DeliverJob, DeliverPods, DeliverNewService,
                DeliverGoneService, ExpectationsExpire, Crash, TakeOver, caches
  <2>3. \/ worker' \in {worker, Idle}
        \/ worker' = [worker EXCEPT !.aliased = FALSE]
    BY <1>4 DEF Watches, DeliverJob, DeliverPods, DeliverNewService,
                DeliverGoneService, ExpectationsExpire, Crash, TakeOver, memory
  <2>4. \/ worker'.pc = "idle"
        \/ worker'.pc = worker.pc /\ worker'.plan.job = worker.plan.job
    BY <1>1, <2>3 DEF Idle, Workers
  <2> QED BY <1>1, <2>1, <2>2, <2>4, OthersFollow
<1>5. CASE SyncHandler \/ Commit
  BY <1>1, <1>5, SyncFollows
<1>6. CASE Creates \/ Deletes
  BY <1>1, <1>6, CallsFollow
<1>7. CASE UpdateAccepted \/ UpdateReplyLost \/ UpdateRejected
  BY <1>1, <1>7, UpdatesFollow
<1> QED BY <1>2, <1>3, <1>4, <1>5, <1>6, <1>7 DEF Next, Worker

\* The stored job and its copies are in order after any number of faults.
THEOREM LineageHolds == Spec => [](IInv /\ Agreement /\ Lineage)
BY InitIInv, NextIInv, InitAgreement, NextAgreement, InitLineage, NextLineage, PTL
   DEF Spec

\* A job that was just submitted is open, without verdict or restart.
LEMMA InitLifecycle == Init => Lifecycle!Init
<1> SUFFICES ASSUME Init PROVE Lifecycle!Init
  OBVIOUS
<1>1. job = NewJob
  BY DEF Init
<1>2. ~Ended(job) /\ ~Sealed(job) /\ job.annotations = {}
  BY <1>1 DEF NewJob, Ended, Sealed, EndingPhases, NoPhase
<1>3. job.counts = [t \in Types(spec) |-> 0]
  BY <1>1 DEF NewJob
<1> QED BY <1>2, <1>3 DEF Lifecycle!Init, Lifecycle!NoPhase, NoPhase

\* A step that stores the job a sync decided on, or annotates the stored one, is
\* a step of the life of a job.
LEMMA NextLifecycle ==
    IInv /\ IInv' /\ Agreement /\ Lineage /\ [Next]_vars
      => [Lifecycle!Next]_(Lifecycle!vars)
<1> SUFFICES ASSUME IInv, IInv', Agreement, Lineage, [Next]_vars, job' # job
             PROVE  Lifecycle!Next
  BY DEF Lifecycle!vars
<1>1. /\ job \in Jobs(spec) /\ job' \in Jobs(spec')
      /\ HasVerdict(job) /\ HasVerdict(job')
  BY DEF IInv, TypeOK, GoodJob
<1>2. \A j : ~(Sealed(j) /\ Ended(j))
  BY DEF Sealed, Ended, EndingPhases
<1>3. /\ EndingPhases = Lifecycle!EndingPhases
      /\ job.annotations \subseteq EndingPhases
      /\ job'.annotations \subseteq EndingPhases
  BY <1>1 DEF Jobs, EndingPhases, Lifecycle!EndingPhases
<1>4. spec' = spec
  BY StoredJobChanges DEF Annotate
<1>5. DOMAIN job.counts = Types(spec) /\ DOMAIN job'.counts = Types(spec)
  BY <1>1, <1>4 DEF Jobs
<1>6. CASE \E phase \in Annotations : Annotate(phase)
  <2>1. PICK phase \in Annotations : Annotate(phase)
    BY <1>6
  <2>2. /\ job'.phase = job.phase /\ job'.restart = job.restart
        /\ job'.counts = job.counts /\ job.annotations \subseteq job'.annotations
    BY <1>1, <2>1 DEF Annotate, Jobs
  <2>3. (Ended(job') <=> Ended(job)) /\ (Sealed(job') <=> Sealed(job))
    BY <2>2 DEF Ended, Sealed
  <2>4. Lifecycle!NeverDrops
    <3>1. \A t \in Types(spec) : job.counts[t] \in Nat
      BY <1>1 DEF Jobs
    <3> QED BY <1>5, <2>2, <3>1 DEF Lifecycle!NeverDrops
  <2>5. CASE Ended(job)
    BY <1>2, <1>3, <2>2, <2>3, <2>5 DEF Lifecycle!Next, Lifecycle!Rest
  <2>6. CASE Sealed(job)
    <3>1. job'.annotations # {}
      BY <1>1, <2>2, <2>6 DEF HasVerdict
    <3> QED BY <1>2, <1>3, <2>2, <2>3, <2>6, <3>1 DEF Lifecycle!Next, Lifecycle!Wait
  <2>7. CASE ~Ended(job) /\ ~Sealed(job)
    BY <1>3, <2>3, <2>4, <2>7 DEF Lifecycle!Next, Lifecycle!Proceed
  <2> QED BY <2>5, <2>6, <2>7
<1>7. CASE Storing /\ job' = worker.plan.job
  <2>1. Later(spec, job, job') /\ Knows(job')
    BY <1>7 DEF Lineage, Agreement, Storing
  <2>2. Lifecycle!NeverDrops
    BY <1>5, <2>1 DEF Later, Lifecycle!NeverDrops
  <2>3. CASE Ended(job)
    <3>1. job'.phase = job.phase /\ job'.counts = job.counts
      BY <2>1, <2>3 DEF Knows, Later, Decided
    <3>2. Ended(job')
      BY <2>3, <3>1 DEF Ended
    <3> QED BY <1>3, <2>3, <3>1, <3>2 DEF Lifecycle!Next, Lifecycle!Rest
  <2>4. CASE Sealed(job)
    <3>1. job'.counts = job.counts /\ (Sealed(job') \/ Ended(job'))
      BY <2>1, <2>4 DEF Knows, Later, Decided
    <3>2. CASE Sealed(job')
      <4>1. job'.annotations # {}
        BY <1>1, <3>2 DEF HasVerdict
      <4> QED BY <1>2, <1>3, <2>4, <3>1, <3>2, <4>1
              DEF Lifecycle!Next, Lifecycle!Wait
    <3>3. CASE Ended(job')
      <4>1. job'.phase \in job'.annotations
        BY <2>1, <2>4, <3>3 DEF Later
      <4> QED BY <1>2, <1>3, <2>4, <3>1, <3>3, <4>1
              DEF Lifecycle!Next, Lifecycle!Release
    <3> QED BY <3>1, <3>2, <3>3
  <2>5. CASE ~Ended(job) /\ ~Sealed(job)
    <3>1. CASE Ended(job')
      <4>1. job'.phase \in job'.annotations \union {"Succeed", "Failed"}
        BY <2>1, <3>1 DEF Later, EndsRightly
      <4> QED BY <1>3, <2>2, <2>5, <3>1, <4>1 DEF Lifecycle!Next, Lifecycle!EndOpen
    <3>2. CASE Sealed(job')
      <4>1. job'.annotations # {}
        BY <1>1, <3>2 DEF HasVerdict
      <4> QED BY <1>2, <1>3, <2>2, <2>5, <3>2, <4>1
              DEF Lifecycle!Next, Lifecycle!Seal
    <3>3. CASE ~Ended(job') /\ ~Sealed(job')
      BY <1>3, <2>2, <2>5, <3>3 DEF Lifecycle!Next, Lifecycle!Proceed
    <3> QED BY <3>1, <3>2, <3>3
  <2> QED BY <2>3, <2>4, <2>5
<1> QED BY <1>6, <1>7, StoredJobChanges

\* Whatever is lost, retried or restarted, the life of a stored job is the one
\* JobLifecycle describes: a verdict is kept until it is the final phase, and
\* restarts never reopen it nor does their count drop.
THEOREM LifecycleIsKept == Spec => KeepsLifecycle
BY InitLifecycle, NextLifecycle, LineageHolds, PTL
   DEF Spec, KeepsLifecycle, Lifecycle!Spec
==============================================================================
