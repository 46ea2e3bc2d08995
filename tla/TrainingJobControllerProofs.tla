---------------------- MODULE TrainingJobControllerProofs ----------------------
(***************************************************************************)
(* What holds of the controller for every specification of a job, every    *)
(* number of nodes, faults, tries and undelivered events.                  *)
(***************************************************************************)
EXTENDS TrainingJobController, ReconcileProofs

\* The job that is stored, the one that is cached and the one a sync is about
\* to store obey the same rules: an update, a retry or a crash only moves one
\* of them to the place of another.
GoodJob(j) == HasVerdict(j) /\ WithinLimit(spec, j)

IInv == /\ TypeOK
        /\ FullSpec(spec)
        /\ GoodJob(job) /\ GoodJob(cache)
        /\ GoodPlan(spec, worker.plan)

\* The specification of the job is never changed.
LEMMA SameSpec ==
    ASSUME spec' = spec
    PROVE  /\ Views' = Views /\ Workers' = Workers
           /\ Slots(spec') = Slots(spec) /\ Types(spec') = Types(spec)
           /\ \A j : GoodJob(j)' <=> GoodJob(j)
BY DEF Views, Workers, GoodJob, Pod

\* The defaults leave what the rules speak of as the user wrote it.
LEMMA DefaultsAreFull ==
    ASSUME NEW s \in JobSpecs
    PROVE  FullSpec(SetDefaults(s))
<1>1. IsJobSpec(s)
  BY JobSpecsAssumption
<1> DEFINE defaulted == [t \in DOMAIN s.replicaSpecs |->
                           SetDefaultReplicas(s.replicaSpecs[t])]
<1>2. /\ SetDefaults(s).replicaSpecs = defaulted
      /\ SetDefaults(s).timeLimit = s.timeLimit
  BY <1>1 DEF SetDefaults, IsJobSpec
<1>3. \A t \in DOMAIN s.replicaSpecs :
         defaulted[t].restartLimit = s.replicaSpecs[t].restartLimit
  BY <1>1 DEF IsJobSpec, ReplicaSpecs, SetDefaultReplicas
<1>4. \A t \in DOMAIN s.replicaSpecs :
         /\ s.replicaSpecs[t].restartLimit \in Nat \union {NoLimit}
         /\ defaulted[t].replicas \in Nat
  BY <1>1 DEF IsJobSpec, ReplicaSpecs, SetDefaultReplicas
<1> QED BY <1>1, <1>2, <1>3, <1>4 DEF FullSpec, Types, IsJobSpec

\* A job as it is submitted, and a worker without one.
LEMMA NewJobIsGood ==
    ASSUME FullSpec(spec)
    PROVE  /\ NewJob \in Jobs(spec) /\ GoodJob(NewJob)
           /\ NoPlan \in Plans(spec) /\ GoodPlan(spec, NoPlan)
           /\ Idle \in Workers /\ Idle.plan = NoPlan
<1>1. NewJob \in Jobs(spec)
  BY PhaseFacts DEF NewJob, Jobs
<1>2. GoodJob(NewJob)
  <2>1. HasVerdict(NewJob)
    BY DEF NewJob, HasVerdict, Sealed, NoPhase
  <2>2. WithinLimit(spec, NewJob)
    BY DEF NewJob, WithinLimit, FullSpec
  <2> QED BY <2>1, <2>2 DEF GoodJob
<1>3. NoPlan \in Plans(spec) /\ NoPlan.job = NewJob /\ NoPlan.wake = "none"
  BY <1>1 DEF NoPlan, Plans
<1>4. Idle \in Workers /\ Idle.plan = NoPlan
  BY <1>3 DEF Idle, Workers, NewJob
<1> QED BY <1>1, <1>2, <1>3, <1>4 DEF GoodPlan, GoodJob

\* The invariant holds for a job that was just submitted.
LEMMA InitIInv == Init => IInv
<1> SUFFICES ASSUME Init PROVE IInv
  OBVIOUS
<1>1. FullSpec(spec)
  BY DefaultsAreFull DEF Init
<1>2. NoPods \in Views /\ <<>> \in Seq(Views)
  BY DEF NoPods, Views
<1>3. TypeOK
  BY <1>1, <1>2, NewJobIsGood, BudgetAssumption DEF Init, TypeOK, Never
<1> QED BY <1>1, <1>3, NewJobIsGood DEF Init, IInv

\* A change of the pods keeps the pods and the events of their type.
LEMMA ChangePodsType ==
    ASSUME TypeOK, spec' = spec, NEW new \in Views, ChangePods(new)
    PROVE  pods' \in Views' /\ podFeed' \in Seq(Views)'
<1>1. Append(podFeed, new) \in Seq(Views)
  BY DEF TypeOK
<1> QED BY <1>1, SameSpec DEF ChangePods

\* A pod that exists may get another state, node or set of exit codes, be told
\* to stop, or disappear.
LEMMA PodTypes ==
    ASSUME TypeOK, NEW s \in Present(pods)
    PROVE  /\ s \in Slots(spec) /\ pods[s] \in Pod
           /\ \A pod \in Pod \union {NoPod} : [pods EXCEPT ![s] = pod] \in Views
           /\ \A state \in PodStates, codes \in ExitCodes \union {{}, {0}} :
                [pods EXCEPT ![s].state = state, ![s].exit = codes] \in Views
           /\ \A n \in Nodes : [pods EXCEPT ![s].node = n] \in Views
           /\ [pods EXCEPT ![s].dying = TRUE] \in Views
<1>1. pods \in [Slots(spec) -> Pod \union {NoPod}]
  BY DEF TypeOK, Views
<1>2. s \in Slots(spec) /\ pods[s] \in Pod
  BY <1>1 DEF Present
<1>3. \A pod \in Pod \union {NoPod} : [pods EXCEPT ![s] = pod] \in Views
  BY <1>1, <1>2 DEF Views
<1>4. \A state \in PodStates, codes \in ExitCodes \union {{}, {0}} :
         [pods EXCEPT ![s].state = state, ![s].exit = codes] \in Views
  <2> TAKE state \in PodStates, codes \in ExitCodes \union {{}, {0}}
  <2>1. [pods[s] EXCEPT !.state = state, !.exit = codes] \in Pod
    BY <1>2 DEF Pod
  <2>2. [pods EXCEPT ![s].state = state, ![s].exit = codes]
          = [pods EXCEPT ![s] = [pods[s] EXCEPT !.state = state, !.exit = codes]]
    BY <1>1, <1>2
  <2> QED BY <1>3, <2>1, <2>2
<1>5. \A n \in Nodes : [pods[s] EXCEPT !.node = n] \in Pod
  BY <1>2 DEF Pod
<1>6. [pods[s] EXCEPT !.dying = TRUE] \in Pod
  BY <1>2 DEF Pod
<1> QED BY <1>2, <1>3, <1>4, <1>5, <1>6

\* An action that only changes pods, and perhaps the faults that are left.
LEMMA OnlyPodsIInv ==
    ASSUME IInv, OnlyPods, NEW new \in Views, ChangePods(new),
           left' \in [FaultKinds -> Nat]
    PROVE  IInv'
<1>1. spec' = spec
  BY DEF OnlyPods
<1>2. TypeOK
  BY DEF IInv
<1>3. pods' \in Views' /\ podFeed' \in Seq(Views)'
  BY <1>1, <1>2, ChangePodsType
<1>4. TypeOK'
  BY <1>1, <1>2, <1>3, SameSpec DEF TypeOK, OnlyPods, caches, memory
<1> QED BY <1>1, <1>4, SameSpec DEF IInv, GoodJob, OnlyPods, caches, memory

\* A fault that happens leaves a budget.
LEMMA SpendType ==
    ASSUME left \in [FaultKinds -> Nat], NEW kind \in FaultKinds, Spend(kind)
    PROVE  left' \in [FaultKinds -> Nat]
BY DEF Spend, FaultKinds

\* Scheduler, kubelets, nodes, users and time keep the invariant.
LEMMA ClusterIInv == IInv /\ Cluster => IInv'
<1> SUFFICES ASSUME IInv, Cluster PROVE IInv'
  OBVIOUS
<1>1. TypeOK
  BY DEF IInv
<1>2. left \in [FaultKinds -> Nat] /\ ready \subseteq Nodes
  BY <1>1 DEF TypeOK
<1>3. /\ {"podFail", "podLoss", "imageError", "nodeFail", "annotate", "outage"}
             \subseteq FaultKinds
      /\ {"ImageError", "Running", "Succeeded", "Failed"} \subseteq PodStates
  BY DEF FaultKinds, PodStates
<1>4. ASSUME NEW s \in Present(pods), StartPod(s) PROVE IInv'
  BY <1>1, <1>2, <1>3, <1>4, PodTypes, OnlyPodsIInv DEF StartPod, SetState
<1>5. ASSUME NEW s \in Present(pods), ImageError(s) PROVE IInv'
  BY <1>1, <1>2, <1>3, <1>5, PodTypes, OnlyPodsIInv, SpendType
     DEF ImageError, SetState
<1>6. ASSUME NEW s \in Present(pods), Succeed(s) PROVE IInv'
  BY <1>1, <1>2, <1>3, <1>6, PodTypes, OnlyPodsIInv DEF Succeed, SetState
<1>7. ASSUME NEW s \in Present(pods), PodGone(s) \/ CollectPod(s) PROVE IInv'
  BY <1>1, <1>2, <1>7, PodTypes, OnlyPodsIInv DEF PodGone, CollectPod
<1>8. ASSUME NEW s \in Present(pods), LosePod(s) PROVE IInv'
  BY <1>1, <1>2, <1>3, <1>8, PodTypes, OnlyPodsIInv, SpendType DEF LosePod
<1>9. ASSUME NEW s \in Present(pods), NEW n \in Nodes, Schedule(s, n) PROVE IInv'
  BY <1>1, <1>2, <1>9, PodTypes, OnlyPodsIInv DEF Schedule
<1>10. ASSUME NEW s \in Present(pods), NEW codes \in ExitCodes, FailPod(s, codes)
       PROVE IInv'
  BY <1>1, <1>2, <1>3, <1>10, PodTypes, OnlyPodsIInv, SpendType
     DEF FailPod, SetState
<1>11. ASSUME NEW n \in Nodes, NodeDown(n) \/ NodeUp(n) PROVE IInv'
  <2>1. ready' \subseteq Nodes /\ left' \in [FaultKinds -> Nat]
    BY <1>2, <1>3, <1>11, SpendType DEF NodeDown, NodeUp
  <2>2. UNCHANGED <<spec, stored, caches, memory, api, now>>
    BY <1>11 DEF NodeDown, NodeUp
  <2>3. TypeOK'
    BY <1>1, <2>1, <2>2, SameSpec DEF TypeOK, stored, caches, memory
  <2> QED BY <2>2, <2>3, SameSpec DEF IInv, GoodJob, stored, caches, memory
<1>12. ASSUME NEW phase \in Annotations, Annotate(phase) PROVE IInv'
  <2>1. /\ job' \in Jobs(spec) /\ job'.annotations # {}
        /\ job'.counts = job.counts
    BY <1>1, <1>12, AnnotationsAssumption DEF Annotate, TypeOK, Jobs
  <2>2. left' \in [FaultKinds -> Nat]
    BY <1>2, <1>3, <1>12, SpendType DEF Annotate
  <2>3. TypeOK'
    BY <1>1, <1>12, <2>1, <2>2, SameSpec DEF TypeOK, Annotate, memory
  <2>4. GoodJob(job)'
    BY <1>12, <2>1 DEF GoodJob, HasVerdict, WithinLimit, IInv, Annotate
  <2> QED BY <1>12, <2>3, <2>4, SameSpec DEF IInv, GoodJob, Annotate, memory
<1>13. ASSUME Tick PROVE IInv'
  <2>1. TypeOK'
    BY <1>1, <1>13, SameSpec DEF TypeOK, Tick, stored, caches, memory
  <2> QED BY <1>13, <2>1, SameSpec DEF IInv, GoodJob, Tick, stored, caches, memory
<1>14. ASSUME ApiDown \/ ApiUp PROVE IInv'
  <2>1. api' \in BOOLEAN /\ left' \in [FaultKinds -> Nat]
    BY <1>2, <1>3, <1>14, SpendType DEF ApiDown, ApiUp
  <2>2. UNCHANGED <<spec, stored, caches, memory, ready, now>>
    BY <1>14 DEF ApiDown, ApiUp
  <2>3. TypeOK'
    BY <1>1, <2>1, <2>2, SameSpec DEF TypeOK, stored, caches, memory
  <2> QED BY <2>2, <2>3, SameSpec DEF IInv, GoodJob, stored, caches, memory
<1> QED BY <1>4, <1>5, <1>6, <1>7, <1>8, <1>9, <1>10, <1>11, <1>12, <1>13, <1>14
        DEF Cluster

\* A delayed key is due at a time that exists.
LEMMA DelayedAddType ==
    ASSUME timer \in Nat \union {Never}, NEW at \in Nat, DelayedAdd(at)
    PROVE  timer' \in Nat \union {Never}
BY DEF DelayedAdd

\* The informers and their handlers keep the invariant.
LEMMA WatchesIInv == IInv /\ Watches => IInv'
<1> SUFFICES ASSUME IInv, Watches PROVE IInv'
  OBVIOUS
<1>1. TypeOK /\ worker \in Workers /\ timer \in Nat \union {Never} /\ now \in Nat
  BY DEF IInv, TypeOK
<1>2. ASSUME DeliverJob PROVE IInv'
  <2>1. worker' \in Workers /\ worker'.plan = worker.plan
    BY <1>1, <1>2 DEF DeliverJob, Workers
  <2>2. timer' \in Nat \union {Never}
    BY <1>1, <1>2, DelayedAddType DEF DeliverJob
  <2>3. TypeOK'
    BY <1>1, <1>2, <2>1, <2>2, SameSpec DEF TypeOK, DeliverJob, stored, cluster
  <2> QED BY <1>2, <2>1, <2>3, SameSpec DEF IInv, GoodJob, DeliverJob, stored
<1>3. ASSUME DeliverPods PROVE IInv'
  <2>1. podFeed \in Seq(Views) /\ podFeed # <<>>
    BY <1>1, <1>3 DEF TypeOK, DeliverPods
  <2>2. Head(podFeed) \in Views /\ Tail(podFeed) \in Seq(Views)
    BY <2>1
  <2>3. TypeOK'
    BY <1>1, <1>3, <2>2, SameSpec DEF TypeOK, DeliverPods, cluster
  <2> QED BY <1>3, <2>3, SameSpec DEF IInv, GoodJob, DeliverPods
<1>4. ASSUME NEW s \in svcs \union svcCache,
             DeliverNewService(s) \/ DeliverGoneService(s)
      PROVE  IInv'
  <2>1. TypeOK'
    BY <1>1, <1>4, SameSpec
       DEF TypeOK, DeliverNewService, DeliverGoneService, stored, memory, cluster
  <2> QED BY <1>4, <2>1, SameSpec
          DEF IInv, GoodJob, DeliverNewService, DeliverGoneService, stored, memory
<1>5. ASSUME ExpectationsExpire PROVE IInv'
  <2>1. TypeOK'
    BY <1>1, <1>5, SameSpec DEF TypeOK, ExpectationsExpire, stored, caches, cluster
  <2> QED BY <1>5, <2>1, SameSpec
          DEF IInv, GoodJob, ExpectationsExpire, stored, caches
<1> QED BY <1>2, <1>3, <1>4, <1>5 DEF Watches

\* A status that is decided is a good job in the cache too.
LEMMA DecideTypes ==
    ASSUME IInv, NEW w \in Workers, GoodPlan(spec, w.plan), Decide(w)
    PROVE  /\ worker' \in Workers /\ GoodPlan(spec, worker'.plan)
           /\ cache' \in Jobs(spec) /\ GoodJob(cache')
           /\ timer' \in Nat \union {Never}
<1>1. /\ FullSpec(spec) /\ cache \in Jobs(spec) /\ GoodJob(cache)
      /\ timer \in Nat \union {Never} /\ now \in Nat
  BY DEF IInv, TypeOK
<1>2. /\ w.plan.job \in Jobs(spec) /\ GoodJob(w.plan.job)
      /\ w.plan.wake \in {"none", "soon", "limit"}
  BY DEF Workers, Plans, GoodPlan, GoodJob
<1>3. [w EXCEPT !.pc = "delete"] \in Workers /\ [w EXCEPT !.pc = "delete"].plan = w.plan
  BY DEF Workers
<1>4. worker' \in Workers /\ GoodPlan(spec, worker'.plan)
  BY <1>1, <1>3, NewJobIsGood DEF Decide
<1>5. cache' \in Jobs(spec) /\ GoodJob(cache')
  BY <1>1, <1>2 DEF Decide
<1>6. timer' \in Nat \union {Never}
  <2>1. CASE w.plan.wake = "none"
    BY <1>1, <2>1 DEF Decide
  <2>2. CASE w.plan.wake = "soon"
    BY <1>1, <2>2, DelayedAddType DEF Decide
  <2>3. CASE w.plan.wake = "limit"
    <3>1. w.plan.job.start + spec.timeLimit \in Nat
      BY <2>3 DEF GoodPlan
    <3> QED BY <1>1, <2>3, <3>1, DelayedAddType DEF Decide
  <2> QED BY <1>2, <2>1, <2>2, <2>3
<1> QED BY <1>4, <1>5, <1>6

\* A sync that ends with an error leaves an idle worker.
LEMMA AbortTypes ==
    ASSUME IInv, Abort
    PROVE  /\ worker' \in Workers /\ GoodPlan(spec, worker'.plan)
           /\ timer' \in Nat \union {Never}
<1>1. FullSpec(spec) /\ timer \in Nat \union {Never} /\ now \in Nat
  BY DEF IInv, TypeOK
<1> QED BY <1>1, NewJobIsGood, DelayedAddType DEF Abort

\* A step that makes or deletes something leaves the rest of its plan alone.
LEMMA ShorterPlan ==
    ASSUME IInv
    PROVE  \A S \in SUBSET Slots(spec) :
             /\ [worker EXCEPT !.plan.creates = S] \in Workers
             /\ GoodPlan(spec, [worker EXCEPT !.plan.creates = S].plan)
             /\ [worker EXCEPT !.plan.svcCreates = S] \in Workers
             /\ GoodPlan(spec, [worker EXCEPT !.plan.svcCreates = S].plan)
             /\ [worker EXCEPT !.plan.deletes = S] \in Workers
             /\ GoodPlan(spec, [worker EXCEPT !.plan.deletes = S].plan)
             /\ [worker EXCEPT !.plan.svcDeletes = S] \in Workers
             /\ GoodPlan(spec, [worker EXCEPT !.plan.svcDeletes = S].plan)
<1> SUFFICES ASSUME NEW S \in SUBSET Slots(spec),
                    NEW new \in {[worker.plan EXCEPT !.creates = S],
                                 [worker.plan EXCEPT !.svcCreates = S],
                                 [worker.plan EXCEPT !.deletes = S],
                                 [worker.plan EXCEPT !.svcDeletes = S]}
             PROVE  /\ [worker EXCEPT !.plan = new] \in Workers
                    /\ [worker EXCEPT !.plan = new].plan = new
                    /\ GoodPlan(spec, new)
  OBVIOUS
<1>1. worker \in Workers /\ worker.plan \in Plans(spec) /\ GoodPlan(spec, worker.plan)
  BY DEF IInv, TypeOK, Workers
<1>2. new \in Plans(spec) /\ new.job = worker.plan.job /\ new.wake = worker.plan.wake
  BY <1>1 DEF Plans
<1> QED BY <1>1, <1>2 DEF Workers, GoodPlan

\* The start of a sync, and its decision, keep the invariant.
LEMMA SyncIInv == IInv /\ (TimerFires \/ SkipSync \/ SyncHandler \/ Commit) => IInv'
<1> SUFFICES ASSUME IInv, TimerFires \/ SkipSync \/ SyncHandler \/ Commit
             PROVE  IInv'
  OBVIOUS
<1>1. /\ TypeOK /\ FullSpec(spec) /\ worker \in Workers
      /\ GoodPlan(spec, worker.plan)
  BY DEF IInv, TypeOK
<1>2. ASSUME TimerFires PROVE IInv'
  <2>1. TypeOK'
    BY <1>1, <1>2, SameSpec DEF TypeOK, TimerFires, stored, caches, cluster
  <2> QED BY <1>2, <2>1, SameSpec DEF IInv, GoodJob, TimerFires, stored, caches
<1>3. ASSUME SkipSync PROVE IInv'
  <2>1. TypeOK'
    BY <1>1, <1>3, SameSpec DEF TypeOK, SkipSync, TakeKey, stored, caches, cluster
  <2> QED BY <1>3, <2>1, SameSpec DEF IInv, GoodJob, SkipSync, stored, caches
<1>4. ASSUME SyncHandler PROVE IInv'
  <2> DEFINE started(plan, changed) ==
               [pc |-> "create", plan |-> plan, gens |-> cache.counts,
                aliased |-> TRUE, update |-> changed, tries |-> 0]
  <2> DEFINE plans(clock) ==
               ReconcileTrainingJobs(spec, cache, podCache, svcCache,
                                     IF api THEN ready ELSE {}, now, clock)
             goesOn(plan, touched) ==
               LET w == started(plan, touched \/ StatusChanged(plan.job))
               IN  IF NothingToCreate(plan) THEN Decide(w)
                   ELSE worker' = w /\ UNCHANGED <<cache, timer>>
  <2>0. PICK clock \in CreatingClocks, touched \in BOOLEAN :
               \E plan \in plans(clock) : goesOn(plan, touched)
    BY <1>4 DEF SyncHandler
  <2>1. PICK plan \in plans(clock) : goesOn(plan, touched)
    BY <2>0
  <2> DEFINE w == started(plan, touched \/ StatusChanged(plan.job))
  <2>2. /\ cache \in Jobs(spec) /\ GoodJob(cache)
        /\ DOMAIN podCache = Slots(spec)
        /\ svcCache \subseteq Slots(spec) /\ now \in Nat
    BY <1>1 DEF TypeOK, IInv, Views
  <2>3. GoodPlan(spec, plan) /\ plan \in Plans(spec)
    BY <1>1, <2>2, PlansAreGood DEF GoodJob, GoodPlan
  <2>4. (touched \/ StatusChanged(plan.job)) \in BOOLEAN
    BY DEF StatusChanged
  <2>5. w \in Workers /\ w.plan = plan
    BY <2>2, <2>3, <2>4 DEF Workers, Jobs
  <2> HIDE DEF started
  <2>6. /\ worker' \in Workers /\ GoodPlan(spec, worker'.plan)
        /\ cache' \in Jobs(spec) /\ GoodJob(cache')
        /\ timer' \in Nat \union {Never}
    <3>1. CASE NothingToCreate(plan)
      <4>1. Decide(w)
        BY <2>1, <3>1
      <4> HIDE DEF w
      <4> QED BY <2>3, <2>5, <4>1, DecideTypes
    <3>2. CASE ~NothingToCreate(plan)
      <4>1. worker' = w /\ UNCHANGED <<cache, timer>>
        BY <2>1, <3>2
      <4> HIDE DEF w
      <4> QED BY <1>1, <2>2, <2>3, <2>5, <4>1 DEF TypeOK
    <3> QED BY <3>1, <3>2
  <2>7. TypeOK'
    BY <1>1, <1>4, <2>6, SameSpec DEF TypeOK, SyncHandler, TakeKey, stored, cluster
  <2> QED BY <1>4, <2>6, <2>7, SameSpec DEF IInv, GoodJob, SyncHandler, stored
<1>5. ASSUME Commit PROVE IInv'
  <2>1. /\ worker' \in Workers /\ GoodPlan(spec, worker'.plan)
        /\ cache' \in Jobs(spec) /\ GoodJob(cache')
        /\ timer' \in Nat \union {Never}
    BY <1>1, <1>5, DecideTypes DEF Commit
  <2>2. TypeOK'
    BY <1>1, <1>5, <2>1, SameSpec DEF TypeOK, Commit, stored, cluster
  <2> QED BY <1>5, <2>1, <2>2, SameSpec DEF IInv, GoodJob, Commit, stored
<1> QED BY <1>2, <1>3, <1>4, <1>5

\* The calls of a sync change the pods, the services, what is expected and
\* what is left of the plan, and nothing the rules for jobs speak of.
LEMMA CallIInv ==
    ASSUME IInv, UNCHANGED <<spec, job, caches, queued, ready, api, now>>,
           worker' \in Workers, GoodPlan(spec, worker'.plan),
           pods' \in Views', podFeed' \in Seq(Views)', svcs' \subseteq Slots(spec),
           unmet' \subseteq {"pods", "services"} \X Types(spec),
           timer' \in Nat \union {Never}, left' \in [FaultKinds -> Nat]
    PROVE  IInv'
<1>1. TypeOK'
  BY SameSpec DEF IInv, TypeOK, caches
<1> QED BY <1>1, SameSpec DEF IInv, GoodJob, caches

\* The creations of a sync and their failures keep the invariant.
LEMMA CreatesIInv == IInv /\ Creates => IInv'
<1> SUFFICES ASSUME IInv, NEW s \in Slots(spec),
                    \/ CreatePod(s) \/ CreatePodFails(s)
                    \/ CreatePodTimesOut(s) \/ CreatePodReplyLost(s)
                    \/ CreateService(s) \/ CreateServiceFails(s)
                    \/ CreateServiceTimesOut(s)
             PROVE  IInv'
  BY DEF Creates
<1>1. /\ TypeOK /\ FullSpec(spec) /\ worker \in Workers
      /\ GoodPlan(spec, worker.plan) /\ s[1] \in Types(spec)
      /\ worker.plan.creates \subseteq Slots(spec)
      /\ worker.plan.svcCreates \subseteq Slots(spec)
  <2>1. s[1] \in Types(spec)
    BY DEF Slots, SlotsOf
  <2> QED BY <2>1 DEF IInv, TypeOK, Workers, Plans
<1>2. /\ pods \in Views /\ podFeed \in Seq(Views) /\ svcs \subseteq Slots(spec)
      /\ unmet \subseteq {"pods", "services"} \X Types(spec)
      /\ timer \in Nat \union {Never} /\ left \in [FaultKinds -> Nat]
  BY <1>1 DEF TypeOK
<1>3. \A kind \in {"pods", "services"} :
         Expect(kind, s) => unmet' \subseteq {"pods", "services"} \X Types(spec)
  BY <1>1, <1>2 DEF Expect
<1>4. ASSUME spec' = spec, AddPod(s)
      PROVE  pods' \in Views' /\ podFeed' \in Seq(Views)'
  <2>1. NewPod(worker.gens[s[1]]) \in Pod
    BY <1>1 DEF NewPod, Pod, PodStates, Workers
  <2>2. [pods EXCEPT ![s] = NewPod(worker.gens[s[1]])] \in Views
    BY <1>2, <2>1 DEF Views
  <2> QED BY <1>1, <1>4, <2>2, ChangePodsType DEF AddPod
<1>5. PodDone(s) \/ ServiceDone(s) =>
        worker' \in Workers /\ GoodPlan(spec, worker'.plan)
  BY <1>1, ShorterPlan DEF PodDone, ServiceDone
<1>6. ASSUME CreatePod(s) PROVE IInv'
  BY <1>2, <1>3, <1>4, <1>5, <1>6, CallIInv DEF CreatePod, cluster
<1>7. ASSUME CreatePodFails(s) PROVE IInv'
  BY <1>2, <1>3, <1>7, AbortTypes, SameSpec, CallIInv
     DEF CreatePodFails, cluster, stored
<1>8. ASSUME CreatePodTimesOut(s) PROVE IInv'
  BY <1>2, <1>3, <1>5, <1>8, SameSpec, CallIInv
     DEF CreatePodTimesOut, cluster, stored
<1>9. ASSUME CreatePodReplyLost(s) PROVE IInv'
  <2>1. left' \in [FaultKinds -> Nat]
    BY <1>2, <1>9, SpendType DEF CreatePodReplyLost, FaultKinds
  <2> QED BY <1>2, <1>3, <1>4, <1>9, <2>1, AbortTypes, CallIInv DEF CreatePodReplyLost
<1>10. ASSUME CreateService(s) PROVE IInv'
  BY <1>2, <1>3, <1>5, <1>10, SameSpec, CallIInv DEF CreateService, cluster
<1>11. ASSUME CreateServiceFails(s) PROVE IInv'
  BY <1>2, <1>3, <1>11, AbortTypes, SameSpec, CallIInv
     DEF CreateServiceFails, cluster, stored
<1>12. ASSUME CreateServiceTimesOut(s) PROVE IInv'
  BY <1>2, <1>3, <1>5, <1>12, SameSpec, CallIInv
     DEF CreateServiceTimesOut, cluster, stored
<1> QED BY <1>6, <1>7, <1>8, <1>9, <1>10, <1>11, <1>12

\* The deletions of a sync and their failures keep the invariant.
LEMMA DeletesIInv == IInv /\ Deletes => IInv'
<1> SUFFICES ASSUME IInv, Deletes PROVE IInv'
  OBVIOUS
<1>1. /\ TypeOK /\ worker \in Workers /\ GoodPlan(spec, worker.plan)
      /\ worker.plan.deletes \subseteq Slots(spec)
      /\ worker.plan.svcDeletes \subseteq Slots(spec)
  BY DEF IInv, TypeOK, Workers, Plans
<1>2. /\ pods \in Views /\ podFeed \in Seq(Views) /\ svcs \subseteq Slots(spec)
      /\ unmet \subseteq {"pods", "services"} \X Types(spec)
      /\ timer \in Nat \union {Never} /\ left \in [FaultKinds -> Nat]
  BY <1>1 DEF TypeOK
<1>3. \A S \in SUBSET Slots(spec) :
         /\ [worker EXCEPT !.plan.deletes = S] \in Workers
         /\ GoodPlan(spec, [worker EXCEPT !.plan.deletes = S].plan)
         /\ [worker EXCEPT !.plan.svcDeletes = S] \in Workers
         /\ GoodPlan(spec, [worker EXCEPT !.plan.svcDeletes = S].plan)
  BY ShorterPlan
<1>4. ASSUME NEW s \in Slots(spec), DeletePod(s) PROVE IInv'
  <2>1. spec' = spec /\ RemovePod(s)
    BY <1>4 DEF DeletePod
  <2>2. pods' \in Views' /\ podFeed' \in Seq(Views)'
    <3>1. CASE UNCHANGED <<pods, podFeed>>
      BY <1>2, <2>1, <3>1, SameSpec
    <3>2. CASE /\ s \in Present(pods)
               /\ \/ ChangePods([pods EXCEPT ![s] = NoPod])
                  \/ ChangePods([pods EXCEPT ![s].dying = TRUE])
      <4>1. /\ [pods EXCEPT ![s] = NoPod] \in Views
            /\ [pods EXCEPT ![s].dying = TRUE] \in Views
        BY <1>1, <3>2, PodTypes
      <4> QED BY <1>1, <2>1, <3>2, <4>1, ChangePodsType
    <3> QED BY <2>1, <3>1, <3>2 DEF RemovePod
  <2>3. worker' \in Workers /\ GoodPlan(spec, worker'.plan)
    BY <1>1, <1>3, <1>4 DEF DeletePod
  <2> QED BY <1>2, <1>4, <2>2, <2>3, CallIInv DEF DeletePod, cluster
<1>5. ASSUME NEW s \in Slots(spec), DeletePodFails(s) PROVE IInv'
  <2>1. worker' \in Workers /\ GoodPlan(spec, worker'.plan)
    <3>1. CASE ~worker.plan.stops
      BY <1>1, <1>3, <1>5, <3>1 DEF DeletePodFails
    <3>2. CASE worker.plan.stops
      <4> DEFINE new == [worker.plan EXCEPT !.deletes = {}, !.svcDeletes = {}]
      <4>1. new \in Plans(spec) /\ new.job = worker.plan.job
            /\ new.wake = worker.plan.wake
        BY <1>1 DEF Workers, Plans
      <4>2. worker' = [worker EXCEPT !.plan = new]
        BY <1>1, <1>5, <3>2 DEF DeletePodFails, Workers, Plans
      <4> QED BY <1>1, <4>1, <4>2 DEF GoodPlan, Workers
    <3> QED BY <3>1, <3>2
  <2> QED BY <1>2, <1>5, <2>1, SameSpec, CallIInv DEF DeletePodFails, stored, cluster
<1>6. ASSUME NEW s \in Slots(spec), DeleteService(s) PROVE IInv'
  <2>1. worker' \in Workers /\ GoodPlan(spec, worker'.plan)
    BY <1>1, <1>3, <1>6 DEF DeleteService
  <2>2. svcs' \subseteq Slots(spec)
    BY <1>2, <1>6 DEF DeleteService
  <2> QED BY <1>2, <1>6, <2>1, <2>2, SameSpec, CallIInv DEF DeleteService, cluster
<1>7. ASSUME DeleteServiceFails PROVE IInv'
  <2>1. worker' \in Workers /\ GoodPlan(spec, worker'.plan)
    BY <1>1, <1>3, <1>7 DEF DeleteServiceFails
  <2> QED BY <1>2, <1>7, <2>1, SameSpec, CallIInv
          DEF DeleteServiceFails, stored, cluster
<1> QED BY <1>4, <1>5, <1>6, <1>7 DEF Deletes

\* An error brings the job that was sent back into the cache.
LEMMA RetryTypes ==
    ASSUME IInv, Retry
    PROVE  /\ worker' \in Workers /\ GoodPlan(spec, worker'.plan)
           /\ cache' \in Jobs(spec) /\ GoodJob(cache')
           /\ timer' \in Nat \union {Never}
<1>1. /\ worker \in Workers /\ GoodPlan(spec, worker.plan)
      /\ worker.plan.job \in Jobs(spec) /\ GoodJob(worker.plan.job)
      /\ timer \in Nat \union {Never}
  BY DEF IInv, TypeOK, Workers, Plans, GoodPlan, GoodJob
<1>2. cache' \in Jobs(spec) /\ GoodJob(cache')
  BY <1>1 DEF Retry
<1>3. CASE worker.tries + 1 < UpdateTries
  <2>1. worker' = [worker EXCEPT !.aliased = TRUE, !.tries = @ + 1]
        /\ UNCHANGED timer
    BY <1>3 DEF Retry
  <2>2. worker.tries + 1 \in Nat /\ worker \in Workers
    BY <1>1 DEF Workers
  <2>3. worker' = [worker EXCEPT !.aliased = TRUE, !.tries = worker.tries + 1]
    BY <2>1
  <2>4. worker' \in Workers /\ worker'.plan = worker.plan
    BY <2>2, <2>3 DEF Workers
  <2> QED BY <1>1, <1>2, <2>1, <2>4
<1>4. CASE ~(worker.tries + 1 < UpdateTries)
  BY <1>2, <1>4, AbortTypes DEF Retry
<1> QED BY <1>3, <1>4

\* Updates that are accepted, refused or lose their reply, and the end of a process.
LEMMA UpdatesIInv ==
    IInv /\ (UpdateAccepted \/ UpdateReplyLost \/ UpdateRejected
       \/ Crash \/ TakeOver) => IInv'
<1> SUFFICES ASSUME IInv, UpdateAccepted \/ UpdateReplyLost \/ UpdateRejected
                            \/ Crash \/ TakeOver
             PROVE  IInv'
  OBVIOUS
<1>1. /\ TypeOK /\ FullSpec(spec) /\ left \in [FaultKinds -> Nat]
      /\ worker.plan.job \in Jobs(spec) /\ GoodJob(worker.plan.job)
      /\ GoodPlan(spec, worker.plan)
  BY DEF IInv, TypeOK, Workers, Plans, GoodPlan, GoodJob
<1>2. ASSUME UpdateAccepted PROVE IInv'
  <2>1. /\ job' = worker.plan.job /\ behind' = TRUE /\ worker' = Idle
        /\ UNCHANGED <<spec, pods, podFeed, svcs, cache, podCache, svcCache, unmet,
                       queued, timer, cluster>>
    BY <1>2 DEF UpdateAccepted, Accepted
  <2>2. TypeOK'
    BY <1>1, <2>1, NewJobIsGood, SameSpec DEF TypeOK, cluster
  <2> QED BY <1>1, <2>1, <2>2, NewJobIsGood, SameSpec DEF IInv, GoodJob
<1>3. ASSUME UpdateReplyLost PROVE IInv'
  <2>1. /\ job' = worker.plan.job /\ behind' = TRUE /\ Retry
        /\ UNCHANGED <<spec, pods, podFeed, svcs, podCache, svcCache, unmet,
                       queued, ready, api, now>>
        /\ left' \in [FaultKinds -> Nat]
    BY <1>1, <1>3, SpendType DEF UpdateReplyLost, Accepted, FaultKinds
  <2>2. TypeOK'
    BY <1>1, <2>1, RetryTypes, SameSpec DEF TypeOK
  <2> QED BY <1>1, <2>1, <2>2, RetryTypes, SameSpec DEF IInv, GoodJob
<1>4. ASSUME UpdateRejected PROVE IInv'
  <2>1. /\ Retry
        /\ UNCHANGED <<spec, stored, behind, podCache, svcCache, unmet, queued,
                       cluster>>
    BY <1>4 DEF UpdateRejected
  <2>2. TypeOK'
    BY <1>1, <2>1, RetryTypes, SameSpec DEF TypeOK, stored, cluster
  <2> QED BY <2>1, <2>2, RetryTypes, SameSpec DEF IInv, GoodJob, stored
<1>5. ASSUME Crash PROVE IInv'
  <2>1. left' \in [FaultKinds -> Nat] /\ <<>> \in Seq(Views) /\ Never \notin Nat
    BY <1>1, <1>5, SpendType DEF Crash, FaultKinds, Never
  <2>2. TypeOK'
    BY <1>1, <1>5, <2>1, NewJobIsGood, SameSpec DEF TypeOK, Crash
  <2> QED BY <1>1, <1>5, <2>2, NewJobIsGood, SameSpec DEF IInv, GoodJob, Crash
<1>6. ASSUME TakeOver PROVE IInv'
  <2>1. left' \in [FaultKinds -> Nat]
    BY <1>1, <1>6, SpendType DEF TakeOver, FaultKinds
  <2>2. TypeOK'
    BY <1>1, <1>6, <2>1, NewJobIsGood, SameSpec DEF TypeOK, TakeOver, stored, Never
  <2> QED BY <1>1, <1>6, <2>2, NewJobIsGood, SameSpec DEF IInv, GoodJob, TakeOver, stored
<1> QED BY <1>2, <1>3, <1>4, <1>5, <1>6

\* Every step keeps the invariant.
LEMMA NextIInv == IInv /\ [Next]_vars => IInv'
<1> SUFFICES ASSUME IInv, [Next]_vars PROVE IInv'
  OBVIOUS
<1>1. CASE Next
  BY <1>1, ClusterIInv, WatchesIInv, SyncIInv, CreatesIInv, DeletesIInv, UpdatesIInv
     DEF Next, Worker
<1>2. CASE UNCHANGED vars
  <2>1. TypeOK'
    BY <1>2, SameSpec DEF IInv, TypeOK, vars, stored, caches, memory, cluster
  <2> QED BY <1>2, <2>1, SameSpec DEF IInv, GoodJob, vars, stored, caches, memory
<1> QED BY <1>1, <1>2

\* The invariant the other results rest on holds in every reachable state of
\* the controller: stored job, cache and plan keep to the rules of jobs at once.
THEOREM Inductive == Spec => []IInv
BY InitIInv, NextIInv, PTL DEF Spec

\* Every step of the controller, the cluster and the watches keeps the types:
\* in particular a sync plans only for slots the job has, counts restarts in
\* naturals and asks for a later sync at a time that exists.
THEOREM TypeCorrect == Spec => []TypeOK
<1>1. IInv => TypeOK
  BY DEF IInv
<1> QED BY <1>1, Inductive, PTL

\* A stored Terminating job without a restart always has the annotation with
\* its final phase, whatever is retried, overwritten or lost.
THEOREM VerdictIsKept == Spec => []SealedHasVerdict
<1>1. IInv => SealedHasVerdict
  BY DEF IInv, GoodJob, SealedHasVerdict
<1> QED BY <1>1, Inductive, PTL

\* No interleaving of failed updates, stale caches and crashes stores more
\* restarts than RestartLimit allows.
THEOREM LimitIsKept == Spec => []RestartsWithinLimit
<1>1. IInv => RestartsWithinLimit
  BY DEF IInv, GoodJob, RestartsWithinLimit
<1> QED BY <1>1, Inductive, PTL

(***************************************************************************)
(* Why an ending phase is final although updates race with the watch: a    *)
(* sync that is about to store a job has the cache on its side or will be  *)
(* refused, and once an ending phase is stored the cache and every sync in *)
(* progress know it.                                                       *)
(***************************************************************************)

Decided(j) == Sealed(j) \/ Ended(j)

\* What the copy j of the job must know of the job that is stored.
Knows(j) == /\ Ended(job) => j.phase = job.phase
            /\ Decided(job) => Decided(j)

Storing == worker.pc = "delete"

Agreement == /\ Storing /\ worker.aliased => cache = worker.plan.job
             /\ Knows(cache)
             /\ worker.pc # "idle" => Knows(worker.plan.job)
             /\ Decided(job) => worker.pc # "create"

\* Before the first sync nobody holds another job than the stored one.
LEMMA InitAgreement == Init => Agreement
<1> SUFFICES ASSUME Init PROVE Agreement
  OBVIOUS
<1>1. worker.pc = "idle" /\ cache = job
  BY DEF Init, Idle
<1> QED BY <1>1 DEF Agreement, Knows, Storing

\* A step of others: the phase of the stored job, the cache and the worker stay.
LEMMA OthersAgree ==
    ASSUME Agreement, job'.phase = job.phase, job'.restart = job.restart,
           cache' = cache, worker' = worker
    PROVE  Agreement'
BY DEF Agreement, Knows, Decided, Sealed, Ended, Storing

\* A sync that decides: its job is in the cache, or will be refused.
LEMMA DecisionAgrees ==
    ASSUME IInv, NEW w \in Workers, Decide(w), job' = job,
           Knows(cache), Knows(w.plan.job)
    PROVE  Agreement'
<1>1. /\ \/ worker'.pc = "idle"
         \/ worker'.plan = w.plan /\ worker'.aliased = w.aliased
      /\ worker'.pc # "create"
      /\ cache' = IF w.aliased THEN w.plan.job ELSE cache
  BY DEF Decide, Idle, Workers
<1> QED BY <1>1 DEF Agreement, Knows, Decided, Sealed, Ended, Storing

\* A refused update, or one whose reply is lost: the cache gets the job that was
\* sent.
LEMMA RetryAgrees ==
    ASSUME IInv, Retry, Storing,
           job' = worker.plan.job \/ (job' = job /\ Knows(worker.plan.job))
    PROVE  Agreement'
<1>1. /\ cache' = worker.plan.job
      /\ \/ worker'.pc = "idle"
         \/ worker'.pc = "delete" /\ worker'.plan = worker.plan
  <2>1. CASE worker.tries + 1 < UpdateTries
    BY <2>1 DEF Retry, IInv, TypeOK, Workers, Storing
  <2>2. CASE ~(worker.tries + 1 < UpdateTries)
    BY <2>2 DEF Retry, Abort, Idle
  <2> QED BY <2>1, <2>2
<1> QED BY <1>1 DEF Agreement, Knows, Decided, Sealed, Ended, Storing

\* A sync reads a job that knows the verdict, and decides one that does.
LEMMA SyncAgrees == IInv /\ Agreement /\ (SyncHandler \/ Commit) => Agreement'
<1> SUFFICES ASSUME IInv, Agreement, SyncHandler \/ Commit PROVE Agreement'
  OBVIOUS
<1>1. /\ FullSpec(spec) /\ worker \in Workers /\ cache \in Jobs(spec)
      /\ HasVerdict(cache) /\ WithinLimit(spec, cache)
      /\ DOMAIN podCache = Slots(spec) /\ svcCache \subseteq Slots(spec)
      /\ now \in Nat
  BY DEF IInv, TypeOK, GoodJob, Views
<1>2. ASSUME SyncHandler PROVE Agreement'
  <2> DEFINE started(plan, changed) ==
               [pc |-> "create", plan |-> plan, gens |-> cache.counts,
                aliased |-> TRUE, update |-> changed, tries |-> 0]
             plans(clock) ==
               ReconcileTrainingJobs(spec, cache, podCache, svcCache,
                                     IF api THEN ready ELSE {}, now, clock)
             goesOn(plan, touched) ==
               LET w == started(plan, touched \/ StatusChanged(plan.job))
               IN  IF NothingToCreate(plan) THEN Decide(w)
                   ELSE worker' = w /\ UNCHANGED <<cache, timer>>
  <2>1. PICK clock \in CreatingClocks, touched \in BOOLEAN :
               \E plan \in plans(clock) : goesOn(plan, touched)
    BY <1>2 DEF SyncHandler
  <2>2. PICK plan \in plans(clock) : goesOn(plan, touched)
    BY <2>1
  <2> DEFINE w == started(plan, touched \/ StatusChanged(plan.job))
  <2>3. job' = job /\ cache.phase \in ReconciledPhases
    BY <1>2 DEF SyncHandler, NeedsSync, stored
  <2>4. plan \in Plans(spec)
    BY <1>1, PlansAreGood DEF GoodPlan
  <2>5. w \in Workers /\ w.plan = plan
    <3>1. (touched \/ StatusChanged(plan.job)) \in BOOLEAN
      BY DEF StatusChanged
    <3> QED BY <1>1, <2>4, <3>1 DEF Workers, Jobs
  <2>6. ~Ended(job) /\ (Decided(job) => Sealed(cache))
    BY <2>3, PhaseFacts DEF Agreement, Knows, Decided, Ended
  <2>7. Decided(job) => NothingToCreate(plan) /\ Decided(plan.job)
    BY <1>1, <2>6, SealedPlans DEF NothingToCreate, Decided
  <2>8. Knows(plan.job) /\ Knows(cache)
    BY <2>6, <2>7 DEF Knows, Agreement
  <2>9. CASE NothingToCreate(plan)
    <3>1. Decide(w)
      BY <2>2, <2>9
    <3> HIDE DEF w
    <3> QED BY <2>3, <2>5, <2>8, <3>1, DecisionAgrees
  <2>10. CASE ~NothingToCreate(plan)
    <3>1. worker' = w /\ cache' = cache /\ w.pc = "create"
      BY <2>2, <2>10
    <3> HIDE DEF w
    <3> QED BY <2>3, <2>5, <2>7, <2>8, <2>10, <3>1
            DEF Agreement, Knows, Decided, Sealed, Ended, Storing
  <2> QED BY <2>9, <2>10
<1>3. ASSUME Commit PROVE Agreement'
  <2>1. worker.pc = "create" /\ Decide(worker) /\ job' = job
    BY <1>3 DEF Commit, stored
  <2>2. Knows(cache) /\ Knows(worker.plan.job)
    BY <2>1 DEF Agreement
  <2> QED BY <1>1, <2>1, <2>2, DecisionAgrees
<1> QED BY <1>2, <1>3

\* A call of a sync leaves the job it is about to store alone.
LEMMA CallAgrees ==
    ASSUME Agreement, job' = job, cache' = cache,
           \/ worker'.pc = "idle"
           \/ /\ worker'.pc = worker.pc /\ worker'.aliased = worker.aliased
              /\ worker'.plan.job = worker.plan.job
    PROVE  Agreement'
BY DEF Agreement, Knows, Decided, Sealed, Ended, Storing

\* Creations and deletions: a sealed job's sync has nothing to create.
LEMMA CallsAgree == IInv /\ Agreement /\ (Creates \/ Deletes) => Agreement'
<1> SUFFICES ASSUME IInv, Agreement, Creates \/ Deletes PROVE Agreement'
  OBVIOUS
<1>1. worker \in Workers /\ worker.plan \in Plans(spec)
  BY DEF IInv, TypeOK, Workers
<1>2. ASSUME NEW s, PodDone(s) \/ ServiceDone(s) \/ Abort
      PROVE  \/ worker'.pc = "idle"
             \/ /\ worker'.pc = worker.pc /\ worker'.aliased = worker.aliased
                /\ worker'.plan.job = worker.plan.job
  BY <1>1, <1>2 DEF PodDone, ServiceDone, Abort, Idle, Workers, Plans
<1>3. ASSUME Creates PROVE Agreement'
  <2>1. PICK s \in Slots(spec) :
           \/ CreatePod(s) \/ CreatePodFails(s)
           \/ CreatePodTimesOut(s) \/ CreatePodReplyLost(s)
           \/ CreateService(s) \/ CreateServiceFails(s)
           \/ CreateServiceTimesOut(s)
    BY <1>3 DEF Creates
  <2>2. /\ job' = job /\ cache' = cache
        /\ PodDone(s) \/ ServiceDone(s) \/ Abort
    BY <2>1 DEF CreatePod, CreatePodFails, CreatePodTimesOut, CreatePodReplyLost,
                CreateService, CreateServiceFails, CreateServiceTimesOut,
                stored, caches
  <2> QED BY <1>2, <2>2, CallAgrees
<1>4. ASSUME Deletes PROVE Agreement'
  <2>1. \/ \E s \in Slots(spec) : DeletePod(s) \/ DeletePodFails(s) \/ DeleteService(s)
        \/ DeleteServiceFails
    BY <1>4 DEF Deletes
  <2>2. job' = job /\ cache' = cache
    BY <2>1 DEF DeletePod, DeletePodFails, DeleteService, DeleteServiceFails,
                stored, caches
  <2>3. \/ \E rest : worker' = [worker EXCEPT !.plan.deletes = rest]
        \/ \E rest : worker' = [worker EXCEPT !.plan.svcDeletes = rest]
        \/ worker' = [worker EXCEPT !.plan.deletes = {}, !.plan.svcDeletes = {}]
    BY <2>1 DEF DeletePod, DeletePodFails, DeleteService, DeleteServiceFails
  <2>4. /\ worker'.pc = worker.pc /\ worker'.aliased = worker.aliased
        /\ worker'.plan.job = worker.plan.job
    BY <1>1, <2>3 DEF Workers, Plans
  <2> QED BY <2>2, <2>4, CallAgrees
<1> QED BY <1>3, <1>4

\* Who changes the stored job: a user who annotates it, and the worker.
LEMMA StoredJobChanges ==
    [Next]_vars =>
      \/ UNCHANGED job
      \/ \E phase \in Annotations : Annotate(phase)
      \/ Storing /\ job' = worker.plan.job /\ UNCHANGED spec
<1> SUFFICES ASSUME [Next]_vars, job' # job
             PROVE  \/ \E phase \in Annotations : Annotate(phase)
                    \/ Storing /\ job' = worker.plan.job /\ UNCHANGED spec
  OBVIOUS
<1>1. CASE \E phase \in Annotations : Annotate(phase)
  BY <1>1
<1>2. CASE UpdateAccepted \/ UpdateReplyLost
  BY <1>2 DEF UpdateAccepted, UpdateReplyLost, Accepted, Updating, Storing
<1>3. Cluster => \E phase \in Annotations : Annotate(phase)
  BY DEF Cluster, StartPod, ImageError, Succeed, PodGone, CollectPod, LosePod,
         Schedule, FailPod, NodeDown, NodeUp, Tick, ApiDown, ApiUp, OnlyPods, stored
<1>4. ~Watches
  BY DEF Watches, DeliverJob, DeliverPods, DeliverNewService, DeliverGoneService,
         ExpectationsExpire, stored
<1>5. ~Creates /\ ~Deletes
  BY DEF Creates, CreatePod, CreatePodFails, CreatePodTimesOut, CreatePodReplyLost,
         CreateService, CreateServiceFails, CreateServiceTimesOut,
         Deletes, DeletePod, DeletePodFails, DeleteService, DeleteServiceFails, stored
<1>6. ~(TimerFires \/ SkipSync \/ SyncHandler \/ Commit \/ UpdateRejected
        \/ Crash \/ TakeOver \/ UNCHANGED vars)
  BY DEF TimerFires, SkipSync, SyncHandler, Commit, UpdateRejected, Crash,
         TakeOver, vars, stored
<1> QED BY <1>1, <1>2, <1>3, <1>4, <1>5, <1>6 DEF Next, Worker

\* Every step keeps the agreement.
LEMMA NextAgreement == IInv /\ Agreement /\ [Next]_vars => Agreement'
<1> SUFFICES ASSUME IInv, Agreement, [Next]_vars PROVE Agreement'
  OBVIOUS
<1>1. CASE Cluster \/ TimerFires \/ SkipSync \/ UNCHANGED vars
  <2>1. job'.phase = job.phase /\ job'.restart = job.restart
    <3>1. CASE UNCHANGED job
      BY <3>1
    <3>2. CASE \E phase \in Annotations : Annotate(phase)
      BY <3>2 DEF Annotate, IInv, TypeOK, Jobs
    <3> QED BY <1>1, <3>1, <3>2
            DEF Cluster, StartPod, ImageError, Succeed, PodGone, CollectPod, LosePod,
                Schedule, FailPod, NodeDown, NodeUp, Tick, ApiDown, ApiUp, OnlyPods,
                TimerFires, SkipSync, vars, stored
  <2>2. cache' = cache /\ worker' = worker
    BY <1>1 DEF Cluster, StartPod, ImageError, Succeed, PodGone, CollectPod, LosePod,
                Schedule, FailPod, NodeDown, NodeUp, Annotate, Tick, ApiDown, ApiUp,
                OnlyPods, TimerFires, SkipSync, vars, caches, memory
  <2> QED BY <2>1, <2>2, OthersAgree
<1>2. CASE Watches
  <2>1. CASE DeliverJob
    <3>1. /\ job' = job /\ cache' = job /\ ~worker'.aliased
          /\ worker'.pc = worker.pc /\ worker'.plan = worker.plan
      BY <2>1 DEF DeliverJob, stored, IInv, TypeOK, Workers
    <3> QED BY <3>1 DEF Agreement, Knows, Decided, Sealed, Ended, Storing
  <2>2. CASE Watches /\ ~DeliverJob
    BY <2>2, OthersAgree
       DEF Watches, DeliverPods, DeliverNewService, DeliverGoneService,
           ExpectationsExpire, stored, caches, memory
  <2> QED BY <1>2, <2>1, <2>2
<1>3. CASE SyncHandler \/ Commit
  BY <1>3, SyncAgrees
<1>4. CASE Creates \/ Deletes
  BY <1>4, CallsAgree
<1>5. CASE UpdateAccepted
  <2>1. job' = worker.plan.job /\ cache' = worker.plan.job /\ worker'.pc = "idle"
    BY <1>5 DEF UpdateAccepted, Accepted, Updating, Idle, Agreement, Storing
  <2> QED BY <2>1 DEF Agreement, Knows, Decided, Sealed, Ended, Storing
<1>6. CASE UpdateReplyLost \/ UpdateRejected
  <2>1. /\ Storing /\ Retry
        /\ job' = worker.plan.job \/ job' = job
    BY <1>6 DEF UpdateReplyLost, UpdateRejected, Accepted, Updating, Storing, stored
  <2>2. Knows(worker.plan.job)
    BY <2>1 DEF Agreement, Storing
  <2> QED BY <2>1, <2>2, RetryAgrees
<1>7. CASE Crash \/ TakeOver
  <2>1. job' = job /\ cache' = job /\ worker'.pc = "idle"
    BY <1>7 DEF Crash, TakeOver, Idle, stored
  <2> QED BY <2>1 DEF Agreement, Knows, Decided, Sealed, Ended, Storing
<1> QED BY <1>1, <1>2, <1>3, <1>4, <1>5, <1>6, <1>7 DEF Next, Worker

\* The worker and its cache always know of a stored verdict or ending: no job
\* they could store takes it back, and no sync that creates outlives it.
THEOREM AgreementHolds == Spec => [](IInv /\ Agreement)
BY InitIInv, NextIInv, InitAgreement, NextAgreement, PTL DEF Spec

\* No retry, stale cache, restart of the operator or late event moves a stored
\* job out of an ending phase: the job a sync would store has that phase too.
THEOREM EndingIsFinal == Spec => EndedIsFinal
<1>1. IInv /\ Agreement /\ [Next]_vars => [Ended(job) => job'.phase = job.phase]_job
  BY StoredJobChanges DEF Agreement, Knows, Storing, Annotate, IInv, TypeOK, Jobs
<1> QED BY <1>1, AgreementHolds, PTL DEF Spec, EndedIsFinal

\* A pod that is removed, or changed, makes no pod.
LEMMA PresentShrinks ==
    ASSUME TypeOK, NEW s \in Present(pods), NEW new
    PROVE  Present([pods EXCEPT ![s] = new]) \subseteq Present(pods)
BY DEF Present, TypeOK, Views

\* The only step that makes a pod belongs to a sync that creates.
LEMMA PodsShrink ==
    IInv /\ [Next]_vars =>
      worker.pc = "create" \/ Present(pods)' \subseteq Present(pods)
<1> SUFFICES ASSUME IInv, [Next]_vars, worker.pc # "create"
             PROVE  Present(pods') \subseteq Present(pods)
  OBVIOUS
<1>1. TypeOK
  BY DEF IInv
<1>2. CASE UNCHANGED pods
  BY <1>2
<1>3. ASSUME NEW s \in Present(pods),
             \/ StartPod(s) \/ ImageError(s) \/ Succeed(s)
             \/ PodGone(s) \/ CollectPod(s) \/ LosePod(s)
             \/ \E n \in Nodes : Schedule(s, n)
             \/ \E codes \in ExitCodes : FailPod(s, codes)
      PROVE  Present(pods') \subseteq Present(pods)
  <2>1. \E new : pods' = [pods EXCEPT ![s] = new]
    BY <1>3 DEF StartPod, ImageError, Succeed, PodGone, CollectPod, LosePod,
                Schedule, FailPod, SetState, ChangePods
  <2> QED BY <1>1, <2>1, PresentShrinks
<1>4. ASSUME NEW s \in Slots(spec), DeletePod(s)
      PROVE  Present(pods') \subseteq Present(pods)
  <2>1. \/ UNCHANGED pods
        \/ s \in Present(pods) /\ \E new : pods' = [pods EXCEPT ![s] = new]
    BY <1>4 DEF DeletePod, RemovePod, ChangePods
  <2> QED BY <1>1, <2>1, PresentShrinks
<1>5. Cluster =>
        \/ UNCHANGED pods
        \/ \E s \in Present(pods) :
              \/ StartPod(s) \/ ImageError(s) \/ Succeed(s)
              \/ PodGone(s) \/ CollectPod(s) \/ LosePod(s)
              \/ \E n \in Nodes : Schedule(s, n)
              \/ \E codes \in ExitCodes : FailPod(s, codes)
  BY DEF Cluster, NodeDown, NodeUp, Annotate, Tick, ApiDown, ApiUp, stored
<1>6. Watches => UNCHANGED pods
  BY DEF Watches, DeliverJob, DeliverPods, DeliverNewService, DeliverGoneService,
         ExpectationsExpire, stored
<1>7. ~Creates
  BY DEF Creates, CreatePod, CreatePodFails, CreatePodTimesOut, CreatePodReplyLost,
         CreateService, CreateServiceFails, CreateServiceTimesOut,
         MayCreatePod, MayCreateService
<1>8. Deletes => UNCHANGED pods \/ \E s \in Slots(spec) : DeletePod(s)
  BY DEF Deletes, DeletePodFails, DeleteService, DeleteServiceFails, stored
<1>9. TimerFires \/ SkipSync \/ SyncHandler \/ Commit \/ UpdateAccepted
        \/ UpdateRejected \/ UpdateReplyLost \/ Crash \/ TakeOver \/ UNCHANGED vars
        => UNCHANGED pods
  BY DEF TimerFires, SkipSync, SyncHandler, Commit, UpdateAccepted, UpdateRejected,
         UpdateReplyLost, Crash, TakeOver, vars, stored
<1> QED BY <1>2, <1>3, <1>4, <1>5, <1>6, <1>7, <1>8, <1>9 DEF Next, Worker

\* Once a verdict is stored no pod of the job is ever made: no sync that began
\* earlier is still creating, and every later one reads the verdict in its cache.
THEOREM VerdictStopsCreation == Spec => NoPodsAfterVerdict
<1>1. IInv /\ Agreement /\ [Next]_vars =>
        [Sealed(job) \/ Ended(job) => Present(pods)' \subseteq Present(pods)]_<<job, pods>>
  BY PodsShrink DEF Agreement, Decided
<1> QED BY <1>1, AgreementHolds, PTL DEF Spec, NoPodsAfterVerdict
==============================================================================
