------------------------------ MODULE PodProofs ------------------------------
(***************************************************************************)
(* What the copies of the job say of its pods, for every specification,    *)
(* every number of nodes, faults and tries: when a job is released, when   *)
(* it has succeeded, and that a restart of all pods is a barrier.          *)
(*                                                                         *)
(* Each of these results speaks of what the API server stores, the job and *)
(* the pods; each is shown by saying the same of every copy of the job,    *)
(* the cached one and the one a sync is about to store, and by following   *)
(* the pods from the cache a sync read to the pods there are now.          *)
(***************************************************************************)
EXTENDS TrainingJobControllerProofs, SequenceTheorems

\* The job as the API server, the cache and the sync in progress have it.
Copies == {job, cache} \union (IF worker.pc = "idle" THEN {} ELSE {worker.plan.job})

\* A sync that still has a pod to make.
Creating == worker.pc = "create" /\ worker.plan.creates # {}

\* The watch ends with the pods there are.
LastShown == pods = IF podFeed = <<>> THEN podCache ELSE podFeed[Len(podFeed)]

(***************************************************************************)
(* How a step moves the copies, the worker and the pods.                   *)
(***************************************************************************)

SameRestarts(j, k) == j.counts = k.counts /\ j.restart = k.restart

\* A sync starts from an open job and current or old caches; it decides at once
\* or has something to make first.
LEMMA SyncStarts ==
    ASSUME IInv, SyncHandler
    PROVE  /\ worker.pc = "idle" /\ (Prompt => Synced)
           /\ StaysOpen(spec, cache) /\ Types(spec) # {}
           /\ UNCHANGED <<spec, job, pods, podFeed, svcs, behind, podCache, svcCache,
                          api, left>>
           /\ \E nodes, clock :
                \E plan \in ReconcileTrainingJobs(spec, cache, podCache, svcCache,
                                                  nodes, now, clock) :
                  /\ plan \in Plans(spec)
                  /\ \/ /\ NothingToCreate(plan) /\ cache' = plan.job
                        /\ \/ worker' = Idle /\ SameRestarts(plan.job, cache)
                           \/ /\ worker'.pc = "delete" /\ worker'.plan = plan
                              /\ worker'.aliased
                     \/ /\ ~NothingToCreate(plan) /\ cache' = cache
                        /\ worker'.pc = "create" /\ worker'.plan = plan
                        /\ worker'.gens = cache.counts /\ worker'.aliased
                        /\ worker'.update \/ SameRestarts(plan.job, cache)
<1> DEFINE started(plan, changed) ==
             [pc |-> "create", plan |-> plan, gens |-> cache.counts,
              aliased |-> TRUE, update |-> changed, tries |-> 0]
           nodes == IF api THEN ready ELSE {}
           plans(clock) ==
             ReconcileTrainingJobs(spec, cache, podCache, svcCache, nodes, now, clock)
           goesOn(plan, touched) ==
             LET w == started(plan, touched \/ StatusChanged(plan.job))
             IN  IF NothingToCreate(plan) THEN Decide(w)
                 ELSE worker' = w /\ UNCHANGED <<cache, timer>>
<1>1. /\ FullSpec(spec) /\ cache \in Jobs(spec) /\ DOMAIN podCache = Slots(spec)
      /\ HasVerdict(cache) /\ WithinLimit(spec, cache)
      /\ svcCache \subseteq Slots(spec) /\ now \in Nat
  BY DEF IInv, TypeOK, GoodJob, Views
<1>2. /\ worker.pc = "idle" /\ (Prompt => Synced)
      /\ UNCHANGED <<spec, job, pods, podFeed, svcs, behind, podCache, svcCache,
                     api, left>>
      /\ cache.phase \in ReconciledPhases /\ SatisfiedExpectations
  BY DEF SyncHandler, TakeKey, NeedsSync, stored, cluster
<1>3. StaysOpen(spec, cache) /\ Types(spec) # {}
  BY <1>1, <1>2, PhaseFacts DEF StaysOpen, Ended, SatisfiedExpectations
<1>4. PICK clock \in CreatingClocks, touched \in BOOLEAN :
             \E plan \in plans(clock) : goesOn(plan, touched)
  BY DEF SyncHandler
<1>5. PICK plan \in plans(clock) : goesOn(plan, touched)
  BY <1>4
<1> DEFINE w == started(plan, touched \/ StatusChanged(plan.job))
<1>6. plan \in Plans(spec)
  BY <1>1, PlansAreGood DEF GoodPlan
<1>7. /\ w.pc = "create" /\ w.plan = plan /\ w.gens = cache.counts /\ w.aliased
      /\ [w EXCEPT !.pc = "delete"].pc = "delete"
      /\ [w EXCEPT !.pc = "delete"].plan = plan
      /\ [w EXCEPT !.pc = "delete"].aliased
  OBVIOUS
<1>8. w.update \/ SameRestarts(plan.job, cache)
  <2>1. plan.job \in Jobs(spec)
    BY <1>6 DEF Plans
  <2>2. {"counts", "restart"} \subseteq DOMAIN plan.job \ {"annotations"}
    BY <2>1 DEF Jobs
  <2>3. StatusChanged(plan.job) \/ SameRestarts(plan.job, cache)
    <3>1. ~StatusChanged(plan.job) => plan.job["counts"] = cache["counts"]
                                      /\ plan.job["restart"] = cache["restart"]
      BY <2>2 DEF StatusChanged
    <3> QED BY <3>1 DEF SameRestarts
  <2> QED BY <2>3
<1>9. \/ NothingToCreate(plan) /\ Decide(w)
      \/ ~NothingToCreate(plan) /\ worker' = w /\ cache' = cache
  BY <1>5
<1> HIDE DEF w
<1>10. \/ /\ NothingToCreate(plan) /\ cache' = plan.job
          /\ \/ worker' = Idle /\ SameRestarts(plan.job, cache)
             \/ worker'.pc = "delete" /\ worker'.plan = plan /\ worker'.aliased
       \/ /\ ~NothingToCreate(plan) /\ cache' = cache
          /\ worker'.pc = "create" /\ worker'.plan = plan
          /\ worker'.gens = cache.counts /\ worker'.aliased
          /\ worker'.update \/ SameRestarts(plan.job, cache)
  BY <1>7, <1>8, <1>9 DEF Decide
<1> HIDE DEF goesOn, nodes
<1> QED BY <1>2, <1>3, <1>5, <1>6, <1>10

\* The worker stops, or goes on with what is left of the same plan.
WorkerMoves ==
    \/ worker'.pc = "idle"
    \/ /\ worker.pc # "idle" /\ (worker'.pc = "create" => worker.pc = "create")
       /\ worker'.plan.job = worker.plan.job /\ worker'.gens = worker.gens
       /\ worker'.plan.creates \subseteq worker.plan.creates
       /\ worker'.plan.deletes \subseteq worker.plan.deletes

\* But for the start of a sync and for users, a step only moves a copy of the job
\* to the place of another.
LEMMA CopiesMove ==
    ASSUME IInv, [Next]_vars
    PROVE  \/ SyncHandler
           \/ /\ spec' = spec /\ WorkerMoves
              /\ job' \in Copies \/ \E phase \in Annotations : Annotate(phase)
              /\ cache' \in Copies
<1>1. worker \in Workers /\ worker.plan \in Plans(spec)
  BY DEF IInv, TypeOK, Workers
<1>2. worker' = worker => WorkerMoves
  BY <1>1 DEF WorkerMoves, Workers
<1>3. CASE Cluster \/ TimerFires \/ SkipSync \/ UNCHANGED vars
  <2>1. /\ spec' = spec /\ cache' = cache /\ worker' = worker
        /\ job' = job \/ \E phase \in Annotations : Annotate(phase)
    BY <1>3 DEF Cluster, StartPod, ImageError, Succeed, PodGone, CollectPod, LosePod,
                Schedule, FailPod, NodeDown, NodeUp, Annotate, Tick, ApiDown, ApiUp,
                OnlyPods, TimerFires, SkipSync, vars, stored, caches, memory
  <2> QED BY <1>2, <2>1 DEF Copies
<1>4. CASE Watches \/ Crash \/ TakeOver
  <2>1. spec' = spec /\ job' = job /\ cache' \in {cache, job}
    BY <1>4 DEF Watches, DeliverJob, DeliverPods, DeliverNewService,
                DeliverGoneService, ExpectationsExpire, Crash, TakeOver, stored, caches
  <2>2. \/ worker' \in {worker, Idle}
        \/ worker' = [worker EXCEPT !.aliased = FALSE]
    BY <1>4 DEF Watches, DeliverJob, DeliverPods, DeliverNewService,
                DeliverGoneService, ExpectationsExpire, Crash, TakeOver, memory
  <2>3. WorkerMoves
    BY <1>1, <1>2, <2>2 DEF WorkerMoves, Idle, Workers
  <2> QED BY <2>1, <2>3 DEF Copies
<1>5. CASE Commit
  <2>1. /\ spec' = spec /\ job' = job /\ worker.pc = "create"
        /\ cache' \in {cache, worker.plan.job}
        /\ worker' \in {Idle, [worker EXCEPT !.pc = "delete"]}
    BY <1>5 DEF Commit, Decide, stored
  <2>2. WorkerMoves
    BY <1>1, <2>1 DEF WorkerMoves, Idle, Workers
  <2> QED BY <2>1, <2>2 DEF Copies
<1>6. CASE Creates
  <2>1. PICK s \in Slots(spec) :
           \/ CreatePod(s) \/ CreatePodFails(s)
           \/ CreatePodTimesOut(s) \/ CreatePodReplyLost(s)
           \/ CreateService(s) \/ CreateServiceFails(s)
           \/ CreateServiceTimesOut(s)
    BY <1>6 DEF Creates
  <2>2. /\ spec' = spec /\ job' = job /\ cache' = cache /\ worker.pc # "idle"
        /\ PodDone(s) \/ ServiceDone(s) \/ Abort
    BY <2>1 DEF CreatePod, CreatePodFails, CreatePodTimesOut, CreatePodReplyLost,
                CreateService, CreateServiceFails, CreateServiceTimesOut,
                MayCreatePod, MayCreateService, stored, caches
  <2>3. WorkerMoves
    BY <1>1, <2>2 DEF WorkerMoves, PodDone, ServiceDone, Abort, Idle, Workers, Plans
  <2> QED BY <2>2, <2>3 DEF Copies
<1>7. CASE Deletes
  <2>1. \/ \E s \in Slots(spec) : DeletePod(s) \/ DeletePodFails(s) \/ DeleteService(s)
        \/ DeleteServiceFails
    BY <1>7 DEF Deletes
  <2>2. spec' = spec /\ job' = job /\ cache' = cache /\ worker.pc # "idle"
    BY <2>1 DEF DeletePod, DeletePodFails, DeleteService, DeleteServiceFails,
                Deleting, DeletingServices, stored, caches
  <2>3. \/ \E s : worker' = [worker EXCEPT !.plan.deletes = @ \ {s}]
        \/ \E s : worker' = [worker EXCEPT !.plan.svcDeletes = @ \ {s}]
        \/ worker' = [worker EXCEPT !.plan.svcDeletes = {}]
        \/ worker' = [worker EXCEPT !.plan.deletes = {}, !.plan.svcDeletes = {}]
    BY <2>1 DEF DeletePod, DeletePodFails, DeleteService, DeleteServiceFails
  <2>4. /\ worker'.pc = worker.pc /\ worker'.plan.job = worker.plan.job
        /\ worker'.plan.creates = worker.plan.creates /\ worker'.gens = worker.gens
        /\ worker'.plan.deletes \subseteq worker.plan.deletes
    <3>1. CASE \E s : worker' = [worker EXCEPT !.plan.deletes = @ \ {s}]
      BY <1>1, <3>1 DEF Workers, Plans
    <3>2. CASE \E s : worker' = [worker EXCEPT !.plan.svcDeletes = @ \ {s}]
      BY <1>1, <3>2 DEF Workers, Plans
    <3>3. CASE worker' = [worker EXCEPT !.plan.svcDeletes = {}]
      BY <1>1, <3>3 DEF Workers, Plans
    <3>4. CASE worker' = [worker EXCEPT !.plan.deletes = {}, !.plan.svcDeletes = {}]
      BY <1>1, <3>4 DEF Workers, Plans
    <3> QED BY <2>3, <3>1, <3>2, <3>3, <3>4
  <2>5. WorkerMoves
    BY <2>2, <2>4 DEF WorkerMoves
  <2> QED BY <2>2, <2>5 DEF Copies
<1>8. CASE UpdateAccepted \/ UpdateReplyLost \/ UpdateRejected
  <2>1. /\ spec' = spec /\ worker.pc = "delete"
        /\ job' \in {job, worker.plan.job}
        /\ \/ cache' = cache /\ worker' = Idle
           \/ Retry
    BY <1>8 DEF UpdateAccepted, UpdateReplyLost, UpdateRejected, Accepted, Updating,
                stored
  <2>2. /\ cache' \in {cache, worker.plan.job}
        /\ \/ worker' = Idle
           \/ \E n : worker' = [worker EXCEPT !.aliased = TRUE, !.tries = n]
    BY <2>1 DEF Retry, Abort
  <2>3. CASE worker' = Idle
    BY <2>1, <2>2, <2>3 DEF WorkerMoves, Idle, Copies
  <2>4. ASSUME NEW n, worker' = [worker EXCEPT !.aliased = TRUE, !.tries = n]
        PROVE  WorkerMoves
    <3>1. /\ worker'.pc = worker.pc /\ worker'.plan = worker.plan
          /\ worker'.gens = worker.gens
      BY <1>1, <2>4 DEF Workers
    <3> QED BY <2>1, <3>1 DEF WorkerMoves
  <2> QED BY <2>1, <2>2, <2>3, <2>4 DEF Copies
<1> QED BY <1>3, <1>4, <1>5, <1>6, <1>7, <1>8 DEF Next, Worker

\* The pod of a slot becomes another one, or none; the watch will tell.
PodBecomes(s, new) == /\ pods' = [pods EXCEPT ![s] = new]
                      /\ podFeed' = Append(podFeed, pods')
                      /\ podCache' = podCache

\* The pods stay; the cache may be told of them.
PodsAreShown ==
    /\ pods' = pods
    /\ \/ UNCHANGED <<podCache, podFeed>>
       \/ podFeed # <<>> /\ podCache' = Head(podFeed) /\ podFeed' = Tail(podFeed)
       \/ podCache' = pods /\ podFeed' = <<>> /\ worker'.pc = "idle"

\* A pod goes that was told to, is deleted by a sync, or is lost.
PodGoes(s) ==
    /\ s \in Present(pods) /\ PodBecomes(s, NoPod)
    /\ \/ pods[s].dying \/ left["podLoss"] > 0
       \/ worker.pc = "delete" /\ s \in worker.plan.deletes

\* A pod lives on: a success is not undone, and only a sync tells it to stop.
PodLives(s, new) ==
    /\ s \in Present(pods) /\ new \in Pod /\ PodBecomes(s, new)
    /\ new.gen = pods[s].gen
    /\ pods[s].state = "Succeeded" => new.state = "Succeeded"
    /\ new.dying =>
         pods[s].dying \/ (worker.pc = "delete" /\ s \in worker.plan.deletes)

\* A sync makes a pod where there is none.
PodIsMade(s) ==
    /\ worker.pc = "create" /\ s \in worker.plan.creates /\ s \notin Present(pods)
    /\ PodBecomes(s, NewPod(worker.gens[s[1]]))

\* What the cluster does to a pod.
LEMMA ClusterPods ==
    ASSUME IInv, Cluster
    PROVE  \/ PodsAreShown
           \/ \E s \in Slots(spec) : PodGoes(s) \/ \E new : PodLives(s, new)
<1>1. pods \in [Slots(spec) -> Pod \union {NoPod}]
  BY DEF IInv, TypeOK, Views
<1>2. \A s \in Present(pods) : s \in Slots(spec) /\ pods[s] \in Pod
  BY <1>1 DEF Present
<1>3. OnlyPods => podCache' = podCache
  BY DEF OnlyPods, caches
<1>4. CASE \/ \E n \in Nodes : NodeDown(n) \/ NodeUp(n)
           \/ \E phase \in Annotations : Annotate(phase)
           \/ Tick \/ ApiDown \/ ApiUp
  BY <1>4 DEF NodeDown, NodeUp, Annotate, Tick, ApiDown, ApiUp, PodsAreShown,
              stored, caches
<1>5. ASSUME NEW s \in Present(pods),
             PodGone(s) \/ CollectPod(s) \/ LosePod(s)
      PROVE  PodGoes(s)
  BY <1>3, <1>5 DEF PodGone, CollectPod, LosePod, Spend, ChangePods, PodGoes, PodBecomes
<1>6. ASSUME NEW s \in Present(pods), NEW state \in PodStates,
             NEW codes \in ExitCodes \union {{}, {0}},
             SetState(s, state, codes), OnlyPods,
             pods[s].state = "Succeeded" => state = "Succeeded"
      PROVE  \E new : PodLives(s, new)
  <2> DEFINE new == [pods[s] EXCEPT !.state = state, !.exit = codes]
  <2>1. [pods EXCEPT ![s].state = state, ![s].exit = codes] = [pods EXCEPT ![s] = new]
    BY <1>1, <1>2
  <2>2. new \in Pod /\ new.gen = pods[s].gen /\ new.dying = pods[s].dying
        /\ new.state = state
    BY <1>2 DEF Pod
  <2>3. PodBecomes(s, new)
    BY <1>3, <1>6, <2>1 DEF SetState, ChangePods, PodBecomes
  <2> HIDE DEF new
  <2> QED BY <1>6, <2>2, <2>3 DEF PodLives
<1>7. ASSUME NEW s \in Present(pods), NEW n \in Nodes, Schedule(s, n)
      PROVE  \E new : PodLives(s, new)
  <2> DEFINE new == [pods[s] EXCEPT !.node = n]
  <2>1. [pods EXCEPT ![s].node = n] = [pods EXCEPT ![s] = new]
    BY <1>1, <1>2
  <2>2. new \in Pod /\ new.gen = pods[s].gen /\ new.dying = pods[s].dying
        /\ new.state = pods[s].state
    BY <1>2 DEF Pod
  <2>3. PodBecomes(s, new)
    BY <1>3, <1>7, <2>1 DEF Schedule, ChangePods, PodBecomes
  <2> HIDE DEF new
  <2> QED BY <2>2, <2>3 DEF PodLives
<1>8. {"ImageError", "Running", "Succeeded", "Failed"} \subseteq PodStates
  BY DEF PodStates
<1>9. ASSUME NEW s \in Present(pods), StartPod(s) \/ ImageError(s) \/ Succeed(s)
      PROVE  \E new : PodLives(s, new)
  BY <1>6, <1>8, <1>9 DEF StartPod, ImageError, Succeed, IsPendingPod
<1>10. ASSUME NEW s \in Present(pods), NEW codes \in ExitCodes, FailPod(s, codes)
       PROVE  \E new : PodLives(s, new)
  BY <1>6, <1>8, <1>10 DEF FailPod
<1> QED BY <1>2, <1>4, <1>5, <1>7, <1>9, <1>10 DEF Cluster

\* What a sync does to a pod.
LEMMA CallPods ==
    ASSUME IInv, Creates \/ Deletes
    PROVE  \/ PodsAreShown
           \/ \E s \in Slots(spec) :
                PodGoes(s) \/ PodIsMade(s) \/ \E new : PodLives(s, new)
<1>1. pods \in [Slots(spec) -> Pod \union {NoPod}]
  BY DEF IInv, TypeOK, Views
<1>2. ASSUME NEW s \in Slots(spec), CreatePod(s) \/ CreatePodReplyLost(s)
      PROVE  PodIsMade(s)
  BY <1>2 DEF CreatePod, CreatePodReplyLost, MayCreatePod, AddPod, ChangePods,
              PodIsMade, PodBecomes, caches
<1>3. ASSUME NEW s \in Slots(spec), DeletePod(s)
      PROVE  PodsAreShown \/ PodGoes(s) \/ \E new : PodLives(s, new)
  <2> DEFINE new == [pods[s] EXCEPT !.dying = TRUE]
  <2>1. /\ worker.pc = "delete" /\ s \in worker.plan.deletes
        /\ RemovePod(s) /\ podCache' = podCache
    BY <1>3 DEF DeletePod, Deleting, caches
  <2>2. CASE UNCHANGED <<pods, podFeed>>
    BY <2>1, <2>2 DEF PodsAreShown
  <2>3. CASE s \in Present(pods) /\ ChangePods([pods EXCEPT ![s] = NoPod])
    BY <2>1, <2>3 DEF ChangePods, PodGoes, PodBecomes
  <2>4. CASE s \in Present(pods) /\ ChangePods([pods EXCEPT ![s].dying = TRUE])
    <3>1. pods[s] \in Pod
      BY <1>1, <2>4 DEF Present
    <3>2. [pods EXCEPT ![s].dying = TRUE] = [pods EXCEPT ![s] = new]
      BY <1>1, <3>1
    <3>3. new \in Pod /\ new.gen = pods[s].gen /\ new.state = pods[s].state
      BY <3>1 DEF Pod
    <3>4. PodBecomes(s, new)
      BY <2>1, <2>4, <3>2 DEF ChangePods, PodBecomes
    <3> HIDE DEF new
    <3> QED BY <2>1, <2>4, <3>3, <3>4 DEF PodLives
  <2> QED BY <2>1, <2>2, <2>3, <2>4 DEF RemovePod
<1>4. Creates => \/ PodsAreShown
                 \/ \E s \in Slots(spec) : CreatePod(s) \/ CreatePodReplyLost(s)
  BY DEF Creates, CreatePodFails, CreatePodTimesOut, CreateService,
         CreateServiceFails, CreateServiceTimesOut, PodsAreShown, stored, caches
<1>5. Deletes => PodsAreShown \/ \E s \in Slots(spec) : DeletePod(s)
  BY DEF Deletes, DeletePodFails, DeleteService, DeleteServiceFails, PodsAreShown,
         stored, caches
<1> QED BY <1>2, <1>3, <1>4, <1>5

\* A step shows the cache the pods that are, or changes the pod of one slot.
LEMMA PodMoves ==
    ASSUME IInv, [Next]_vars
    PROVE  \/ PodsAreShown
           \/ \E s \in Slots(spec) :
                PodGoes(s) \/ PodIsMade(s) \/ \E new : PodLives(s, new)
<1>1. Watches => PodsAreShown
  BY DEF Watches, DeliverJob, DeliverPods, DeliverNewService, DeliverGoneService,
         ExpectationsExpire, PodsAreShown, stored, caches
<1>2. TimerFires \/ SkipSync \/ SyncHandler \/ Commit \/ UpdateAccepted
        \/ UpdateRejected \/ UpdateReplyLost \/ TakeOver \/ UNCHANGED vars
        => PodsAreShown
  BY DEF TimerFires, SkipSync, SyncHandler, Commit, UpdateAccepted, UpdateRejected,
         UpdateReplyLost, TakeOver, PodsAreShown, vars, stored, caches
<1>3. Crash => PodsAreShown
  BY DEF Crash, PodsAreShown, Idle
<1> QED BY <1>1, <1>2, <1>3, ClusterPods, CallPods DEF Next, Worker

\* Where pods come and go: only what a sync makes is new.
LEMMA PodsPresent ==
    ASSUME IInv
    PROVE  /\ \A s \in Slots(spec) : PodGoes(s) => Present(pods') = Present(pods) \ {s}
           /\ \A s \in Slots(spec) : \A new :
                PodLives(s, new) => Present(pods') = Present(pods)
           /\ \A s \in Slots(spec) :
                PodIsMade(s) => Present(pods') = Present(pods) \union {s}
<1>1. pods \in [Slots(spec) -> Pod \union {NoPod}]
  BY DEF IInv, TypeOK, Views
<1>2. NoPod \notin Pod
  BY NoPodAssumption
<1>3. \A s \in Slots(spec) : NewPod(worker.gens[s[1]]) \in Pod
  <2> TAKE s \in Slots(spec)
  <2>1. s[1] \in Types(spec)
    BY DEF Slots, SlotsOf
  <2>2. worker.gens[s[1]] \in Nat
    BY <2>1 DEF IInv, TypeOK, Workers
  <2> QED BY <2>2 DEF NewPod, Pod, PodStates
<1>4. ASSUME NEW s \in Slots(spec), NEW new, pods' = [pods EXCEPT ![s] = new]
      PROVE  /\ new = NoPod => Present(pods') = Present(pods) \ {s}
             /\ new # NoPod => Present(pods') = Present(pods) \union {s}
  BY <1>1, <1>4 DEF Present
<1>5. ASSUME NEW s \in Slots(spec), PodGoes(s)
      PROVE  Present(pods') = Present(pods) \ {s}
  BY <1>4, <1>5 DEF PodGoes, PodBecomes
<1>6. ASSUME NEW s \in Slots(spec), NEW new, PodLives(s, new)
      PROVE  Present(pods') = Present(pods)
  <2>1. Present(pods') = Present(pods) \union {s}
    BY <1>2, <1>4, <1>6 DEF PodLives, PodBecomes
  <2> QED BY <1>6, <2>1 DEF PodLives
<1>7. ASSUME NEW s \in Slots(spec), PodIsMade(s)
      PROVE  Present(pods') = Present(pods) \union {s}
  <2>1. pods' = [pods EXCEPT ![s] = NewPod(worker.gens[s[1]])]
    BY <1>7 DEF PodIsMade, PodBecomes
  <2> QED BY <1>2, <1>3, <1>4, <2>1
<1> QED BY <1>5, <1>6, <1>7

\* In every state the last pods the watch has to deliver are those there are.
LEMMA NextLastShown ==
    ASSUME IInv, LastShown, [Next]_vars
    PROVE  LastShown'
<1>1. podFeed \in Seq(Views)
  BY DEF IInv, TypeOK
<1>2. CASE \E s, new : PodBecomes(s, new)
  <2>1. podFeed' = Append(podFeed, pods')
    BY <1>2 DEF PodBecomes
  <2>2. podFeed' # <<>> /\ podFeed'[Len(podFeed')] = pods'
    BY <1>1, <2>1
  <2> QED BY <2>2 DEF LastShown
<1>3. CASE PodsAreShown
  <2>1. CASE podFeed # <<>> /\ podCache' = Head(podFeed) /\ podFeed' = Tail(podFeed)
    <3>1. CASE Len(podFeed) = 1
      <4>1. podFeed' \in Seq(Views) /\ Len(podFeed') = 0
            /\ podCache' = podFeed[Len(podFeed)]
        BY <1>1, <2>1, <3>1
      <4>2. podFeed' = <<>>
        BY <4>1
      <4> QED BY <1>3, <2>1, <4>1, <4>2 DEF LastShown, PodsAreShown
    <3>2. CASE Len(podFeed) # 1
      <4> DEFINE n == Len(podFeed)
      <4>0. n \in Nat \ {0}
        BY <1>1, <2>1, EmptySeq
      <4>1. n \in Nat /\ n > 1
        BY <3>2, <4>0
      <4>2. Len(podFeed') = n - 1 /\ \A i \in 1 .. n - 1 : podFeed'[i] = podFeed[i + 1]
        BY <1>1, <2>1
      <4>3. podFeed' # <<>> /\ podFeed'[n - 1] = podFeed[n]
        BY <4>1, <4>2
      <4> QED BY <1>3, <2>1, <4>2, <4>3 DEF LastShown, PodsAreShown
    <3> QED BY <3>1, <3>2
  <2> QED BY <1>3, <2>1 DEF LastShown, PodsAreShown
<1> QED BY <1>2, <1>3, PodMoves DEF PodGoes, PodIsMade, PodLives

\* The first list of the pods is empty, and there are none.
LEMMA InitLastShown == Init => LastShown
BY DEF Init, LastShown

(***************************************************************************)
(* What the annotations of an open job are: those of users.  The ones the  *)
(* controller adds come with a verdict.                                    *)
(***************************************************************************)

UsersAnnotate == \A k \in Copies : Decided(k) \/ k.annotations \subseteq Annotations

\* A new job has no annotation.
LEMMA InitUsersAnnotate == Init => UsersAnnotate
BY DEF Init, UsersAnnotate, Copies, Idle, NewJob

\* A sync leaves the annotations of a job without verdict as they are.
LEMMA NextUsersAnnotate ==
    ASSUME IInv, UsersAnnotate, [Next]_vars
    PROVE  UsersAnnotate'
<1>1. FullSpec(spec) /\ job \in Jobs(spec) /\ now \in Nat
  BY DEF IInv, TypeOK
<1>2. CASE SyncHandler
  <2>1. StaysOpen(spec, cache) /\ job' = job
    BY <1>2, SyncStarts
  <2>2. PICK nodes, clock :
           \E plan \in ReconcileTrainingJobs(spec, cache, podCache, svcCache,
                                             nodes, now, clock) :
             /\ cache' \in {cache, plan.job}
             /\ worker' = Idle \/ worker'.plan = plan
    BY <1>2, SyncStarts, Zenon
  <2>3. PICK plan \in ReconcileTrainingJobs(spec, cache, podCache, svcCache,
                                            nodes, now, clock) :
           /\ cache' \in {cache, plan.job}
           /\ worker' = Idle \/ worker'.plan = plan
    BY <2>2
  <2>4. Decided(plan.job) \/ plan.job.annotations = cache.annotations
    BY <1>1, <2>1, PlansAreJustified DEF Decided
  <2>5. ~Decided(plan.job) => ~Sealed(cache)
    <3>1. Sealed(cache) => Sealed(plan.job) \/ Ended(plan.job)
      BY <2>1, SealedPlans DEF IInv, GoodJob, StaysOpen
    <3> QED BY <3>1 DEF Decided
  <2>6. Decided(plan.job) \/ plan.job.annotations \subseteq Annotations
    BY <2>1, <2>4, <2>5 DEF UsersAnnotate, Copies, Decided, StaysOpen
  <2>7. Copies' \subseteq {job, cache, plan.job}
    BY <2>1, <2>3 DEF Copies, Idle
  <2> QED BY <2>6, <2>7 DEF UsersAnnotate, Copies, Decided
<1>3. CASE /\ spec' = spec /\ WorkerMoves
           /\ job' \in Copies \/ \E phase \in Annotations : Annotate(phase)
           /\ cache' \in Copies
  <2>1. Copies' \subseteq Copies \union {job'}
    BY <1>3 DEF Copies, WorkerMoves
  <2>2. CASE \E phase \in Annotations : Annotate(phase)
    <3>1. PICK phase \in Annotations :
             job' = [job EXCEPT !.annotations = @ \union {phase}]
      BY <2>2 DEF Annotate
    <3>2. /\ job'.annotations = job.annotations \union {phase}
          /\ job'.phase = job.phase /\ job'.restart = job.restart
      BY <1>1, <3>1 DEF Jobs
    <3>3. Decided(job') \/ job'.annotations \subseteq Annotations
      BY <3>2 DEF UsersAnnotate, Copies, Decided, Sealed, Ended
    <3> QED BY <2>1, <3>3 DEF UsersAnnotate, Decided
  <2> QED BY <1>3, <2>1, <2>2 DEF UsersAnnotate, Decided
<1> QED BY <1>2, <1>3, CopiesMove

(***************************************************************************)
(* A released job has no pod.                                              *)
(***************************************************************************)

\* A copy of the job that has its end time has a final phase, and then there is no
\* pod, and no sync that would make one.
Release ==
    /\ \A k \in Copies : k.ended => Ended(k)
    /\ (\E k \in Copies : k.ended) => Present(pods) = {} /\ ~Creating

\* A new job has no end time.
LEMMA InitRelease == Init => Release
BY DEF Init, Release, Copies, Creating, Idle, NewJob

\* A sync that sets the end time sees the pods there are, which are none, and makes
\* none: the annotation that ends the job has stopped reconcilePods as well.
LEMMA NextRelease ==
    ASSUME Prompt, Annotations \subseteq {"Preempted", "Failed"},
           IInv, Agreement, LastShown, UsersAnnotate, Release, [Next]_vars
    PROVE  Release'
<1>1. FullSpec(spec) /\ job \in Jobs(spec) /\ now \in Nat
  BY DEF IInv, TypeOK
<1>2. CASE SyncHandler
  <2>1. /\ StaysOpen(spec, cache) /\ job' = job /\ pods' = pods /\ podCache = pods
    BY <1>2, SyncStarts DEF Synced, LastShown
  <2>2. PICK nodes, clock :
           \E plan \in ReconcileTrainingJobs(spec, cache, podCache, svcCache,
                                             nodes, now, clock) :
             \/ NothingToCreate(plan) /\ cache' = plan.job
                /\ (worker' = Idle \/ (worker'.pc = "delete" /\ worker'.plan = plan))
             \/ cache' = cache /\ worker'.pc = "create" /\ worker'.plan = plan
    BY <1>2, SyncStarts, Zenon
  <2>3. PICK plan \in ReconcileTrainingJobs(spec, cache, podCache, svcCache,
                                            nodes, now, clock) :
             \/ NothingToCreate(plan) /\ cache' = plan.job
                /\ (worker' = Idle \/ (worker'.pc = "delete" /\ worker'.plan = plan))
             \/ cache' = cache /\ worker'.pc = "create" /\ worker'.plan = plan
    BY <2>2
  <2>4. ~cache.ended /\ ~job.ended
    <3>1. ~cache.ended
      BY <2>1 DEF StaysOpen, Release, Copies
    <3>2. Ended(job) => cache.phase = job.phase
      BY DEF Agreement, Knows
    <3> QED BY <2>1, <3>1, <3>2 DEF StaysOpen, Release, Copies, Ended
  <2>5. plan.job.ended =>
          Ended(plan.job) /\ Present(pods) = {} /\ cache.annotations # {}
    BY <1>1, <2>1, <2>4, PlansAreJustified
  <2>6. cache.annotations # {} => plan.creates = {}
    <3>1. cache.annotations # {} => EarlyEnd(cache) # NoPhase
      <4>1. Sealed(cache) => EarlyEnd(cache) # NoPhase
        BY DEF Sealed, EarlyEnd, NoPhase
      <4>2. ~Sealed(cache) => cache.annotations \subseteq {"Preempted", "Failed"}
        BY <2>1 DEF UsersAnnotate, Copies, Decided, StaysOpen
      <4> QED BY <4>1, <4>2 DEF EarlyEnd, NoPhase
    <3> QED BY <1>1, <3>1, StoppedCreatesNothing
  <2>7. Copies' \subseteq {job, cache, plan.job}
    BY <2>1, <2>3 DEF Copies, Idle
  <2>8. plan.job.ended => ~Creating'
    BY <2>3, <2>5, <2>6 DEF Creating, Idle
  <2> QED BY <2>1, <2>4, <2>5, <2>7, <2>8 DEF Release, Ended
<1>3. CASE /\ spec' = spec /\ WorkerMoves
           /\ job' \in Copies \/ \E phase \in Annotations : Annotate(phase)
           /\ cache' \in Copies
  <2>1. \A k \in Copies' : (k.ended => Ended(k)) /\ (k.ended => \E c \in Copies : c.ended)
    <3>1. Copies' \subseteq Copies \union {job'}
      BY <1>3 DEF Copies, WorkerMoves
    <3>2. CASE \E phase \in Annotations : Annotate(phase)
      <4>1. job'.ended = job.ended /\ job'.phase = job.phase
        BY <1>1, <3>2 DEF Annotate, Jobs
      <4> QED BY <3>1, <4>1 DEF Release, Copies, Ended
    <3> QED BY <1>3, <3>1, <3>2 DEF Release
  <2>2. Creating' => Creating
    BY <1>3 DEF Creating, WorkerMoves
  <2>3. ASSUME Present(pods) = {}, ~Creating PROVE Present(pods') = {}
    <3>1. \/ Present(pods') \subseteq Present(pods)
          \/ Creating
      BY PodMoves, PodsPresent DEF PodsAreShown, PodIsMade, Creating
    <3> QED BY <2>3, <3>1
  <2> QED BY <2>1, <2>2, <2>3 DEF Release, Ended
<1> QED BY <1>2, <1>3, CopiesMove

\* If every sync starts from caches up to date, and users annotate nothing but
\* "Preempted" and "Failed", which stop reconcilePods, a job with an end time has
\* no pod, and never has one again: not after a crash, a lost reply or an update
\* that is refused.
THEOREM ReleasedHolds ==
    ASSUME Prompt, Annotations \subseteq {"Preempted", "Failed"}
    PROVE  Spec => []ReleasedWhenEnded
<1>1. Init => IInv /\ Agreement /\ LastShown /\ UsersAnnotate /\ Release
  BY InitIInv, InitAgreement, InitLastShown, InitUsersAnnotate, InitRelease
<1>2. /\ IInv /\ Agreement /\ LastShown /\ UsersAnnotate /\ Release /\ [Next]_vars
      => (IInv /\ Agreement /\ LastShown /\ UsersAnnotate /\ Release)'
  BY NextIInv, NextAgreement, NextLastShown, NextUsersAnnotate, NextRelease
<1>3. Release => ReleasedWhenEnded
  BY DEF Release, Copies, ReleasedWhenEnded
<1> QED BY <1>1, <1>2, <1>3, PTL DEF Spec

(***************************************************************************)
(* Faults that never happen.                                               *)
(***************************************************************************)

\* No job meets a fault of this kind.
Spared(kind) == \A s \in JobSpecs : Faults[s][kind] = 0

\* What no job starts with is not left.
LEMMA InitSpared ==
    ASSUME NEW kind, Spared(kind), Init
    PROVE  left[kind] = 0
BY DEF Spared, Init

\* Only a fault that happens changes what is left, and it leaves less.
LEMMA NextSpared ==
    ASSUME IInv, NEW kind \in FaultKinds, left[kind] = 0, [Next]_vars
    PROVE  left'[kind] = 0
<1>1. left \in [FaultKinds -> Nat]
  BY DEF IInv, TypeOK
<1>2. ASSUME NEW k, Spend(k) PROVE left'[kind] = 0
  BY <1>1, <1>2 DEF Spend, FaultKinds
<1>3. CASE UNCHANGED left
  BY <1>3
<1>4. Cluster => UNCHANGED left \/ \E k : Spend(k)
  BY DEF Cluster, StartPod, ImageError, Succeed, PodGone, CollectPod, LosePod,
         Schedule, FailPod, NodeDown, NodeUp, Annotate, Tick, ApiDown, ApiUp
<1>5. Watches => UNCHANGED left
  BY DEF Watches, DeliverJob, DeliverPods, DeliverNewService, DeliverGoneService,
         ExpectationsExpire, cluster
<1>6. Creates \/ Deletes => UNCHANGED left \/ \E k : Spend(k)
  BY DEF Creates, CreatePod, CreatePodFails, CreatePodTimesOut, CreatePodReplyLost,
         CreateService, CreateServiceFails, CreateServiceTimesOut,
         Deletes, DeletePod, DeletePodFails, DeleteService, DeleteServiceFails, cluster
<1>7. TimerFires \/ SkipSync \/ SyncHandler \/ Commit \/ UpdateAccepted
        \/ UpdateRejected \/ UpdateReplyLost \/ Crash \/ TakeOver \/ UNCHANGED vars
        => UNCHANGED left \/ \E k : Spend(k)
  BY DEF TimerFires, SkipSync, SyncHandler, Commit, UpdateAccepted,
         UpdateRejected, UpdateReplyLost, Crash, TakeOver, vars, cluster
<1> QED BY <1>2, <1>3, <1>4, <1>5, <1>6, <1>7 DEF Next, Worker

(***************************************************************************)
(* How the job that is stored, the cached one and the one of a sync follow *)
(* each other, if nobody but the controller writes the job.                *)
(***************************************************************************)

\* The worker keeps what it is about to store.
SameWork ==
    /\ worker'.pc = worker.pc /\ worker'.plan.job = worker.plan.job
    /\ worker'.gens = worker.gens /\ worker'.aliased = worker.aliased
    /\ worker'.update = worker.update

\* A step of others, or a call of a sync, which may end it before it decides.
CopiesStay == /\ UNCHANGED <<job, cache, behind>>
              /\ SameWork \/ (worker.pc # "delete" /\ worker'.pc = "idle")

JobIsDelivered ==
    /\ behind /\ cache' = job /\ behind' = FALSE /\ job' = job
    /\ worker'.pc = worker.pc /\ worker'.plan.job = worker.plan.job
    /\ ~worker'.aliased

SyncDecides ==
    /\ worker.pc = "create" /\ UNCHANGED <<job, behind>>
    /\ cache' = IF worker.aliased THEN worker.plan.job ELSE cache
    /\ \/ ~worker.update /\ worker'.pc = "idle"
       \/ /\ worker'.pc = "delete" /\ worker'.plan.job = worker.plan.job
          /\ worker'.aliased = worker.aliased

\* A job is sent: afterwards it is cached, or it was before.
JobIsSent ==
    /\ worker.pc = "delete" /\ cache' \in {cache, worker.plan.job}
    /\ \/ worker'.pc = "idle"
       \/ worker'.pc = "delete" /\ worker'.plan.job = worker.plan.job /\ worker'.aliased
    /\ \/ job' = worker.plan.job /\ behind' = TRUE /\ worker.aliased
       \/ /\ UNCHANGED <<job, behind>> /\ cache' = worker.plan.job
          /\ ~api \/ ~worker.aliased \/ behind

OperatorRestarts ==
    /\ left["crash"] > 0 /\ worker'.pc = "idle"
    /\ cache' = job /\ behind' = FALSE /\ job' = job

\* But for the start of a sync and for users, a step is one of these.
LEMMA CopiesFollow ==
    ASSUME IInv, [Next]_vars
    PROVE  \/ SyncHandler
           \/ \E phase \in Annotations : Annotate(phase)
           \/ /\ spec' = spec /\ (api' = api \/ left["outage"] > 0 \/ api')
              /\ \/ CopiesStay \/ JobIsDelivered \/ SyncDecides
                 \/ JobIsSent \/ OperatorRestarts
<1>1. worker \in Workers /\ worker.plan \in Plans(spec)
  BY DEF IInv, TypeOK, Workers
<1>2. worker' = worker => SameWork
  BY DEF SameWork
<1>3. CASE Cluster \/ TimerFires \/ SkipSync \/ UNCHANGED vars
  <2>1. \/ \E phase \in Annotations : Annotate(phase)
        \/ /\ spec' = spec /\ UNCHANGED <<job, cache, behind>> /\ worker' = worker
           /\ api' = api \/ left["outage"] > 0 \/ api'
    BY <1>3 DEF Cluster, StartPod, ImageError, Succeed, PodGone, CollectPod, LosePod,
                Schedule, FailPod, NodeDown, NodeUp, Tick, ApiDown, ApiUp, Spend,
                OnlyPods, TimerFires, SkipSync, vars, stored, caches, memory, cluster
  <2> QED BY <1>2, <2>1 DEF CopiesStay
<1>4. CASE Watches
  <2>1. CASE DeliverJob
    <3>1. worker' = [worker EXCEPT !.aliased = FALSE]
      BY <2>1 DEF DeliverJob
    <3>2. /\ worker'.pc = worker.pc /\ worker'.plan.job = worker.plan.job
          /\ ~worker'.aliased
      BY <1>1, <3>1 DEF Workers
    <3>3. spec' = spec /\ api' = api /\ behind /\ cache' = job /\ behind' = FALSE
          /\ job' = job
      BY <2>1 DEF DeliverJob, stored, cluster
    <3> QED BY <3>2, <3>3 DEF JobIsDelivered
  <2>2. CASE Watches /\ ~DeliverJob
    <3>1. spec' = spec /\ api' = api /\ UNCHANGED <<job, cache, behind>>
          /\ worker' = worker
      BY <2>2 DEF Watches, DeliverPods, DeliverNewService, DeliverGoneService,
                  ExpectationsExpire, stored, caches, memory, cluster
    <3> QED BY <1>2, <3>1 DEF CopiesStay
  <2> QED BY <1>4, <2>1, <2>2
<1>5. CASE Crash \/ TakeOver
  <2>1. /\ spec' = spec /\ api' = api /\ left["crash"] > 0 /\ worker' = Idle
        /\ cache' = job /\ behind' = FALSE /\ job' = job
    BY <1>5 DEF Crash, TakeOver, Spend, stored
  <2> QED BY <2>1 DEF OperatorRestarts, Idle
<1>6. CASE Commit
  <2>1. /\ worker.pc = "create" /\ spec' = spec /\ api' = api /\ Decide(worker)
        /\ UNCHANGED <<job, behind>>
    BY <1>6 DEF Commit, stored, cluster
  <2>2. /\ worker' = IF worker.update THEN [worker EXCEPT !.pc = "delete"] ELSE Idle
        /\ cache' = IF worker.aliased THEN worker.plan.job ELSE cache
    BY <2>1 DEF Decide
  <2>3. CASE worker.update
    <3>1. worker' = [worker EXCEPT !.pc = "delete"]
      BY <2>2, <2>3
    <3>2. /\ worker'.pc = "delete" /\ worker'.plan = worker.plan
          /\ worker'.aliased = worker.aliased
      BY <1>1, <3>1 DEF Workers
    <3> QED BY <2>1, <2>2, <3>2 DEF SyncDecides
  <2>4. CASE ~worker.update
    <3>1. worker'.pc = "idle"
      BY <2>2, <2>4 DEF Idle
    <3> QED BY <2>1, <2>2, <2>4, <3>1 DEF SyncDecides
  <2> QED BY <2>3, <2>4
<1>7. CASE Creates
  <2>1. PICK s \in Slots(spec) :
           \/ CreatePod(s) \/ CreatePodFails(s)
           \/ CreatePodTimesOut(s) \/ CreatePodReplyLost(s)
           \/ CreateService(s) \/ CreateServiceFails(s)
           \/ CreateServiceTimesOut(s)
    BY <1>7 DEF Creates
  <2>2. /\ spec' = spec /\ api' = api /\ UNCHANGED <<job, cache, behind>>
        /\ worker.pc = "create"
        /\ PodDone(s) \/ ServiceDone(s) \/ Abort
    BY <2>1 DEF CreatePod, CreatePodFails, CreatePodTimesOut, CreatePodReplyLost,
                CreateService, CreateServiceFails, CreateServiceTimesOut,
                MayCreatePod, MayCreateService, stored, caches, cluster
  <2>3. SameWork \/ worker'.pc = "idle"
    BY <1>1, <2>2 DEF SameWork, PodDone, ServiceDone, Abort, Idle, Workers, Plans
  <2> QED BY <2>2, <2>3 DEF CopiesStay
<1>8. CASE Deletes
  <2>1. \/ \E s \in Slots(spec) : DeletePod(s) \/ DeletePodFails(s) \/ DeleteService(s)
        \/ DeleteServiceFails
    BY <1>8 DEF Deletes
  <2>2. spec' = spec /\ api' = api /\ UNCHANGED <<job, cache, behind>>
    BY <2>1 DEF DeletePod, DeletePodFails, DeleteService, DeleteServiceFails,
                stored, caches, cluster
  <2>3. \/ \E s : worker' = [worker EXCEPT !.plan.deletes = @ \ {s}]
        \/ \E s : worker' = [worker EXCEPT !.plan.svcDeletes = @ \ {s}]
        \/ worker' = [worker EXCEPT !.plan.svcDeletes = {}]
        \/ worker' = [worker EXCEPT !.plan.deletes = {}, !.plan.svcDeletes = {}]
    BY <2>1 DEF DeletePod, DeletePodFails, DeleteService, DeleteServiceFails
  <2>4. SameWork
    <3>1. CASE \E s : worker' = [worker EXCEPT !.plan.deletes = @ \ {s}]
      BY <1>1, <3>1 DEF Workers, Plans, SameWork
    <3>2. CASE \E s : worker' = [worker EXCEPT !.plan.svcDeletes = @ \ {s}]
      BY <1>1, <3>2 DEF Workers, Plans, SameWork
    <3>3. CASE worker' = [worker EXCEPT !.plan.svcDeletes = {}]
      BY <1>1, <3>3 DEF Workers, Plans, SameWork
    <3>4. CASE worker' = [worker EXCEPT !.plan.deletes = {}, !.plan.svcDeletes = {}]
      BY <1>1, <3>4 DEF Workers, Plans, SameWork
    <3> QED BY <2>3, <3>1, <3>2, <3>3, <3>4
  <2> QED BY <2>2, <2>4 DEF CopiesStay
<1>9. CASE UpdateAccepted \/ UpdateReplyLost \/ UpdateRejected
  <2>1. /\ spec' = spec /\ api' = api /\ worker.pc = "delete"
        /\ \/ cache' = cache /\ worker' = Idle
           \/ Retry
        /\ \/ job' = worker.plan.job /\ behind' = TRUE /\ worker.aliased
           \/ /\ UNCHANGED <<job, behind>> /\ Retry
              /\ ~api \/ ~worker.aliased \/ behind
    BY <1>9 DEF UpdateAccepted, UpdateReplyLost, UpdateRejected, Accepted, Updating,
                stored, cluster
  <2>2. Retry => cache' = worker.plan.job
    BY DEF Retry
  <2>3. \/ worker' = Idle
        \/ \E n : worker' = [worker EXCEPT !.aliased = TRUE, !.tries = n]
    BY <2>1 DEF Retry, Abort
  <2>4. \/ worker'.pc = "idle"
        \/ worker'.pc = "delete" /\ worker'.plan.job = worker.plan.job /\ worker'.aliased
    <3>1. CASE worker' = Idle
      BY <3>1 DEF Idle
    <3>2. ASSUME NEW n, worker' = [worker EXCEPT !.aliased = TRUE, !.tries = n]
          PROVE  /\ worker'.pc = "delete" /\ worker'.plan.job = worker.plan.job
                 /\ worker'.aliased
      BY <1>1, <2>1, <3>2 DEF Workers
    <3> QED BY <2>3, <3>1, <3>2
  <2> QED BY <2>1, <2>2, <2>4 DEF JobIsSent
<1> QED BY <1>3, <1>4, <1>5, <1>6, <1>7, <1>8, <1>9 DEF Next, Worker

(***************************************************************************)
(* A restart with scope All is a barrier.                                  *)
(***************************************************************************)

\* The cached job is what the sync in progress started from or decided, and it
\* differs from the stored one only while an update is under way.
InStep ==
    /\ behind => cache = job
    /\ worker.pc = "create" =>
         /\ ~behind /\ worker.aliased /\ worker.gens = cache.counts
         /\ ~worker.update => SameRestarts(worker.plan.job, cache)
    /\ worker.pc = "delete" =>
         /\ cache = worker.plan.job
         /\ behind \/ ~worker.aliased => worker.plan.job = job

\* Every pod was made when the restarts were counted like this.
MadeAt(counts) == \A s \in Present(pods) : pods[s].gen = counts[s[1]]

\* A job that waits for no restart has counted the restarts its pods know of.
Fits(k) == k.restart = NoReplica => MadeAt(k.counts)

CountsAlike(k) == \A t, r \in Types(spec) : k.counts[t] = k.counts[r]

OneGeneration == \A s, r \in Present(pods) : pods[s].gen = pods[r].gen

\* All types count the same restarts, the pods belong to the last that is over,
\* and a sync that makes pods makes them for it.
Barrier ==
    /\ \A k \in Copies : CountsAlike(k)
    /\ Fits(cache) /\ OneGeneration
    /\ worker.pc = "create" =>
         /\ cache.restart = NoReplica
         /\ worker.plan.job.restart = NoReplica => worker.plan.job.counts = cache.counts

\* A new job agrees with itself.
LEMMA InitInStep == Init => InStep
BY DEF Init, InStep, Idle

\* Before the first sync there are no pods and no restarts.
LEMMA InitBarrier == Init => Barrier
<1> SUFFICES ASSUME Init PROVE Barrier
  OBVIOUS
<1>1. Present(pods) = {}
  BY DEF Init, NoPods, Present
<1> QED BY <1>1 DEF Init, Idle, NewJob, Barrier, Copies, CountsAlike, Fits, MadeAt,
                    OneGeneration

\* If syncs wait for current caches and nobody else writes the job, a job that is
\* sent, delivered or read again after a crash is one the worker knows.
LEMMA NextInStep ==
    ASSUME Prompt, IInv, InStep, left["annotate"] = 0, [Next]_vars
    PROVE  InStep'
<1>1. left["annotate"] = 0 => ~\E phase \in Annotations : Annotate(phase)
  BY DEF Annotate, Spend
<1>2. CASE SyncHandler
  <2>1. ~behind /\ UNCHANGED <<job, behind>>
    BY <1>2, SyncStarts DEF Synced
  <2>2. \E plan :
          \/ /\ cache' = plan.job
             /\ \/ worker' = Idle
                \/ worker'.pc = "delete" /\ worker'.plan = plan /\ worker'.aliased
          \/ /\ cache' = cache
             /\ worker'.pc = "create" /\ worker'.plan = plan
             /\ worker'.gens = cache.counts /\ worker'.aliased
             /\ worker'.update \/ SameRestarts(plan.job, cache)
    BY <1>2, SyncStarts, Zenon
  <2> QED BY <2>1, <2>2 DEF InStep, Idle, SameRestarts
<1>3. CASE CopiesStay
  BY <1>3 DEF CopiesStay, SameWork, InStep, SameRestarts
<1>4. CASE JobIsDelivered
  BY <1>4 DEF JobIsDelivered, InStep
<1>5. CASE SyncDecides
  BY <1>5 DEF SyncDecides, InStep
<1>6. CASE JobIsSent
  BY <1>6 DEF JobIsSent, InStep
<1>7. CASE OperatorRestarts
  BY <1>7 DEF OperatorRestarts, InStep
<1> QED BY <1>1, <1>2, <1>3, <1>4, <1>5, <1>6, <1>7, CopiesFollow

\* Pods keep the generation they are made with: the one of the sync that makes them.
LEMMA GenerationsStay ==
    ASSUME IInv, [Next]_vars
    PROVE  /\ \A s \in Present(pods') :
                \/ s \in Present(pods) /\ pods'[s].gen = pods[s].gen
                \/ Creating /\ pods'[s].gen = worker.gens[s[1]]
           /\ Present(pods') \subseteq Slots(spec)
<1>1. pods \in [Slots(spec) -> Pod \union {NoPod}]
  BY DEF IInv, TypeOK, Views
<1>2. ASSUME NEW s \in Slots(spec), NEW new, pods' = [pods EXCEPT ![s] = new]
      PROVE  /\ pods'[s] = new /\ \A r \in Slots(spec) \ {s} : pods'[r] = pods[r]
             /\ Present(pods') \subseteq Slots(spec)
             /\ \A r \in Present(pods') : r # s => r \in Present(pods)
  BY <1>1, <1>2 DEF Present
<1>3. CASE PodsAreShown
  BY <1>1, <1>3 DEF PodsAreShown, Present
<1>4. ASSUME NEW s \in Slots(spec), PodGoes(s)
      PROVE  /\ Present(pods') \subseteq Slots(spec)
             /\ \A r \in Present(pods') : r \in Present(pods) /\ pods'[r].gen = pods[r].gen
  <2>1. pods' = [pods EXCEPT ![s] = NoPod]
    BY <1>4 DEF PodGoes, PodBecomes
  <2>2. s \notin Present(pods')
    BY <1>1, <2>1 DEF Present
  <2> QED BY <1>2, <2>1, <2>2
<1>5. ASSUME NEW s \in Slots(spec), NEW new, PodLives(s, new)
      PROVE  /\ Present(pods') \subseteq Slots(spec)
             /\ \A r \in Present(pods') : r \in Present(pods) /\ pods'[r].gen = pods[r].gen
  <2>1. pods' = [pods EXCEPT ![s] = new] /\ new.gen = pods[s].gen /\ s \in Present(pods)
    BY <1>5 DEF PodLives, PodBecomes
  <2> QED BY <1>2, <2>1
<1>6. ASSUME NEW s \in Slots(spec), PodIsMade(s)
      PROVE  /\ Present(pods') \subseteq Slots(spec)
             /\ Creating
             /\ \A r \in Present(pods') :
                  \/ r \in Present(pods) /\ pods'[r].gen = pods[r].gen
                  \/ pods'[r].gen = worker.gens[r[1]]
  <2> DEFINE new == NewPod(worker.gens[s[1]])
  <2>1. pods' = [pods EXCEPT ![s] = new] /\ Creating
    BY <1>6 DEF PodIsMade, PodBecomes, Creating
  <2>2. new.gen = worker.gens[s[1]]
    BY DEF NewPod
  <2> HIDE DEF new
  <2>3. /\ pods'[s] = new /\ \A r \in Slots(spec) \ {s} : pods'[r] = pods[r]
        /\ Present(pods') \subseteq Slots(spec)
        /\ \A r \in Present(pods') : r # s => r \in Present(pods)
    BY <1>2, <2>1
  <2> QED BY <2>1, <2>2, <2>3
<1> QED BY <1>3, <1>4, <1>5, <1>6, PodMoves

\* A step makes no pod that does not fit what the sync started from.
LEMMA PodsFit ==
    ASSUME IInv, [Next]_vars, NEW k, Fits(k),
           worker.pc = "create" /\ k.restart = NoReplica => worker.gens = k.counts
    PROVE  k.restart = NoReplica => \A s \in Present(pods') : pods'[s].gen = k.counts[s[1]]
BY GenerationsStay DEF Fits, MadeAt, Creating

\* Nor one of another generation, as what it started from fits the pods.
LEMMA NextOneGeneration ==
    ASSUME IInv, InStep, Barrier, [Next]_vars
    PROVE  OneGeneration'
<1>1. CASE worker.pc # "create"
  BY <1>1, GenerationsStay DEF Barrier, OneGeneration, Creating
<1>2. CASE worker.pc = "create"
  <2>1. /\ cache.restart = NoReplica /\ Fits(cache) /\ CountsAlike(cache)
        /\ worker.gens = cache.counts
    BY <1>2 DEF Barrier, InStep, Copies
  <2>2. \A s \in Present(pods') : pods'[s].gen = cache.counts[s[1]]
    BY <2>1, PodsFit
  <2>3. \A s \in Present(pods') : s[1] \in Types(spec)
    BY GenerationsStay DEF Slots, SlotsOf
  <2> QED BY <2>1, <2>2, <2>3 DEF OneGeneration, CountsAlike
<1> QED BY <1>1, <1>2

\* A sync counts a restart for all types when it begins, makes pods only when it is
\* over, and finds it over only when there are no pods.
LEMMA NextBarrier ==
    ASSUME Prompt, IInv, LastShown, InStep, RestartsTogether(spec), Barrier,
           left["annotate"] = 0, left["crash"] = 0, [Next]_vars
    PROVE  Barrier'
<1>1. OneGeneration'
  BY NextOneGeneration
<1>2. ASSUME NEW k, Fits(k),
             worker.pc = "create" /\ k.restart = NoReplica => worker.gens = k.counts
      PROVE  k.restart = NoReplica =>
               \A s \in Present(pods') : pods'[s].gen = k.counts[s[1]]
  BY <1>2, PodsFit
<1>3. worker.pc = "create" => worker.gens = cache.counts
  BY DEF InStep
<1>4. CASE SyncHandler
  <2>1. /\ StaysOpen(spec, cache) /\ job' = job /\ spec' = spec
        /\ pods' = pods /\ podCache = pods /\ svcCache \subseteq Slots(spec)
        /\ now \in Nat /\ FullSpec(spec) /\ DOMAIN podCache = Slots(spec)
    BY <1>4, SyncStarts DEF Synced, LastShown, IInv, TypeOK, Views
  <2>2. PICK nodes, clock :
           \E plan \in ReconcileTrainingJobs(spec, cache, podCache, svcCache,
                                             nodes, now, clock) :
             \/ NothingToCreate(plan) /\ cache' = plan.job
                /\ (worker' = Idle \/ (worker'.pc = "delete" /\ worker'.plan = plan))
             \/ ~NothingToCreate(plan)
                /\ cache' = cache /\ worker'.pc = "create" /\ worker'.plan = plan
    BY <1>4, SyncStarts, Zenon
  <2>3. PICK plan \in ReconcileTrainingJobs(spec, cache, podCache, svcCache,
                                            nodes, now, clock) :
             \/ NothingToCreate(plan) /\ cache' = plan.job
                /\ (worker' = Idle \/ (worker'.pc = "delete" /\ worker'.plan = plan))
             \/ ~NothingToCreate(plan)
                /\ cache' = cache /\ worker'.pc = "create" /\ worker'.plan = plan
    BY <2>2
  <2>4. /\ cache.restart # NoReplica => NothingToCreate(plan)
        /\ \/ plan.job.counts = cache.counts /\ plan.job.restart = cache.restart
           \/ /\ plan.job.counts = cache.counts /\ plan.job.restart = NoReplica
              /\ cache.restart # NoReplica /\ Present(pods) = {}
           \/ /\ plan.job.counts = CountedByAll(spec, cache)
              /\ plan.job.restart # NoReplica
    <3>1. /\ cache.restart # NoReplica => plan.creates = {} /\ plan.svcCreates = {}
          /\ \/ plan.job.counts = cache.counts /\ plan.job.restart = cache.restart
             \/ /\ plan.job.counts = cache.counts /\ plan.job.restart = NoReplica
                /\ cache.restart # NoReplica /\ Present(podCache) = {}
             \/ /\ plan.job.counts = CountedByAll(spec, cache)
                /\ plan.job.restart # NoReplica
      BY <2>1, RestartIsForAll
    <3> QED BY <2>1, <3>1 DEF NothingToCreate
  <2>5. CountsAlike(plan.job)
    BY <2>4 DEF Barrier, Copies, CountsAlike, CountedByAll
  <2>6. Fits(plan.job)
    BY <2>4 DEF Barrier, Fits, MadeAt
  <2>7. Copies' \subseteq {job, cache, plan.job}
    BY <2>1, <2>3 DEF Copies, Idle
  <2>8. \A k \in Copies' : CountsAlike(k)'
    BY <2>1, <2>5, <2>7 DEF Barrier, Copies, CountsAlike
  <2>9. Fits(cache)'
    BY <2>1, <2>3, <2>6 DEF Barrier, Fits, MadeAt
  <2> QED BY <1>1, <2>3, <2>4, <2>8, <2>9 DEF Barrier, NothingToCreate, Idle
<1>5. ASSUME spec' = spec,
             CopiesStay \/ JobIsDelivered \/ SyncDecides \/ JobIsSent \/ OperatorRestarts
      PROVE  Barrier'
  <2>1. \A k \in Copies' : CountsAlike(k)'
    <3>1. Copies' \subseteq Copies
      BY <1>5 DEF Copies, CopiesStay, SameWork, JobIsDelivered, SyncDecides, JobIsSent,
                  OperatorRestarts
    <3> QED BY <1>5, <3>1 DEF Barrier, CountsAlike
  <2>2. Fits(cache)'
    <3>1. CASE cache' = cache
      BY <1>2, <1>3, <3>1 DEF Barrier, Fits, MadeAt
    <3>2. CASE SyncDecides
      <4>1. cache' = worker.plan.job /\ cache.restart = NoReplica
            /\ (worker.plan.job.restart = NoReplica =>
                  worker.plan.job.counts = cache.counts)
        BY <3>2 DEF SyncDecides, InStep, Barrier
      <4>2. Fits(worker.plan.job)
        BY <4>1 DEF Barrier, Fits
      <4> QED BY <1>2, <1>3, <4>1, <4>2 DEF Fits, MadeAt
    <3>3. CASE JobIsDelivered \/ JobIsSent
      BY <3>1, <3>3 DEF JobIsDelivered, JobIsSent, InStep
    <3>4. ~OperatorRestarts
      BY DEF OperatorRestarts
    <3> QED BY <1>5, <3>1, <3>2, <3>3, <3>4 DEF CopiesStay
  <2>3. worker'.pc = "create" =>
          /\ cache'.restart = NoReplica
          /\ worker'.plan.job.restart = NoReplica =>
               worker'.plan.job.counts = cache'.counts
    BY <1>5 DEF CopiesStay, SameWork, JobIsDelivered, SyncDecides, JobIsSent,
                OperatorRestarts, Barrier, InStep
  <2> QED BY <1>1, <2>1, <2>2, <2>3 DEF Barrier
<1>6. ~\E phase \in Annotations : Annotate(phase)
  BY DEF Annotate, Spend
<1> QED BY <1>4, <1>5, <1>6, CopiesFollow

(***************************************************************************)
(* The barrier where users stop the job and the operator crashes, but the  *)
(* API server answers.                                                     *)
(***************************************************************************)

\* The annotations that stop the walk over the pods at once.
Stops == {"Preempted", "Failed"}

\* A sync of such a copy makes no pod, restarts nothing and takes none of it back.
Halted(k) == Decided(k) \/ k.annotations \intersect Stops # {}

\* A copy that goes on and waits for no restart has counted the restarts the pods
\* know of, those too that a sync is about to make.
Meets(k) ==
    \/ Halted(k)
    \/ k.restart = NoReplica =>
         MadeAt(k.counts) /\ (Creating => worker.gens = k.counts)

\* All pods are of one generation, and every copy of the job that may make more of
\* them makes more of it.
Guarded ==
    /\ OneGeneration
    /\ \A k \in Copies : CountsAlike(k) /\ Meets(k)
    /\ Creating => /\ MadeAt(worker.gens)
                   /\ \A t, r \in Types(spec) : worker.gens[t] = worker.gens[r]

\* Until the stored job is halted, the cached one differs from it only while an
\* update is under way.
Followed ==
    /\ worker.pc = "delete" /\ worker.aliased => cache = worker.plan.job
    /\ ~Halted(job) =>
         /\ worker.pc # "delete" => SameRestarts(job, cache)
         /\ worker.pc = "create" =>
              /\ ~behind /\ worker.aliased
              /\ ~worker.update => SameRestarts(worker.plan.job, cache)
         /\ worker.pc = "delete" =>
              /\ cache = worker.plan.job
              /\ behind \/ ~worker.aliased => worker.plan.job = job

\* Before the first sync there are no pods and no restarts.
LEMMA InitGuarded == Init => Guarded /\ Followed
<1> SUFFICES ASSUME Init PROVE Guarded /\ Followed
  OBVIOUS
<1>1. Present(pods) = {}
  BY DEF Init, NoPods, Present
<1> QED BY <1>1 DEF Init, Idle, NewJob, Guarded, Followed, Copies, CountsAlike, Meets,
                    MadeAt, OneGeneration, Creating, SameRestarts

\* A sync of a halted copy leaves it halted and makes nothing.
LEMMA HaltedSync ==
    ASSUME NEW nodes, NEW clock, IInv, StaysOpen(spec, cache), Halted(cache),
           NEW plan \in ReconcileTrainingJobs(spec, cache, podCache, svcCache,
                                              nodes, now, clock)
    PROVE  plan.creates = {} /\ Halted(plan.job)
<1>1. FullSpec(spec) /\ now \in Nat /\ HasVerdict(cache) /\ cache \in Jobs(spec)
  BY DEF IInv, TypeOK, GoodJob
<1>2. CASE Sealed(cache)
  BY <1>1, <1>2, SealedPlans DEF Halted, Decided
<1>3. CASE ~Sealed(cache)
  <2>1. cache.annotations \intersect Stops # {}
    BY <1>3 DEF Halted, Decided, StaysOpen
  <2>2. EarlyEnd(cache) # NoPhase
    BY <2>1 DEF EarlyEnd, Stops, NoPhase
  <2>3. plan.creates = {}
    BY <1>1, <2>2, StoppedCreatesNothing
  <2>4. Sealed(plan.job) \/ Ended(plan.job) \/ plan.job.annotations = cache.annotations
    BY <1>1, PlansAreJustified
  <2> QED BY <2>1, <2>3, <2>4 DEF Halted, Decided
<1> QED BY <1>2, <1>3

\* The start of a sync keeps the guard: what it makes is of the generation there
\* is, and a restart it counts waits.
LEMMA SyncGuarded ==
    ASSUME Prompt, IInv, LastShown, RestartsTogether(spec), Guarded, Followed, SyncHandler
    PROVE  Guarded'
<1>1. /\ StaysOpen(spec, cache) /\ job' = job /\ spec' = spec /\ worker.pc = "idle"
      /\ pods' = pods /\ podCache = pods /\ svcCache \subseteq Slots(spec)
      /\ now \in Nat /\ FullSpec(spec) /\ DOMAIN podCache = Slots(spec)
  BY SyncStarts DEF Synced, LastShown, IInv, TypeOK, Views
<1>2. PICK nodes, clock :
         \E plan \in ReconcileTrainingJobs(spec, cache, podCache, svcCache,
                                           nodes, now, clock) :
           \/ /\ NothingToCreate(plan) /\ cache' = plan.job
              /\ worker' = Idle \/ (worker'.pc = "delete" /\ worker'.plan = plan)
           \/ /\ ~NothingToCreate(plan) /\ cache' = cache
              /\ worker'.pc = "create" /\ worker'.plan = plan
              /\ worker'.gens = cache.counts
  BY SyncStarts, Zenon
<1>3. PICK plan \in ReconcileTrainingJobs(spec, cache, podCache, svcCache,
                                          nodes, now, clock) :
         \/ /\ NothingToCreate(plan) /\ cache' = plan.job
            /\ worker' = Idle \/ (worker'.pc = "delete" /\ worker'.plan = plan)
         \/ /\ ~NothingToCreate(plan) /\ cache' = cache
            /\ worker'.pc = "create" /\ worker'.plan = plan
            /\ worker'.gens = cache.counts
  BY <1>2
<1>4. /\ cache.restart # NoReplica => plan.creates = {}
      /\ \/ plan.job.counts = cache.counts /\ plan.job.restart = cache.restart
         \/ /\ plan.job.counts = cache.counts /\ plan.job.restart = NoReplica
            /\ cache.restart # NoReplica /\ Present(pods) = {}
         \/ /\ plan.job.counts = CountedByAll(spec, cache)
            /\ plan.job.restart # NoReplica
  <2>1. /\ cache.restart # NoReplica => plan.creates = {} /\ plan.svcCreates = {}
        /\ \/ plan.job.counts = cache.counts /\ plan.job.restart = cache.restart
           \/ /\ plan.job.counts = cache.counts /\ plan.job.restart = NoReplica
              /\ cache.restart # NoReplica /\ Present(podCache) = {}
           \/ /\ plan.job.counts = CountedByAll(spec, cache)
              /\ plan.job.restart # NoReplica
    BY <1>1, RestartIsForAll
  <2> QED BY <1>1, <2>1
<1>5. Halted(cache) => plan.creates = {} /\ Halted(plan.job)
  BY <1>1, HaltedSync
<1>6. Copies' \subseteq {job, cache, plan.job}
  BY <1>1, <1>3 DEF Copies, Idle
<1>7. /\ CountsAlike(job) /\ CountsAlike(cache) /\ CountsAlike(plan.job)
      /\ Meets(job) /\ Meets(cache) /\ OneGeneration
  <2>1. /\ CountsAlike(job) /\ CountsAlike(cache)
        /\ Meets(job) /\ Meets(cache) /\ OneGeneration
    BY DEF Guarded, Copies
  <2> QED BY <1>4, <2>1 DEF CountsAlike, CountedByAll
<1>8. Creating' => /\ plan.creates # {} /\ worker'.gens = cache.counts
                   /\ ~Halted(cache) /\ cache.restart = NoReplica
  BY <1>3, <1>4, <1>5 DEF Creating, NothingToCreate, Idle
<1>9. ~Halted(job) => SameRestarts(job, cache)
  BY <1>1 DEF Followed
<1> DEFINE StillMeets(k) ==
             \/ Halted(k)
             \/ k.restart = NoReplica =>
                  /\ \A s \in Present(pods) : pods[s].gen = k.counts[s[1]]
                  /\ Creating' => worker'.gens = k.counts
<1>10. StillMeets(job) /\ StillMeets(cache)
  <2>1. ASSUME NEW k, Meets(k), ~Halted(k) => SameRestarts(k, cache)
        PROVE  StillMeets(k)
    BY <1>8, <2>1 DEF Meets, MadeAt, SameRestarts
  <2> QED BY <1>7, <1>9, <2>1 DEF SameRestarts
<1>11. StillMeets(plan.job)
  BY <1>4, <1>5, <1>7, <1>8 DEF Meets, MadeAt
<1>12. ASSUME NEW k \in Copies'
       PROVE  CountsAlike(k)' /\ Meets(k)'
  <2>1. CountsAlike(k) /\ StillMeets(k)
    <3> HIDE DEF StillMeets
    <3> QED BY <1>6, <1>7, <1>10, <1>11, <1>12
  <2> QED BY <1>1, <2>1 DEF CountsAlike, Meets, MadeAt, Halted, Decided
<1>13. Creating' => /\ MadeAt(worker.gens)'
                    /\ (\A t, r \in Types(spec) : worker.gens[t] = worker.gens[r])'
  BY <1>1, <1>7, <1>8 DEF Meets, MadeAt, CountsAlike
<1> QED BY <1>1, <1>7, <1>12, <1>13 DEF Guarded, OneGeneration

\* No other step makes a pod of another generation, or a copy that would.
LEMMA NextGuarded ==
    ASSUME Prompt, IInv, LastShown, RestartsTogether(spec), Guarded, Followed,
           left["annotate"] = 0 \/ Annotations \subseteq Stops, [Next]_vars
    PROVE  Guarded'
<1>1. CASE SyncHandler
  BY <1>1, SyncGuarded
<1>2. CASE /\ spec' = spec /\ WorkerMoves
           /\ job' \in Copies \/ \E phase \in Annotations : Annotate(phase)
           /\ cache' \in Copies
  <2>1. Copies' \subseteq Copies \union {job'}
    BY <1>2 DEF Copies, WorkerMoves
  <2>2. Creating' => Creating /\ worker'.gens = worker.gens
    BY <1>2 DEF Creating, WorkerMoves
  <2>3. /\ \A s \in Present(pods') :
             \/ s \in Present(pods) /\ pods'[s].gen = pods[s].gen
             \/ Creating /\ pods'[s].gen = worker.gens[s[1]]
        /\ \A s \in Present(pods') : s[1] \in Types(spec)
    BY GenerationsStay DEF Slots, SlotsOf
  <2>4. OneGeneration'
    <3>1. CASE Creating
      <4>1. \A s \in Present(pods') : pods'[s].gen = worker.gens[s[1]]
        BY <2>3, <3>1 DEF Guarded, MadeAt
      <4> QED BY <2>3, <3>1, <4>1 DEF Guarded, OneGeneration
    <3>2. CASE ~Creating
      BY <2>3, <3>2 DEF Guarded, OneGeneration
    <3> QED BY <3>1, <3>2
  <2>5. ASSUME NEW k \in Copies
        PROVE  CountsAlike(k)' /\ Meets(k)'
    <3>1. CountsAlike(k) /\ Meets(k)
      BY <2>5 DEF Guarded
    <3>2. \/ Halted(k)
          \/ k.restart = NoReplica =>
               /\ \A s \in Present(pods') : pods'[s].gen = k.counts[s[1]]
               /\ Creating' => worker'.gens = k.counts
      BY <2>2, <2>3, <3>1 DEF Meets, MadeAt
    <3> QED BY <1>2, <3>1, <3>2 DEF CountsAlike, Meets, MadeAt, Halted, Decided
  <2>6. ASSUME NEW phase \in Annotations, Annotate(phase)
        PROVE  CountsAlike(job)' /\ Meets(job)'
    <3>1. left["annotate"] > 0 /\ job' = [job EXCEPT !.annotations = @ \union {phase}]
      BY <2>6 DEF Annotate, Spend
    <3>2. job \in Jobs(spec) /\ phase \in Stops
      BY <2>6, <3>1 DEF IInv, TypeOK
    <3>3. job'.counts = job.counts /\ phase \in job'.annotations
      BY <3>1, <3>2 DEF Jobs
    <3>4. CountsAlike(job)
      BY DEF Guarded, Copies
    <3> QED BY <1>2, <3>2, <3>3, <3>4 DEF CountsAlike, Meets, Halted
  <2>7. \A k \in Copies' : CountsAlike(k)' /\ Meets(k)'
    BY <1>2, <2>1, <2>5, <2>6
  <2>8. Creating' => /\ MadeAt(worker.gens)'
                     /\ (\A t, r \in Types(spec) : worker.gens[t] = worker.gens[r])'
    BY <1>2, <2>2, <2>3 DEF Guarded, MadeAt
  <2> QED BY <2>4, <2>7, <2>8 DEF Guarded
<1> QED BY <1>1, <1>2, CopiesMove

\* While the API server answers, an update is refused only if another was stored,
\* and what is stored is what the worker has.
LEMMA NextFollowed ==
    ASSUME Prompt, IInv, Followed, api, [Next]_vars,
           left["annotate"] = 0 \/ Annotations \subseteq Stops
    PROVE  Followed'
<1>1. CASE SyncHandler
  <2>1. worker.pc = "idle" /\ ~behind /\ UNCHANGED <<job, behind>>
    BY <1>1, SyncStarts DEF Synced
  <2>2. \E plan :
          \/ /\ cache' = plan.job
             /\ \/ worker' = Idle /\ SameRestarts(plan.job, cache)
                \/ worker'.pc = "delete" /\ worker'.plan = plan /\ worker'.aliased
          \/ /\ cache' = cache
             /\ worker'.pc = "create" /\ worker'.plan = plan /\ worker'.aliased
             /\ worker'.update \/ SameRestarts(plan.job, cache)
    BY <1>1, SyncStarts, Zenon
  <2> QED BY <2>1, <2>2 DEF Followed, Idle, SameRestarts, Halted, Decided
<1>2. CASE \E phase \in Annotations : Annotate(phase)
  <2>1. PICK phase \in Annotations :
           /\ left["annotate"] > 0 /\ worker' = worker /\ cache' = cache
           /\ job' = [job EXCEPT !.annotations = @ \union {phase}]
    BY <1>2 DEF Annotate, Spend, memory
  <2>2. job \in Jobs(spec) /\ phase \in Stops
    BY <2>1 DEF IInv, TypeOK
  <2>3. phase \in job'.annotations
    BY <2>1, <2>2 DEF Jobs
  <2> QED BY <2>1, <2>2, <2>3 DEF Followed, Halted
<1>3. CASE CopiesStay
  BY <1>3 DEF CopiesStay, SameWork, Followed, SameRestarts, Halted, Decided
<1>4. CASE JobIsDelivered
  BY <1>4 DEF JobIsDelivered, Followed, SameRestarts, Halted, Decided
<1>5. CASE SyncDecides
  BY <1>5 DEF SyncDecides, Followed, SameRestarts, Halted, Decided
<1>6. CASE JobIsSent
  <2>1. Halted(job') \/ cache' = job'
    BY <1>6 DEF JobIsSent, Followed, Halted, Decided
  <2> QED BY <1>6, <2>1 DEF JobIsSent, Followed, SameRestarts, Halted, Decided
<1>7. CASE OperatorRestarts
  BY <1>7 DEF OperatorRestarts, Followed, SameRestarts
<1> QED BY <1>1, <1>2, <1>3, <1>4, <1>5, <1>6, <1>7, CopiesFollow

\* An API server that never fails goes on to answer.
LEMMA NextAnswers ==
    ASSUME IInv, api, left["outage"] = 0, [Next]_vars
    PROVE  api'
<1>1. CASE SyncHandler \/ \E phase \in Annotations : Annotate(phase)
  BY <1>1, SyncStarts, Zenon DEF Annotate
<1>2. CASE api' = api \/ left["outage"] > 0 \/ api'
  <2>1. ~(left["outage"] > 0)
    OBVIOUS
  <2> QED BY <1>2, <2>1, Zenon
<1> QED BY <1>1, <1>2, CopiesFollow, Zenon

\* What a job that restarts all its pods together is spared.  Either nobody but the
\* controller writes it and the operator does not crash; or the API server does not
\* fail, and users write nothing but what stops it.
SparedTogether ==
    \A s \in JobSpecs : RestartsTogether(SetDefaults(s)) =>
       \/ Faults[s]["annotate"] = 0 /\ Faults[s]["crash"] = 0
       \/ /\ Faults[s]["outage"] = 0
          /\ Faults[s]["annotate"] = 0 \/ Annotations \subseteq Stops

\* If every sync starts from caches up to date, pods of different generations never
\* exist side by side for a job that is spared so (pod.go:232-250): lost replies, lost
\* pods, failing nodes and containers do not break the barrier, nor do outages of the
\* API server or crashes of the operator, if only one of the two happens.
THEOREM GenerationsStayApart ==
    ASSUME Prompt, SparedTogether
    PROVE  Spec => []SameGeneration
<1> DEFINE Unwritten == /\ left["annotate"] = 0 /\ left["crash"] = 0
                        /\ InStep /\ Barrier
           Answered == /\ left["outage"] = 0 /\ api
                       /\ left["annotate"] = 0 \/ Annotations \subseteq Stops
                       /\ Guarded /\ Followed
           Inv == /\ IInv /\ LastShown
                  /\ RestartsTogether(spec) => Unwritten \/ Answered
<1>1. Init => Inv
  <2> SUFFICES ASSUME Init PROVE Inv
    OBVIOUS
  <2>1. IInv /\ LastShown /\ InStep /\ Barrier /\ Guarded /\ Followed
    BY InitIInv, InitLastShown, InitInStep, InitBarrier, InitGuarded
  <2>2. api
    BY Zenon DEF Init
  <2>3. RestartsTogether(spec) =>
          \/ left["annotate"] = 0 /\ left["crash"] = 0
          \/ /\ left["outage"] = 0
             /\ left["annotate"] = 0 \/ Annotations \subseteq Stops
    BY DEF Init, SparedTogether
  <2> QED BY <2>1, <2>2, <2>3
<1>2. Inv /\ [Next]_vars => Inv'
  <2> SUFFICES ASSUME Inv, [Next]_vars PROVE Inv'
    OBVIOUS
  <2>1. IInv' /\ LastShown'
    BY NextIInv, NextLastShown
  <2>2. RestartsTogether(spec)' => RestartsTogether(spec)
    BY CopiesFollow, SyncStarts DEF Annotate, RestartsTogether
  <2>3. ASSUME RestartsTogether(spec), Unwritten PROVE Unwritten'
    <3>1. InStep' /\ Barrier'
      BY <2>3, NextInStep, NextBarrier
    <3>2. (left["annotate"] = 0 /\ left["crash"] = 0)'
      BY <2>3, NextSpared DEF FaultKinds
    <3> QED BY <3>1, <3>2
  <2>4. ASSUME RestartsTogether(spec), Answered PROVE Answered'
    <3>1. Guarded' /\ Followed'
      BY <2>4, NextGuarded, NextFollowed
    <3>2. /\ left'["outage"] = 0
          /\ left["annotate"] = 0 => left'["annotate"] = 0
      BY <2>4, NextSpared DEF FaultKinds
    <3>3. api'
      BY <2>4, NextAnswers, Zenon
    <3> QED BY <2>4, <3>1, <3>2, <3>3
  <2> QED BY <2>1, <2>2, <2>3, <2>4
<1>3. Inv => SameGeneration
  BY DEF Barrier, Guarded, OneGeneration, SameGeneration, RestartsTogether
<1> HIDE DEF Inv
<1> QED BY <1>1, <1>2, <1>3, PTL DEF Spec

(***************************************************************************)
(* What a sync reads may be old.  The history of a pod runs from the cache *)
(* over the events that are under way to the pod there is.                 *)
(***************************************************************************)

\* The pods in the cache, and after each of the events it has not got yet.
Shown(i) == IF i = 0 THEN podCache ELSE podFeed[i]

Points == 0 .. Len(podFeed)

\* A pod that is made is there from then on; one that is removed is not.
Rising(s) == \A i, j \in Points : i < j /\ s \in Present(Shown(i)) => s \in Present(Shown(j))

Falling(s) == \A i, j \in Points : i < j /\ s \in Present(Shown(j)) => s \in Present(Shown(i))

\* A pod seen to have succeeded is not followed by one that has not.
Lasting(s) ==
    \A i, j \in Points :
        /\ i < j /\ s \in Present(Shown(i)) /\ s \in Present(Shown(j))
        /\ Shown(i)[s].state = "Succeeded"
        => Shown(j)[s].state = "Succeeded"

\* A slot is filled or emptied while the cache lags, never both: what a sync makes
\* is not what another still deletes.
History ==
    /\ \A s \in Slots(spec) :
         /\ Lasting(s) /\ (Rising(s) \/ Falling(s))
         /\ s \in Present(pods) /\ pods[s].dying => Falling(s)
         /\ worker.pc # "idle" /\ s \in worker.plan.deletes => Falling(s)
         /\ worker.pc = "create" /\ s \in worker.plan.creates =>
              Rising(s) /\ (s \in Present(pods) => ~pods[s].dying)
    /\ worker.pc # "idle" => worker.plan.creates \intersect worker.plan.deletes = {}

\* The history starts with an empty list.
LEMMA InitHistory == Init => History
<1> SUFFICES ASSUME Init PROVE History
  OBVIOUS
<1>1. Points = {0}
  BY DEF Init, Points
<1>2. worker.pc = "idle" /\ Present(pods) = {}
  BY DEF Init, Idle, NoPods, Present
<1> QED BY <1>1, <1>2 DEF History, Rising, Falling, Lasting

\* The last of it are the pods there are.
LEMMA ShownPods ==
    ASSUME IInv, LastShown
    PROVE  /\ Len(podFeed) \in Nat /\ Shown(Len(podFeed)) = pods
           /\ Len(podFeed) = 0 <=> podFeed = <<>>
<1>1. podFeed \in Seq(Views)
  BY DEF IInv, TypeOK
<1>2. Len(podFeed) \in Nat /\ (Len(podFeed) = 0 <=> podFeed = <<>>)
  BY <1>1, EmptySeq
<1> QED BY <1>2 DEF LastShown, Shown

\* An event is added to it.
LEMMA HistoryGrows ==
    ASSUME IInv, NEW s, NEW new, PodBecomes(s, new)
    PROVE  /\ Len(podFeed') = Len(podFeed) + 1
           /\ \A i \in Points : Shown(i)' = Shown(i)
           /\ \A i : i = Len(podFeed) + 1 => Shown(i)' = pods'
<1>1. podFeed \in Seq(Views) /\ podFeed' = Append(podFeed, pods') /\ podCache' = podCache
  BY DEF IInv, TypeOK, PodBecomes
<1> DEFINE n == Len(podFeed)
<1>2. n \in Nat
  BY <1>1
<1>3. Len(podFeed') = n + 1 /\ podFeed'[n + 1] = pods'
      /\ \A i \in 1 .. n : podFeed'[i] = podFeed[i]
  BY <1>1
<1> HIDE DEF n
<1>4. ASSUME NEW i \in 0 .. n PROVE Shown(i)' = Shown(i)
  <2>1. CASE i = 0
    BY <1>1, <2>1 DEF Shown
  <2>2. CASE i # 0
    <3>1. i \in 1 .. n
      BY <1>2, <2>2
    <3> QED BY <1>3, <2>2, <3>1 DEF Shown
  <2> QED BY <2>1, <2>2
<1>5. \A i : i = n + 1 => Shown(i)' = pods'
  BY <1>2, <1>3 DEF Shown
<1> QED BY <1>3, <1>4, <1>5 DEF n, Points

\* Its beginning is forgotten, or all but its end.
LEMMA HistoryShrinks ==
    ASSUME IInv, LastShown, PodsAreShown
    PROVE  \/ /\ Len(podFeed') = Len(podFeed)
              /\ \A i \in Points : Shown(i)' = Shown(i)
           \/ /\ Len(podFeed) > 0 /\ Len(podFeed') = Len(podFeed) - 1
              /\ \A i \in 0 .. Len(podFeed) - 1 : Shown(i)' = Shown(i + 1)
           \/ Len(podFeed') = 0 /\ worker'.pc = "idle"
<1> DEFINE n == Len(podFeed)
<1>1. podFeed \in Seq(Views) /\ n \in Nat /\ (n = 0 <=> podFeed = <<>>)
  BY ShownPods DEF IInv, TypeOK
<1>2. CASE UNCHANGED <<podCache, podFeed>>
  BY <1>2 DEF Shown
<1>3. CASE podFeed # <<>> /\ podCache' = Head(podFeed) /\ podFeed' = Tail(podFeed)
  <2>1. /\ n > 0 /\ Len(podFeed') = n - 1 /\ podCache' = podFeed[1]
        /\ \A i \in 1 .. n - 1 : podFeed'[i] = podFeed[i + 1]
    BY <1>1, <1>3
  <2>2. \A i \in 0 .. n - 1 : Shown(i)' = Shown(i + 1)
    <3> HIDE DEF n
    <3> QED BY <1>1, <2>1 DEF Shown
  <2> QED BY <2>1, <2>2
<1>4. CASE podCache' = pods /\ podFeed' = <<>> /\ worker'.pc = "idle"
  BY <1>4
<1> QED BY <1>2, <1>3, <1>4 DEF PodsAreShown

\* What an added event must not contradict.
LEMMA SlotGrows ==
    ASSUME IInv, LastShown, NEW r, NEW new, PodBecomes(r, new), NEW s
    PROVE  /\ Falling(s) /\ (s \in Present(pods') => s \in Present(pods)) => Falling(s)'
           /\ Rising(s) /\ (s \in Present(pods) => s \in Present(pods')) => Rising(s)'
           /\ /\ Lasting(s)
              /\ s \in Present(pods') =>
                   \/ /\ s \in Present(pods)
                      /\ pods[s].state = "Succeeded" => pods'[s].state = "Succeeded"
                   \/ Rising(s) /\ s \notin Present(pods)
              => Lasting(s)'
<1> DEFINE n == Len(podFeed)
<1>1. n \in Nat /\ Shown(n) = pods
  BY ShownPods
<1>2. /\ Len(podFeed') = n + 1 /\ \A i \in 0 .. n : Shown(i)' = Shown(i)
      /\ \A i : i = n + 1 => Shown(i)' = pods'
  BY HistoryGrows DEF Points
<1>3. Points = 0 .. n /\ Points' = 0 .. n + 1
  BY <1>2 DEF Points
<1> HIDE DEF n
<1>4. ASSUME NEW i \in 0 .. n + 1, NEW j \in 0 .. n + 1, i < j
      PROVE  /\ i \in Points /\ Shown(i)' = Shown(i)
             /\ \/ j \in Points /\ Shown(j)' = Shown(j)
                \/ Shown(j)' = pods' /\ (i < n \/ Shown(i) = pods)
  <2>1. i \in 0 .. n /\ (j \in 0 .. n \/ j = n + 1) /\ (i < n \/ i = n)
    BY <1>1, <1>4
  <2> QED BY <1>1, <1>2, <1>3, <2>1
<1>5. n \in Points
  BY <1>1, <1>3
<1>6. ASSUME Falling(s), s \in Present(pods') => s \in Present(pods)
      PROVE  Falling(s)'
  <2> SUFFICES ASSUME NEW i \in Points', NEW j \in Points', i < j, s \in Present(Shown(j)')
               PROVE  s \in Present(Shown(i)')
    BY DEF Falling
  <2>1. \/ j \in Points /\ Shown(j)' = Shown(j)
        \/ Shown(j)' = pods' /\ (i < n \/ Shown(i) = pods)
    BY <1>3, <1>4
  <2>2. i \in Points /\ Shown(i)' = Shown(i)
    BY <1>3, <1>4
  <2> QED BY <1>1, <1>5, <1>6, <2>1, <2>2 DEF Falling
<1>7. ASSUME Rising(s), s \in Present(pods) => s \in Present(pods')
      PROVE  Rising(s)'
  <2> SUFFICES ASSUME NEW i \in Points', NEW j \in Points', i < j, s \in Present(Shown(i)')
               PROVE  s \in Present(Shown(j)')
    BY DEF Rising
  <2>1. \/ j \in Points /\ Shown(j)' = Shown(j)
        \/ Shown(j)' = pods' /\ (i < n \/ Shown(i) = pods)
    BY <1>3, <1>4
  <2>2. i \in Points /\ Shown(i)' = Shown(i)
    BY <1>3, <1>4
  <2> QED BY <1>1, <1>5, <1>7, <2>1, <2>2 DEF Rising
<1>8. ASSUME Lasting(s),
             s \in Present(pods') =>
               \/ /\ s \in Present(pods)
                  /\ pods[s].state = "Succeeded" => pods'[s].state = "Succeeded"
               \/ Rising(s) /\ s \notin Present(pods)
      PROVE  Lasting(s)'
  <2> SUFFICES ASSUME NEW i \in Points', NEW j \in Points', i < j,
                      s \in Present(Shown(i)'), s \in Present(Shown(j)'),
                      Shown(i)'[s].state = "Succeeded"
               PROVE  Shown(j)'[s].state = "Succeeded"
    BY DEF Lasting
  <2>1. \/ j \in Points /\ Shown(j)' = Shown(j)
        \/ Shown(j)' = pods' /\ (i < n \/ Shown(i) = pods)
    BY <1>3, <1>4
  <2>2. i \in Points /\ Shown(i)' = Shown(i)
    BY <1>3, <1>4
  <2>3. CASE j \in Points /\ Shown(j)' = Shown(j)
    BY <1>8, <2>2, <2>3 DEF Lasting
  <2>4. CASE Shown(j)' = pods' /\ (i < n \/ Shown(i) = pods)
    <3>1. s \in Present(pods)
      BY <1>1, <1>5, <1>8, <2>2, <2>4 DEF Rising
    <3>2. pods[s].state = "Succeeded"
      BY <1>1, <1>5, <1>8, <2>2, <2>4, <3>1 DEF Lasting
    <3> QED BY <1>8, <2>4, <3>1, <3>2
  <2> QED BY <2>1, <2>3, <2>4
<1> QED BY <1>6, <1>7, <1>8

\* A shorter history contradicts nothing.
LEMMA SlotShrinks ==
    ASSUME IInv, LastShown, PodsAreShown, NEW s
    PROVE  /\ (Falling(s) => Falling(s)') /\ (Rising(s) => Rising(s)')
           /\ Lasting(s) => Lasting(s)'
<1> DEFINE n == Len(podFeed)
<1>1. n \in Nat
  BY ShownPods
<1>2. \/ Len(podFeed') = n /\ \A i \in Points : Shown(i)' = Shown(i)
      \/ /\ n > 0 /\ Len(podFeed') = n - 1
         /\ \A i \in 0 .. n - 1 : Shown(i)' = Shown(i + 1)
      \/ Len(podFeed') = 0
  BY HistoryShrinks
<1>3. Points = 0 .. n /\ Points' = 0 .. Len(podFeed')
  BY DEF Points
<1> HIDE DEF n
<1>4. CASE Len(podFeed') = n /\ \A i \in Points : Shown(i)' = Shown(i)
  <2>1. Points' = Points
    BY <1>3, <1>4
  <2> QED BY <1>4, <2>1 DEF Falling, Rising, Lasting
<1>5. CASE /\ n > 0 /\ Len(podFeed') = n - 1
           /\ \A i \in 0 .. n - 1 : Shown(i)' = Shown(i + 1)
  <2>1. \A i \in Points' : i + 1 \in Points /\ Shown(i)' = Shown(i + 1)
    BY <1>1, <1>3, <1>5
  <2>2. \A i, j \in Points' : i < j => i + 1 < j + 1
    BY <1>1, <1>3, <1>5
  <2> QED BY <2>1, <2>2 DEF Falling, Rising, Lasting
<1>6. CASE Len(podFeed') = 0
  <2>1. \A i, j \in Points' : ~(i < j)
    BY <1>3, <1>6
  <2> QED BY <2>1 DEF Falling, Rising, Lasting
<1> QED BY <1>2, <1>4, <1>5, <1>6

\* A sync that reads an old cache deletes what it sees, and makes what it does not.
LEMMA SyncSeesHistory ==
    ASSUME IInv, LastShown, History, SyncHandler
    PROVE  History'
<1>1. /\ worker.pc = "idle" /\ FullSpec(spec)
      /\ UNCHANGED <<spec, pods, podFeed, podCache>>
  BY SyncStarts DEF IInv
<1>2. PICK nodes, clock :
         \E plan \in ReconcileTrainingJobs(spec, cache, podCache, svcCache,
                                           nodes, now, clock) :
           worker' = Idle \/ worker'.plan = plan
  BY SyncStarts, Zenon
<1>3. PICK plan \in ReconcileTrainingJobs(spec, cache, podCache, svcCache,
                                          nodes, now, clock) :
           worker' = Idle \/ worker'.plan = plan
  BY <1>2
<1>4. /\ plan.deletes \subseteq Present(podCache)
      /\ plan.creates \intersect Present(podCache) = {}
  BY <1>1, <1>3, DeletionsAreSeen, CreationsAreMissing
<1>5. \A s : /\ Rising(s)' <=> Rising(s)
             /\ Falling(s)' <=> Falling(s)
             /\ Lasting(s)' <=> Lasting(s)
  BY <1>1 DEF Rising, Falling, Lasting, Shown, Points
<1>6. /\ 0 \in Points /\ Shown(0) = podCache /\ Len(podFeed) \in Points
      /\ Shown(Len(podFeed)) = pods /\ \A i \in Points : i = 0 \/ 0 < i
  BY ShownPods DEF Points, Shown
<1>7. ASSUME NEW s \in Slots(spec), s \in Present(podCache), Rising(s) \/ Falling(s)
      PROVE  Falling(s)
  BY <1>6, <1>7 DEF Rising, Falling
<1>8. ASSUME NEW s \in Slots(spec), s \notin Present(podCache), Rising(s) \/ Falling(s)
      PROVE  Rising(s) /\ (Falling(s) => s \notin Present(pods))
  <2>1. CASE Rising(s)
    BY <1>6, <1>8, <2>1 DEF Falling
  <2>2. CASE Falling(s)
    <3>1. \A i \in Points : s \notin Present(Shown(i))
      BY <1>6, <1>8, <2>2 DEF Falling
    <3> QED BY <1>6, <3>1 DEF Rising
  <2> QED BY <1>8, <2>1, <2>2
<1>9. worker'.pc # "idle" => worker'.plan = plan
  BY <1>3 DEF Idle
<1> QED BY <1>1, <1>4, <1>5, <1>7, <1>8, <1>9 DEF History

\* No step removes a pod that a sync still has to make, or makes one that is
\* being deleted, as long as pods are not lost.
LEMMA NextHistory ==
    ASSUME IInv, LastShown, History, left["podLoss"] = 0, [Next]_vars
    PROVE  History'
<1>1. CASE SyncHandler
  BY <1>1, SyncSeesHistory
<1>2. ASSUME spec' = spec, WorkerMoves
      PROVE  History'
  <2>1. /\ worker'.pc # "idle" =>
             /\ worker.pc # "idle"
             /\ worker'.plan.deletes \subseteq worker.plan.deletes
             /\ worker'.plan.creates \subseteq worker.plan.creates
        /\ worker'.pc = "create" => worker.pc = "create"
    BY <1>2 DEF WorkerMoves
  <2>2. worker'.pc # "idle" => worker'.plan.creates \intersect worker'.plan.deletes = {}
    BY <2>1 DEF History
  <2>3. SUFFICES ASSUME NEW s \in Slots(spec)
                 PROVE  /\ Lasting(s)' /\ (Rising(s)' \/ Falling(s)')
                        /\ s \in Present(pods') /\ pods'[s].dying => Falling(s)'
                        /\ worker'.pc # "idle" /\ s \in worker'.plan.deletes => Falling(s)'
                        /\ worker'.pc = "create" /\ s \in worker'.plan.creates =>
                             Rising(s)' /\ (s \in Present(pods') => ~pods'[s].dying)
    BY <1>2, <2>2 DEF History
  <2>4. /\ Lasting(s) /\ (Rising(s) \/ Falling(s))
        /\ s \in Present(pods) /\ pods[s].dying => Falling(s)
        /\ worker.pc # "idle" /\ s \in worker.plan.deletes => Falling(s)
        /\ worker.pc = "create" /\ s \in worker.plan.creates =>
             Rising(s) /\ (s \in Present(pods) => ~pods[s].dying)
    BY DEF History
  <2>5. CASE PodsAreShown
    <3>1. pods' = pods
      BY <2>5 DEF PodsAreShown
    <3>2. /\ (Falling(s) => Falling(s)') /\ (Rising(s) => Rising(s)')
          /\ Lasting(s) => Lasting(s)'
      BY <2>5, SlotShrinks
    <3> QED BY <2>1, <2>4, <3>1, <3>2
  <2>6. ASSUME NEW r \in Slots(spec), NEW new, PodBecomes(r, new)
        PROVE  /\ r # s => /\ pods'[s] = pods[s]
                           /\ s \in Present(pods') <=> s \in Present(pods)
               /\ r = s => /\ pods'[s] = new
                           /\ s \in Present(pods') <=> new # NoPod
               /\ Falling(s) /\ (s \in Present(pods') => s \in Present(pods)) => Falling(s)'
               /\ Rising(s) /\ (s \in Present(pods) => s \in Present(pods')) => Rising(s)'
               /\ (s \in Present(pods') =>
                     \/ /\ s \in Present(pods)
                        /\ pods[s].state = "Succeeded" => pods'[s].state = "Succeeded"
                     \/ Rising(s) /\ s \notin Present(pods))
                  => Lasting(s)'
    <3>1. pods \in [Slots(spec) -> Pod \union {NoPod}] /\ pods' = [pods EXCEPT ![r] = new]
      BY <2>6 DEF IInv, TypeOK, Views, PodBecomes
    <3>2. /\ r # s => pods'[s] = pods[s] /\ (s \in Present(pods') <=> s \in Present(pods))
          /\ r = s => pods'[s] = new /\ (s \in Present(pods') <=> new # NoPod)
      BY <3>1 DEF Present
    <3> QED BY <2>4, <2>6, <3>2, SlotGrows
  <2>7. ASSUME NEW r \in Slots(spec), NEW new, PodBecomes(r, new), r # s
        PROVE  /\ pods'[s] = pods[s] /\ (s \in Present(pods') <=> s \in Present(pods))
               /\ (Falling(s) => Falling(s)') /\ (Rising(s) => Rising(s)') /\ Lasting(s)'
    BY <2>6, <2>7
  <2>8. ASSUME PodGoes(s)
        PROVE  /\ s \notin Present(pods') /\ Falling(s)' /\ Lasting(s)'
               /\ ~(worker.pc = "create" /\ s \in worker.plan.creates)
    <3>1. PodBecomes(s, NoPod) /\ s \in Present(pods)
      BY <2>8 DEF PodGoes
    <3>2. \/ pods[s].dying
          \/ worker.pc = "delete" /\ s \in worker.plan.deletes
      BY <2>8 DEF PodGoes
    <3>3. Falling(s) /\ ~(worker.pc = "create" /\ s \in worker.plan.creates)
      BY <2>4, <3>1, <3>2
    <3> QED BY <2>6, <3>1, <3>3
  <2>9. ASSUME NEW new, PodLives(s, new)
        PROVE  /\ s \in Present(pods) /\ s \in Present(pods')
               /\ (Falling(s) => Falling(s)') /\ (Rising(s) => Rising(s)') /\ Lasting(s)'
               /\ pods'[s].dying =>
                    pods[s].dying \/ (worker.pc = "delete" /\ s \in worker.plan.deletes)
    <3>1. /\ PodBecomes(s, new) /\ s \in Present(pods) /\ new # NoPod
          /\ pods[s].state = "Succeeded" => new.state = "Succeeded"
          /\ new.dying =>
               pods[s].dying \/ (worker.pc = "delete" /\ s \in worker.plan.deletes)
      BY <2>9, NoPodAssumption DEF PodLives
    <3> QED BY <2>6, <3>1
  <2>10. ASSUME PodIsMade(s)
         PROVE  /\ Rising(s)' /\ Lasting(s)' /\ ~pods'[s].dying
                /\ ~(worker.pc # "idle" /\ s \in worker.plan.deletes)
    <3>1. /\ worker.pc = "create" /\ s \in worker.plan.creates /\ s \notin Present(pods)
          /\ PodBecomes(s, NewPod(worker.gens[s[1]]))
      BY <2>10 DEF PodIsMade
    <3>2. s \in Present(pods')
      BY <3>1, <2>10, PodsPresent
    <3>3. ~NewPod(worker.gens[s[1]]).dying
      BY DEF NewPod
    <3>4. Rising(s) /\ s \notin worker.plan.deletes
      BY <2>4, <3>1 DEF History
    <3> QED BY <2>6, <3>1, <3>2, <3>3, <3>4
  <2>11. ASSUME NEW r \in Slots(spec),
                PodGoes(r) \/ PodIsMade(r) \/ \E new : PodLives(r, new)
         PROVE  \E new : PodBecomes(r, new)
    BY <2>11 DEF PodGoes, PodIsMade, PodLives
  <2>12. CASE \E r \in Slots(spec) :
                 PodGoes(r) \/ PodIsMade(r) \/ \E new : PodLives(r, new)
    <3>1. PICK r \in Slots(spec) : PodGoes(r) \/ PodIsMade(r) \/ \E new : PodLives(r, new)
      BY <2>12
    <3>2. CASE r # s
      <4>1. /\ pods'[s] = pods[s] /\ (s \in Present(pods') <=> s \in Present(pods))
            /\ (Falling(s) => Falling(s)') /\ (Rising(s) => Rising(s)') /\ Lasting(s)'
        BY <2>7, <2>11, <3>1, <3>2
      <4> QED BY <2>1, <2>4, <4>1
    <3>3. CASE PodGoes(s)
      BY <2>1, <2>8, <3>3
    <3>4. CASE PodIsMade(s)
      BY <2>1, <2>10, <3>4
    <3>5. CASE \E new : PodLives(s, new)
      BY <2>1, <2>4, <2>9, <3>5
    <3> QED BY <3>1, <3>2, <3>3, <3>4, <3>5
  <2> QED BY <2>5, <2>12, PodMoves
<1> QED BY <1>1, <1>2, CopiesMove

(***************************************************************************)
(* A success is one of all pods.                                           *)
(***************************************************************************)

AllHaveSucceeded == \A s \in Present(pods) : pods[s].state = "Succeeded"

\* Once a copy of the job names a success, every pod has succeeded and no sync is
\* about to make another.
Earned ==
    /\ (\E k \in Copies : NamesSuccess(k)) => AllHaveSucceeded
    /\ Creating => \A k \in Copies : ~NamesSuccess(k)

\* A new job names none.
LEMMA InitEarned == Init => Earned
<1> SUFFICES ASSUME Init PROVE Earned
  OBVIOUS
<1>1. Copies = {NewJob}
  BY DEF Init, Copies, Idle
<1>2. ~NamesSuccess(NewJob)
  BY DEF NewJob, NamesSuccess, NoPhase
<1>3. ~Creating
  BY DEF Init, Creating, Idle
<1> QED BY <1>1, <1>2, <1>3 DEF Earned

\* A pod that has succeeded stays so, and only a sync makes pods.
LEMMA SuccessStays ==
    ASSUME IInv, AllHaveSucceeded, ~Creating, [Next]_vars
    PROVE  AllHaveSucceeded'
<1>1. pods \in [Slots(spec) -> Pod \union {NoPod}]
  BY DEF IInv, TypeOK, Views
<1>2. ~\E s \in Slots(spec) : PodIsMade(s)
  BY DEF PodIsMade, Creating
<1>3. CASE PodsAreShown
  BY <1>3 DEF PodsAreShown, AllHaveSucceeded
<1>4. ASSUME NEW s \in Slots(spec), PodGoes(s)
      PROVE  AllHaveSucceeded'
  <2>1. pods' = [pods EXCEPT ![s] = NoPod]
    BY <1>4 DEF PodGoes, PodBecomes
  <2>2. \A r \in Present(pods') : r \in Present(pods) /\ pods'[r] = pods[r]
    BY <1>1, <2>1 DEF Present
  <2> QED BY <2>2 DEF AllHaveSucceeded
<1>5. ASSUME NEW s \in Slots(spec), NEW new, PodLives(s, new)
      PROVE  AllHaveSucceeded'
  <2>1. /\ pods' = [pods EXCEPT ![s] = new] /\ s \in Present(pods)
        /\ pods[s].state = "Succeeded" => new.state = "Succeeded"
    BY <1>5 DEF PodLives, PodBecomes
  <2>2. \A r \in Present(pods') :
           r \in Present(pods) /\ (r = s \/ pods'[r] = pods[r]) /\ pods'[s] = new
    BY <1>1, <2>1 DEF Present
  <2> QED BY <2>1, <2>2 DEF AllHaveSucceeded
<1> QED BY <1>2, <1>3, <1>4, <1>5, PodMoves

\* All pods a sync sees succeeded have: its cache is up to date, or what it shows
\* of a pod that succeeded lasts.
LEMMA SeenIsSo ==
    ASSUME IInv, LastShown, (Prompt /\ Synced) \/ History, AllSucceeded(spec, podCache)
    PROVE  AllHaveSucceeded
<1>1. pods \in [Slots(spec) -> Pod \union {NoPod}]
  BY DEF IInv, TypeOK, Views
<1>2. \A s \in Present(pods) : s \in Slots(spec)
  BY <1>1 DEF Present
<1>3. CASE Synced
  BY <1>2, <1>3 DEF Synced, LastShown, AllSucceeded, AllHaveSucceeded
<1>4. CASE History
  <2>1. /\ 0 \in Points /\ Shown(0) = podCache /\ Len(podFeed) \in Points
        /\ Shown(Len(podFeed)) = pods /\ \A i \in Points : i = 0 \/ 0 < i
    BY ShownPods DEF Points, Shown
  <2>2. ASSUME NEW s \in Present(pods) PROVE pods[s].state = "Succeeded"
    <3>1. Lasting(s) /\ s \in Present(podCache) /\ podCache[s].state = "Succeeded"
      BY <1>2, <1>4, <2>2 DEF History, AllSucceeded
    <3> QED BY <2>1, <3>1 DEF Lasting
  <2> QED BY <2>2 DEF AllHaveSucceeded
<1> QED BY <1>3, <1>4

\* A sync that names a success sees all pods succeeded, and makes none, and one that
\* begins after a success finds a verdict.
LEMMA NextEarned ==
    ASSUME "Succeed" \notin Annotations, IInv, Agreement, LastShown, Prompt \/ History,
           UsersAnnotate, CompletesWithAll(spec), Earned, [Next]_vars
    PROVE  Earned'
<1>1. FullSpec(spec) /\ job \in Jobs(spec) /\ now \in Nat
  BY DEF IInv, TypeOK
<1>2. CASE SyncHandler
  <2>1. /\ StaysOpen(spec, cache) /\ job' = job /\ pods' = pods
        /\ (Prompt /\ Synced) \/ History
    BY <1>2, SyncStarts
  <2>2. PICK nodes, clock :
           \E plan \in ReconcileTrainingJobs(spec, cache, podCache, svcCache,
                                             nodes, now, clock) :
             /\ cache' \in {cache, plan.job}
             /\ worker' = Idle \/ worker'.plan = plan
    BY <1>2, SyncStarts, Zenon
  <2>3. PICK plan \in ReconcileTrainingJobs(spec, cache, podCache, svcCache,
                                            nodes, now, clock) :
           /\ cache' \in {cache, plan.job}
           /\ worker' = Idle \/ worker'.plan = plan
    BY <2>2
  <2>4. \A k \in Copies : NamesSuccess(k) => Decided(k)
    BY DEF UsersAnnotate, NamesSuccess, Decided, Ended, EndingPhases, EndingPhaseOrder
  <2>5. Decided(cache) => plan.creates = {}
    <3>1. Decided(cache) => Sealed(cache)
      BY <2>1 DEF Decided, StaysOpen
    <3> QED BY <2>1, <3>1, SealedPlans DEF IInv, GoodJob, StaysOpen
  <2>6. NamesSuccess(job) \/ NamesSuccess(cache) => plan.creates = {} /\ AllHaveSucceeded
    <3>1. NamesSuccess(job) \/ NamesSuccess(cache) => Decided(cache)
      BY <2>4 DEF Copies, Agreement, Knows, Decided, Ended
    <3> QED BY <2>5, <3>1 DEF Earned, Copies
  <2>7. NamesSuccess(plan.job) => plan.creates = {} /\ AllHaveSucceeded
    <3>1. CASE NamesSuccess(cache)
      BY <2>6, <3>1
    <3>2. CASE ~NamesSuccess(cache) /\ NamesSuccess(plan.job)
      <4>1. AllSucceeded(spec, podCache) /\ plan.creates = {}
        BY <1>1, <2>1, <3>2, SuccessIsSeen
      <4> QED BY <2>1, <4>1, SeenIsSo
    <3> QED BY <3>1, <3>2
  <2>8. Copies' \subseteq {job, cache, plan.job}
    BY <2>1, <2>3 DEF Copies, Idle
  <2>9. AllHaveSucceeded' <=> AllHaveSucceeded
    BY <2>1 DEF AllHaveSucceeded
  <2>10. Creating' => plan.creates # {}
    BY <2>3 DEF Creating, Idle
  <2> QED BY <2>6, <2>7, <2>8, <2>9, <2>10 DEF Earned
<1>3. CASE /\ spec' = spec /\ WorkerMoves
           /\ job' \in Copies \/ \E phase \in Annotations : Annotate(phase)
           /\ cache' \in Copies
  <2>1. \A k \in Copies' : NamesSuccess(k) => \E c \in Copies : NamesSuccess(c)
    <3>1. Copies' \subseteq Copies \union {job'}
      BY <1>3 DEF Copies, WorkerMoves
    <3>2. CASE \E phase \in Annotations : Annotate(phase)
      <4>1. PICK phase \in Annotations :
               job' = [job EXCEPT !.annotations = @ \union {phase}]
        BY <3>2 DEF Annotate
      <4>2. job'.annotations = job.annotations \union {phase} /\ job'.phase = job.phase
        BY <1>1, <4>1 DEF Jobs
      <4>3. NamesSuccess(job') => NamesSuccess(job)
        BY <4>2 DEF NamesSuccess
      <4> QED BY <3>1, <4>3 DEF Copies
    <3> QED BY <1>3, <3>1, <3>2
  <2>2. Creating' => Creating
    BY <1>3 DEF Creating, WorkerMoves
  <2> QED BY <2>1, <2>2, SuccessStays DEF Earned
<1> QED BY <1>2, <1>3, CopiesMove

\* If users do not annotate a job as succeeded, and either no pod is lost or every
\* sync starts from caches up to date, a job whose completion policies are all All
\* names a success only when every pod there is has succeeded, and none is made
\* afterwards: however old the cache was that a sync read, and whatever was lost,
\* repeated or begun anew in between.
THEOREM SuccessIsEarned ==
    ASSUME "Succeed" \notin Annotations, Prompt \/ Spared("podLoss")
    PROVE  Spec => []SucceedIsEarned
<1> DEFINE Known == left["podLoss"] = 0 /\ History
           Inv == /\ IInv /\ Agreement /\ LastShown /\ UsersAnnotate
                  /\ Prompt \/ Known
                  /\ CompletesWithAll(spec) => Earned
<1>1. Init => Inv
  BY InitIInv, InitAgreement, InitLastShown, InitUsersAnnotate, InitHistory,
     InitSpared, InitEarned
<1>2. Inv /\ [Next]_vars => Inv'
  <2> SUFFICES ASSUME Inv, [Next]_vars PROVE Inv'
    OBVIOUS
  <2>1. IInv' /\ Agreement' /\ LastShown' /\ UsersAnnotate'
    BY NextIInv, NextAgreement, NextLastShown, NextUsersAnnotate
  <2>2. Known => Known'
    BY NextSpared, NextHistory DEF FaultKinds
  <2>3. CompletesWithAll(spec)' => CompletesWithAll(spec)
    BY CopiesMove, SyncStarts DEF CompletesWithAll
  <2>4. CompletesWithAll(spec) => Earned'
    BY NextEarned
  <2> QED BY <2>1, <2>2, <2>3, <2>4
<1>3. Inv => SucceedIsEarned
  BY DEF Earned, Copies, AllHaveSucceeded, SucceedIsEarned, CompletesWithAll, NamesSuccess
<1> HIDE DEF Inv
<1> QED BY <1>1, <1>2, <1>3, PTL DEF Spec
==============================================================================
