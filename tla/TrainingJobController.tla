------------------------ MODULE TrainingJobController ------------------------
(***************************************************************************)
(* The controller of one AITrainingJob: a worker that reconciles the job   *)
(* from informer caches, the API server that stores the job, its pods and  *)
(* its services, the watches that bring the caches up to date, and the     *)
(* cluster that schedules, runs and loses the pods.                        *)
(*                                                                         *)
(* The lister hands the worker the very object of the informer's cache, so *)
(* whatever a sync writes into its job is seen by the next sync before the *)
(* API server has accepted it, and although it may never do.  "cache" is   *)
(* that object's content; worker.aliased says that the object the worker   *)
(* holds is still the one in the cache.                                    *)
(***************************************************************************)
EXTENDS Reconcile, Sequences

CONSTANTS JobSpecs,     \* the specifications a user may submit
          Nodes,        \* the nodes pods are scheduled on
          ExitCodes,    \* the sets of exit codes a failing pod may leave
          Faults,       \* for each of them, how many faults of a kind may happen
          Prompt,       \* TRUE: a sync starts only with caches up to date
          Annotations,  \* the ending phases users write as annotations
          UpdateTries,  \* how often updateTrainingJobPhase tries
          MaxLag,       \* bound on the pod events that are not delivered
          MaxTime       \* bound on the clock

\* What may go wrong from outside; "any" bounds the faults of all kinds together.
FaultKinds == {"crash", "outage", "lostReply", "nodeFail", "podFail",
               "podLoss", "imageError", "annotate", "any"}

ASSUME JobSpecsAssumption == \A s \in JobSpecs : IsJobSpec(s)

ASSUME BudgetAssumption == Faults \in [JobSpecs -> [FaultKinds -> Nat]]

ASSUME AnnotationsAssumption == Annotations \subseteq EndingPhases

ASSUME BoundsAssumption ==
    /\ Prompt \in BOOLEAN
    /\ UpdateTries \in Nat \ {0} /\ MaxLag \in Nat \ {0} /\ MaxTime \in Nat

VARIABLES spec,         \* the job's specification, with its defaults
          job,          \* the job as the API server stores it
          cache,        \* the content of the job in the informer's cache
          behind,       \* the cached job has an older resource version
          pods,         \* the pods of the job: slot -> pod or NoPod
          podFeed,      \* the later states of pods the watch has to deliver
          podCache,     \* the pods in the informer's cache
          svcs,         \* the slots that have a service
          svcCache,     \* those the informer's cache shows
          unmet,        \* the expectation keys that still wait for a creation
          queued,       \* the job's key is in the work queue
          timer,        \* when the delayed key is due, Never if there is none
          worker,       \* the sync in progress
          ready,        \* the nodes that are ready
          api,          \* the API server answers
          now,          \* the clock
          left          \* the faults that may still happen

stored == <<job, pods, podFeed, svcs>>
caches == <<cache, behind, podCache, svcCache>>
memory == <<unmet, queued, timer, worker>>
cluster == <<ready, api, now, left>>
vars == <<spec, stored, caches, memory, cluster>>

------------------------------------------------------------------------------

Never == -1

NewJob == [phase |-> NoPhase, restart |-> NoReplica,
           counts |-> [t \in Types(spec) |-> 0], creating |-> "never",
           start |-> NotStarted, ended |-> FALSE, annotations |-> {}]

NewPod(generation) == [state |-> "Pending", node |-> NoNode, exit |-> {},
                       gen |-> generation, dying |-> FALSE]

NoPods == [s \in Slots(spec) |-> NoPod]

NoPlan == [creates |-> {}, svcCreates |-> {}, deletes |-> {}, force |-> FALSE,
           svcDeletes |-> {}, stops |-> FALSE, job |-> NewJob, wake |-> "none"]

Idle == [pc |-> "idle", plan |-> NoPlan, gens |-> NewJob.counts,
         aliased |-> FALSE, update |-> FALSE, tries |-> 0]

Init == /\ \E s \in JobSpecs : spec = SetDefaults(s) /\ left = Faults[s]
        /\ job = NewJob
        /\ cache = NewJob
        /\ behind = FALSE
        /\ pods = NoPods /\ podFeed = <<>> /\ podCache = NoPods
        /\ svcs = {} /\ svcCache = {}
        /\ unmet = {}
        /\ queued = TRUE
        /\ timer = Never
        /\ worker = Idle
        /\ ready = Nodes
        /\ api = TRUE
        /\ now = 0

\* One fault of a kind happens; "any" bounds their number over all kinds.
Spend(kind) == /\ left[kind] > 0 /\ left["any"] > 0
               /\ left' = [left EXCEPT ![kind] = @ - 1, !["any"] = @ - 1]

\* The pods change on the API server; the watch will tell.
ChangePods(new) == /\ Len(podFeed) < MaxLag
                   /\ pods' = new
                   /\ podFeed' = Append(podFeed, new)

\* The delaying queue keeps one entry per key, the earliest.
DelayedAdd(at) == timer' = IF timer = Never \/ at < timer THEN at ELSE timer

------------------------------------------------------------------------------
(***************************************************************************)
(* The cluster: scheduler, kubelets, nodes, users, time                    *)
(***************************************************************************)

OnlyPods == UNCHANGED <<spec, job, svcs, caches, memory, ready, api, now>>

SetState(s, state, codes) ==
    ChangePods([pods EXCEPT ![s].state = state, ![s].exit = codes])

Schedule(s, n) ==
    /\ pods[s].node = NoNode /\ n \in ready
    /\ ChangePods([pods EXCEPT ![s].node = n])
    /\ OnlyPods /\ UNCHANGED left

StartPod(s) ==
    /\ IsPendingPod(pods[s]) /\ pods[s].node \in ready /\ ~pods[s].dying
    /\ SetState(s, "Running", {})
    /\ OnlyPods /\ UNCHANGED left

\* The image of a container cannot be pulled, for now.
ImageError(s) ==
    /\ pods[s].state = "Pending" /\ pods[s].node \in ready /\ ~pods[s].dying
    /\ Spend("imageError")
    /\ SetState(s, "ImageError", {})
    /\ OnlyPods

Succeed(s) ==
    /\ pods[s].state = "Running" /\ pods[s].node \in ready
    /\ SetState(s, "Succeeded", {0})
    /\ OnlyPods /\ UNCHANGED left

FailPod(s, codes) ==
    /\ pods[s].state = "Running" /\ pods[s].node \in ready
    /\ Spend("podFail")
    /\ SetState(s, "Failed", codes)
    /\ OnlyPods

\* A kubelet that runs removes a pod that was told to stop.
PodGone(s) ==
    /\ pods[s].dying /\ pods[s].node \in ready
    /\ ChangePods([pods EXCEPT ![s] = NoPod])
    /\ OnlyPods /\ UNCHANGED left

\* CleanGarbagePods, whose list and deletion are one step here: a pod that
\* outlived its grace period, because its kubelet is gone, is forced out.
CollectPod(s) ==
    /\ pods[s].dying /\ api
    /\ ChangePods([pods EXCEPT ![s] = NoPod])
    /\ OnlyPods /\ UNCHANGED left

\* Somebody else removes a pod.
LosePod(s) ==
    /\ Spend("podLoss")
    /\ ChangePods([pods EXCEPT ![s] = NoPod])
    /\ OnlyPods

NodeDown(n) ==
    /\ n \in ready /\ Spend("nodeFail")
    /\ ready' = ready \ {n}
    /\ UNCHANGED <<spec, stored, caches, memory, api, now>>

NodeUp(n) ==
    /\ n \notin ready
    /\ ready' = ready \union {n}
    /\ UNCHANGED <<spec, stored, caches, memory, api, now, left>>

\* A user, or the scheduler that preempts the job, annotates it.
Annotate(phase) ==
    /\ phase \notin job.annotations /\ Spend("annotate")
    /\ job' = [job EXCEPT !.annotations = @ \union {phase}]
    /\ behind' = TRUE
    /\ UNCHANGED <<spec, pods, podFeed, svcs, cache, podCache, svcCache, memory,
                   ready, api, now>>

\* The clock stops at MaxTime, but not before a time limit that counts.
ClockGoesOn == \/ now < MaxTime
               \/ job.start # NotStarted /\ now < job.start + spec.timeLimit

\* The clock matters from the moment a running job is first seen.
Tick == /\ spec.timeLimit # NoLimit /\ ClockGoesOn
        /\ job.start # NotStarted \/ cache.start # NotStarted
        /\ now' = now + 1
        /\ UNCHANGED <<spec, stored, caches, memory, ready, api, left>>

ApiDown == /\ api /\ Spend("outage")
           /\ api' = FALSE
           /\ UNCHANGED <<spec, stored, caches, memory, ready, now>>

ApiUp == /\ ~api
         /\ api' = TRUE
         /\ UNCHANGED <<spec, stored, caches, memory, ready, now, left>>

Cluster == \/ \E s \in Present(pods) :
                 \/ StartPod(s) \/ ImageError(s) \/ Succeed(s)
                 \/ PodGone(s) \/ CollectPod(s) \/ LosePod(s)
                 \/ \E n \in Nodes : Schedule(s, n)
                 \/ \E codes \in ExitCodes : FailPod(s, codes)
           \/ \E n \in Nodes : NodeDown(n) \/ NodeUp(n)
           \/ \E phase \in Annotations : Annotate(phase)
           \/ Tick \/ ApiDown \/ ApiUp

------------------------------------------------------------------------------
(***************************************************************************)
(* The watches: informer event handlers                                    *)
(***************************************************************************)

\* updateTrainingJob: a new object replaces the one in the cache, and the key
\* is added with a rate limit.
DeliverJob ==
    /\ behind /\ api
    /\ cache' = job
    /\ behind' = FALSE
    /\ worker' = [worker EXCEPT !.aliased = FALSE]
    /\ DelayedAdd(now)
    /\ UNCHANGED <<spec, stored, podCache, svcCache, unmet, queued, cluster>>

\* Seeded fault: a deleted pod does not enqueue.
DeliverPodsLeft ==
    /\ podFeed # <<>> /\ api
    /\ podCache' = Head(podFeed)
    /\ podFeed' = Tail(podFeed)
    /\ unmet' = unmet \ {<<"pods", s[1]>> :
                           s \in Present(Head(podFeed)) \ Present(podCache)}
    /\ queued' = (queued \/ Present(podCache) \subseteq Present(Head(podFeed)))
    /\ UNCHANGED <<spec, job, pods, svcs, cache, behind, svcCache, timer, worker,
                   cluster>>

\* addPod, updatePod, deletePod: each enqueues; only an added pod meets the
\* expectation of its type.
DeliverPods ==
    /\ podFeed # <<>> /\ api
    /\ podCache' = Head(podFeed)
    /\ podFeed' = Tail(podFeed)
    /\ unmet' = unmet \ {<<"pods", s[1]>> :
                           s \in Present(Head(podFeed)) \ Present(podCache)}
    /\ queued' = TRUE
    /\ UNCHANGED <<spec, job, pods, svcs, cache, behind, svcCache, timer, worker,
                   cluster>>

\* addService.
DeliverNewService(s) ==
    /\ s \in svcs \ svcCache /\ api
    /\ svcCache' = svcCache \union {s}
    /\ unmet' = unmet \ {<<"services", s[1]>>}
    /\ queued' = TRUE
    /\ UNCHANGED <<spec, stored, cache, behind, podCache, timer, worker, cluster>>

\* deleteService does nothing.
DeliverGoneService(s) ==
    /\ s \in svcCache \ svcs /\ api
    /\ svcCache' = svcCache \ {s}
    /\ UNCHANGED <<spec, stored, cache, behind, podCache, memory, cluster>>

\* An expectation is forgotten after five minutes.
ExpectationsExpire ==
    /\ \E key \in unmet : unmet' = unmet \ {key}
    /\ UNCHANGED <<spec, stored, caches, queued, timer, worker, cluster>>

Watches == \/ DeliverJob \/ DeliverPods
           \/ \E s \in svcs \union svcCache :
                 DeliverNewService(s) \/ DeliverGoneService(s)
           \/ ExpectationsExpire

------------------------------------------------------------------------------
(***************************************************************************)
(* The worker: syncHandler and the API calls of one sync                   *)
(***************************************************************************)

TimerFires ==
    /\ timer # Never /\ now >= timer
    /\ timer' = Never
    /\ queued' = TRUE
    /\ UNCHANGED <<spec, stored, caches, unmet, worker, cluster>>

\* One key of one type is enough: the code joins all of them with "or".
SatisfiedExpectations ==
    \E t \in Types(spec) : <<"pods", t>> \notin unmet \/ <<"services", t>> \notin unmet

Synced == ~behind /\ podFeed = <<>> /\ svcCache = svcs

\* Seeded fault: ended jobs are reconciled like any other.
NeedsSyncInAnyPhase == SatisfiedExpectations

NeedsSync == SatisfiedExpectations /\ cache.phase \in ReconciledPhases

TakeKey == /\ queued /\ worker.pc = "idle"
           /\ Prompt => Synced
           /\ queued' = FALSE

\* Nothing to do: the key is dropped and nobody is told.
SkipSync == /\ TakeKey /\ ~NeedsSync
            /\ UNCHANGED <<spec, stored, caches, unmet, timer, worker, cluster>>

\* The status proper: what DeepEqual compares of the fields modelled here.
StatusChanged(new) ==
    \E f \in DOMAIN new \ {"annotations"} : new[f] # cache[f]

\* Seeded fault: the sync works on a copy, the next one on what was before.
DecideOnCopy(w) ==
    /\ worker' = IF w.update THEN [w EXCEPT !.pc = "delete"] ELSE Idle
    /\ UNCHANGED cache
    /\ IF w.plan.wake = "none" THEN UNCHANGED timer ELSE DelayedAdd(now)

\* The status is decided: it is written into the job the worker holds, in the
\* cache too if that is still the same object.
Decide(w) ==
    /\ worker' = IF w.update THEN [w EXCEPT !.pc = "delete"] ELSE Idle
    /\ cache' = IF w.aliased THEN w.plan.job ELSE cache
    /\ CASE w.plan.wake = "soon" -> DelayedAdd(now)
         [] w.plan.wake = "limit" -> DelayedAdd(w.plan.job.start + spec.timeLimit)
         [] w.plan.wake = "none" -> UNCHANGED timer

NothingToCreate(plan) == plan.creates = {} /\ plan.svcCreates = {}

\* The sync reads its caches and the nodes; a failed node list reads as a
\* cluster without ready nodes.  ReplicaStatuses and messages may differ
\* although nothing modelled does: then the job is stored as well.
SyncHandler ==
    /\ TakeKey /\ NeedsSync
    /\ \E clock \in CreatingClocks, touched \in BOOLEAN :
         \E plan \in ReconcileTrainingJobs(spec, cache, podCache, svcCache,
                         IF api THEN ready ELSE {}, now, clock) :
           LET w == [pc |-> "create", plan |-> plan, gens |-> cache.counts,
                     aliased |-> TRUE,
                     update |-> touched \/ StatusChanged(plan.job), tries |-> 0]
           IN  IF NothingToCreate(plan)
               THEN Decide(w)
               ELSE worker' = w /\ UNCHANGED <<cache, timer>>
    /\ UNCHANGED <<spec, stored, behind, podCache, svcCache, unmet, cluster>>

\* The sync ends with an error: the key is added again with a rate limit.
Abort == worker' = Idle /\ DelayedAdd(now)

\* Pods of a type are created in the order of their indices, and before its
\* services.
MayCreatePod(s) == /\ worker.pc = "create" /\ s \in worker.plan.creates
                   /\ \A r \in worker.plan.creates : r[1] = s[1] => s[2] <= r[2]

MayCreateService(s) ==
    /\ worker.pc = "create" /\ s \in worker.plan.svcCreates
    /\ \A r \in worker.plan.creates : r[1] # s[1]
    /\ \A r \in worker.plan.svcCreates : r[1] = s[1] => s[2] <= r[2]

PodDone(s) == worker' = [worker EXCEPT !.plan.creates = @ \ {s}]

ServiceDone(s) == worker' = [worker EXCEPT !.plan.svcCreates = @ \ {s}]

AddPod(s) == /\ api /\ s \notin Present(pods)
             /\ ChangePods([pods EXCEPT ![s] = NewPod(worker.gens[s[1]])])

\* A type without a port never has a key for its services, and a missing key
\* is satisfied: the expectations of such a job decide nothing and are left out.
Expects == \A t \in Types(spec) : spec.replicaSpecs[t].port

\* ExpectCreations comes before the call and is never taken back.
Expect(kind, s) ==
    unmet' = IF Expects THEN unmet \union {<<kind, s[1]>>} ELSE unmet

CreatePod(s) ==
    /\ MayCreatePod(s) /\ Expect("pods", s)
    /\ AddPod(s) /\ PodDone(s)
    /\ UNCHANGED <<spec, job, svcs, caches, queued, timer, cluster>>

\* No API server, or a pod of that name that the cache does not show.
CreatePodFails(s) ==
    /\ MayCreatePod(s) /\ Expect("pods", s)
    /\ ~api \/ s \in Present(pods)
    /\ Abort
    /\ UNCHANGED <<spec, stored, caches, queued, cluster>>

\* A timeout counts as success, although no pod was made.
CreatePodTimesOut(s) ==
    /\ MayCreatePod(s) /\ Expect("pods", s)
    /\ ~api /\ PodDone(s)
    /\ UNCHANGED <<spec, stored, caches, queued, timer, cluster>>

\* The pod is made but the reply is lost.
CreatePodReplyLost(s) ==
    /\ MayCreatePod(s) /\ Expect("pods", s)
    /\ Spend("lostReply") /\ AddPod(s) /\ Abort
    /\ UNCHANGED <<spec, job, svcs, caches, queued, ready, api, now>>

CreateService(s) ==
    /\ MayCreateService(s) /\ Expect("services", s)
    /\ api /\ s \notin svcs
    /\ svcs' = svcs \union {s}
    /\ ServiceDone(s)
    /\ UNCHANGED <<spec, job, pods, podFeed, caches, queued, timer, cluster>>

CreateServiceFails(s) ==
    /\ MayCreateService(s) /\ Expect("services", s)
    /\ ~api \/ s \in svcs
    /\ Abort
    /\ UNCHANGED <<spec, stored, caches, queued, cluster>>

CreateServiceTimesOut(s) ==
    /\ MayCreateService(s) /\ Expect("services", s)
    /\ ~api /\ ServiceDone(s)
    /\ UNCHANGED <<spec, stored, caches, queued, timer, cluster>>

\* All is created.
Commit ==
    /\ worker.pc = "create" /\ NothingToCreate(worker.plan)
    /\ Decide(worker)
    /\ UNCHANGED <<spec, stored, behind, podCache, svcCache, unmet, queued, cluster>>

Deleting == worker.pc = "delete" /\ worker.plan.deletes # {}

\* A pod that is not on a node or has finished goes at once, any other when
\* its kubelet has stopped it; a forced deletion waits for nobody.
RemovePod(s) ==
    LET atOnce == \/ worker.plan.force
                  \/ pods[s].node = NoNode
                  \/ pods[s].state \in {"Succeeded", "Failed"}
    IN  IF s \in Present(pods) /\ (atOnce \/ ~pods[s].dying)
        THEN ChangePods(IF atOnce THEN [pods EXCEPT ![s] = NoPod]
                        ELSE [pods EXCEPT ![s].dying = TRUE])
        ELSE UNCHANGED <<pods, podFeed>>

DeletePod(s) ==
    /\ Deleting /\ s \in worker.plan.deletes
    /\ api /\ RemovePod(s)
    /\ worker' = [worker EXCEPT !.plan.deletes = @ \ {s}]
    /\ UNCHANGED <<spec, job, svcs, caches, unmet, queued, timer, cluster>>

\* A restart goes on with the next pod; terminateTrainingJob gives up.
DeletePodFails(s) ==
    /\ Deleting /\ s \in worker.plan.deletes
    /\ ~api
    /\ worker' = IF worker.plan.stops
                 THEN [worker EXCEPT !.plan.deletes = {}, !.plan.svcDeletes = {}]
                 ELSE [worker EXCEPT !.plan.deletes = @ \ {s}]
    /\ UNCHANGED <<spec, stored, caches, unmet, queued, timer, cluster>>

DeletingServices == /\ worker.pc = "delete" /\ worker.plan.deletes = {}
                    /\ worker.plan.svcDeletes # {}

DeleteService(s) ==
    /\ DeletingServices /\ s \in worker.plan.svcDeletes
    /\ api
    /\ svcs' = svcs \ {s}
    /\ worker' = [worker EXCEPT !.plan.svcDeletes = @ \ {s}]
    /\ UNCHANGED <<spec, job, pods, podFeed, caches, unmet, queued, timer, cluster>>

DeleteServiceFails ==
    /\ DeletingServices
    /\ ~api
    /\ worker' = [worker EXCEPT !.plan.svcDeletes = {}]
    /\ UNCHANGED <<spec, stored, caches, unmet, queued, timer, cluster>>

Updating == /\ worker.pc = "delete"
            /\ worker.plan.deletes = {} /\ worker.plan.svcDeletes = {}

\* The API server takes an update of the version it stores and no other.
Accepted == /\ Updating
            /\ api /\ worker.aliased /\ ~behind
            /\ job' = worker.plan.job
            /\ behind' = TRUE

\* Seeded fault: only the status is copied.
RetryStatus ==
    LET merged == [worker.plan.job EXCEPT !.annotations = cache.annotations]
    IN  /\ cache' = merged
        /\ IF worker.tries + 1 < UpdateTries
           THEN /\ worker' = [worker EXCEPT !.aliased = TRUE, !.tries = @ + 1,
                                           !.plan.job = merged]
                /\ UNCHANGED timer
           ELSE Abort

\* After an error the status and the annotations of the worker's job are
\* copied over the object the lister has now, and that one is sent next.
Retry == /\ cache' = worker.plan.job
         /\ IF worker.tries + 1 < UpdateTries
            THEN /\ worker' = [worker EXCEPT !.aliased = TRUE, !.tries = @ + 1]
                 /\ UNCHANGED timer
            ELSE Abort

UpdateAccepted ==
    /\ Accepted
    /\ worker' = Idle
    /\ UNCHANGED <<spec, pods, podFeed, svcs, cache, podCache, svcCache, unmet,
                   queued, timer, cluster>>

UpdateReplyLost ==
    /\ Accepted /\ Spend("lostReply") /\ Retry
    /\ UNCHANGED <<spec, pods, podFeed, svcs, podCache, svcCache, unmet, queued,
                   ready, api, now>>

UpdateRejected ==
    /\ Updating
    /\ ~api \/ ~worker.aliased \/ behind
    /\ Retry
    /\ UNCHANGED <<spec, stored, behind, podCache, svcCache, unmet, queued, cluster>>

\* The operator stops and starts again: it lists everything anew, and every
\* job of the first list is added to the queue.
Crash ==
    /\ api /\ Spend("crash")
    /\ worker' = Idle
    /\ cache' = job /\ behind' = FALSE
    /\ podCache' = pods /\ podFeed' = <<>> /\ svcCache' = svcs
    /\ unmet' = {} /\ queued' = TRUE /\ timer' = Never
    /\ UNCHANGED <<spec, job, pods, svcs, ready, api, now>>

\* Another process takes over, whose informers and queue have been filled while
\* it waited for the lease: it knows the job, but its pods may be old ones.
TakeOver ==
    /\ api /\ Spend("crash")
    /\ worker' = Idle
    /\ cache' = job /\ behind' = FALSE
    /\ unmet' = {} /\ queued' = TRUE /\ timer' = Never
    /\ UNCHANGED <<spec, stored, podCache, svcCache, ready, api, now>>

Creates == \E s \in Slots(spec) :
              \/ CreatePod(s) \/ CreatePodFails(s)
              \/ CreatePodTimesOut(s) \/ CreatePodReplyLost(s)
              \/ CreateService(s) \/ CreateServiceFails(s)
              \/ CreateServiceTimesOut(s)

Deletes == \/ \E s \in Slots(spec) :
                 DeletePod(s) \/ DeletePodFails(s) \/ DeleteService(s)
           \/ DeleteServiceFails

\* The worker goroutine takes one step after the other.
Worker == \/ SkipSync \/ SyncHandler
          \/ Creates \/ Commit \/ Deletes
          \/ UpdateAccepted \/ UpdateRejected

Next == \/ Cluster \/ Watches \/ TimerFires \/ Worker \/ UpdateReplyLost
        \/ Crash \/ TakeOver

Spec == Init /\ [][Next]_vars

\* What may be relied on: the worker goroutine and the informers go on, a
\* failed API server comes back, time passes, and the garbage collector's ticker
\* fires.  Nothing is assumed of kubelets and containers: they may run forever,
\* or never do anything again.
Fairness ==
    /\ WF_vars(DeliverJob) /\ WF_vars(DeliverPods)
    /\ WF_vars(\E s \in svcs \union svcCache :
                  DeliverNewService(s) \/ DeliverGoneService(s))
    /\ WF_vars(TimerFires) /\ WF_vars(Worker)
    /\ WF_vars(Tick) /\ WF_vars(ApiUp)
    /\ WF_vars(\E s \in Present(pods) : CollectPod(s))

FairSpec == Spec /\ Fairness

------------------------------------------------------------------------------
(***************************************************************************)
(* Properties                                                              *)
(***************************************************************************)

Pod == [state : PodStates, node : Nodes \union {NoNode},
        exit : ExitCodes \union {{}, {0}}, gen : Nat, dying : BOOLEAN]

\* What stands for a slot without a pod is none.
ASSUME NoPodAssumption == NoPod \notin Pod

Views == [Slots(spec) -> Pod \union {NoPod}]

Workers == [pc : {"idle", "create", "delete"}, plan : Plans(spec),
            gens : [Types(spec) -> Nat], aliased : BOOLEAN, update : BOOLEAN,
            tries : Nat]

TypeOK == /\ job \in Jobs(spec) /\ cache \in Jobs(spec) /\ behind \in BOOLEAN
          /\ pods \in Views /\ podCache \in Views /\ podFeed \in Seq(Views)
          /\ svcs \subseteq Slots(spec) /\ svcCache \subseteq Slots(spec)
          /\ unmet \subseteq {"pods", "services"} \X Types(spec)
          /\ queued \in BOOLEAN /\ timer \in Nat \union {Never}
          /\ worker \in Workers
          /\ ready \subseteq Nodes /\ api \in BOOLEAN /\ now \in Nat
          /\ left \in [FaultKinds -> Nat]

\* An ending phase is the job's last word: no retry of an update, no crash, no
\* stale cache and no later pod event moves a stored job to another phase.
EndedIsFinal == [][Ended(job) => job'.phase = job.phase]_job

\* A stored verdict is never without its annotation, the only place where the
\* final phase waits for the pods to go: a Terminating job that lost it would
\* be taken for a job that goes on.  Retries overwrite the annotations.
SealedHasVerdict == HasVerdict(job)

\* After the verdict no pod appears: neither a sync that began before it nor
\* one that reads an old pod cache, or starts after a crash, creates one.
NoPodsAfterVerdict ==
    [][Sealed(job) \/ Ended(job) => Present(pods)' \subseteq Present(pods)]_<<job, pods>>

\* RestartLimit bounds the restarts that are counted, unless another type of
\* the job restarts with scope All and counts for everybody.
RestartsWithinLimit == WithinLimit(spec, job)

\* The stored job behaves as the abstract specification says.
Lifecycle == 
    INSTANCE JobLifecycle WITH
        stage <- IF Ended(job) THEN "ended" ELSE IF Sealed(job) THEN "sealed" ELSE "open",
        verdicts <- job.annotations,
        final <- IF Ended(job) THEN job.phase ELSE NoPhase,
        counts <- job.counts

\* A verdict is kept until it is the final phase, whatever update fails, is
\* retried over other annotations or is stored although its reply was lost;
\* restarts never reopen it and their counts never drop.
KeepsLifecycle == Lifecycle!Spec

\* With caches up to date at the start of each sync, a job that ends after a
\* clean-up has no pod left.
ReleasedWhenEnded == job.ended => Present(pods) = {}

\* A job is not told to have succeeded while a pod of it is still at work: with
\* every completion policy All, neither an old pod cache nor a pod made anew
\* after a crash or a restart lets the verdict come early.
SucceedIsEarned ==
    /\ job.phase = "Succeed" \/ "Succeed" \in job.annotations
    /\ spec.completePolicy = "All"
    /\ \A t \in Types(spec) : spec.replicaSpecs[t].completePolicy = "All"
    => \A s \in Present(pods) : pods[s].state = "Succeeded"

\* A restart of scope All is a barrier: pods made before and after it never
\* exist side by side, so that a restarted job does not talk to its old self.
SameGeneration ==
    (\A t \in Types(spec) : spec.replicaSpecs[t].restartScope = "All") =>
      \A s, r \in Present(pods) : pods[s].gen = pods[r].gen

------------------------------------------------------------------------------
(***************************************************************************)
(* What comments of the code say and the code does not keep                *)
(***************************************************************************)

\* "When status changed, update it." (controller.go): an ending that a sync has
\* reached is stored, if not at once then when the API server is back.
EndingIsStored == Ended(cache) ~> Ended(job)

\* "NodeFail means the node is failed" (types.go): some node did fail.
NodeFailMeansNodeFailed ==
    job.phase = "NodeFail" =>
        \A s \in JobSpecs : spec = SetDefaults(s) => left["nodeFail"] < Faults[s]["nodeFail"]

\* "Delete all pods/services, when job is finished" (types.go): a verdict
\* under CleanPodPolicy All leads to a job without pods.
FinishedIsCleaned ==
    Sealed(job) /\ spec.cleanPodPolicy = "All" ~> Present(pods) = {}
==============================================================================
