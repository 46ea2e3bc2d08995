# Verification of the training job operator

TLA+ modules, TLC configurations and TLAPS proofs for the controller in
`pkg/controller` and the resource in `pkg/apis/aitrainingjob/v1`. Paths below
are relative to the repository's source.

The operator turns an `AITrainingJob` into pods and services, follows them, and
reports one phase. Its users rely on that phase: schedulers reuse the resources
of a job that is `Preempted`, pipelines go on when a job has `Succeed`. The
project asks whether the phase can be relied on although it is computed from
caches that lag, written into an object that is shared with those caches, stored
by updates that fail and are retried, and interrupted by restarts. Around the
controller of one job it asks what happens when a name is used again, what the
garbage collector may take, and whether two operators can ever be at work at once.

## 1. The system

### Components

| Component | Source | State | Operations |
|---|---|---|---|
| Reconciler | `controller.go`, `pod.go`, `service.go`, `status.go`, `trainingjob.go` | none of its own: the job object it got from the lister, lists of pods and services | `syncHandler`, `reconcileTrainingJobs`, `reconcilePods`, `reconcileContainers`, `createNewPod`, `reconcileServices`, `updateStatus`, `terminateTrainingJob`, `deletePodsAndServices` |
| Conditions | `status.go:24-99` | `Status.Phase`, `Status.Conditions` | `updateTrainingJobConditions`, `isJobCompleted`, `getTrainingJobCondition` |
| Status writer | `status.go:285-306` | the API server's job with its resource version | `updateTrainingJobPhase`: five tries over whatever object the lister has |
| Informers and handlers | `pod.go:23-123`, `service.go:54-88`, `trainingjob.go:17-51` | caches of jobs, pods, services; expectations | add/update/delete handlers enqueue the owner's key and meet expectations |
| Work queue | `controller.go:236-268`, `406-421` | keys, delayed keys | rate limited, delayed and immediate additions; a key is never with two workers |
| Expectations | `controller.go:390-404`, `pod.go:483-493` | per type and kind, creations awaited | `ExpectCreations`, `CreationObserved`, `SatisfiedExpectations` |
| Garbage collector | `garbage_collection.go` | none | every tick: force out pods past their grace period; delete orphans |
| Types and defaults | `pkg/apis/aitrainingjob/v1` | -- | `SetDefaults_AITrainingJob` |
| Server | `cmd/`, `pkg/signals` | the process, its stop channel and context, the leader's lease | leader election, signals, options |
| Generated clients, validation | `pkg/client`, `validation.go` | -- | generated, or called by nobody |

### How they interact

Handlers put a job's key into the work queue; one worker takes it, and
`syncHandler` reads the job, its pods and services from the informers' caches
and the nodes from the API server. The lister returns a pointer into the cache
and the sync does not copy it: defaults, restart counts, phase and annotations
are written into the shared object before any of it is stored. The sync then
makes API calls in a fixed order: creations of missing pods and services type by
type, the deletions of a restart or of a verdict, and at the end one `Update` of
the job, if its status differs from what the sync began with. Every change comes
back as a watch event, later.

A job that must end takes two or more syncs. The verdict is noted as an
annotation, the phase becomes `Terminating` and the pods are deleted (*sealed*
below); once a sync sees no pod, the annotation becomes the phase (*ended*). A
restart also uses `Terminating`, with `RestartReplicaName` set.

The work queue, the lister, the names of pods and services and the requests of the
worker know a job by its name; the owner references of its pods know its UID. A job
that is deleted and submitted again is where the two differ. The garbage
collector shares the lister with the workers and lists pods by itself. The processes
of the operator share nothing but the API server, on which one record, the lease,
says who may run a controller.

### What is hard, and what makes it right

* *Shared objects and stale caches.* A sync may read the writes of an earlier
  one that was never stored, or none of what was stored. Right means: what is
  stored never goes back on a verdict (`EndedIsFinal`, `SealedHasVerdict`,
  `KeepsLifecycle`).
* *Retries over another object.* A retry copies status and annotations of an old
  object over the newest one. Right means the same, and that counts of restarts
  never drop.
* *Partial failure.* Creations, deletions, node lists and updates fail one by
  one, a reply is lost, a timeout counts as success. Right means that no
  creation slips behind a verdict (`NoPodsAfterVerdict`), that a success is one
  (`SucceedIsEarned`) and that a restart is counted (`RestartsWithinLimit`).
* *Restarts as barriers.* With scope `All` no pod made after the restart meets
  one made before (`SameGeneration`).
* *Liveness without anybody's help.* Containers may run forever and nodes may
  never come back: a verdict, a restart and a time limit must still come to
  their end (`DueJobEnds`, `RestartEnds`), but for what the controller itself has
  forgotten to stop or to store.
* *Names that are used again.* Right means that a job's successes, pods and
  status are its own (`SuccessIsOwn`, `OwnPodsOnly`, `StatusIsOwn`), that it gets pods
  although their names were taken (`GetsPods`) and that it can be got rid of
  (`WithdrawnGoes`).
* *A collector that looks first and deletes later.* Right means that it forces out
  no pod of a living job that nobody stopped (`LivingPodsSpared`) and leaves nothing behind
  (`StoppedPodsGo`, `OrphansGo`).
* *A lease kept by clocks.* Right means that a new leader starts when nothing of the old
  one is on its way (`OneWriter`), and that there is a leader that works
  (`IdleLeaderEnds`, `Served`).

Every hazard is listed with its line in `PROJECT.json`.

## 2. The modules

| Module | Content |
|---|---|
| `AITrainingJob` | phases, policies, specifications and `SetDefaults` |
| `Conditions` | the list of conditions as a state machine of its own |
| `Reconcile` | what a sync decides, as operators without state: verdict on a pod, walk over a type, `updateStatus`, the plans of a sync |
| `TrainingJobController` | the job's controller: worker, queue, watches and caches, API server, cluster, faults. EXTENDS `Reconcile` |
| `JobProgress` | `TrainingJobController` with its fairness and a history variable: which pods nobody stops; what a job then may wait for |
| `JobLifecycle` | the abstract specification of a stored job, implemented by `TrainingJobController` (refinement mapping `Lifecycle`) |
| `Resubmission` | one job name used again and again: worker, watches and pods with UIDs, over the decisions of the same `Reconcile`, which it EXTENDS |
| `GarbageCollector` | the collector among jobs, pods and nodes that come and go, in several namespaces |
| `Operators` | several processes, the lease and client-go's elector as `server.go` configures it |
| `MCConditions`, `MCController`, `MCProgress`, `MCResubmission`, `MCGarbageCollector`, `MCOperators` | small instances for TLC |
| `ConditionsProofs`, `ReconcileProofs`, `TrainingJobControllerProofs`, `LifecycleProofs`, `PodProofs`, `ResubmissionProofs`, `GarbageCollectorProofs`, `OperatorsProofs` | theorems and proofs |

`Reconcile` is used twice, and the two modules around it divide the work:
`TrainingJobController` has one incarnation of the job and everything that happens to
it (restarts, services, expectations, nodes, time), `Resubmission` has
incarnations and leaves out what does not tell them apart.

The operators marked "Seeded fault" are not part of the
models: each is a definition with one plausible mistake, kept beside the right
one to show that the property named in `PROJECT.json` would notice it.

### How state and actions correspond to the code

`spec` is `Spec` with its defaults (the defaulting of every sync gives the same
result, so it is applied once). A job is a record of what the controller reads
back: `phase`, `restart` (`RestartReplicaName`), `counts` (`RestartCountes`),
`creating` (see below), `start` (`StartRunningTime`), `ended` (`EndTime` is set) and
the ending phases among its `annotations`. `job` is the stored one, `cache` the
content of the informer's object, and `behind` says that the cache has an older
resource version. `worker` is the sync in progress: `pc` is `create` while pods
and services are made, then `delete` until the update; `plan` holds what is left to
do; `aliased` says that the object it writes is still the one in the cache (a
watch event replaces the object, and then the two part ways).

| Action | Code |
|---|---|
| `SyncHandler`, `SkipSync` | `syncHandler` and the decisions of `reconcileTrainingJobs`, up to the first API call that changes something |
| `CreatePod`, `CreateService` and `...Fails`, `...TimesOut`, `...ReplyLost` | `createNewPod`, `createNewService`: the call succeeds; fails; times out, which the code takes for a success; or succeeds without anybody knowing |
| `Commit` | the end of the walk: `updateStatus` writes the status into the shared object |
| `DeletePod`, `DeleteService`, `...Fails` | the deletions of a restart (errors ignored) or of `deletePodsAndServices` (stops at the first error, which is dropped) |
| `UpdateAccepted`, `UpdateRejected`, `UpdateReplyLost` | one try of `updateTrainingJobPhase` |
| `DeliverJob`, `DeliverPods`, `DeliverNewService`, `DeliverGoneService` | the informers' event handlers |
| `TimerFires` | the delaying queue adds its key |
| `ExpectationsExpire` | the expectations' timeout |
| `CollectPod` | `CleanGarbagePods` |
| `Crash` | the process ends, or loses its lease, and another one starts: it lists everything anew |
| `TakeOver` | the process ends, or loses its lease, and another one goes on that has waited for the lease with informers of its own (`server.go:49-51`) |
| the rest of `Cluster` | scheduler, kubelets, nodes, users and the clock, as the code sees them |

A whole sync is not one step: every API call is one, and the watches, the cluster
and the faults act in between. What happens inside a sync without a call has no
other observer and is part of the step before the call.

The other modules:

| Action | Code |
|---|---|
| `Resubmission`: `SeeJob` in `DeliverJob`, `RelistJobs` | `addTrainingJob`, `updateTrainingJob`, `deleteTrainingJob`; a watch that was lost shows the next job of a name as an update of the one before |
| `DeliverPods`, `Tells`, `Resolves` | the pod handlers: a pod whose owner is not the job the lister shows adds no key |
| `ClaimPods` | `claimPods`: the pods of the name's labels that the job owns by UID |
| `CreatePodFails`, `Abort` | a taken name, `AlreadyExists`; the key comes again, rate limited |
| `Crash`, `TakeOver` | as above; the job watch of the process that takes over is ahead of the former one's, and may still lag |
| `Retry` | `status.go:294-304`, by name; a lister that has no such job leaves the old object |
| `GarbageCollector`: `CleanGarbagePods`, `InspectPod`, `DeletePod` | the list, one round of the loop with `checkNode`, one deletion |
| `Restart` | a new process, whose caches have synced before the collector starts (`controller.go:195`) |
| `Operators`: `Start`, `Signal`, `Kill`, `ControllerFails`, `StopLeading` | `Run` with and without leader election; first and second signal; the `cancel` of `server.go:61`; the end of `RunOrDie`, which does not give the lease back |
| `TryAcquireOrRenew`, `Answer`, `Applied`, `Renewed`, `AttemptFails`, `NextRound` | client-go's elector: a record is read, and written if it is still the one read; a round of attempts until `RenewDeadline`, a pause of `RetryPeriod` after each success |
| `Send`, `Arrive` | a request of a worker |

### Abstractions

* A pod is its phase, node, exit codes, generation (label `RestartCount`) and whether
  it was told to stop. `ImageError` is a pending pod whose container waits for a
  reason in `ErrorContainerStatus`. A pod has one container; the phase `Unknown`
  and an image error in a running pod are left out.
* A pod's name is a function of type and index, so a slot holds at most one pod.
* The list of conditions is summarised by one value, `creating`: whether the first
  `Creating` condition does not exist, is True, or is False. `Conditions` keeps the
  whole list beside it and `CreatingIsAbstraction` shows that nothing is lost.
* The two durations that `reconcileContainers` compares (options
  `CreatingRestartTime`, `CreatingDurationTime`) are free (`CreatingClocks`).
* `ReplicaStatuses`, messages and times are not kept. They decide whether a job
  is stored again although nothing else changed; that is free (`touched`).
* Go's map order is free: any types that do not restart may be visited before
  the one that does, and the failed type visited last may be any.
* The nodes are read once per sync, where the code reads them once per type.
* `Decide` writes the job of the plan at once. The code counts a restart before its
  deletions and sets the phase after them, but the key is with no other worker, and
  a crash loses the object in memory either way.
* In `TrainingJobController` the garbage collector's list and deletion are one step; module
  `GarbageCollector` separates them.
* In `Operators` each process counts ticks since it last saw the record change, as client-go
  does; clocks run at the same rate. A deadline is met in the tick it falls in.
* In `Resubmission` a job is withdrawn in the background or in the foreground. `of` and
  `uid` in worker and job are history: for which incarnation a status was made.
* `podFeed` delivers states of all pods of the job in order, job and services have
  watches of their own. That is what informers promise: order within a kind,
  none between kinds. A watch that is interrupted while the process lives, so
  that two events arrive as one, is modelled for jobs in `Resubmission` (`RelistJobs`) only; a
  new list of everything is part of `Crash`.
* Expectations are the set of keys that wait. A type without ports never gets a key
  for its services, and the code takes a missing key as satisfied and joins all
  keys with "or": for a job with such a type expectations never stop a sync, and
  they are left out (`Expects`).
  Types have lower-case names: the code sets expectations under the lower-case name
  and looks for them under the name as written, so that those of other types are never
  found, which again stops no sync.
* The informers' resync does nothing: the handlers skip an object whose resource
  version is the same.

## 3. Runs

All bounds are constants of the modules or the budget of faults: `MaxLag` pod
events not yet delivered, `UpdateTries` (5 in the code, 2 in most runs: a
second try is the first to send the object of the lister, and later tries do the
same again), `MaxTime`, `MaxConditions`, and how often each kind of fault
happens (`Faults`, with `any` over all kinds). Restarts of the job are bounded by
`RestartLimit` and the faults that cause them.

| Run | Instance | What it shows |
|---|---|---|
| `conditions` | lists of up to 5 conditions | the phase and the list never disagree; a stopped job is seen by `isJobCompleted` whatever came before; the summary `creating` is exact; a stopped status is kept |
| `faults` | old caches, three families of jobs. One worker, pods kept or cleaned: two of a crash (or a new leader with pod caches that lag), an outage, a lost reply, a failing pod. One worker that may restart once, scope `Replica`: two of a crash, a lost reply, a failing node, a failing pod. Two workers restarted one by one (scope `Pod`): a crash or a failing pod | a verdict survives: `SealedHasVerdict`, `EndedIsFinal`, `NoPodsAfterVerdict`, and the stored job implements `JobLifecycle` (`KeepsLifecycle`); no more restarts are stored than allowed (`RestartsWithinLimit`); a success is never given while a pod is at work (`SucceedIsEarned`) |
| `prompt` | current caches. Two workers, scope `All`, two restart policies, both options about image errors, two of: a failing or lost pod, a preemption, a failing node, an image error, a crash. A parameter server and a worker with services: one of a preemption, an outage, a crash, a failing pod. A worker with a time limit | an ended job has no pod (`ReleasedWhenEnded`), generations never mix where all types restart with scope `All` (`SameGeneration`), and a success takes both types, visited in any order (`SucceedIsEarned`) |
| `live` | old caches; fairness. Two workers that never restart, one of which may fail. One worker that may restart once, and an outage, which also looks like a failed node. One worker with a time limit of 1 | a verdict and a counting time limit end the stored job (`DueJobEnds`), a restart stops waiting (`RestartEnds`), with two exceptions (see *Fairness*) |
| `garbage` | one namespace, one name, two jobs, three pods, a node, one failure; fairness of the ticker | `LivingPodsSpared`: the collector forces out a pod it has listed only if the pod had its time to stop or its own job is gone, although the lister lags; `StoppedPodsGo`, `OrphansGo` |
| `operators` | two processes with and without leader election, durations 5/1/1 with requests of up to 1, two faults; fairness | `OneWriter`: when a process leads no other does, and no request of an earlier leader is on its way; `IdleLeaderEnds`, `Served` |
| `resubmit` | one worker submitted twice, withdrawn either way; two tries, lag 2, one fault | `OwnPodsOnly`, `SuccessIsOwn` |
| `resubmitted` | the same with lag 1 and no fault; fairness | `GetsPods`, `WithdrawnGoes` |
| `blamed_node` | one worker, one outage | finding: see below |
| `unseen_pod` | two workers, one lost and one failing pod, current caches; fairness | finding |
| `unstored_ending` | one worker, one outage, five tries, current caches; fairness | finding |
| `mixed_status` | as `resubmit`, no fault | finding |

In `faults`, `prompt` and `live` each job has a budget of faults of its own: `Faults` is a function of
the specification as it was submitted.

Why these bounds are enough to be of use: two submissions are the first that share a name
and each pair of neighbours behaves alike; two pods of one name are the first that can be
mistaken for one another, and a third lets the name be taken again during a round of
the collector; the collector treats names and namespaces one by one, so one of each will do; two processes are the first to compete. Every
safety property of these runs is also proved for all bounds (section 4), some of them under assumptions
that section states; the runs satisfy these assumptions, except that liveness has no theorem.

`Prompt = TRUE` lets a sync start only when no watch event is outstanding. Nothing in the
code sees to that: the expectations do not (`controller.go:390-404` joins them with
"or"). It is used in `prompt`, whose properties are about what the algorithm means to do
and need it (with old caches a job ends as `Preempted` while a pod exists, section *Also
seen* below), and in the findings, which need no lag. Within a sync everything interleaves as
before. `faults` and `live` do without it.

Deadlock is not checked: an ended job takes no further step, and a job the
operator lost sight of (see `unseen_pod`) does not either.

### Fairness

`FairSpec` assumes weak fairness of the worker goroutine, of the informers' deliveries,
of the delaying queue, of the clock, of the garbage collector's ticker, and that
an API server that is down comes back. It assumes nothing of kubelets, schedulers
and containers: a pod may run forever, and a pod on a lost node is removed by the
garbage collector only. `UpdateReplyLost`, `Crash`, `TakeOver` and every fault are never required.

`live` checks `ProgressSpec` (module `JobProgress`), which is `FairSpec` with the history
variable `spared`. A verdict and a restart delete pods once, those of one list.
`spared` is the set of pods nobody stops: what the list did not show when the
decision fell, what was made later, and what was in it when a deletion failed
(for a verdict, the rest of the list too). Syncs start from old caches, so all of this
happens in the run. The properties name what may keep a job, and all else is ruled out:

* `DueJobEnds`, of the *stored* job: whenever there is a verdict, or a time limit counts, the job
  ends; or the cached job is `Terminating` and waits for a spared pod; or the controller takes it for ended
  although the ending is not stored.
* `RestartEnds`, of the *cached* job, which is the one syncs go by: a restart is over some time, or
  waits for a spared pod.

A due job stays due until it ends (TLC agrees on this instance), so that the exceptions are no way out for a moment: a job that never ends must be
caught in one of them again and again. Spared pods count only while the cached job is `Terminating`: a time limit
that nobody looks at is no exception. TLC finds a counterexample when any of the exceptions is left out;
*Also seen* tells how. The second worker is what a list can miss: the first fails
before the watch has shown it.

What the instance leaves out: pods that others delete (`unseen_pod`), annotations (their job may wait
for pods nobody deletes, a hazard at `status.go:184`), crashes, lost replies, nodes that do fail, restarts of two workers, and restarts of
a job with a time limit. Such faults are in `faults` and `prompt`. The two workers have the completion policy
`None`, so that only a failure ends the job, which keeps the run small. `MaxTime` is 0 and the clock goes on only
until a time limit that counts is over (`ClockGoesOn`).

`GarbageCollector` assumes weak fairness of the ticker, of each step of a round, of the
clock and of the watches; nothing of kubelets, nodes or Kubernetes' own collector, so
that `StoppedPodsGo` is the work of this one. A round is finite since the list is.

`Operators` assumes that a process takes the steps that are due, that requests are answered
(in time, as `Tick` waits for what `IsDue`), and strong fairness of the clock: time is
not held up for ever by timers of processes that come and go. Nobody has to start a
process: `Served` speaks of one that waits.

`Resubmission` assumes weak fairness of the worker, the watches, delayed keys and of the removal of pods
of jobs that are gone. The last is Kubernetes' garbage collector; should a kubelet not
answer, `StoppedPodsGo` of `GarbageCollector` is what justifies it. Submitting,
withdrawing, starting and succeeding are never required.

### Findings

* `blamed_node`: one failed node list and the job ends as `NodeFail` although no node
  failed.
* `unseen_pod`: a sync makes a missing pod and then meets the failed one that ends the
  job; the new pod is not in the list it deletes, `reconcilePods` returns early from
  then on, and the job stays `Terminating`. Here the first pod was deleted by somebody
  else; a restart followed by the time limit leads to the same.
* `unstored_ending`: the sync that ends a job writes the ending phase into the object of
  the informer's cache and then tries five times, at once, to store it. If the API
  server is out meanwhile, all five fail. The key comes again, but `syncHandler` looks at the
  phase in the cache, finds an ending one and skips the job (`controller.go:298-304`). The
  stored job is `Terminating` for as long as nobody changes it or restarts the operator.
* `mixed_status`: a refused update of a job that was deleted is tried again over the job
  that has its name now; version and UID are right, the status is the dead job's. A job
  just submitted is `Terminating` or has ended before it got a pod.

### Also seen

Met while modelling, without a run of their own; each can be had by the change named.

* *A verdict lost to lag.* All five tries use objects of the lister; if the job watch has not
  delivered the last stored version by then, all are refused without a fault of
  anybody, and the watch event then takes the verdict out of the cache: the pods are made
  again although the job had succeeded (`faults` without faults, and: a sync that ends with a
  verdict in `worker.plan` leaves one in `job`).
* *A verdict undone by a new leader.* A process that takes over the lease while its job watch is one
  version behind makes pods for a job that is sealed; its first update is refused, its retry
  writes the old status over the newest object (`faults` with a `TakeOver` whose `cache'` is the
  version before the verdict: `KeepsLifecycle`).
* *A success told too early.* Somebody deletes a pod, and the sync sees neither the deletion nor the pod that
  was made anew: the job is `Succeed` while that pod is at work (`faults` with pods that others
  delete in the budget and `MaxLag = 2`: `SucceedIsEarned`).
* *Ended in the sync that makes the pod.* A user annotates `Timeout` before the first sync. That annotation does
  not stop the walk: the sync makes the pods, and then, since the list it began with is empty, ends the job
  and sets its end time (`prompt` with `Annotations = {"Timeout"}`: `ReleasedWhenEnded`).
* *Two generations.* During an outage a restart of scope `All` is counted in the cache but cannot be stored. When the
  server is back pods are made for the new count; a crash takes the count back, and a missing pod is
  made for the old one next to them (`prompt` with failing pods, an outage and a crash in one budget: `SameGeneration`). A
  user's `Timeout` in place of the crash does the same, if a pod is lost (the watch event it causes puts the old count into the cache).
* *A restart that waits in vain.* The deletions of a restart drop their errors (`pod.go:222-241`). If one fails, the
  restart is stored all the same, `RestartReplicaName` stops every later sync from deleting, and the job
  waits for a pod that goes on (`live` with `RestartEnds` without `WaitsForSpared`). The same comes of
  lag alone: the *end* of a restart is in the cache, its update is refused, and while the next sync makes the new pod the watch
  event of the stored restart, still waiting, takes the end back (`live` with a failing pod in place of the outage).
* *A pod spared by lag.* One worker fails before the watch has shown the other. The sync deletes the one it
  sees; those that follow find the job `Terminating` and delete nothing. With a verdict the
  job stays `Terminating` until the other worker stops by itself, without a fault of anybody else
  (`live` with `DueJobEnds` without `WaitsForSpared`).
* *An ending kept from the store by lag.* All tries of the update that ends a job are refused, since
  the watch has not shown the last stored version. If the event comes before the last try, the worker
  has a new object to write to and leaves the ending in the cache. Later syncs skip the job, as in
  `unstored_ending`, but no outage was needed (`live` with `DueJobEnds` without `EndingUnstored`). The end of a restart may
  be lost to the store in the same way, which is why `RestartEnds` is about the cached job.
* *A failure counted twice.* A restart of scope `Pod` is over when any pod of the type is missing in the list
  (`status.go:136`), a pod just made and not yet shown for instance. The failed pod, whose deletion is not shown either, is then found
  again: with two replicas two failures use up three of `RestartLimit` (`live` with two workers of scope `Pod` that may both fail,
  a limit of 3, `MaxLag = 3`, and counts bounded by the number of failures).
* *Preempted with a pod.* The pod list of the sync is empty, since the watch has not delivered
  the pod, and the phase becomes `Preempted`; `types.go:120` says resources were fully released
  (`prompt` with `Prompt = FALSE` and `job.phase = "Preempted" => Present(pods) = {}`).
* *A preemption undone.* A `Preempted` annotation that the scheduler makes during a sync is gone
  after a retry that puts the annotations of its old object over those of the newest
  (`status.go:301`; `live` with `Annotations = {"Preempted"}`, one annotation in the budget, and `"Preempted" \in job.annotations ~> Ended(job)`).
* *Pods of other namespaces.* With `--namespace` the collector still lists the pods of all
  namespaces (`garbage_collection.go:38`), but its lister knows the jobs of one: pods of jobs of any
  other namespace are orphans to it and are forced out while they run (`garbage` with a
  namespace that is not in `Watched`).
* *A name taken again.* Between the collector's list and its deletion the listed pod goes and a new
  one takes its name; the deletion names no UID and hits the new one (`garbage` with
  `LivingPodsSpared` without its condition on UIDs).
* *A renewal that hangs.* `server.go:132` makes the client of the leader election without a timeout.
  client-go looks at the deadline of a round only between requests, so a leader whose
  request hangs leads on after its lease was taken (`operators` with `MaxDelay = 3`). With at
  most 2 s per request the default durations (15, 5 and 3 s) rule this out, see `OneProcessWrites`.
* *One lock for all.* The lock's name does not depend on `--namespace`; the operator of a
  second namespace waits as long as the first one lives (`operators` with different `Scope`s,
  `Served`).

## 4. Proofs

TLAPS proves the theorems for every specification that satisfies `IsJobSpec`, every
set of nodes, exit codes and annotations, every budget of faults, both values of
`Prompt`, and every `UpdateTries`, `MaxLag` and `MaxTime`. The assumptions are
`JobSpecsAssumption`, `BudgetAssumption`, `AnnotationsAssumption`,
`BoundsAssumption`, `NoPodAssumption` and `MaxConditionsAssumption`; TLC evaluates them in the runs.
Where a theorem assumes more (current caches, what users annotate, which faults a job is spared)
it says so in its `ASSUME`, and *Also seen* tells what happens without it.

| Property | Theorem | Assumed besides |
|---|---|---|
| `SealedHasVerdict`, `RestartsWithinLimit`, `EndedIsFinal`, `NoPodsAfterVerdict`, `KeepsLifecycle` | `VerdictIsKept`, `LimitIsKept`, `EndingIsFinal`, `VerdictStopsCreation`, `LifecycleIsKept` | nothing |
| `SucceedIsEarned` | `SuccessIsEarned` | users do not annotate `Succeed`; current caches, or nobody else removes pods |
| `ReleasedWhenEnded` | `ReleasedHolds` | current caches; users annotate `Preempted` and `Failed` only |
| `SameGeneration` | `GenerationsStayApart` | current caches; `SparedTogether` |
| `OwnPodsOnly` | `OwnPods` | nothing |
| `SuccessIsOwn` | `SuccessOfItsOwn` | each type asks for at least one pod |
| `LivingPodsSpared` | `WatchedPodsSpared` | all namespaces are watched |
| `OneWriter` | `OneProcessWrites` | the lease outlasts pause, round and requests |

**Conditions.** `ListInvariant` proves the inductive invariant of the list: only the
last condition is True, and it names the phase; no condition of a completed phase
comes before the last (`OnlyLastStops`); the list is empty just as long as there is no
phase; and `creating` is the summary.
From it follow `ListTypeCorrect`, `PhaseFollowsConditions`, `CompletionIsSeen`,
`SummaryIsExact` and `StoppedStatusIsKept`. `PhaseIsLastCondition` alone is not
enough for `CompletionIsSeen`: without `OnlyLastStops` the first condition of a
completed type could be an old one that is False.

**Plans.** `PlansAreGood`: whatever a sync sees, if the job it starts from is good, every
plan it can make acts on slots of the job, stores a good job and asks for a wake-up
at a time that exists. *Good* means that a sealed job has an annotation
(`HasVerdict`) and that counts are within limits (`WithinLimit`). `SealedPlans`: the
sync of a sealed job creates nothing and leaves it sealed or ended.

**Type, verdict and limit.** The invariant is
`IInv == TypeOK /\ FullSpec(spec) /\ GoodJob(job) /\ GoodJob(cache) /\
GoodPlan(spec, worker.plan)`. `SealedHasVerdict` speaks of the stored job only and is not
inductive: a retry stores what a worker decided on a cache which an earlier, refused
sync wrote. The invariant says of all three copies what the property says of one,
so that an update, a retry, a watch event or a crash only moves a good job from one
place to another. New jobs come from plans, where `PlansAreGood` applies.
`TypeCorrect`, `VerdictIsKept` and `LimitIsKept` follow.

**Finality.** `EndingIsFinal` and `VerdictStopsCreation` need to know what copies
exist. `Agreement` has four parts: a worker about to store holds the object of the cache
or will be refused; the cache, and the job the worker is about to store, know of
every stored verdict or ending (`Knows`); and no worker is creating when a verdict is
stored. The last is why no pod appears after a verdict: the only writer of verdicts is
the worker itself, and by then it has nothing to create. `AgreementHolds` proves it
with `IInv`, by cases over who changes the stored job (`StoredJobChanges`). Both
`IInv` and `Agreement` were checked by TLC on the instance of `faults` before they
were proved.

**The life cycle.** `LifecycleIsKept` is the refinement: with stage, verdicts, final phase and counts read
off the stored job, the controller implements `JobLifecycle`. What a sync stores was decided
some steps ago, for a job that may have changed in store since. So the invariant
`Lineage` says at every moment of each copy, in the cache and in the plan, that it is a
later stage of the stored job (`Later`): it has counted no fewer restarts, none after a verdict, and it
ends the job rightly, if at all. A plan is such a stage by two theorems about syncs: `PlansMoveOn`
(no count is taken back; a job ends with one of its annotations, `Succeed` or `Failed`) and
`SealedPlansRelease` (a sealed job counts nothing and ends with an annotation only). `LineageHolds` carries
it through the calls and updates with the help of `Agreement`, and each step of the
controller is then one of `JobLifecycle`, or changes nothing it speaks of.

**What a sync does and why.** `DeletionsAreSeen` and `CreationsAreMissing`: a plan deletes only pods
of the view it was made from and makes only pods that view does not have. `PlansAreJustified`: it
names a success only if the policies of the job do, changes annotations only with a verdict, and
gives an end time only to an annotated job of which it sees no pod. `SuccessIsSeen` and `SuccessHasAPod` read
the policies back: if they are all `All`, each slot was seen to have succeeded and nothing is made; if
they are whatever they are, one pod was. `RestartIsForAll`: where every type restarts with scope `All`, a restart
is counted for all types or none, and is over only when no pod is seen. All by cases over the
outcomes of the walk and the branches of `updateStatus`; the theorems about pods below rest on them.

**Released jobs.** `ReleasedWhenEnded` is about the stored job, but the end time is written into a
cached object first, and an update that is refused leaves it there. `Release` says of every copy of the job (stored,
cached, in the worker's plan) that an end time comes with a final phase, and that then there is no pod *and no
sync that still has one to make*. A copy only ever moves (`CopiesMove`): a new one comes from a sync, which
with a current cache (`LastShown`: cache and feed end with the pods there are) sees the truth. No sync
starts for a stored job that has ended, since by `Agreement` the cache knows. Why annotations are
restricted (`UsersAnnotate`): `Preempted` and `Failed` stop the walk over the pods, so the sync that ends the job has made none;
any other annotation does not.

**The barrier.** `GenerationsStayApart` has two invariants, for what breaks the barrier is a crash *and* an outage, not
either. Without crashes and annotations (`InStep`, `Barrier`), the cached job is what the
worker started from or decided; what the API server stores may fall behind as far as it likes, since nobody
reads it back: pods belong to the last restart that the *cache* counts as over. Without outages (`Followed`, `Guarded`), an update is refused
only if somebody else wrote, so until the stored job is stopped it differs from the cached one only while an update is under way, and a crash
that reads it back finds the counts the pods were made with; from the moment users stop it (`Halted`), copies may
differ, but a sync of a stopped copy makes nothing. Every other copy (`Meets`) has counted the restarts the pods know of, those
too that a sync is about to make. `SparedTogether` is this alternative, for each job by itself. `prompt` is an instance.

**Earned success.** `Earned`: once any copy names success, every pod there is has succeeded and no sync has
one to make. With a current cache that is `SuccessIsSeen`. With an old cache the sync has seen the past, and the theorem
needs to know that it still holds. `History` speaks of each slot in the sequence that runs from the cache over the
feed to the pods there are: a pod seen to have succeeded is not followed by one that has not (`Lasting`), and the slot is either
only filled in it (`Rising`) or only emptied (`Falling`), never both. A slot that a sync still fills is rising, one with a
pod that was told to stop, or will be, is falling, and a plan never makes what it deletes. If others remove
pods the slot may empty and fill again within one lag, and then the caches must be current.

**Own success.** `SuccessOfItsOwn`: a status that was made for the stored job names success only if a pod of this job
has succeeded, although status, object and pods are found by name. On top of the ages of `OwnPods`: every status that names success,
stored, cached, on the watch or in the worker, was made for an earlier incarnation or for one that has finished (`StatusesAreOwn`);
every pod seen to have succeeded is of an incarnation that has finished (`Witnesses`); and while the worker makes
pods, the object it shares with the cache is of its own incarnation (`Shared`). A new success has a witness by
`SuccessHasAPod`, and the witness has the worker's UID by `claimPods`. A type that asks for no pod succeeds with nothing,
hence `AsksForPods`. The invariant was checked on the instance of `resubmit` first.

**The collector.** `WatchedPodsSpared` assumes that all namespaces are watched, and must: see
*Pods of other namespaces* above. The invariant: UIDs of pods and jobs only grow (`UidsKnown`), the owner of every
pod has been shown by the lister at some time, so that a lister without it shows that it is
gone and not that it has not come (`OwnersShown`), a listed pod under a name is the one that is there or an
older one (`ListedStay`), and the target may go (`TargetMayGo`).

**One writer.** `OneProcessWrites` assumes `Outlasts`: `MaxDelay >= 1` and
`RetryPeriod + RenewDeadline + 3 * MaxDelay <= LeaseDuration`. A leader's last successful
renewal was written at most one request before it learnt of it; from then on it has a pause,
a round, and the request it waits for before it ends, and its workers' last request
after that. The invariant bounds, for a process that leads, the age at which any other has seen its record,
in each state of its loop; and for a process that has ended with a request on its
way, the same with the age of the request.

**Not proved.** Liveness under fairness and `ENABLED` are beyond the prover, as is what a
recursive definition computes for all inputs. `DueJobEnds`, `RestartEnds`, `StoppedPodsGo`, `OrphansGo`,
`IdleLeaderEnds`, `Served`, `GetsPods` and `WithdrawnGoes` are therefore checked only, and so are the four findings.

## 5. Not modelled

* A job whose specification or time limit is edited (`trainingjob.go:38-45`), and pods beyond a
  reduced number of replicas, which are in no slice (`pod.go:688`).
* Adoption of pods and services by label (`claimPods`), deletions that orphan their dependents,
  services in `Resubmission`, and services that outlive their job.
* The counters of expectations: `TrainingJobController` keeps the set of keys that wait.
* In `GarbageCollector` a list that fails, which only delays the next one; in `Operators` clocks that run
  at different rates.
* A new leader whose job cache is behind that of the former leader. `TakeOver` models pod caches that
  lag and, in `Resubmission`, a job cache that is ahead of the former leader's though not
  current. What a job cache that is behind would do is told under *Also seen*.
* Environment variables, ports and volumes of pods (`setEnv`, `getPortsFromJob`): pure functions
  nobody reads back. Validation: called by nobody. Elastic fields: read by nobody.
* The conditions grow without bound (`status.go:74`); names joined with dashes may collide between
  jobs (`trainingjob.go:14`). Nothing in the code bounds the one or rules out the other.
* Generated clients, informers and deep copies.

## 6. Plan

Done: the modules of section 2, their runs, and the proofs above. Next, in this order:

1. *More proofs*: that a job of the name that is submitted again keeps `JobLifecycle` as long as no
   refused update of an earlier one meets it (`mixed_status`); the parts of `Operators` and `GarbageCollector`
   that liveness rests on, as invariants.
2. `Expectations`: the counters of client-go as an abstract specification, and what the "or" of
   `satisfiedExpectations` leaves of it; services that outlive their job.
3. *Edited jobs*: replicas and time limits that change while a sync runs.
