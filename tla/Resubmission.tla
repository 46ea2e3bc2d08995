------------------------------ MODULE Resubmission ------------------------------
(***************************************************************************)
(* One job name used again: a user withdraws an AITrainingJob and submits  *)
(* another one of the same name, while a worker, the caches of the operator *)
(* and the pods may still belong to the one before.                        *)
(*                                                                         *)
(* The incarnations of the job are told apart by their UIDs, as the owner  *)
(* references of the pods are; the work queue, the lister, the names of    *)
(* the pods and the requests of the worker know the name alone.  What one  *)
(* sync decides is taken from module Reconcile.                            *)
(***************************************************************************)
EXTENDS Reconcile, Sequences

CONSTANTS JobSpec,      \* what the user submits, each time
          Node,         \* where pods run
          MaxJobs,      \* how many times the job is submitted
          Propagations, \* how it is withdrawn: "Background", "Foreground"
          UpdateTries,  \* how often updateTrainingJobPhase tries
          MaxLag,       \* bound on the events of a watch not delivered
          Faults        \* how many crashes and failures may happen

NoJob == [uid |-> 0]

spec == SetDefaults(JobSpec)

\* Neither services nor time are at stake here.
ASSUME JobSpecAssumption ==
    /\ IsJobSpec(JobSpec) /\ JobSpec.timeLimit = NoLimit
    /\ \A t \in Types(JobSpec) : ~JobSpec.replicaSpecs[t].port

ASSUME ResubmissionBounds ==
    /\ MaxJobs \in Nat /\ UpdateTries \in Nat \ {0} /\ MaxLag \in Nat /\ Faults \in Nat
    /\ Propagations \subseteq {"Background", "Foreground"}

VARIABLES job,          \* the job as the API server stores it, or NoJob
          jobFeed,      \* its later states the watch has to deliver
          cached,       \* the object of that name in the informer's cache
          last,         \* the UID of the job submitted last
          pods,         \* the pods by their names, slot -> pod or NoPod
          podFeed,      \* their later states the watch has to deliver
          podCache,     \* the pods in the informer's cache
          made,         \* history: the UIDs of the jobs that got a pod
          finished,     \* history: those a pod of which has succeeded
          queued,       \* the key is in the work queue
          delayed,      \* the key will be added to it, rate limited
          worker,       \* the sync in progress
          faults        \* the faults that may still happen

jobs == <<job, jobFeed, cached, last>>
history == <<made, finished>>
allPods == <<pods, podFeed, podCache, history>>
queue == <<queued, delayed>>
vars == <<jobs, allPods, queue, worker, faults>>

------------------------------------------------------------------------------

NewStatus == [phase |-> NoPhase, restart |-> NoReplica,
              counts |-> [t \in Types(spec) |-> 0], creating |-> "never",
              start |-> NotStarted, ended |-> FALSE, annotations |-> {}]

\* status holds the annotations too; "of" is the incarnation it was made for.
NewJob(uid) == [uid |-> uid, status |-> NewStatus, of |-> uid, deleting |-> FALSE]

NewPod(uid, generation) ==
    [state |-> "Pending", node |-> NoNode, exit |-> {}, gen |-> generation,
     dying |-> FALSE, uid |-> uid]

NoPods == [s \in Slots(spec) |-> NoPod]

Idle == [pc |-> "idle", uid |-> 0, of |-> 0, status |-> NewStatus, creates |-> {},
         deletes |-> {}, wake |-> "none", gens |-> NewStatus.counts,
         update |-> FALSE, aliased |-> FALSE, fresh |-> FALSE, tries |-> 0]

Init == /\ job = NoJob /\ jobFeed = <<>> /\ cached = NoJob /\ last = 0
        /\ pods = NoPods /\ podFeed = <<>> /\ podCache = NoPods
        /\ made = {} /\ finished = {}
        /\ queued = FALSE /\ delayed = FALSE
        /\ worker = Idle
        /\ faults = Faults

Spend == faults > 0 /\ faults' = faults - 1

\* The stored job changes; the watch will tell.
StoreJob(new) == /\ Len(jobFeed) < MaxLag
                 /\ job' = new
                 /\ jobFeed' = Append(jobFeed, new)

ChangePod(s, pod) == /\ Len(podFeed) < MaxLag
                     /\ pods' = [pods EXCEPT ![s] = pod]
                     /\ podFeed' = Append(podFeed, pods')

------------------------------------------------------------------------------
(***************************************************************************)
(* The user, the kubelet and the garbage collector of Kubernetes           *)
(***************************************************************************)

\* Somebody else changed the job: the version the worker holds is an old one.
Outdate == worker' = [worker EXCEPT !.fresh = FALSE]

Submit ==
    /\ job = NoJob /\ last < MaxJobs
    /\ StoreJob(NewJob(last + 1))
    /\ last' = last + 1
    /\ Outdate
    /\ UNCHANGED <<cached, allPods, queue, faults>>

Withdraw(how) ==
    /\ job # NoJob /\ ~job.deleting
    /\ StoreJob(IF how = "Background" THEN NoJob ELSE [job EXCEPT !.deleting = TRUE])
    /\ Outdate
    /\ UNCHANGED <<cached, last, allPods, queue, faults>>

\* A job withdrawn in the foreground goes after its pods.
JobGone ==
    /\ job # NoJob /\ job.deleting
    /\ \A s \in Present(pods) : pods[s].uid # job.uid
    /\ StoreJob(NoJob)
    /\ Outdate
    /\ UNCHANGED <<cached, last, allPods, queue, faults>>

\* A deletion by name: a running pod goes when its kubelet has stopped it.
Remove(s) ==
    IF pods[s].state = "Running" THEN ChangePod(s, [pods[s] EXCEPT !.dying = TRUE])
    ELSE ChangePod(s, NoPod)

\* Pods whose owner is no more, or waits for them to go, are deleted.
CollectDependent(s) ==
    /\ ~pods[s].dying
    /\ job.uid = pods[s].uid => job.deleting
    /\ Remove(s)
    /\ UNCHANGED <<jobs, podCache, history, queue, worker, faults>>

OnlyPods == UNCHANGED <<jobs, podCache, queue, worker>>

\* Scheduled and started.
StartPod(s) ==
    /\ IsPendingPod(pods[s]) /\ ~pods[s].dying
    /\ ChangePod(s, [pods[s] EXCEPT !.state = "Running", !.node = Node])
    /\ OnlyPods /\ UNCHANGED <<history, faults>>

Succeed(s) ==
    /\ pods[s].state = "Running"
    /\ ChangePod(s, [pods[s] EXCEPT !.state = "Succeeded", !.exit = {0}])
    /\ finished' = finished \union {pods[s].uid}
    /\ OnlyPods /\ UNCHANGED <<made, faults>>

PodGone(s) ==
    /\ pods[s].dying
    /\ ChangePod(s, NoPod)
    /\ OnlyPods /\ UNCHANGED <<history, faults>>

Cluster == \/ Submit \/ JobGone
           \/ \E how \in Propagations : Withdraw(how)
           \/ \E s \in Present(pods) :
                 CollectDependent(s) \/ StartPod(s) \/ Succeed(s) \/ PodGone(s)

------------------------------------------------------------------------------
(***************************************************************************)
(* The watches                                                             *)
(***************************************************************************)

\* addTrainingJob and deleteTrainingJob add the key at once, updateTrainingJob
\* with a rate limit.
SeeJob(new) ==
    /\ cached' = new
    /\ worker' = [worker EXCEPT !.aliased = FALSE]
    /\ IF cached # NoJob /\ new # NoJob
       THEN delayed' = TRUE /\ UNCHANGED queued
       ELSE queued' = TRUE /\ UNCHANGED delayed

DeliverJob ==
    /\ jobFeed # <<>>
    /\ SeeJob(Head(jobFeed))
    /\ jobFeed' = Tail(jobFeed)
    /\ UNCHANGED <<job, last, allPods, faults>>

\* The watch was lost: the list shows another object of the name as an update.
RelistJobs ==
    /\ jobFeed # <<>> /\ Spend
    /\ SeeJob(job)
    /\ jobFeed' = <<>>
    /\ UNCHANGED <<job, last, allPods>>

\* resolveControllerRef: the owner is the job the lister shows.
Resolves(uid) == cached # NoJob /\ cached.uid = uid

\* addPod, updatePod and deletePod add the key of the owner; a pod that is first
\* seen being deleted adds nothing.
Tells(old, new) ==
    \/ old = NoPod /\ new # NoPod /\ ~new.dying /\ Resolves(new.uid)
    \/ old # NoPod /\ new # NoPod /\ old # new
          /\ (Resolves(new.uid) \/ Resolves(old.uid))
    \/ old # NoPod /\ new = NoPod /\ Resolves(old.uid)

SeePods(new) ==
    /\ podCache' = new
    /\ queued' = (queued \/ \E s \in Slots(spec) : Tells(podCache[s], new[s]))

DeliverPods ==
    /\ podFeed # <<>>
    /\ SeePods(Head(podFeed))
    /\ podFeed' = Tail(podFeed)
    /\ UNCHANGED <<jobs, pods, history, delayed, worker, faults>>

Watches == DeliverJob \/ RelistJobs \/ DeliverPods

------------------------------------------------------------------------------
(***************************************************************************)
(* The worker                                                              *)
(***************************************************************************)

DelayIsOver == /\ delayed
               /\ delayed' = FALSE /\ queued' = TRUE
               /\ UNCHANGED <<jobs, allPods, worker, faults>>

\* Seeded fault: whoever made them, pods with the labels of the job are its pods.
ClaimByLabels == podCache

\* claimPods: the pods the job owns by UID; others keep their names only.
ClaimPods ==
    [s \in Slots(spec) |->
        IF podCache[s] # NoPod /\ podCache[s].uid = cached.uid
        THEN podCache[s] ELSE NoPod]

\* Seeded fault: a job that is being deleted is reconciled like any other.
NeedsSyncDeleted == cached # NoJob /\ cached.status.phase \in ReconciledPhases

NeedsSync == /\ cached # NoJob /\ ~cached.deleting
             /\ cached.status.phase \in ReconciledPhases

TakeKey == queued /\ worker.pc = "idle" /\ queued' = FALSE

\* The job is not found, is being deleted, or has ended.
SkipSync == /\ TakeKey /\ ~NeedsSync
            /\ UNCHANGED <<jobs, allPods, delayed, worker, faults>>

\* The new status is in the worker's object, which may be the one in the cache.
Decide(w) ==
    /\ worker' = IF w.update THEN [w EXCEPT !.pc = "delete"] ELSE Idle
    /\ cached' = IF w.aliased THEN [cached EXCEPT !.status = w.status] ELSE cached
    /\ delayed' = (delayed \/ w.wake = "soon")

SyncHandler ==
    /\ TakeKey /\ NeedsSync
    /\ \E clock \in CreatingClocks, touched \in BOOLEAN :
         \E plan \in ReconcileTrainingJobs(spec, cached.status, ClaimPods, {}, {Node},
                                           0, clock) :
           LET w == [pc |-> "create", uid |-> cached.uid, of |-> cached.of,
                     status |-> plan.job, creates |-> plan.creates,
                     deletes |-> plan.deletes, wake |-> plan.wake,
                     gens |-> cached.status.counts,
                     update |-> \/ touched
                                \/ [plan.job EXCEPT !.annotations = {}]
                                     # [cached.status EXCEPT !.annotations = {}],
                     aliased |-> TRUE, fresh |-> jobFeed = <<>>, tries |-> 0]
           IN  IF plan.creates = {} THEN Decide(w)
               ELSE worker' = w /\ UNCHANGED <<cached, delayed>>
    /\ UNCHANGED <<job, jobFeed, last, allPods, faults>>

\* Seeded fault: the key of a failed sync is forgotten.
AbortAndForget == worker' = Idle /\ UNCHANGED delayed

\* The sync failed: its key is added again with a rate limit.
Abort == worker' = Idle /\ delayed' = TRUE

MayCreate(s) == /\ worker.pc = "create" /\ s \in worker.creates
                /\ \A r \in worker.creates : r[1] = s[1] => s[2] <= r[2]

\* The API server does not ask whether the owner still exists.
CreatePod(s) ==
    /\ MayCreate(s) /\ pods[s] = NoPod
    /\ ChangePod(s, NewPod(worker.uid, worker.gens[s[1]]))
    /\ made' = made \union {worker.uid}
    /\ worker' = [worker EXCEPT !.creates = @ \ {s}]
    /\ UNCHANGED <<jobs, podCache, finished, queue, faults>>

\* The name is taken, by a pod the cache does not show or the job does not own.
CreatePodFails(s) ==
    /\ MayCreate(s) /\ pods[s] # NoPod
    /\ Abort
    /\ UNCHANGED <<jobs, allPods, queued, faults>>

Commit ==
    /\ worker.pc = "create" /\ worker.creates = {}
    /\ Decide(worker)
    /\ UNCHANGED <<job, jobFeed, last, allPods, queued, faults>>

DeletePod(s) ==
    /\ worker.pc = "delete" /\ s \in worker.deletes
    /\ IF pods[s] # NoPod /\ ~pods[s].dying THEN Remove(s) ELSE UNCHANGED <<pods, podFeed>>
    /\ worker' = [worker EXCEPT !.deletes = @ \ {s}]
    /\ UNCHANGED <<jobs, podCache, history, queue, faults>>

Updating == worker.pc = "delete" /\ worker.deletes = {}

\* The API server takes an update of the version it stores and no other.
Accepted == /\ Updating /\ job # NoJob /\ worker.fresh
            /\ StoreJob([job EXCEPT !.status = worker.status, !.of = worker.of])

UpdateAccepted ==
    /\ Accepted
    /\ worker' = Idle
    /\ UNCHANGED <<cached, last, allPods, queue, faults>>

\* Seeded fault: what the lister found is not looked at.
RetryUnchecked(isNewest) ==
    /\ cached' = [uid |-> cached.uid, status |-> worker.status, of |-> worker.of,
                  deleting |-> FALSE]
    /\ IF worker.tries + 1 < UpdateTries
       THEN /\ worker' = [worker EXCEPT !.aliased = TRUE, !.tries = @ + 1,
                                        !.fresh = isNewest]
            /\ UNCHANGED delayed
       ELSE Abort

\* The status and the annotations are copied over the object the lister has of
\* that name, whosever it is, and that object is sent next; if the lister has
\* none the old object is sent again.  isNewest: the lister is up to date.
Retry(isNewest) ==
    LET found == cached # NoJob
    IN  /\ cached' = IF found THEN [cached EXCEPT !.status = worker.status,
                                                  !.of = worker.of]
                     ELSE cached
        /\ IF worker.tries + 1 < UpdateTries
           THEN /\ worker' = [worker EXCEPT !.aliased = @ \/ found, !.tries = @ + 1,
                                            !.fresh = IF found THEN isNewest ELSE FALSE]
                /\ UNCHANGED delayed
           ELSE Abort

UpdateRejected ==
    /\ Updating
    /\ job = NoJob \/ ~worker.fresh
    /\ Retry(jobFeed = <<>>)
    /\ UNCHANGED <<job, jobFeed, last, allPods, queued, faults>>

\* The request is lost, or its answer is.
UpdateLost ==
    /\ Updating /\ Spend
    /\ Retry(jobFeed = <<>>)
    /\ UNCHANGED <<job, jobFeed, last, allPods, queued>>

UpdateReplyLost ==
    /\ Accepted /\ Spend
    /\ Retry(FALSE)
    /\ UNCHANGED <<last, allPods, queued>>

\* The operator starts again and lists everything anew.
Crash ==
    /\ Spend
    /\ worker' = Idle
    /\ cached' = job /\ jobFeed' = <<>>
    /\ podCache' = pods /\ podFeed' = <<>>
    /\ queued' = (job # NoJob) /\ delayed' = FALSE
    /\ UNCHANGED <<job, last, pods, history>>

\* Another process takes over, whose informers and queue have been filled while
\* it waited for the lease: what the watches have yet to show it does not know.
TakeOver ==
    /\ Spend
    /\ worker' = Idle
    /\ IF jobFeed = <<>> THEN cached' = job /\ UNCHANGED jobFeed
       ELSE cached' = Head(jobFeed) /\ jobFeed' = Tail(jobFeed)
    /\ queued' = (last > 0) /\ delayed' = FALSE
    /\ UNCHANGED <<job, last, allPods>>

Worker == \/ SkipSync \/ SyncHandler \/ Commit \/ UpdateAccepted \/ UpdateRejected
          \/ \E s \in Slots(spec) : CreatePod(s) \/ CreatePodFails(s) \/ DeletePod(s)

Next == \/ Cluster \/ Watches \/ DelayIsOver \/ Worker \/ UpdateLost \/ UpdateReplyLost
        \/ Crash \/ TakeOver

Spec == Init /\ [][Next]_vars

\* The worker and the watches go on; Kubernetes collects the pods of a job that
\* is gone, and pods told to stop go, if need be by force (GarbageCollector).
Fairness ==
    /\ WF_vars(Worker) /\ WF_vars(DeliverJob) /\ WF_vars(DeliverPods)
    /\ WF_vars(DelayIsOver) /\ WF_vars(JobGone)
    /\ WF_vars(\E s \in Present(pods) : CollectDependent(s) \/ PodGone(s))

FairSpec == Spec /\ Fairness

------------------------------------------------------------------------------
(***************************************************************************)
(* Properties                                                              *)
(***************************************************************************)

Incarnations ==
    [uid : 1..MaxJobs, status : Jobs(spec), of : 1..MaxJobs, deleting : BOOLEAN]
        \union {NoJob}

Pod == [state : PodStates, node : {Node, NoNode}, exit : {{}, {0}}, gen : Nat,
        dying : BOOLEAN, uid : 1..MaxJobs]

Views == [Slots(spec) -> Pod \union {NoPod}]

\* The type of every variable.
TypeOK ==
    /\ job \in Incarnations /\ cached \in Incarnations /\ last \in 0..MaxJobs
    /\ jobFeed \in Seq(Incarnations)
    /\ pods \in Views /\ podCache \in Views /\ podFeed \in Seq(Views)
    /\ made \subseteq 1..MaxJobs /\ finished \subseteq 1..MaxJobs
    /\ queued \in BOOLEAN /\ delayed \in BOOLEAN
    /\ worker \in [pc : {"idle", "create", "delete"}, uid : 0..MaxJobs, of : 0..MaxJobs,
                   status : Jobs(spec), creates : SUBSET Slots(spec),
                   deletes : SUBSET Slots(spec), wake : {"none", "soon", "limit"},
                   gens : [Types(spec) -> Nat], update : BOOLEAN, aliased : BOOLEAN,
                   fresh : BOOLEAN, tries : Nat]
    /\ faults \in 0..Faults

Deletes == \E s \in Slots(spec) : DeletePod(s)

\* Pods are deleted by name, from a cache that may be old, and still a sync never
\* stops a pod of another incarnation than the one it works for (claimPods,
\* pod.go:134-150; deletePodsAndServices, trainingjob.go:53-73).
OwnPodsOnly ==
    [][Deletes => \A s \in Present(pods) : pods'[s] # pods[s] => pods[s].uid = worker.uid]_vars

\* A status that was made for a job names success only if a pod of that very job
\* has succeeded, whatever pods the names and labels were given to before
\* (claimPods, pod.go:134-150).
SuccessIsOwn ==
    job # NoJob /\ job.of = job.uid /\ "Succeed" \in job.status.annotations \union {job.status.phase}
        => job.uid \in finished

\* The status of another incarnation is in this one, stored or cached.
MixedUp == \E j \in {job, cached} : j # NoJob /\ j.of # j.uid

\* A job submitted again gets pods of its own, although the names are taken until
\* the pods of the one before are gone and nobody tells the worker when they are:
\* unless it is withdrawn, or an update put another's status over it
\* (processNextWorkItem, controller.go:241-268).
GetsPods ==
    \A u \in 1..MaxJobs :
        job.uid = u ~> \/ job.uid # u \/ job.deleting \/ MixedUp \/ u \in made

\* A job that is withdrawn in the foreground goes: the operator does not make its
\* pods anew while they are removed (syncHandler, controller.go:299).
WithdrawnGoes ==
    \A u \in 1..MaxJobs : job.uid = u /\ job.deleting ~> job.uid # u

\* "Status is the most recently observed status of the TrainingJob" (types.go): of
\* this one, and not of the one that had its name.
StatusIsOwn == job # NoJob => job.of = job.uid
==============================================================================
