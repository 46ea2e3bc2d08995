--------------------------- MODULE GarbageCollector ---------------------------
(***************************************************************************)
(* The garbage collector of pods.  Every tick lists the pods of all        *)
(* namespaces, goes through that list and deletes, by name and without     *)
(* grace, the pods whose grace period is over and those whose job the      *)
(* lister does not know.  Jobs and pods change while it goes.              *)
(*                                                                         *)
(* Each namespace has one job name; jobs submitted under it are told apart *)
(* by their UID, pods made under one name by theirs.                       *)
(***************************************************************************)
EXTENDS Integers

CONSTANTS Namespaces,
          Watched,      \* the namespaces the informers watch: opt.Namespace
          Indices,      \* of the pods of a job
          Nodes,
          Grace,        \* the grace period of a deletion
          MaxJobs,      \* bound on the jobs ever submitted
          MaxPods,      \* bound on the pods ever made
          MaxTime,      \* bound on the clock
          Failures      \* how many calls or processes may fail

ASSUME WatchedAssumption == Watched \subseteq Namespaces

ASSUME NumbersAssumption ==
    /\ Grace \in Nat /\ MaxJobs \in Nat /\ MaxPods \in Nat
    /\ MaxTime \in Nat /\ Failures \in Nat

VARIABLES jobs,         \* the UID of the job that exists in a namespace
          submitted,    \* the number of jobs submitted so far
          lister,       \* the job the informer's cache shows
          pods,         \* what exists under each name of a pod
          made,         \* the number of pods made so far
          nodes,        \* ready; lost, which is not ready; or gone
          list,         \* what is left of the list the collector goes through
          target,       \* the name it is about to delete
          now,
          failures      \* the failures that may still happen

collector == <<list, target>>
vars == <<jobs, submitted, lister, pods, made, nodes, collector, now, failures>>

NoJob == 0
NoNode == ""
NoSlot == <<>>
Never == -1

Slots == Namespaces \X Indices

Pods == [uid : 1..MaxPods, owner : 0..MaxJobs, labelled : BOOLEAN,
         node : Nodes \union {NoNode}, deadline : (0..MaxTime) \union {Never}]

NoPod == [uid |-> 0]

NothingListed == [s \in Slots |-> NoPod]

Init == /\ jobs = [ns \in Namespaces |-> NoJob] /\ submitted = 0
        /\ lister = jobs
        /\ pods = [s \in Slots |-> NoPod] /\ made = 0
        /\ nodes = [n \in Nodes |-> "ready"]
        /\ list = NothingListed /\ target = NoSlot
        /\ now = 0 /\ failures = Failures

------------------------------------------------------------------------------
(***************************************************************************)
(* Users, kubelets, nodes, the operator's workers                          *)
(***************************************************************************)

Submit(ns) ==
    /\ jobs[ns] = NoJob /\ submitted < MaxJobs
    /\ submitted' = submitted + 1
    /\ jobs' = [jobs EXCEPT ![ns] = submitted']
    /\ UNCHANGED <<lister, pods, made, nodes, collector, now, failures>>

Withdraw(ns) ==
    /\ jobs[ns] # NoJob
    /\ jobs' = [jobs EXCEPT ![ns] = NoJob]
    /\ UNCHANGED <<submitted, lister, pods, made, nodes, collector, now, failures>>

Deliver(ns) ==
    /\ ns \in Watched /\ lister[ns] # jobs[ns]
    /\ lister' = [lister EXCEPT ![ns] = jobs[ns]]
    /\ UNCHANGED <<jobs, submitted, pods, made, nodes, collector, now, failures>>

Make(s, owner, labelled) ==
    /\ pods[s] = NoPod /\ made < MaxPods
    /\ made' = made + 1
    /\ \E n \in Nodes \union {NoNode} :
          pods' = [pods EXCEPT ![s] = [uid |-> made', owner |-> owner, node |-> n,
                                       labelled |-> labelled, deadline |-> Never]]
    /\ UNCHANGED <<jobs, submitted, lister, nodes, collector, now, failures>>

\* A worker of this operator makes a pod for the job its lister shows, and the
\* operator of a namespace not watched here for the job that exists there.
CreateNewPod(s) ==
    LET owner == IF s[1] \in Watched THEN lister[s[1]] ELSE jobs[s[1]]
    IN  owner # NoJob /\ Make(s, owner, TRUE)

\* Somebody makes a pod without a controller, with the label or without.
MakeOther(s) == \E labelled \in BOOLEAN : Make(s, NoJob, labelled)

\* Kubernetes, a worker or a user deletes a pod and gives it its grace period.
Delete(s) ==
    /\ pods[s] # NoPod /\ pods[s].deadline = Never /\ now + Grace < MaxTime
    /\ pods' = [pods EXCEPT ![s].deadline = now + Grace]
    /\ UNCHANGED <<jobs, submitted, lister, made, nodes, collector, now, failures>>

\* A kubelet has stopped the pod, or somebody has forced it out.
Gone(s) ==
    /\ pods[s] # NoPod
    /\ pods' = [pods EXCEPT ![s] = NoPod]
    /\ UNCHANGED <<jobs, submitted, lister, made, nodes, collector, now, failures>>

ChangeNode(n, state) ==
    /\ nodes[n] # state
    /\ nodes' = [nodes EXCEPT ![n] = state]
    /\ UNCHANGED <<jobs, submitted, lister, pods, made, collector, now, failures>>

Tick ==
    /\ now < MaxTime
    /\ now' = now + 1
    /\ UNCHANGED <<jobs, submitted, lister, pods, made, nodes, collector, failures>>

------------------------------------------------------------------------------
(***************************************************************************)
(* The collector                                                           *)
(***************************************************************************)

\* An error of the API server counts as a ready node, and so does a node that
\* is gone, which is answered with an error.
CheckNode(p, answered) == p.node # NoNode /\ answered => nodes[p.node] # "lost"

\* Seeded faults: an orphan waits for its node whether it is stopping or not;
\* an expired pod waits for its node.
WaitsForNode(p, answered) == CheckNode(p, answered)
IsExpiredOnNode(p) == p.deadline # Never /\ p.deadline < now /\ CheckNode(p, TRUE)

IsExpired(p) == p.deadline # Never /\ p.deadline < now

Waits(p, answered) == p.deadline # Never /\ p.deadline > now /\ CheckNode(p, answered)

\* The owner is looked up by its name: any job of that name will do.
IsGarbage(s, p, answered) ==
    /\ p.labelled
    /\ \/ IsExpired(p)
       \/ p.owner # NoJob /\ lister[s[1]] = NoJob /\ ~Waits(p, answered)

CleanGarbagePods ==
    /\ list = NothingListed
    /\ list' = pods
    /\ UNCHANGED <<jobs, submitted, lister, pods, made, nodes, target, now, failures>>

InspectPod(s) ==
    /\ list[s] # NoPod /\ target = NoSlot
    /\ \E answered \in BOOLEAN :
          /\ failures' = IF answered THEN failures ELSE failures - 1
          /\ failures' \in Nat
          /\ IF IsGarbage(s, list[s], answered)
             THEN target' = s /\ list' = list
             ELSE target' = NoSlot /\ list' = [list EXCEPT ![s] = NoPod]
    /\ UNCHANGED <<jobs, submitted, lister, pods, made, nodes, now>>

\* Seeded fault: the loop does not move on.
DeletePodOnly ==
    /\ target # NoSlot
    /\ list' = [list EXCEPT ![target] = NoPod]
    /\ pods' = [pods EXCEPT ![target] = NoPod]
    /\ UNCHANGED <<jobs, submitted, lister, made, nodes, target, now, failures>>

\* Whatever has the name by now goes, if the call succeeds.
DeletePod ==
    /\ target # NoSlot
    /\ list' = [list EXCEPT ![target] = NoPod]
    /\ target' = NoSlot
    /\ \/ pods' = [pods EXCEPT ![target] = NoPod] /\ UNCHANGED failures
       \/ failures > 0 /\ failures' = failures - 1 /\ UNCHANGED pods
    /\ UNCHANGED <<jobs, submitted, lister, made, nodes, now>>

\* Seeded fault: nobody waits for the caches.
RelistedNothing == [ns \in Namespaces |-> NoJob]

\* The operator starts again.  Its caches have synced before the collector runs.
Relisted == [ns \in Namespaces |-> IF ns \in Watched THEN jobs[ns] ELSE NoJob]

Restart ==
    /\ failures > 0 /\ failures' = failures - 1
    /\ lister' = Relisted
    /\ list' = NothingListed /\ target' = NoSlot
    /\ UNCHANGED <<jobs, submitted, pods, made, nodes, now>>

------------------------------------------------------------------------------

Environment ==
    \/ \E ns \in Namespaces : Submit(ns) \/ Withdraw(ns) \/ Deliver(ns)
    \/ \E s \in Slots : CreateNewPod(s) \/ MakeOther(s) \/ Delete(s) \/ Gone(s)
    \/ \E n \in Nodes, state \in {"ready", "lost", "gone"} : ChangeNode(n, state)
    \/ Tick

Collector ==
    \/ CleanGarbagePods
    \/ \E s \in Slots : InspectPod(s)
    \/ DeletePod

Next == Environment \/ Collector \/ Restart

Spec == Init /\ [][Next]_vars

\* The ticker goes on, each round comes to its end, watches deliver, time passes.
\* Nothing is assumed of kubelets, nodes and the cluster's own collector.
Fairness ==
    /\ WF_vars(CleanGarbagePods) /\ WF_vars(\E s \in Slots : InspectPod(s))
    /\ WF_vars(DeletePod) /\ WF_vars(Tick)
    /\ \A ns \in Namespaces : WF_vars(Deliver(ns))

FairSpec == Spec /\ Fairness

------------------------------------------------------------------------------
(***************************************************************************)
(* Properties                                                              *)
(***************************************************************************)

\* The type of every variable; a target is in the list.
TypeOK ==
    /\ jobs \in [Namespaces -> 0..MaxJobs] /\ submitted \in 0..MaxJobs
    /\ lister \in [Namespaces -> 0..MaxJobs]
    /\ pods \in [Slots -> Pods \union {NoPod}] /\ made \in 0..MaxPods
    /\ nodes \in [Nodes -> {"ready", "lost", "gone"}]
    /\ list \in [Slots -> Pods \union {NoPod}]
    /\ target # NoSlot => target \in Slots /\ list[target] # NoPod
    /\ now \in 0..MaxTime /\ failures \in 0..Failures

ForcedOut(s) ==
    target = s /\ target' = NoSlot /\ pods[s] # NoPod /\ pods'[s] = NoPod

\* The pod may go: it had its time to stop, or its very own job is gone.
MayGo(s) == \/ IsExpired(pods[s])
            \/ pods[s].owner # NoJob /\ pods[s].owner # jobs[s[1]]

\* The collector never forces out a pod it has listed while the pod's job exists
\* and its grace period is not over, although it looks for a job of that name in
\* a cache that lags (garbage_collection.go:62): the worker that made the pod has
\* read the job in the same cache.  What took the name of a listed pod is excepted:
\* the deletion names no UID, and whatever has the name by then is forced out.
LivingPodsSpared ==
    [][\A s \in Slots :
          ForcedOut(s) /\ list[s].uid = pods[s].uid => MayGo(s)]_vars

IsPod(s, uid) == pods[s] # NoPod /\ pods[s].uid = uid

\* A pod of the operator that was told to stop goes, wherever it is and whatever
\* became of its node (garbage_collection.go:50-54).
StoppedPodsGo ==
    \A s \in Slots, uid \in 1..MaxPods :
        IsPod(s, uid) /\ pods[s].labelled /\ pods[s].deadline # Never
            ~> ~IsPod(s, uid)

\* The pods of a job that was deleted go, unless a new job takes its name
\* (garbage_collection.go:57-71).
OrphansGo ==
    \A s \in Watched \X Indices, uid \in 1..MaxPods :
        IsPod(s, uid) /\ pods[s].labelled /\ pods[s].owner # NoJob
          /\ jobs[s[1]] = NoJob
            ~> ~IsPod(s, uid) \/ jobs[s[1]] # NoJob

==============================================================================
