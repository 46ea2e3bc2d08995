----------------------------- MODULE MCController ----------------------------
(* Small jobs and small clusters for TLC.                                  *)
EXTENDS TrainingJobController, TLC

Replica(replicas, policy, scope, limit, fail, complete, port) ==
    [replicas |-> replicas, restartPolicy |-> policy, restartScope |-> scope,
     restartLimit |-> limit, failPolicy |-> fail, completePolicy |-> complete,
     port |-> port]

Job(types, fail, complete, clean, timeLimit) ==
    [replicaSpecs |-> types, failPolicy |-> fail, completePolicy |-> complete,
     cleanPodPolicy |-> clean, timeLimit |-> timeLimit,
     restartingExitCode |-> {137}]

\* One type, every default; its finished pods are removed or kept.
PlainSpecs ==
    {Job("worker" :> Replica(NilReplicas, Unset, Unset, NoLimit, Unset, Unset, FALSE),
         Unset, Unset, Unset, NoLimit)}

PairSpecs ==
    {Job("worker" :> Replica(2, Unset, Unset, NoLimit, Unset, Unset, FALSE),
         Unset, Unset, Unset, NoLimit)}

OneWorkerSpecs ==
    {Job("worker" :> Replica(1, Unset, Unset, NoLimit, Unset, Unset, FALSE),
         Unset, Unset, clean, NoLimit) : clean \in CleanPodPolicies}

\* One worker that may restart once.
RestartSpecs ==
    {Job("worker" :> Replica(1, "Always", "Replica", 1, Unset, Unset, FALSE),
         Unset, Unset, Unset, NoLimit)}

\* Two workers, each restarted on its own.
PodScopeSpecs ==
    {Job("worker" :> Replica(2, "OnFailure", "Pod", 1, Unset, Unset, FALSE),
         Unset, Unset, Unset, NoLimit)}

AllScopeSpecs ==
    {Job("worker" :> Replica(2, policy, "All", 1, Unset, Unset, FALSE),
         Unset, Unset, Unset, NoLimit) :
         policy \in {"Always", "OnNodeFailWithExitCode"}}

\* A parameter server and a worker, each with a service; the job succeeds when
\* both have.
TwoTypeSpecs ==
    {Job("ps" :> Replica(1, "Never", Unset, NoLimit, Unset, Unset, TRUE) @@
         "worker" :> Replica(1, "OnFailure", "Replica", 1, "Rank0", "All", TRUE),
         Unset, Unset, Unset, NoLimit)}

\* Two workers that never restart: the first failure ends the job, success
\* does not.
FailingSpecs ==
    {Job("worker" :> Replica(2, "Never", Unset, NoLimit, Unset, "None", FALSE),
         Unset, Unset, Unset, NoLimit)}

\* A worker that never restarts, with a time limit.
TimedSpecs ==
    {Job("worker" :> Replica(1, "Never", Unset, NoLimit, Unset, Unset, FALSE),
         Unset, Unset, Unset, 1)}

\* Two codes for the policies that look at them, one for the others.
Code == {{1}}
Codes == {{1}, {137}}

\* Each of some kinds of fault at most so many times, at most so many in all.
FaultBudget(kinds, each, any) ==
    [k \in FaultKinds |-> IF k = "any" THEN any
                          ELSE IF k \in kinds THEN each ELSE 0]

For(specs, budget) == [s \in specs |-> budget]

\* Syncs that may start from old caches.
CoreSpecs == OneWorkerSpecs \union RestartSpecs \union PodScopeSpecs
CoreFaults ==
    For(OneWorkerSpecs, FaultBudget({"crash", "outage", "lostReply", "podFail"}, 1, 2))
      @@ For(RestartSpecs, FaultBudget({"crash", "lostReply", "nodeFail", "podFail"}, 1, 2))
      @@ For(PodScopeSpecs, FaultBudget({"crash", "podFail"}, 1, 1))

\* Syncs that start from current caches.
PromptSpecs == AllScopeSpecs \union TwoTypeSpecs \union TimedSpecs
PromptFaults ==
    For(AllScopeSpecs, FaultBudget({"podFail", "nodeFail", "podLoss", "annotate",
                                    "imageError", "crash"}, 1, 2))
      @@ For(TwoTypeSpecs, FaultBudget({"crash", "outage", "annotate", "podFail"}, 1, 1))
      @@ For(TimedSpecs, FaultBudget({}, 0, 0))

\* A failure, a time limit, and an outage that looks like a failed node.
LiveSpecs == FailingSpecs \union TimedSpecs \union RestartSpecs
LiveFaults == For(FailingSpecs, FaultBudget({"podFail"}, 1, 1))
                @@ For(TimedSpecs, FaultBudget({}, 0, 0))
                @@ For(RestartSpecs, FaultBudget({"outage"}, 1, 1))

Outage == For(PlainSpecs, FaultBudget({"outage"}, 1, 1))
NodeFaults == For(PlainSpecs, FaultBudget({"nodeFail", "outage"}, 1, 1))
LossFaults == For(PairSpecs, FaultBudget({"podFail", "podLoss"}, 1, 2))
==============================================================================
