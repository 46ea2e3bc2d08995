---------------------------- MODULE AITrainingJob ----------------------------
(***************************************************************************)
(* The vocabulary of an AITrainingJob resource: the phases of its status,  *)
(* the policies of its specification and the values the controller gives   *)
(* to what the user left out.                                              *)
(***************************************************************************)
EXTENDS Integers

NoPhase == ""     \* TrainingJobPhaseNone
NoReplica == ""   \* RestartReplicaName when no restart is under way
NoLimit == -1     \* a nil RestartLimit or TimeLimit
NilReplicas == -1 \* a nil Replicas
NotStarted == -1  \* a nil StartRunningTime

(***************************************************************************)
(* Phases                                                                  *)
(***************************************************************************)

\* The order is the one in which updateStatus looks for an annotation.
EndingPhaseOrder == <<"Succeed", "Failed", "Timeout", "Preempted", "NodeFail">>

EndingPhases == {"Succeed", "Failed", "Timeout", "Preempted", "NodeFail"}

\* The phases in which syncHandler still reconciles the job.
ReconciledPhases ==
    {NoPhase, "Pending", "Creating", "Running", "Restarting", "Terminating"}

Phases == ReconciledPhases \union EndingPhases

IsFailedPhase(phase) == phase \in EndingPhases \ {"Succeed"}

\* The ending phases isJobCompleted knows: NodeFail is not one of them.
CompletedPhases == {"Succeed", "Failed", "Preempted", "Timeout"}

(***************************************************************************)
(* Policies                                                                *)
(***************************************************************************)

RestartPolicies ==
    {"Always", "OnFailure", "OnNodeFail", "Never", "ExitCode",
     "OnNodeFailWithExitCode"}

RestartScopes == {"All", "Replica", "Pod"}

EndingPolicies == {"All", "Rank0", "Any", "None"}

CleanPodPolicies == {"All", "None"}

Unset == ""

Default(value, default) == IF value = Unset THEN default ELSE value

\* The specifications of a replica type and of a job, as a user writes them:
\* "port" says whether a container has a name that stands for ports.
ReplicaSpecs ==
    [replicas : Nat \union {NilReplicas},
     restartPolicy : RestartPolicies \union {Unset},
     restartScope : RestartScopes \union {Unset},
     restartLimit : Nat \union {NoLimit},
     failPolicy : EndingPolicies \union {Unset},
     completePolicy : EndingPolicies \union {Unset},
     port : BOOLEAN]

IsJobSpec(spec) ==
    /\ spec = [replicaSpecs |-> spec.replicaSpecs, failPolicy |-> spec.failPolicy,
               completePolicy |-> spec.completePolicy,
               cleanPodPolicy |-> spec.cleanPodPolicy,
               timeLimit |-> spec.timeLimit,
               restartingExitCode |-> spec.restartingExitCode]
    /\ spec.replicaSpecs = [t \in DOMAIN spec.replicaSpecs |-> spec.replicaSpecs[t]]
    /\ \A t \in DOMAIN spec.replicaSpecs : spec.replicaSpecs[t] \in ReplicaSpecs
    /\ NoReplica \notin DOMAIN spec.replicaSpecs
    /\ spec.timeLimit \in Nat \union {NoLimit}

\* A replica specification after the defaulting of one sync.
SetDefaultReplicas(rs) ==
    [rs EXCEPT !.replicas = IF @ = NilReplicas THEN 1 ELSE @,
               !.restartPolicy = Default(@, "Never"),
               !.restartScope = Default(@, "All"),
               !.failPolicy = Default(@, "Any"),
               !.completePolicy = Default(@, "All")]

SetDefaults(spec) ==
    [spec EXCEPT !.cleanPodPolicy = Default(@, "All"),
                 !.failPolicy = Default(@, "Any"),
                 !.completePolicy = Default(@, "All"),
                 !.replicaSpecs =
                     [r \in DOMAIN @ |-> SetDefaultReplicas(@[r])]]

==============================================================================
