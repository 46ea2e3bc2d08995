--------------------------- MODULE MCResubmission ---------------------------
(* A job of one worker, submitted twice.                                   *)
EXTENDS Resubmission, TLC

Workers(n) ==
    [replicaSpecs |->
        "worker" :> [replicas |-> n, restartPolicy |-> "Never", restartScope |-> Unset,
                     restartLimit |-> NoLimit, failPolicy |-> Unset,
                     completePolicy |-> Unset, port |-> FALSE],
     failPolicy |-> Unset, completePolicy |-> Unset, cleanPodPolicy |-> Unset,
     timeLimit |-> NoLimit, restartingExitCode |-> {}]

OneWorker == Workers(1)
Either == {"Background", "Foreground"}
==============================================================================
