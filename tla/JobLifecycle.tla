---------------------------- MODULE JobLifecycle -----------------------------
(***************************************************************************)
(* What the operator promises to whoever watches a stored AITrainingJob:   *)
(* the job is open until a verdict seals it, a sealed job always carries a *)
(* verdict and can only end, it ends with one of the verdicts it carries,  *)
(* and an ended job keeps its final phase.  Restarts are counted only      *)
(* while the job is open, and a count never drops.                         *)
(***************************************************************************)
EXTENDS AITrainingJob

VARIABLES stage,     \* open, sealed or ended
          verdicts,  \* the ending phases among the job's annotations
          final,     \* the final phase, NoPhase before
          counts     \* how often each replica type was restarted

vars == <<stage, verdicts, final, counts>>

NeverDrops == /\ DOMAIN counts' = DOMAIN counts
              /\ \A t \in DOMAIN counts : counts'[t] >= counts[t]

Init == /\ stage = "open" /\ verdicts = {} /\ final = NoPhase
        /\ \A t \in DOMAIN counts : counts[t] = 0

\* Pods come and go, restarts happen, users annotate.
Proceed == /\ stage = "open" /\ stage' = "open"
           /\ verdicts' \subseteq EndingPhases
           /\ UNCHANGED final /\ NeverDrops

\* A verdict is given; from now on the pods are only removed.
Seal == /\ stage = "open" /\ stage' = "sealed"
        /\ verdicts' \subseteq EndingPhases /\ verdicts' # {}
        /\ UNCHANGED final /\ NeverDrops

\* The annotations of a sealed job may change, but one always remains.
Wait == /\ stage = "sealed" /\ stage' = "sealed"
        /\ verdicts' \subseteq EndingPhases /\ verdicts' # {}
        /\ UNCHANGED <<final, counts>>

\* The pods are gone: one of the verdicts becomes the final phase.
Release == /\ stage = "sealed" /\ stage' = "ended"
           /\ verdicts' \subseteq EndingPhases /\ final' \in verdicts'
           /\ UNCHANGED counts

\* An open job ends at once: with a verdict while it has no pod, or with a
\* success or a failure whose pods are kept.
EndOpen == /\ stage = "open" /\ stage' = "ended"
           /\ verdicts' \subseteq EndingPhases
           /\ final' \in verdicts' \union {"Succeed", "Failed"}
           /\ NeverDrops

Rest == /\ stage = "ended" /\ stage' = "ended"
        /\ verdicts' \subseteq EndingPhases
        /\ UNCHANGED <<final, counts>>

Next == Proceed \/ Seal \/ Wait \/ Release \/ EndOpen \/ Rest

Spec == Init /\ [][Next]_vars
==============================================================================
