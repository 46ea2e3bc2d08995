----------------------------- MODULE JobProgress -----------------------------
(***************************************************************************)
(* What a job waits for.  A verdict and a restart delete the pods of one   *)
(* list, made when their sync began, and only once: a pod that the list    *)
(* does not show, one whose deletion fails, and one that is made later are *)
(* spared.  The code keeps no record of them; a history variable does, so  *)
(* that what the controller owes can be told from what it never promised.  *)
(***************************************************************************)
EXTENDS TrainingJobController

VARIABLE spared    \* history: the slots whose pods nobody stops

\* A sync of a job that goes on decides that its pods must go.
StopsPods == /\ worker.pc = "idle" /\ worker'.pc # "idle"
             /\ cache.phase # "Terminating"
             /\ worker'.plan.job.phase = "Terminating"

Unlisted == Slots(spec) \ Present(podCache)

Made == Present(pods)' \ Present(pods)

\* Deletions that failed, and those given up with them.
NotDeleted == IF api THEN {} ELSE worker.plan.deletes \ worker'.plan.deletes

Remember ==
    LET missed == IF StopsPods THEN Unlisted ELSE spared
    IN  spared' = {s \in missed \union Made \union NotDeleted :
                     s \in Present(pods') /\ ~pods'[s].dying}

ProgressSpec == /\ Init /\ spared = {}
                /\ [][Next /\ Remember]_<<vars, spared>>
                /\ Fairness

------------------------------------------------------------------------------

\* A verdict is stored, or a time limit counts.
Due(j) == Sealed(j) \/ (spec.timeLimit # NoLimit /\ j.start # NotStarted)

\* The job waits for a pod that nobody stops.
WaitsForSpared == cache.phase = "Terminating" /\ spared # {}

\* The controller takes the job for ended, but the API server does not know.
EndingUnstored == Ended(cache) /\ worker.pc = "idle"

\* A job that is due ends, old caches, failed calls, lost nodes and containers
\* that run forever notwithstanding.  Two things may keep it, and no other: a pod
\* that its verdict spared, and an ending that could not be stored.  A job stays
\* due, so what keeps it must do so again and again.
DueJobEnds == Due(job) ~> Ended(job) \/ WaitsForSpared \/ EndingUnstored

\* A restart waits for the pods it stops, and for no others but those it spared;
\* when they are gone a sync hears of it.  The restart is over when the cached job
\* says so, which is the one that syncs go by.
RestartEnds ==
    cache.restart # NoReplica ~> cache.restart = NoReplica \/ WaitsForSpared
==============================================================================
