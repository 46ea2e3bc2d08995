------------------------------ MODULE Reconcile ------------------------------
(***************************************************************************)
(* What one reconciliation decides, as operators without state: the        *)
(* verdict on one pod, the walk over the slots of one replica type, the    *)
(* status update, and the plans they make together.                        *)
(*                                                                         *)
(* A slot is a pair <<replica type, index>>: the name of a pod is a        *)
(* function of its slot, so at most one pod of a job exists per slot.  A   *)
(* view gives each slot its pod, or NoPod, as the pod informer shows them. *)
(* A plan is the set of API calls the sync will make and the job it will   *)
(* then try to store.                                                      *)
(***************************************************************************)
EXTENDS AITrainingJob, FiniteSets

CONSTANTS NoPod,                \* a slot without a pod
          NoNode,               \* the node of a pod that is not scheduled
          EnableCreatingFailed, \* option: give up on pods that cannot start
          RestartsCreating      \* option CreatingRestartTime is not zero

\* Pods carry the exit codes of their containers; the label RestartCount is
\* the generation.  ImageError stands for a pending pod whose container waits
\* with one of the reasons of ErrorContainerStatus.
PodStates == {"Pending", "ImageError", "Running", "Succeeded", "Failed"}

Present(view) == {s \in DOMAIN view : view[s] # NoPod}

IsPendingPod(pod) == pod.state \in {"Pending", "ImageError"}

Types(spec) == DOMAIN spec.replicaSpecs

Indices(spec, rtype) == 0 .. spec.replicaSpecs[rtype].replicas - 1

SlotsOf(spec, rtype) == {rtype} \X Indices(spec, rtype)

Slots(spec) == UNION {SlotsOf(spec, rtype) : rtype \in Types(spec)}

\* The status of a job, with the ending phases among its annotations: restart
\* is RestartReplicaName, counts RestartCountes, start StartRunningTime, and
\* ended says that EndTime is set.
Jobs(spec) ==
    [phase : Phases, restart : Types(spec) \union {NoReplica},
     counts : [Types(spec) -> Nat], creating : {"never", "current", "past"},
     start : Nat \union {NotStarted}, ended : BOOLEAN,
     annotations : SUBSET EndingPhases]

\* What a sync will do, see Plan below.
Plans(spec) ==
    [creates : SUBSET Slots(spec), svcCreates : SUBSET Slots(spec),
     deletes : SUBSET Slots(spec), force : BOOLEAN,
     svcDeletes : SUBSET Slots(spec), stops : BOOLEAN, job : Jobs(spec),
     wake : {"none", "soon", "limit"}]

Ended(j) == j.phase \in EndingPhases

\* A verdict is reached and the pods are being removed.  The other use of
\* Terminating, with a RestartReplicaName, waits for the pods of a restart.
Sealed(j) == j.phase = "Terminating" /\ j.restart = NoReplica

HasVerdict(j) == Sealed(j) => j.annotations # {}

\* No more restarts are counted than RestartLimit allows, unless another type
\* of the job restarts with scope All and counts for everybody.
WithinLimit(spec, j) ==
    \A t \in Types(spec) :
        \/ spec.replicaSpecs[t].restartLimit = NoLimit
        \/ j.counts[t] <= spec.replicaSpecs[t].restartLimit
        \/ \E r \in Types(spec) \ {t} : spec.replicaSpecs[r].restartScope = "All"

------------------------------------------------------------------------------
(***************************************************************************)
(* The status                                                              *)
(***************************************************************************)

IsJobCompleted(job) == job.phase \in CompletedPhases

\* The two times a sync compares with CreatingRestartTime (since the first
\* Creating condition) and with CreatingDurationTime (since the pod started)
\* are left open.
CreatingClocks == IF RestartsCreating THEN [young : BOOLEAN, stuck : BOOLEAN]
                  ELSE {[young |-> FALSE, stuck |-> FALSE]}

\* updateTrainingJobConditions.  The field "creating" summarises the list of
\* conditions; module Conditions shows that the summary is exact.
NextCreating(summary, to) ==
    CASE to = "Creating" /\ summary = "never" -> "current"
      [] to # "Creating" /\ summary = "current" -> "past"
      [] OTHER -> summary

SetPhase(job, phase) ==
    IF IsJobCompleted(job) THEN job
    ELSE [job EXCEPT !.phase = phase, !.creating = NextCreating(@, phase)]

\* Seeded fault: the restarts that are left are counted instead.
CountRestartsDown(spec, job, rtype) ==
    [job EXCEPT !.counts[rtype] = @ - 1]

\* One restart of a type; with scope All every type counts it.
UpdateRestartCount(spec, job, rtype) ==
    [job EXCEPT !.counts =
        [t \in DOMAIN @ |->
            IF t = rtype \/ spec.replicaSpecs[rtype].restartScope = "All"
            THEN @[t] + 1 ELSE @[t]]]

------------------------------------------------------------------------------
(***************************************************************************)
(* The verdict on one pod: reconcileContainers                             *)
(***************************************************************************)

IsRetryableExitCode(codes, spec) ==
    codes # {} /\ codes \subseteq spec.restartingExitCode

RestartsOnFailure(spec, rtype, pod) ==
    LET policy == spec.replicaSpecs[rtype].restartPolicy
    IN  \/ policy \in {"OnFailure", "Always"}
        \/ /\ policy \in {"ExitCode", "OnNodeFailWithExitCode"}
           /\ IsRetryableExitCode(pod.exit, spec)

RestartsOnNodeFail(spec, rtype) ==
    spec.replicaSpecs[rtype].restartPolicy
        \in {"OnNodeFailWithExitCode", "OnNodeFail", "Always"}

\* The phase of the pod and whether its restart policy asks for a restart.
\* The order matters: a failed pod is Failed wherever its node is, and any
\* other pod, a succeeded one too, is NodeFail when its node is not ready.
ReconcileContainers(spec, job, rtype, pod, ready, clock) ==
    LET retried == pod.state = "ImageError" /\ job.creating = "current"
        isRestart == retried /\ clock.young /\ clock.stuck
    IN  IF retried /\ ~clock.young /\ EnableCreatingFailed
        THEN [phase |-> "Failed", isRestart |-> FALSE]
        ELSE IF pod.state = "Failed"
        THEN [phase |-> "Failed",
              isRestart |-> RestartsOnFailure(spec, rtype, pod)]
        ELSE IF pod.node # NoNode /\ pod.node \notin ready
        THEN [phase |-> "NodeFail",
              isRestart |-> isRestart \/ RestartsOnNodeFail(spec, rtype)]
        ELSE [phase |-> CASE pod.state = "ImageError" -> "Creating"
                          [] pod.state = "Succeeded" -> "Succeed"
                          [] OTHER -> NoPhase,
              isRestart |-> isRestart]

------------------------------------------------------------------------------
(***************************************************************************)
(* The walk over one replica type: reconcilePods                           *)
(***************************************************************************)

MinOf(S) == CHOOSE x \in S : \A y \in S : x <= y

\* The phase with which the pod at an index ends the walk, NoPhase if none.
EndsWalk(rs, index, pod, verdict) ==
    LET applies(policy) == policy = "Any" \/ (policy = "Rank0" /\ index = 0)
    IN  IF verdict.phase = "Succeed" /\ applies(rs.completePolicy)
        THEN "Succeed"
        ELSE IF verdict.phase \in {"Failed", "NodeFail"} /\ applies(rs.failPolicy)
             THEN verdict.phase
             ELSE NoPhase

\* What reconcilePods does for a type before it touches any pod.
EarlyEnd(job) ==
    IF job.phase = "Terminating" THEN "Terminating"
    ELSE IF "Preempted" \in job.annotations THEN "Preempted"
    ELSE IF "Failed" \in job.annotations THEN "Failed"
    ELSE NoPhase

\* Seeded fault: the pods that exist are all that is asked.
EndsTypeWithMissing(rs, view, slots, failedPhase) ==
    LET present == slots \intersect Present(view)
        all(state) == present # {} /\ \A s \in present : view[s].state = state
    IN  IF rs.completePolicy = "All" /\ all("Succeeded") THEN "Succeed"
        ELSE IF rs.failPolicy = "All" /\ all("Failed") THEN failedPhase
        ELSE NoPhase

\* The phase of a type that no single pod ended.
EndsType(rs, view, slots, failedPhase) ==
    LET all(state) == \A s \in slots : s \in Present(view) /\ view[s].state = state
    IN  IF rs.completePolicy = "All" /\ all("Succeeded") THEN "Succeed"
        ELSE IF rs.failPolicy = "All" /\ all("Failed") THEN failedPhase
        ELSE NoPhase

\* The pods a restart deletes: those of its scope that the view shows.
RestartScope(rs, view, slots, slot) ==
    CASE rs.restartScope = "Pod" -> {slot}
      [] rs.restartScope = "Replica" -> slots \intersect Present(view)
      [] OTHER -> Present(view)

\* Seeded fault: one restart too many.
MayRestartOnceMore(rs, count) ==
    rs.restartLimit = NoLimit \/ count <= rs.restartLimit

MayRestart(rs, count) == rs.restartLimit = NoLimit \/ count < rs.restartLimit

\* creates: the empty slots found before the walk stopped; phase: the ending
\* phase of the type; deletes and force: the deletions of a restart.
ReconcilePods(spec, job, view, rtype, ready, clock) ==
    LET rs == spec.replicaSpecs[rtype]
        slots == SlotsOf(spec, rtype)
        present == {i \in Indices(spec, rtype) : <<rtype, i>> \in Present(view)}
        verdict == [i \in present |->
                      ReconcileContainers(spec, job, rtype, view[<<rtype, i>>],
                                          ready, clock)]
        restarts == {i \in present : /\ verdict[i].isRestart
                                     /\ MayRestart(rs, job.counts[rtype])}
        ends == {i \in present :
                   EndsWalk(rs, i, view[<<rtype, i>>], verdict[i]) # NoPhase}
        stops == restarts \union ends
        stop == MinOf(stops)
        missing == {s \in slots : s \notin Present(view)}
        failedPhase == IF \E i \in present : verdict[i].phase = "NodeFail"
                       THEN "NodeFail" ELSE "Failed"
        result(creates, phase, deletes, force) ==
            [creates |-> creates, phase |-> phase, deletes |-> deletes,
             force |-> force]
    IN  IF EarlyEnd(job) # NoPhase
        THEN result({}, EarlyEnd(job), {}, FALSE)
        ELSE IF stops = {}
        THEN result(missing, EndsType(rs, view, slots, failedPhase), {}, FALSE)
        ELSE LET before == {s \in missing : s[2] < stop}
             IN  IF stop \in restarts
                 THEN result(before, "Restarting",
                             RestartScope(rs, view, slots, <<rtype, stop>>),
                             verdict[stop].phase = "NodeFail")
                 ELSE result(before,
                             EndsWalk(rs, stop, view[<<rtype, stop>>], verdict[stop]),
                             {}, FALSE)

------------------------------------------------------------------------------
(***************************************************************************)
(* The status update: updateStatus and terminateTrainingJob                *)
(***************************************************************************)

\* An outcome: the job to store, what terminateTrainingJob deletes, and the
\* later sync that is asked for: none, soon (rate limited), or at the time
\* limit.
Outcome(job, deletes, svcDeletes, wake) ==
    [job |-> job, deletes |-> deletes, svcDeletes |-> svcDeletes, wake |-> wake]

\* Seeded faults: the verdict is not noted, or finished pods are not deleted.
TerminateWithoutVerdict(spec, job, view, svcs, phase) ==
    Outcome(SetPhase(job, "Terminating"), Present(view), svcs, "none")

TerminateRunningPods(spec, job, view, svcs, phase) ==
    Outcome(SetPhase([job EXCEPT !.annotations = @ \union {phase}], "Terminating"),
            {s \in Present(view) : view[s].state \notin {"Succeeded", "Failed"}},
            svcs, "none")

\* A verdict is first an annotation and the phase Terminating; with
\* CleanPodPolicy None a success or a failure is final at once.  The deletions
\* start with the pods the sync saw; if it saw none the services stay.
TerminateTrainingJob(spec, job, view, svcs, phase) ==
    IF spec.cleanPodPolicy = "None" /\ phase \in {"Succeed", "Failed"}
    THEN Outcome(SetPhase(job, phase), {}, {}, "none")
    ELSE Outcome(SetPhase([job EXCEPT !.annotations = @ \union {phase}],
                          "Terminating"),
                 Present(view),
                 IF Present(view) = {} THEN {} ELSE svcs,
                 "none")

\* Seeded fault: a restart waits for nobody.
RestartIsOverAtOnce(spec, job, view) == TRUE

\* Whether the pods of a restart are gone, as updateStatus judges it.
RestartIsOver(spec, job, view) ==
    LET rtype == job.restart
        slots == SlotsOf(spec, rtype)
        scope == spec.replicaSpecs[rtype].restartScope
    IN  \/ scope = "All" /\ Present(view) = {}
        \/ scope = "Replica" /\ slots \intersect Present(view) = {}
        \/ scope = "Pod" /\ ~(slots \subseteq Present(view))

WaitForRestart(spec, job, view) ==
    Outcome(IF RestartIsOver(spec, job, view)
            THEN [SetPhase(job, "Restarting") EXCEPT !.restart = NoReplica]
            ELSE job,
            {}, {}, "none")

\* Seeded fault: one type is enough for both policies.
PolicyVerdictsOfAnyType(spec, endings) ==
    LET failed == {t \in DOMAIN endings : IsFailedPhase(endings[t])}
        succeeded == {t \in DOMAIN endings : endings[t] = "Succeed"}
    IN  IF succeeded # {} THEN {"Succeed"} ELSE {endings[t] : t \in failed}

\* The ending phase the policies of the job settle on, from the ending phases
\* of its types; among failed types any may be the last the code looked at.
PolicyVerdicts(spec, endings) ==
    LET failed == {t \in DOMAIN endings : IsFailedPhase(endings[t])}
        succeeded == {t \in DOMAIN endings : endings[t] = "Succeed"}
        applies(policy, types) == \/ policy = "Any" /\ types # {}
                                  \/ policy = "All" /\ types = Types(spec)
    IN  IF applies(spec.completePolicy, succeeded) THEN {"Succeed"}
        ELSE IF applies(spec.failPolicy, failed) THEN {endings[t] : t \in failed}
        ELSE {}

FirstAnnotation(job) ==
    EndingPhaseOrder[MinOf({i \in DOMAIN EndingPhaseOrder :
                              EndingPhaseOrder[i] \in job.annotations})]

\* Seeded fault: the job does not wait for its pods.
EndAtOnce(job, view) ==
    Outcome(SetPhase([job EXCEPT !.ended = TRUE], FirstAnnotation(job)),
            {}, {}, "none")

\* An annotated job ends once the sync sees no pod of it.
EndWhenReleased(job, view) ==
    IF Present(view) = {}
    THEN Outcome(SetPhase([job EXCEPT !.ended = TRUE], FirstAnnotation(job)),
                 {}, {}, "none")
    ELSE Outcome(job, {}, {}, "soon")

TimeIsOver(spec, job, now) ==
    /\ spec.timeLimit # NoLimit
    /\ job.start # NotStarted
    /\ now - job.start >= spec.timeLimit

\* The phase of a job that goes on.  In the code ReplicaStatuses holds, per
\* type, how many pods are in each of these conditions.
ObservePods(spec, job, view, now) ==
    LET restarting(s) == IsPendingPod(view[s]) /\ job.counts[s[1]] > 0
        scheduled(s) == /\ IsPendingPod(view[s])
                        /\ job.counts[s[1]] = 0
                        /\ view[s].node # NoNode
        isScheduled == \A s \in Slots(spec) :
                           /\ s \in Present(view)
                           /\ \/ restarting(s) \/ scheduled(s)
                              \/ ~IsPendingPod(view[s])
        isCreating == \E s \in Present(view) : scheduled(s)
        isRestarting == \E s \in Present(view) : restarting(s)
        isRunning == \A s \in Slots(spec) :
                         s \in Present(view) /\ view[s].state = "Running"
        running == IF isRunning /\ job.phase # "Running"
                   THEN SetPhase([job EXCEPT !.start =
                                     IF @ = NotStarted THEN now ELSE @], "Running")
                   ELSE job
        creating == IF isCreating /\ isScheduled /\ running.phase # "Restarting"
                    THEN SetPhase(running, "Creating") ELSE running
        restarted == IF isRestarting /\ creating.phase # "Restarting"
                     THEN SetPhase(creating, "Restarting") ELSE creating
    IN  IF ~isScheduled /\ ~isRestarting /\ restarted.phase # "Restarting"
        THEN SetPhase(restarted, "Pending") ELSE restarted

\* Seeded fault: no sync is asked for when the time limit is reached.
UpdateStatusUntimed(spec, job, view, svcs, endings, now) ==
    LET verdicts == PolicyVerdicts(spec, endings)
    IN  IF job.restart # NoReplica
        THEN {WaitForRestart(spec, job, view)}
        ELSE IF verdicts # {}
        THEN {TerminateTrainingJob(spec, job, view, svcs, v) : v \in verdicts}
        ELSE IF job.annotations # {}
        THEN {EndWhenReleased(job, view)}
        ELSE {Outcome(ObservePods(spec, job, view, now), {}, {}, "none")}

\* All outcomes of updateStatus for the ending phases of the types visited.
UpdateStatus(spec, job, view, svcs, endings, now) ==
    LET verdicts == PolicyVerdicts(spec, endings)
        observed == ObservePods(spec, job, view, now)
    IN  IF job.restart # NoReplica
        THEN {WaitForRestart(spec, job, view)}
        ELSE IF verdicts # {}
        THEN {TerminateTrainingJob(spec, job, view, svcs, v) : v \in verdicts}
        ELSE IF job.annotations # {}
        THEN {EndWhenReleased(job, view)}
        ELSE IF TimeIsOver(spec, job, now)
        THEN {TerminateTrainingJob(spec, job, view, svcs, "Timeout")}
        ELSE {Outcome(observed, {}, {},
                      IF spec.timeLimit # NoLimit /\ observed.start # NotStarted
                      THEN "limit" ELSE "none")}

------------------------------------------------------------------------------
(***************************************************************************)
(* The plans of a sync: reconcileTrainingJobs                              *)
(***************************************************************************)

\* creates, svcCreates: made before the status is decided, any of them may
\* abort the sync.  deletes and force: the deletions of a restart, whose
\* errors are ignored, or of terminateTrainingJob, which stops at the first
\* error (stops).  The status is decided at the last create.
Plan(creates, svcCreates, outcome, deletes, force) ==
    [creates |-> creates, svcCreates |-> svcCreates,
     deletes |-> deletes \union outcome.deletes, force |-> force,
     svcDeletes |-> outcome.svcDeletes, stops |-> outcome.deletes # {},
     job |-> outcome.job, wake |-> outcome.wake]

\* reconcileServices: one service per slot of a type that exposes a port.
MissingServices(spec, svcs, rtype) ==
    IF spec.replicaSpecs[rtype].port THEN SlotsOf(spec, rtype) \ svcs ELSE {}

\* The types are visited in the order of a Go map.  If a type restarts, the
\* walk ends there: any set of types that do not restart may come before it.
ReconcileTrainingJobs(spec, job, view, svcs, ready, now, clock) ==
    LET walk == [t \in Types(spec) |->
                   ReconcilePods(spec, job, view, t, ready, clock)]
        restarting == {t \in Types(spec) : walk[t].phase = "Restarting"}
        creates(visited) == UNION {walk[t].creates : t \in visited}
        svcCreates(visited) ==
            UNION {MissingServices(spec, svcs, t) :
                     t \in {v \in visited : walk[v].phase = NoPhase}}
        restart(rtype) ==
            [SetPhase(UpdateRestartCount(spec, job, rtype), "Terminating")
               EXCEPT !.restart = rtype]
        restartPlan(visited, rtype) ==
            Plan(creates(visited \union {rtype}), svcCreates(visited),
                 WaitForRestart(spec, restart(rtype), view),
                 walk[rtype].deletes, walk[rtype].force)
    IN  IF job.restart # NoReplica
        THEN {Plan({}, {}, o, {}, FALSE) :
                o \in UpdateStatus(spec, job, view, svcs, <<>>, now)}
        ELSE IF restarting = {}
        THEN {Plan(creates(Types(spec)), svcCreates(Types(spec)), o, {}, FALSE) :
                o \in UpdateStatus(spec, job, view, svcs,
                                   [t \in Types(spec) |-> walk[t].phase], now)}
        ELSE UNION {{restartPlan(visited, rtype) :
                       visited \in SUBSET (Types(spec) \ restarting)} :
                    rtype \in restarting}
==============================================================================
