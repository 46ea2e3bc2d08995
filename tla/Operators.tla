------------------------------- MODULE Operators -------------------------------
(***************************************************************************)
(* Several processes of the operator and the lease they share: how one is  *)
(* elected, how it renews, and how it ends when it is told to, when its    *)
(* controller cannot run or when it no longer has the lease.               *)
(*                                                                         *)
(* The lease is a record on the API server.  A process knows only when it  *)
(* last saw that record change, on its own clock, and a request takes up   *)
(* to MaxDelay to be answered.  All timers are counted in ticks; a process *)
(* acts before it lets a deadline pass.                                    *)
(***************************************************************************)
EXTENDS Integers

CONSTANTS Procs,
          Scope,          \* the namespaces a process works for: opt.Namespace
          Modes,          \* the values of opt.LeaderElection.LeaderElect
          LeaseDuration, RenewDeadline, RetryPeriod,
          MaxDelay,       \* how long a request to the API server may take
          Faults          \* how many crashes, signals and failures may happen

\* Nobody has a lease yet, and the lease of a process that is no more.
NoLease == "nobody"
Former == "former"

ASSUME ProcsAssumption == NoLease \notin Procs /\ Former \notin Procs

ASSUME DurationsAssumption ==
    /\ LeaseDuration \in Nat \ {0} /\ RenewDeadline \in Nat \ {0}
    /\ RetryPeriod \in Nat /\ MaxDelay \in Nat /\ Faults \in Nat
    /\ Modes \subseteq BOOLEAN

VARIABLES leaderElect,    \* whether the processes run with leader election
          proc,           \* off, waiting for the lease, or leading
          cancelled,      \* the context of the process is cancelled
          runs,           \* the controller of the process works
          lease,          \* whom the record on the API server names
          sees,           \* the process has seen the record as it now is
          age,            \* ticks since it saw the record change
          attempt,        \* its request about the lease: none, asked, sent, applied
          busy,           \* the age of that request
          loop,           \* the renewal loop: pause, round, or no loop
          elapsed,        \* ticks in that pause or round
          write,          \* the age of a worker's request on its way, or NoWrite
          faults          \* the faults that may still happen

NoWrite == -1

record == <<lease, sees>>
request == <<attempt, busy>>
renewal == <<loop, elapsed>>
vars == <<leaderElect, proc, cancelled, runs, record, age, request, renewal, write, faults>>

Init == /\ leaderElect \in Modes
        /\ proc = [p \in Procs |-> "off"]
        /\ cancelled = [p \in Procs |-> FALSE]
        /\ runs = [p \in Procs |-> FALSE]
        /\ lease = NoLease
        /\ sees = [p \in Procs |-> FALSE]
        /\ age = [p \in Procs |-> 0]
        /\ attempt = [p \in Procs |-> "none"]
        /\ busy = [p \in Procs |-> 0]
        /\ loop = [p \in Procs |-> "none"]
        /\ elapsed = [p \in Procs |-> 0]
        /\ write = [p \in Procs |-> NoWrite]
        /\ faults = Faults

Spend == faults > 0 /\ faults' = faults - 1

------------------------------------------------------------------------------
(***************************************************************************)
(* The life of a process                                                   *)
(***************************************************************************)

\* A process with a new identity; nothing of its predecessor is on its way.
Start(p) ==
    /\ proc[p] = "off" /\ attempt[p] = "none" /\ write[p] = NoWrite
    /\ proc' = [proc EXCEPT ![p] = IF leaderElect THEN "waiting" ELSE "leading"]
    /\ cancelled' = [cancelled EXCEPT ![p] = FALSE]
    /\ runs' = [runs EXCEPT ![p] = ~leaderElect]
    /\ lease' = IF lease = p THEN Former ELSE lease
    /\ sees' = [sees EXCEPT ![p] = FALSE]
    /\ loop' = [loop EXCEPT ![p] = "none"]
    /\ UNCHANGED <<leaderElect, age, request, elapsed, write, faults>>

\* The first signal closes stopCh, which cancels the context.
Signal(p) ==
    /\ proc[p] # "off" /\ ~cancelled[p] /\ Spend
    /\ cancelled' = [cancelled EXCEPT ![p] = TRUE]
    /\ UNCHANGED <<leaderElect, proc, runs, record, age, request, renewal, write>>

\* Seeded fault: the error is logged, the lease is kept.
ControllerFailsOnly(p) ==
    /\ proc[p] = "leading" /\ runs[p] /\ write[p] = NoWrite /\ Spend
    /\ runs' = [runs EXCEPT ![p] = FALSE]
    /\ UNCHANGED <<leaderElect, proc, cancelled, record, age, request, renewal, write>>

\* The controller returns an error: no CRD, or caches that do not sync.
ControllerFails(p) ==
    /\ proc[p] = "leading" /\ runs[p] /\ write[p] = NoWrite /\ Spend
    /\ runs' = [runs EXCEPT ![p] = FALSE]
    /\ cancelled' = [cancelled EXCEPT ![p] = TRUE]
    /\ UNCHANGED <<leaderElect, proc, record, age, request, renewal, write>>

Off(p) == /\ proc' = [proc EXCEPT ![p] = "off"]
          /\ runs' = [runs EXCEPT ![p] = FALSE]

\* A crash, or a second signal.  What was sent may still arrive.
Kill(p) ==
    /\ proc[p] # "off" /\ Spend
    /\ Off(p)
    /\ UNCHANGED <<leaderElect, cancelled, record, age, request, renewal, write>>

\* The deadline of a round has passed.
RoundIsOver(p) == loop[p] = "round" /\ elapsed[p] = RenewDeadline

MustEnd(p) ==
    /\ proc[p] # "off" /\ attempt[p] = "none"
    /\ cancelled[p] \/ RoundIsOver(p)

\* Seeded fault: the process that lost the lease goes on.
StopLeadingOnly(p) ==
    /\ MustEnd(p)
    /\ proc' = [proc EXCEPT ![p] = IF cancelled[p] THEN "off" ELSE @]
    /\ runs' = [runs EXCEPT ![p] = ~cancelled[p]]
    /\ loop' = [loop EXCEPT ![p] = "none"]
    /\ UNCHANGED <<leaderElect, cancelled, record, age, request, elapsed, write, faults>>

\* The elector returns and the process exits, without giving the lease back; a
\* request of its own about the lease is waited for.
StopLeading(p) ==
    /\ MustEnd(p)
    /\ Off(p)
    /\ UNCHANGED <<leaderElect, cancelled, record, age, request, renewal, write, faults>>

------------------------------------------------------------------------------
(***************************************************************************)
(* The elector of client-go                                                *)
(***************************************************************************)

\* The process asks for the record: while it waits for the lease, and in a round.
TryAcquireOrRenew(p) ==
    /\ proc[p] # "off" /\ attempt[p] = "none" /\ ~cancelled[p]
    /\ proc[p] = "leading" => loop[p] = "round" /\ elapsed[p] < RenewDeadline
    /\ attempt' = [attempt EXCEPT ![p] = "asked"]
    /\ busy' = [busy EXCEPT ![p] = 0]
    /\ UNCHANGED <<leaderElect, proc, cancelled, runs, record, age, renewal, write, faults>>

\* Seeded faults: a record is as old as the process's first look at it, changed
\* since or not; only an unowned lease is taken.
MayTakeAtFirstSight(p, since) == lease \in {p, NoLease} \/ since >= LeaseDuration \/ ~sees[p]
MayTakeUnowned(p, since) == lease \in {p, NoLease}

MayTake(p, since) == lease \in {p, NoLease} \/ since >= LeaseDuration

\* The record arrives.  If nobody else's lease is in force it is written.
Answer(p) ==
    /\ attempt[p] = "asked"
    /\ sees' = [sees EXCEPT ![p] = TRUE]
    /\ LET since == IF sees[p] THEN age[p] ELSE 0
       IN  /\ age' = [age EXCEPT ![p] = since]
           /\ attempt' = [attempt EXCEPT ![p] = IF MayTake(p, since) THEN "sent" ELSE "none"]
    /\ UNCHANGED <<leaderElect, proc, cancelled, runs, lease, busy, renewal, write, faults>>

\* The API server takes the record if it is still the one that was read.
Applied(p) ==
    /\ attempt[p] = "sent"
    /\ IF sees[p]
       THEN /\ lease' = p
            /\ sees' = [q \in Procs |-> FALSE]
            /\ attempt' = [attempt EXCEPT ![p] = "applied"]
       ELSE /\ attempt' = [attempt EXCEPT ![p] = "none"]
            /\ UNCHANGED record
    /\ UNCHANGED <<leaderElect, proc, cancelled, runs, age, busy, renewal, write, faults>>

\* The process learns that it has the lease; a new leader starts its controller.
Renewed(p) ==
    /\ attempt[p] = "applied"
    /\ attempt' = [attempt EXCEPT ![p] = "none"]
    /\ sees' = [sees EXCEPT ![p] = lease = p]
    /\ age' = [age EXCEPT ![p] = 0]
    /\ IF proc[p] = "off" THEN UNCHANGED <<proc, runs, renewal>>
       ELSE /\ proc' = [proc EXCEPT ![p] = "leading"]
            /\ runs' = [runs EXCEPT ![p] = proc[p] = "leading" => @]
            /\ loop' = [loop EXCEPT ![p] = "pause"]
            /\ elapsed' = [elapsed EXCEPT ![p] = 0]
    /\ UNCHANGED <<leaderElect, cancelled, lease, busy, write, faults>>

\* A request fails, or its answer is lost.
AttemptFails(p) ==
    /\ attempt[p] # "none" /\ Spend
    /\ attempt' = [attempt EXCEPT ![p] = "none"]
    /\ UNCHANGED <<leaderElect, proc, cancelled, runs, record, age, busy, renewal, write>>

NextRound(p) ==
    /\ proc[p] = "leading" /\ loop[p] = "pause" /\ elapsed[p] = RetryPeriod
    /\ loop' = [loop EXCEPT ![p] = "round"]
    /\ elapsed' = [elapsed EXCEPT ![p] = 0]
    /\ UNCHANGED <<leaderElect, proc, cancelled, runs, record, age, request, write, faults>>

------------------------------------------------------------------------------
(***************************************************************************)
(* The workers, and time                                                   *)
(***************************************************************************)

\* A worker of a process that leads, ending or not, sends a request.
Send(p) ==
    /\ proc[p] = "leading" /\ runs[p] /\ write[p] = NoWrite
    /\ write' = [write EXCEPT ![p] = 0]
    /\ UNCHANGED <<leaderElect, proc, cancelled, runs, record, age, request, renewal, faults>>

Arrive(p) ==
    /\ write[p] # NoWrite
    /\ write' = [write EXCEPT ![p] = NoWrite]
    /\ UNCHANGED <<leaderElect, proc, cancelled, runs, record, age, request, renewal, faults>>

\* Somebody has to act first.
IsDue(p) == \/ attempt[p] # "none" /\ busy[p] = MaxDelay
            \/ write[p] = MaxDelay
            \/ MustEnd(p)
            \/ proc[p] = "leading" /\ loop[p] = "pause" /\ elapsed[p] = RetryPeriod

\* Seeded fault: the timers never stop.
CountOn(n, limit) == n + 1

Count(n, limit) == IF n < limit THEN n + 1 ELSE n

\* How far the timer of the loop counts.
Limit(p) == IF loop[p] = "pause" THEN RetryPeriod ELSE RenewDeadline

Tick ==
    /\ \A p \in Procs : ~IsDue(p)
    /\ age' = [p \in Procs |-> Count(age[p], LeaseDuration)]
    /\ busy' = [p \in Procs |-> IF attempt[p] = "none" THEN busy[p] ELSE busy[p] + 1]
    /\ elapsed' = [p \in Procs |-> Count(elapsed[p], Limit(p))]
    /\ write' = [p \in Procs |-> IF write[p] = NoWrite THEN NoWrite ELSE write[p] + 1]
    /\ UNCHANGED <<leaderElect, proc, cancelled, runs, record, attempt, loop, faults>>

------------------------------------------------------------------------------

Process(p) ==
    \/ Start(p) \/ Signal(p) \/ ControllerFails(p) \/ Kill(p) \/ StopLeading(p)
    \/ TryAcquireOrRenew(p) \/ Answer(p) \/ Applied(p) \/ Renewed(p) \/ AttemptFails(p)
    \/ NextRound(p) \/ Send(p) \/ Arrive(p)

Next == (\E p \in Procs : Process(p)) \/ Tick

Spec == Init /\ [][Next]_vars

\* A process that runs does what is due, requests are answered, and time passes.
\* Nobody need be started.
Fairness ==
    /\ \A p \in Procs :
          /\ WF_vars(TryAcquireOrRenew(p)) /\ WF_vars(Answer(p)) /\ WF_vars(Applied(p))
          /\ WF_vars(Renewed(p)) /\ WF_vars(NextRound(p)) /\ WF_vars(StopLeading(p))
          /\ WF_vars(Arrive(p))
    /\ SF_vars(Tick)

FairSpec == Spec /\ Fairness

------------------------------------------------------------------------------
(***************************************************************************)
(* Properties                                                              *)
(***************************************************************************)

\* The type of every variable.
TypeOK ==
    /\ leaderElect \in Modes
    /\ proc \in [Procs -> {"off", "waiting", "leading"}]
    /\ cancelled \in [Procs -> BOOLEAN] /\ runs \in [Procs -> BOOLEAN]
    /\ lease \in Procs \union {NoLease, Former} /\ sees \in [Procs -> BOOLEAN]
    /\ age \in [Procs -> 0..LeaseDuration]
    /\ attempt \in [Procs -> {"none", "asked", "sent", "applied"}]
    /\ busy \in [Procs -> 0..MaxDelay]
    /\ loop \in [Procs -> {"none", "pause", "round"}]
    /\ elapsed \in [Procs -> Nat] /\ write \in [Procs -> (0..MaxDelay) \union {NoWrite}]
    /\ faults \in 0..Faults

Leads(p) == proc[p] = "leading"

\* While a process leads no other does, and no request that another one has sent
\* while it led is still on its way (server.go:94-106): the old leader is gone, and
\* what it wrote has arrived, before the lease can be taken from it.
OneWriter ==
    leaderElect => \A p, q \in Procs :
                      Leads(p) /\ q # p => ~Leads(q) /\ write[q] = NoWrite

\* A process whose controller does not run exits: nobody keeps the lease without
\* reconciling (server.go:59-63).
IdleLeaderEnds ==
    \A p \in Procs : Leads(p) /\ ~runs[p] ~> ~Leads(p)

\* Where an operator is wanted for its namespaces one comes to lead, whatever became
\* of the leader before (server.go:85-106, options.go:66).
Served ==
    \A p \in Procs :
        proc[p] = "waiting" ~> \/ proc[p] = "off"
                               \/ \E q \in Procs : Leads(q) /\ runs[q] /\ Scope[q] = Scope[p]

==============================================================================
