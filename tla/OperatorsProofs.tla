---------------------------- MODULE OperatorsProofs ----------------------------
(***************************************************************************)
(* Operators: its types, and that one process at a time leads and writes,  *)
(* for every number of processes, all durations and any number of faults.  *)
(***************************************************************************)
EXTENDS Operators, TLAPS

\* What the proof needs of the durations: a lease outlasts a pause and a round of
\* renewal, and three requests: the renewal, the last attempt to renew, and a
\* worker's.
Outlasts == MaxDelay >= 1 /\ RetryPeriod + RenewDeadline + 3 * MaxDelay <= LeaseDuration

\* Nobody else who sees the record as it is has seen it for longer than n.
SeenFor(p, n) == \A q \in Procs \ {p} : sees[q] => age[q] <= n

\* The record names p, and p renews it or is about to end.
KeepsLease(p) ==
    /\ lease = p
    /\ loop[p] \in {"pause", "round"}
    /\ loop[p] = "pause" => /\ attempt[p] = "none" /\ elapsed[p] <= RetryPeriod
                            /\ SeenFor(p, MaxDelay + elapsed[p])
    /\ loop[p] = "round" =>
          /\ elapsed[p] <= RenewDeadline
          /\ elapsed[p] < RenewDeadline => SeenFor(p, MaxDelay + RetryPeriod + elapsed[p])
          /\ SeenFor(p, MaxDelay + RetryPeriod + RenewDeadline - 1
                           + (IF attempt[p] = "none" THEN MaxDelay ELSE busy[p]))

LeaderHolds == \A p \in Procs : Leads(p) => KeepsLease(p)

\* A request about the lease that was applied has made the record its sender's.
AppliedHolds ==
    \A p \in Procs : attempt[p] = "applied" => lease = p /\ SeenFor(p, busy[p])

\* Who writes a record that is still as read found it free, its own or expired.
SentIsAllowed ==
    \A q \in Procs : attempt[q] = "sent" /\ sees[q] =>
                        lease \in {q, NoLease} \/ age[q] >= LeaseDuration

\* A worker's request is on its way only while the record is of its process.
WriterHolds ==
    \A p \in Procs : write[p] # NoWrite =>
        /\ lease = p
        /\ SeenFor(p, RetryPeriod + RenewDeadline + 2 * MaxDelay - 1 + write[p])

Holds == LeaderHolds /\ AppliedHolds /\ SentIsAllowed /\ WriterHolds

IInv == TypeOK /\ (leaderElect => Holds)

------------------------------------------------------------------------------
(***************************************************************************)
(* Types                                                                   *)
(***************************************************************************)

LEMMA TypeInit == Init => TypeOK
  BY DurationsAssumption DEF Init, TypeOK, NoWrite

\* A step of one process keeps the types.
LEMMA TypeProcess ==
  ASSUME TypeOK, NEW p \in Procs, Process(p)
  PROVE  TypeOK'
<1> USE DurationsAssumption DEF TypeOK, record, request, renewal
<1>1. CASE Start(p)
  BY <1>1 DEF Start, NoWrite
<1>2. CASE Signal(p)
  BY <1>2 DEF Signal, Spend, NoWrite
<1>3. CASE ControllerFails(p)
  BY <1>3 DEF ControllerFails, Spend, NoWrite
<1>4. CASE Kill(p)
  BY <1>4 DEF Kill, Spend, Off, NoWrite
<1>5. CASE StopLeading(p)
  BY <1>5 DEF StopLeading, Off, MustEnd, NoWrite
<1>6. CASE TryAcquireOrRenew(p)
  BY <1>6 DEF TryAcquireOrRenew, NoWrite
<1>7. CASE Answer(p)
  BY <1>7 DEF Answer, NoWrite
<1>8. CASE Applied(p)
  <2>1. CASE sees[p]
    <3>1. sees' \in [Procs -> BOOLEAN]
      <4>1. sees' = [q \in Procs |-> FALSE]
        BY <1>8, <2>1, Zenon DEF Applied
      <4> QED
        BY <4>1
    <3>2. attempt' \in [Procs -> {"none", "asked", "sent", "applied"}]
      BY <1>8, <2>1 DEF Applied
    <3>3. lease' = p
      BY <1>8, <2>1 DEF Applied
    <3> QED
      BY <1>8, <3>1, <3>2, <3>3 DEF Applied
  <2> QED
    BY <1>8, <2>1 DEF Applied
<1>9. CASE Renewed(p)
  <2>1. sees' \in [Procs -> BOOLEAN]
    BY <1>9, Zenon DEF Renewed
  <2>2. runs' \in [Procs -> BOOLEAN]
    BY <1>9, Zenon DEF Renewed
  <2>3. /\ proc' \in [Procs -> {"off", "waiting", "leading"}]
        /\ loop' \in [Procs -> {"none", "pause", "round"}]
        /\ elapsed' \in [Procs -> Nat]
    BY <1>9 DEF Renewed
  <2> QED
    BY <1>9, <2>1, <2>2, <2>3 DEF Renewed, NoWrite
<1>10. CASE AttemptFails(p)
  BY <1>10 DEF AttemptFails, Spend, NoWrite
<1>11. CASE NextRound(p)
  BY <1>11 DEF NextRound, NoWrite
<1>12. CASE Send(p)
  BY <1>12 DEF Send, NoWrite
<1>13. CASE Arrive(p)
  BY <1>13 DEF Arrive, NoWrite
<1> QED
  BY <1>1, <1>2, <1>3, <1>4, <1>5, <1>6, <1>7, <1>8, <1>9, <1>10, <1>11, <1>12, <1>13 DEF Process

LEMMA TypeTick == ASSUME TypeOK, Tick PROVE TypeOK'
<1> USE DurationsAssumption DEF TypeOK, Tick
<1>1. age' \in [Procs -> 0..LeaseDuration]
  BY DEF Count
<1>2. busy' \in [Procs -> 0..MaxDelay]
  <2>1. \A p \in Procs : attempt[p] # "none" => busy[p] # MaxDelay
    BY DEF IsDue
  <2>2. \A p \in Procs : (IF attempt[p] = "none" THEN busy[p] ELSE busy[p] + 1) \in 0..MaxDelay
    BY <2>1, SMTT(30)
  <2> QED
    BY <2>2
<1>3. elapsed' \in [Procs -> Nat]
  BY DEF Count, Limit
<1>4. write' \in [Procs -> (0..MaxDelay) \union {NoWrite}]
  BY DEF IsDue, NoWrite
<1> QED
  BY <1>1, <1>2, <1>3, <1>4 DEF record

LEMMA TypeStep == TypeOK /\ [Next]_vars => TypeOK'
<1>1. ASSUME TypeOK, UNCHANGED vars PROVE TypeOK'
  BY <1>1 DEF TypeOK, vars, record, request, renewal
<1> QED
  BY <1>1, TypeProcess, TypeTick DEF Next

\* Every reachable state is of its type, for all processes and durations
\* (server.go, and the elector it configures).
THEOREM TypeCorrect == Spec => []TypeOK
  BY TypeInit, TypeStep, PTL DEF Spec

------------------------------------------------------------------------------
(***************************************************************************)
(* One writer                                                              *)
(***************************************************************************)

LEMMA HoldsInit == Init => Holds
  BY DEF Init, Holds, LeaderHolds, KeepsLease, AppliedHolds, SentIsAllowed, WriterHolds, Leads

LEMMA Below == \A m, n \in Nat : m <= n /\ m # n => m < n
  OBVIOUS

\* A step of one process keeps the record with who relies on it.
LEMMA HoldsProcess ==
  ASSUME Outlasts, TypeOK, TypeOK', leaderElect, Holds, NEW p \in Procs, Process(p)
  PROVE  Holds'
<1> USE DurationsAssumption, ProcsAssumption
    DEF TypeOK, record, request, renewal, Outlasts, Holds, LeaderHolds, KeepsLease,
        AppliedHolds, SentIsAllowed, WriterHolds, SeenFor, Leads, NoWrite
<1>1. CASE Start(p)
  BY <1>1 DEF Start
<1>2. CASE Signal(p)
  BY <1>2 DEF Signal, Spend
<1>3. CASE ControllerFails(p)
  BY <1>3 DEF ControllerFails, Spend
<1>4. CASE Kill(p)
  BY <1>4 DEF Kill, Spend, Off
<1>5. CASE StopLeading(p)
  BY <1>5 DEF StopLeading, Off, MustEnd
<1>6. CASE TryAcquireOrRenew(p)
  BY <1>6 DEF TryAcquireOrRenew
<1>7. CASE Answer(p)
  BY <1>7 DEF Answer, MayTake
<1>8. CASE Applied(p)
  BY <1>8 DEF Applied
<1>9. CASE Renewed(p)
  BY <1>9 DEF Renewed
<1>10. CASE AttemptFails(p)
  BY <1>10 DEF AttemptFails, Spend
<1>11. CASE NextRound(p)
  BY <1>11 DEF NextRound
<1>12. CASE Send(p)
  BY <1>12 DEF Send
<1>13. CASE Arrive(p)
  BY <1>13 DEF Arrive
<1> QED
  BY <1>1, <1>2, <1>3, <1>4, <1>5, <1>6, <1>7, <1>8, <1>9, <1>10, <1>11, <1>12, <1>13 DEF Process

LEMMA HoldsTick ==
  ASSUME Outlasts, TypeOK, TypeOK', leaderElect, Holds, Tick
  PROVE  Holds'
<1> USE DurationsAssumption, ProcsAssumption DEF TypeOK, record, Outlasts, NoWrite
<1>1. \A p \in Procs : /\ ~IsDue(p)
                       /\ age'[p] = Count(age[p], LeaseDuration)
                       /\ busy'[p] = IF attempt[p] = "none" THEN busy[p] ELSE busy[p] + 1
                       /\ elapsed'[p] = Count(elapsed[p], Limit(p))
                       /\ write'[p] = IF write[p] = NoWrite THEN NoWrite ELSE write[p] + 1
  BY DEF Tick
<1>2. UNCHANGED <<proc, lease, sees, attempt, loop>>
  BY DEF Tick
<1>3. \A q \in Procs : age'[q] \in Nat /\ age'[q] <= age[q] + 1
  BY <1>1 DEF Count
<1>4. LeaderHolds'
  <2> SUFFICES ASSUME NEW p \in Procs, Leads(p)
               PROVE  KeepsLease(p)'
    BY <1>2 DEF LeaderHolds, Leads
  <2>1. KeepsLease(p)
    BY DEF Holds, LeaderHolds
  <2>2. lease' = p /\ loop'[p] \in {"pause", "round"}
    BY <1>2, <2>1 DEF KeepsLease
  <2>3. CASE loop[p] = "pause"
    <3>1. elapsed[p] # RetryPeriod
      BY <1>1, <2>3 DEF IsDue, Leads
    <3>2. elapsed[p] < RetryPeriod
      <4>1. elapsed[p] <= RetryPeriod
        BY <2>1, <2>3, Zenon DEF KeepsLease
      <4>2. elapsed[p] \in Nat /\ RetryPeriod \in Nat
        OBVIOUS
      <4> QED
        BY <3>1, <4>1, <4>2, Below, Zenon
    <3>3. elapsed'[p] = elapsed[p] + 1
      BY <1>1, <2>3, <3>2 DEF Count, Limit
    <3> QED
      BY <1>2, <1>3, <2>1, <2>2, <2>3, <3>2, <3>3 DEF KeepsLease, SeenFor
  <2>4. CASE loop[p] = "round" /\ attempt[p] = "none"
    <3>1. elapsed[p] # RenewDeadline
      BY <1>1, <2>4 DEF IsDue, MustEnd, RoundIsOver, Leads
    <3>2. elapsed[p] < RenewDeadline
      <4>1. elapsed[p] <= RenewDeadline
        BY <2>1, <2>4, Zenon DEF KeepsLease
      <4>2. elapsed[p] \in Nat /\ RenewDeadline \in Nat
        OBVIOUS
      <4> QED
        BY <3>1, <4>1, <4>2, Below, Zenon
    <3>3. elapsed'[p] = elapsed[p] + 1
      BY <1>1, <2>4, <3>2 DEF Count, Limit
    <3> QED
      BY <1>2, <1>3, <2>1, <2>2, <2>4, <3>2, <3>3 DEF KeepsLease, SeenFor
  <2>5. CASE loop[p] = "round" /\ attempt[p] # "none"
    <3>1. elapsed'[p] = IF elapsed[p] < RenewDeadline THEN elapsed[p] + 1 ELSE elapsed[p]
      BY <1>1, <2>5 DEF Count, Limit
    <3>2. busy'[p] = busy[p] + 1
      BY <1>1, <2>5
    <3> QED
      BY <1>2, <1>3, <2>1, <2>2, <2>5, <3>1, <3>2 DEF KeepsLease, SeenFor
  <2> QED
    BY <2>1, <2>3, <2>4, <2>5 DEF KeepsLease
<1>5. AppliedHolds'
  <2> SUFFICES ASSUME NEW p \in Procs, attempt[p] = "applied"
               PROVE  lease = p /\ SeenFor(p, busy[p])'
    BY <1>2 DEF AppliedHolds
  <2>1. lease = p /\ SeenFor(p, busy[p])
    BY DEF Holds, AppliedHolds
  <2> QED
    BY <1>1, <1>2, <1>3, <2>1 DEF SeenFor
<1>6. SentIsAllowed'
  BY <1>1, <1>2 DEF Holds, SentIsAllowed, Count
<1>7. WriterHolds'
  <2> SUFFICES ASSUME NEW p \in Procs, write'[p] # NoWrite
               PROVE  /\ lease' = p
                      /\ SeenFor(p, RetryPeriod + RenewDeadline + 2 * MaxDelay - 1 + write[p])'
    BY DEF WriterHolds
  <2>1. write[p] # NoWrite /\ write'[p] = write[p] + 1
    BY <1>1
  <2>2. /\ lease = p
        /\ SeenFor(p, RetryPeriod + RenewDeadline + 2 * MaxDelay - 1 + write[p])
    BY <2>1 DEF Holds, WriterHolds
  <2> QED
    BY <1>2, <1>3, <2>1, <2>2 DEF SeenFor
<1> QED
  BY <1>4, <1>5, <1>6, <1>7 DEF Holds

LEMMA HoldsStep ==
  ASSUME Outlasts, IInv, [Next]_vars PROVE IInv'
<1>1. TypeOK'
  BY TypeStep DEF IInv
<1>2. leaderElect' = leaderElect
  BY DEF Next, Process, vars, Start, Signal, ControllerFails, Kill, StopLeading,
         TryAcquireOrRenew, Answer, Applied, Renewed, AttemptFails, NextRound, Send, Arrive, Tick
<1>3. CASE UNCHANGED vars
  BY <1>1, <1>2, <1>3
  DEF IInv, vars, record, request, renewal, Holds, LeaderHolds, KeepsLease, AppliedHolds,
      SentIsAllowed, WriterHolds, SeenFor, Leads
<1>4. CASE Next
  BY <1>1, <1>2, <1>4, HoldsProcess, HoldsTick DEF IInv, Next
<1> QED
  BY <1>3, <1>4

LEMMA HoldsIsEnough == Outlasts /\ IInv => OneWriter
  BY DEF IInv, OneWriter, Holds, LeaderHolds, KeepsLease, WriterHolds, Leads

\* With leader election no process leads while another one does or has a worker's
\* request on its way, if requests are answered soon enough for the durations
\* (server.go:94-106, options.go:39-49).
THEOREM OneProcessWrites == ASSUME Outlasts PROVE Spec => []OneWriter
<1>1. Init => IInv
  BY TypeInit, HoldsInit DEF IInv
<1>2. IInv /\ [Next]_vars => IInv'
  BY HoldsStep
<1>3. IInv => OneWriter
  BY HoldsIsEnough
<1> QED
  BY <1>1, <1>2, <1>3, PTL DEF Spec
==============================================================================
