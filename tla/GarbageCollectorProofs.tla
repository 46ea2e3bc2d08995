------------------------ MODULE GarbageCollectorProofs ------------------------
(***************************************************************************)
(* The type of the garbage collector's state, and that it spares the pods  *)
(* of living jobs wherever the informers watch every namespace, proved for *)
(* every number of namespaces, names, nodes, jobs, pods and failures.      *)
(***************************************************************************)
EXTENDS GarbageCollector, TLAPS

\* UIDs are numbers that were given out: what comes next is new.
UidsKnown ==
    /\ \A ns \in Namespaces : jobs[ns] <= submitted /\ lister[ns] <= submitted
    /\ \A s \in Slots : pods[s] # NoPod => pods[s].owner <= submitted
                                           /\ pods[s].uid <= made
    /\ \A s \in Slots : list[s] # NoPod => list[s].uid <= made

\* The cache never falls behind what it has shown when a pod was made.
OwnersShown ==
    \A s \in Slots :
        pods[s] # NoPod /\ pods[s].owner # NoJob /\ pods[s].owner = jobs[s[1]]
          => lister[s[1]] = jobs[s[1]]

\* A listed pod that still exists has the owner it had, and if it was told to
\* stop it has the deadline it had.
ListedStay ==
    \A s \in Slots :
        list[s] # NoPod /\ pods[s] # NoPod /\ list[s].uid = pods[s].uid
          => /\ pods[s].owner = list[s].owner
             /\ list[s].deadline # Never => pods[s].deadline = list[s].deadline

\* The pod that is about to be deleted may still go.
TargetMayGo ==
    target # NoSlot /\ pods[target] # NoPod /\ list[target].uid = pods[target].uid
      => MayGo(target)

IInv == TypeOK /\ UidsKnown /\ OwnersShown /\ ListedStay /\ TargetMayGo

LEMMA SlotFacts ==
    /\ NoPod \notin Pods /\ NoSlot \notin Slots
    /\ \A s \in Slots : s[1] \in Namespaces
    /\ \A p \in Pods : /\ p.uid \in 1..MaxPods /\ p.owner \in 0..MaxJobs
                       /\ p.deadline \in (0..MaxTime) \union {Never}
    /\ NoPod.uid = 0
BY DEF Slots, Pods, NoPod, NoSlot

LEMMA InitIInv == Init => IInv
<1> SUFFICES ASSUME Init PROVE IInv
  OBVIOUS
<1>1. TypeOK
  BY NumbersAssumption DEF Init, TypeOK, NothingListed, NoSlot, NoJob
<1>2. UidsKnown /\ OwnersShown /\ ListedStay /\ TargetMayGo
  BY DEF Init, UidsKnown, OwnersShown, ListedStay, TargetMayGo, NothingListed, NoJob
<1> QED BY <1>1, <1>2 DEF IInv

(***************************************************************************)
(* Types                                                                   *)
(***************************************************************************)

LEMMA MakeTyped ==
    ASSUME TypeOK, NEW s \in Slots, NEW owner \in 0..MaxJobs, NEW labelled \in BOOLEAN,
           Make(s, owner, labelled)
    PROVE  TypeOK'
<1> USE NumbersAssumption DEF TypeOK
<1>1. /\ made + 1 \in 0..MaxPods /\ made + 1 \in 1..MaxPods /\ made' = made + 1
      /\ UNCHANGED <<jobs, submitted, lister, nodes, collector, now, failures>>
  BY DEF Make
<1>2. PICK n \in Nodes \union {NoNode} :
         pods' = [pods EXCEPT ![s] = [uid |-> made', owner |-> owner, node |-> n,
                                      labelled |-> labelled, deadline |-> Never]]
  BY DEF Make
<1>3. [uid |-> made', owner |-> owner, node |-> n, labelled |-> labelled,
       deadline |-> Never] \in Pods
  BY <1>1 DEF Pods
<1>4. pods' \in [Slots -> Pods \union {NoPod}]
  BY <1>2, <1>3
<1> QED BY <1>1, <1>4 DEF collector

\* A step changes one slot of the pods, the list or the target.
LEMMA TypePreserved == TypeOK /\ [Next]_vars => TypeOK'
<1> SUFFICES ASSUME TypeOK, [Next]_vars PROVE TypeOK'
  OBVIOUS
<1> USE NumbersAssumption DEF TypeOK
<1>1. ASSUME NEW ns \in Namespaces, Submit(ns) \/ Withdraw(ns) \/ Deliver(ns)
      PROVE  TypeOK'
  BY <1>1 DEF Submit, Withdraw, Deliver, collector, NoJob
<1>3. ASSUME NEW s \in Slots, CreateNewPod(s) PROVE TypeOK'
  <2>1. lister[s[1]] \in 0..MaxJobs /\ jobs[s[1]] \in 0..MaxJobs
    BY SlotFacts
  <2> QED BY <1>3, <2>1, MakeTyped DEF CreateNewPod
<1>4. ASSUME NEW s \in Slots, MakeOther(s) PROVE TypeOK'
  BY <1>4, MakeTyped DEF MakeOther, NoJob
<1>5. ASSUME NEW s \in Slots, Delete(s) PROVE TypeOK'
  <2>1. /\ pods[s] \in Pods /\ now + Grace \in 0..MaxTime
        /\ pods' = [pods EXCEPT ![s] = [pods[s] EXCEPT !.deadline = now + Grace]]
        /\ UNCHANGED <<jobs, submitted, lister, made, nodes, collector, now, failures>>
    BY <1>5 DEF Delete
  <2>2. [pods[s] EXCEPT !.deadline = now + Grace] \in Pods
    BY <2>1 DEF Pods
  <2>3. pods' \in [Slots -> Pods \union {NoPod}]
    BY <2>1, <2>2
  <2> QED BY <2>1, <2>3 DEF collector
<1>6. ASSUME NEW s \in Slots, Gone(s) PROVE TypeOK'
  BY <1>6 DEF Gone, collector
<1>7. ASSUME NEW n \in Nodes, NEW state \in {"ready", "lost", "gone"}, ChangeNode(n, state)
      PROVE  TypeOK'
  BY <1>7 DEF ChangeNode, collector
<1>8. CASE Tick
  BY <1>8 DEF Tick, collector
<1>9. CASE CleanGarbagePods
  <2>1. target = NoSlot
    BY <1>9, SlotFacts DEF CleanGarbagePods, NothingListed
  <2> QED BY <1>9, <2>1 DEF CleanGarbagePods
<1>10. ASSUME NEW s \in Slots, InspectPod(s) PROVE TypeOK'
  <2>1. failures' \in 0..Failures
    BY <1>10 DEF InspectPod
  <2>2. \/ target' = s /\ list' = list /\ list[s] # NoPod
        \/ target' = NoSlot /\ list' = [list EXCEPT ![s] = NoPod]
    BY <1>10 DEF InspectPod
  <2>3. list' \in [Slots -> Pods \union {NoPod}]
    BY <2>2
  <2> QED BY <1>10, <2>1, <2>2, <2>3 DEF InspectPod
<1>11. CASE DeletePod
  BY <1>11 DEF DeletePod
<1>12. CASE Restart
  <2>1. Relisted \in [Namespaces -> 0..MaxJobs]
    BY DEF Relisted, NoJob
  <2>2. NothingListed \in [Slots -> Pods \union {NoPod}]
    BY DEF NothingListed
  <2>3. failures' \in 0..Failures
    BY <1>12 DEF Restart
  <2> QED BY <1>12, <2>1, <2>2, <2>3 DEF Restart
<1>13. CASE UNCHANGED vars
  BY <1>13 DEF vars, collector
<1> QED BY <1>1, <1>3, <1>4, <1>5, <1>6, <1>7, <1>8, <1>9, <1>10, <1>11, <1>12, <1>13
        DEF Next, Environment, Collector

(***************************************************************************)
(* Who may go                                                              *)
(***************************************************************************)

\* What the rest of the invariant says of the jobs, the cache and the pods.
Facts == UidsKnown /\ OwnersShown /\ ListedStay /\ TargetMayGo

\* A new job has a UID no pod knows, and the cache moves to what exists.
LEMMA JobStep ==
    ASSUME IInv, NEW ns \in Namespaces, Submit(ns) \/ Withdraw(ns) \/ Deliver(ns)
    PROVE  Facts'
<1> USE NumbersAssumption DEF IInv, TypeOK
<1>1. /\ UNCHANGED <<pods, made, nodes, list, target, now, failures>>
      /\ submitted' \in Nat /\ submitted <= submitted'
      /\ \A m \in Namespaces : jobs[m] \in Nat /\ lister[m] \in Nat
      /\ \A m \in Namespaces :
            \/ jobs'[m] = jobs[m] \/ jobs'[m] = NoJob
            \/ jobs'[m] = submitted + 1 /\ submitted' = submitted + 1
      /\ \A m \in Namespaces :
            lister'[m] = lister[m] \/ (lister'[m] = jobs[m] /\ jobs' = jobs)
  <2>0. submitted \in Nat /\ \A m \in Namespaces : jobs[m] \in Nat /\ lister[m] \in Nat
    OBVIOUS
  <2>1. CASE Submit(ns)
    <3>1. \A m \in Namespaces : jobs'[m] = IF m = ns THEN submitted' ELSE jobs[m]
      BY <2>1 DEF Submit
    <3>2. /\ UNCHANGED <<pods, made, nodes, list, target, now, failures, lister>>
          /\ submitted' = submitted + 1
      BY <2>1 DEF Submit, collector
    <3>3. submitted' \in Nat /\ submitted <= submitted'
      BY <2>0, <3>2
    <3> QED BY <2>0, <3>1, <3>2, <3>3
  <2>2. CASE Withdraw(ns)
    <3>1. \A m \in Namespaces : jobs'[m] = IF m = ns THEN NoJob ELSE jobs[m]
      BY <2>2 DEF Withdraw
    <3>2. UNCHANGED <<pods, made, nodes, list, target, now, failures, lister, submitted>>
      BY <2>2 DEF Withdraw, collector
    <3> QED BY <2>0, <3>1, <3>2
  <2>3. CASE Deliver(ns)
    BY <2>0, <2>3 DEF Deliver, collector
  <2> QED BY <2>1, <2>2, <2>3
<1>2. \A s \in Slots : pods[s] # NoPod =>
          pods[s].owner \in Nat /\ pods[s].owner <= submitted
  BY SlotFacts DEF UidsKnown
<1>3. UidsKnown'
  BY <1>1, <1>2, SlotFacts DEF UidsKnown, NoJob
<1>4. OwnersShown'
  BY <1>1, <1>2, SlotFacts DEF OwnersShown, NoJob
<1>5. ListedStay'
  BY <1>1 DEF ListedStay
<1>6. TargetMayGo'
  <2> SUFFICES ASSUME target # NoSlot, pods[target] # NoPod,
                      list[target].uid = pods[target].uid
               PROVE  MayGo(target)'
    BY <1>1 DEF TargetMayGo
  <2>1. MayGo(target) /\ target \in Slots
    BY DEF TargetMayGo
  <2>2. CASE IsExpired(pods[target])
    BY <1>1, <2>2 DEF MayGo, IsExpired
  <2>3. CASE pods[target].owner # NoJob /\ pods[target].owner # jobs[target[1]]
    BY <1>1, <1>2, <2>1, <2>3, SlotFacts DEF MayGo, NoJob
  <2> QED BY <2>1, <2>2, <2>3 DEF MayGo
<1> QED BY <1>3, <1>4, <1>5, <1>6 DEF Facts

\* A pod that is made is new, and its owner is what the cache shows or nobody.
LEMMA MakeStep ==
    ASSUME IInv, NEW s \in Slots, NEW owner \in 0..MaxJobs, NEW labelled \in BOOLEAN,
           owner <= submitted, owner # NoJob => owner = lister[s[1]],
           Make(s, owner, labelled)
    PROVE  Facts'
<1> USE NumbersAssumption DEF IInv, TypeOK
<1>1. /\ UNCHANGED <<jobs, submitted, lister, list, target, now>>
      /\ made \in Nat /\ made' = made + 1
  BY DEF Make, collector
<1>2. /\ pods'[s].uid = made' /\ pods'[s].owner = owner
      /\ \A r \in Slots : r # s => pods'[r] = pods[r]
  BY DEF Make
<1>3. \A r \in Slots : pods[r] # NoPod => pods[r].uid \in Nat /\ pods[r].uid <= made
  BY SlotFacts DEF UidsKnown
<1>4. \A r \in Slots : list[r] # NoPod => list[r].uid \in Nat /\ list[r].uid <= made
  BY SlotFacts DEF UidsKnown
<1>5. UidsKnown'
  BY <1>1, <1>2, <1>3, <1>4 DEF UidsKnown
<1>6. OwnersShown'
  BY <1>1, <1>2 DEF OwnersShown
<1>7. ListedStay'
  BY <1>1, <1>2, <1>4 DEF ListedStay
<1>8. TargetMayGo'
  BY <1>1, <1>2, <1>4 DEF TargetMayGo, MayGo, IsExpired
<1> QED BY <1>5, <1>6, <1>7, <1>8 DEF Facts

\* A deletion sets the deadline of a pod that had none.
LEMMA DeleteStep ==
    ASSUME IInv, NEW s \in Slots, Delete(s)
    PROVE  Facts'
<1> USE NumbersAssumption DEF IInv, TypeOK
<1>1. UNCHANGED <<jobs, submitted, lister, made, list, target, now>>
  BY DEF Delete, collector
<1>2. /\ pods[s] \in Pods /\ pods[s].deadline = Never
      /\ pods' = [pods EXCEPT ![s] = [pods[s] EXCEPT !.deadline = now + Grace]]
  BY DEF Delete
<1>3. /\ pods'[s] # NoPod /\ pods'[s].uid = pods[s].uid
      /\ pods'[s].owner = pods[s].owner
      /\ \A r \in Slots : r # s => pods'[r] = pods[r]
  <2>1. pods'[s] \in Pods
    BY <1>2 DEF Delete, Pods
  <2> QED BY <1>2, <2>1, SlotFacts DEF Pods
<1>4. UidsKnown'
  BY <1>1, <1>2, <1>3, SlotFacts DEF UidsKnown
<1>5. OwnersShown'
  BY <1>1, <1>2, <1>3, SlotFacts DEF OwnersShown
<1>6. ListedStay'
  BY <1>1, <1>2, <1>3, SlotFacts DEF ListedStay
<1>7. TargetMayGo'
  BY <1>1, <1>2, <1>3, SlotFacts DEF TargetMayGo, MayGo, IsExpired
<1> QED BY <1>4, <1>5, <1>6, <1>7 DEF Facts

\* Pods that leave, and time that passes, spare nobody who might have gone.
LEMMA GoneStep ==
    ASSUME IInv,
           \/ \E s \in Slots : Gone(s)
           \/ \E n \in Nodes, state \in {"ready", "lost", "gone"} : ChangeNode(n, state)
           \/ Tick \/ UNCHANGED vars
    PROVE  Facts'
<1> USE NumbersAssumption DEF IInv, TypeOK
<1>1. /\ UNCHANGED <<jobs, submitted, lister, made, list, target>>
      /\ now \in Nat /\ now' \in Nat /\ now <= now'
      /\ \A r \in Slots : pods'[r] = pods[r] \/ pods'[r] = NoPod
  BY DEF Gone, ChangeNode, Tick, vars, collector
<1>2. \A r \in Slots : pods[r] # NoPod => pods[r].deadline \in Int
  BY SlotFacts DEF Never
<1>3. UidsKnown'
  BY <1>1 DEF UidsKnown
<1>4. OwnersShown'
  BY <1>1 DEF OwnersShown
<1>5. ListedStay'
  BY <1>1 DEF ListedStay
<1>6. TargetMayGo'
  BY <1>1, <1>2 DEF TargetMayGo, MayGo, IsExpired
<1> QED BY <1>3, <1>4, <1>5, <1>6 DEF Facts

\* Where every namespace is watched, the collector finds garbage only.
LEMMA InspectStep ==
    ASSUME IInv, Watched = Namespaces, NEW s \in Slots, InspectPod(s)
    PROVE  Facts'
<1> USE NumbersAssumption DEF IInv, TypeOK
<1>1. UNCHANGED <<jobs, submitted, lister, pods, made, nodes, now>>
  BY DEF InspectPod
<1>2. \A r \in Slots : list'[r] = list[r] \/ list'[r] = NoPod
  BY DEF InspectPod
<1>3. UidsKnown' /\ OwnersShown' /\ ListedStay'
  BY <1>1, <1>2 DEF UidsKnown, OwnersShown, ListedStay
<1>4. TargetMayGo'
  <2>1. CASE target' = NoSlot
    BY <2>1 DEF TargetMayGo
  <2>2. CASE target' # NoSlot
    <3>1. PICK answered \in BOOLEAN :
             IsGarbage(s, list[s], answered) /\ target' = s /\ list' = list
      BY <2>2 DEF InspectPod
    <3> SUFFICES ASSUME pods[s] # NoPod, list[s].uid = pods[s].uid
                 PROVE  MayGo(s)
      BY <1>1, <3>1 DEF TargetMayGo, MayGo, IsExpired
    <3>2. /\ list[s] # NoPod /\ pods[s].owner = list[s].owner
          /\ list[s].deadline # Never => pods[s].deadline = list[s].deadline
      BY DEF InspectPod, ListedStay
    <3>3. CASE IsExpired(list[s])
      BY <3>2, <3>3 DEF IsExpired, MayGo
    <3>4. CASE list[s].owner # NoJob /\ lister[s[1]] = NoJob
      BY <3>2, <3>4, SlotFacts DEF OwnersShown, MayGo
    <3> QED BY <3>1, <3>3, <3>4 DEF IsGarbage
  <2> QED BY <2>1, <2>2
<1> QED BY <1>3, <1>4 DEF Facts

\* The other steps of the collector and its restart leave no target.
LEMMA CollectorStep ==
    ASSUME IInv, Watched = Namespaces, CleanGarbagePods \/ DeletePod \/ Restart
    PROVE  Facts'
<1> USE NumbersAssumption DEF IInv, TypeOK
<1>1. UNCHANGED <<jobs, submitted, made, nodes, now>>
  BY DEF CleanGarbagePods, DeletePod, Restart
<1>2. target' = NoSlot
  BY SlotFacts DEF CleanGarbagePods, DeletePod, Restart, NothingListed
<1>3. \/ \A r \in Slots : pods'[r] = pods[r] /\ (list'[r] = pods[r] \/ list'[r] = NoPod)
      \/ \A r \in Slots : /\ pods'[r] = pods[r] \/ pods'[r] = NoPod
                          /\ list'[r] = list[r] \/ list'[r] = NoPod
  BY DEF CleanGarbagePods, DeletePod, Restart, NothingListed
<1>4. lister' = lister \/ lister' = [ns \in Namespaces |-> jobs[ns]]
  BY DEF CleanGarbagePods, DeletePod, Restart, Relisted
<1>5. UidsKnown'
  BY <1>1, <1>3, <1>4 DEF UidsKnown
<1>6. OwnersShown'
  BY <1>1, <1>3, <1>4, SlotFacts DEF OwnersShown
<1>7. ListedStay'
  BY <1>1, <1>3 DEF ListedStay
<1>8. TargetMayGo'
  BY <1>2 DEF TargetMayGo
<1> QED BY <1>5, <1>6, <1>7, <1>8 DEF Facts

LEMMA NextIInv == ASSUME Watched = Namespaces PROVE IInv /\ [Next]_vars => IInv'
<1> SUFFICES ASSUME IInv, [Next]_vars PROVE IInv'
  OBVIOUS
<1>1. TypeOK'
  BY TypePreserved DEF IInv
<1>2. ASSUME NEW s \in Slots, CreateNewPod(s) PROVE Facts'
  <2>1. /\ lister[s[1]] \in 0..MaxJobs /\ lister[s[1]] <= submitted
        /\ Make(s, lister[s[1]], TRUE)
    BY <1>2, SlotFacts DEF CreateNewPod, IInv, TypeOK, UidsKnown
  <2> QED BY <2>1, MakeStep
<1>3. ASSUME NEW s \in Slots, MakeOther(s) PROVE Facts'
  <2>1. NoJob \in 0..MaxJobs /\ NoJob <= submitted
    BY NumbersAssumption DEF NoJob, IInv, TypeOK
  <2> QED BY <1>3, <2>1, MakeStep DEF MakeOther
<1>4. Facts'
  BY <1>2, <1>3, JobStep, DeleteStep, GoneStep, InspectStep, CollectorStep
     DEF Next, Environment, Collector
<1> QED BY <1>1, <1>4 DEF IInv, Facts

(***************************************************************************)
(* Theorems                                                                *)
(***************************************************************************)

\* Every reachable state of the collector and of what it reads is of its type,
\* whatever is watched.
THEOREM TypeCorrect == Spec => []TypeOK
<1>1. Init => TypeOK
  BY InitIInv DEF IInv
<1> QED BY <1>1, TypePreserved, PTL DEF Spec

\* An operator that watches every namespace never forces out a pod it has listed
\* while the pod's job exists and the pod is within its grace period.
THEOREM WatchedPodsSpared ==
    ASSUME Watched = Namespaces
    PROVE  Spec => LivingPodsSpared
<1>1. IInv => \A s \in Slots : ForcedOut(s) /\ list[s].uid = pods[s].uid => MayGo(s)
  BY SlotFacts DEF IInv, TargetMayGo, ForcedOut
<1>2. IInv /\ [Next]_vars =>
        [\A s \in Slots : ForcedOut(s) /\ list[s].uid = pods[s].uid => MayGo(s)]_vars
  BY <1>1
<1>3. Spec => []IInv
  BY InitIInv, NextIInv, PTL DEF Spec
<1> QED BY <1>2, <1>3, PTL DEF Spec, LivingPodsSpared
==============================================================================
