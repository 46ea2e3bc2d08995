--------------------------- MODULE ResubmissionProofs ---------------------------
(***************************************************************************)
(* What holds for any number of submissions, faults and undelivered        *)
(* events, and for every specification of the job: the types, that a sync  *)
(* stops no pod of another incarnation than the one it works for, and that *)
(* a status made for a job names only that job's success.                  *)
(*                                                                         *)
(* Pods are deleted by name, from a cache that may be old.  The argument   *)
(* is one of age: UIDs grow, no pod is younger than the incarnation a sync *)
(* works for, and the pod the cache shows under a name is not younger than *)
(* the one that has the name.  Successes follow from the same ages: a pod  *)
(* that is seen to have succeeded is recorded as finished, and a status    *)
(* names success only with such a pod of its own incarnation.              *)
(***************************************************************************)
EXTENDS Resubmission, ReconcileProofs

GoodStatus(st) == HasVerdict(st) /\ WithinLimit(spec, st)

GoodJob(j) == j # NoJob => GoodStatus(j.status)

Busy == worker.pc # "idle"

\* The rules the status of a job obeys, wherever it is on its way.
StatusHolds ==
    /\ GoodJob(job) /\ GoodJob(cached)
    /\ \A i \in DOMAIN jobFeed : GoodJob(jobFeed[i])
    /\ GoodStatus(worker.status)
    /\ Busy => worker.uid # 0 /\ worker.of # 0

\* No pod, now, in the cache or on its way to it, has a UID above n.
NoneAbove(view, n) == \A s \in Slots(spec) : view[s] # NoPod => view[s].uid <= n

UpTo(now, seen, feed, n) ==
    /\ NoneAbove(now, n) /\ NoneAbove(seen, n)
    /\ \A i \in DOMAIN feed : NoneAbove(feed[i], n)

\* The bound on the pods holds for every job that is shown, or will be; jobs
\* are seen in the order in which they were submitted.
JobsInOrder ==
    /\ job # NoJob => job.uid = last
    /\ UpTo(pods, podCache, podFeed, last)
    /\ cached # NoJob =>
          /\ cached.uid <= last
          /\ UpTo(pods, podCache, podFeed, cached.uid)
          /\ \A i \in DOMAIN jobFeed : jobFeed[i] # NoJob => cached.uid <= jobFeed[i].uid
    /\ \A i \in DOMAIN jobFeed : jobFeed[i] # NoJob =>
          /\ jobFeed[i].uid <= last
          /\ UpTo(pods, podCache, podFeed, jobFeed[i].uid)
          /\ \A k \in DOMAIN jobFeed :
                i <= k /\ jobFeed[k] # NoJob => jobFeed[i].uid <= jobFeed[k].uid

\* The worker's job is no younger than what is shown, and has the youngest pods.
WorkerInOrder ==
    Busy => /\ worker.uid <= last
            /\ UpTo(pods, podCache, podFeed, worker.uid)
            /\ cached # NoJob => worker.uid <= cached.uid
            /\ \A i \in DOMAIN jobFeed :
                  jobFeed[i] # NoJob => worker.uid <= jobFeed[i].uid

\* Who has a name now came after those who were seen to have it.
Succeeds(now, view) ==
    \A s \in Slots(spec) :
        now[s] # NoPod /\ view[s] # NoPod => view[s].uid <= now[s].uid

PodsInOrder ==
    /\ Succeeds(pods, podCache)
    /\ \A i \in DOMAIN podFeed : Succeeds(pods, podFeed[i])

\* What the worker is about to delete is of the job it works for, or gone.
TargetsAreOwn ==
    Busy => \A s \in worker.deletes : pods[s] # NoPod => pods[s].uid = worker.uid

------------------------------------------------------------------------------
(***************************************************************************)
(* Facts                                                                   *)
(***************************************************************************)

\* What is at the end of a longer sequence, and of a shorter one.
LEMMA AppendFacts ==
    ASSUME NEW S, NEW f \in Seq(S), NEW x \in S
    PROVE  /\ Append(f, x) \in Seq(S)
           /\ \A i \in DOMAIN Append(f, x) :
                 \/ i \in DOMAIN f /\ Append(f, x)[i] = f[i]
                 \/ Append(f, x)[i] = x /\ \A k \in DOMAIN f : k < i
OBVIOUS

LEMMA TailFacts ==
    ASSUME NEW S, NEW f \in Seq(S), f # <<>>
    PROVE  /\ Head(f) \in S /\ Tail(f) \in Seq(S)
           /\ 1 \in DOMAIN f /\ Head(f) = f[1]
           /\ \A i \in DOMAIN f : i \in Nat /\ 1 <= i
           /\ \A i \in DOMAIN Tail(f) :
                 i \in Nat /\ i + 1 \in DOMAIN f /\ Tail(f)[i] = f[i + 1]
OBVIOUS

LEMMA EmptyFeed == DOMAIN <<>> = {}
OBVIOUS

\* The defaults leave what the rules speak of as the user wrote it.
LEMMA SpecIsFull == FullSpec(spec)
<1>1. IsJobSpec(JobSpec)
  BY JobSpecAssumption
<1> DEFINE defaulted == [t \in DOMAIN JobSpec.replicaSpecs |->
                           SetDefaultReplicas(JobSpec.replicaSpecs[t])]
<1>2. /\ spec.replicaSpecs = defaulted
      /\ spec.timeLimit = JobSpec.timeLimit
  BY <1>1 DEF spec, SetDefaults, IsJobSpec
<1>3. \A t \in DOMAIN JobSpec.replicaSpecs :
         defaulted[t].restartLimit = JobSpec.replicaSpecs[t].restartLimit
  BY <1>1 DEF IsJobSpec, ReplicaSpecs, SetDefaultReplicas
<1>4. \A t \in DOMAIN JobSpec.replicaSpecs :
         /\ JobSpec.replicaSpecs[t].restartLimit \in Nat \union {NoLimit}
         /\ defaulted[t].replicas \in Nat
  BY <1>1 DEF IsJobSpec, ReplicaSpecs, SetDefaultReplicas
<1> QED BY <1>1, <1>2, <1>3, <1>4 DEF FullSpec, Types, IsJobSpec

\* The status of a job that was just submitted.
LEMMA NewStatusIsGood == NewStatus \in Jobs(spec) /\ GoodStatus(NewStatus)
<1>1. NewStatus \in Jobs(spec)
  BY PhaseFacts DEF NewStatus, Jobs
<1>2. HasVerdict(NewStatus)
  BY DEF NewStatus, HasVerdict, Sealed, NoPhase
<1>3. WithinLimit(spec, NewStatus)
  BY SpecIsFull DEF NewStatus, WithinLimit, FullSpec
<1> QED BY <1>1, <1>2, <1>3 DEF GoodStatus

------------------------------------------------------------------------------
(***************************************************************************)
(* Types                                                                   *)
(***************************************************************************)

Typed == TypeOK /\ StatusHolds

Statuses == {st \in Jobs(spec) : GoodStatus(st)}

\* Jobs whose status obeys the rules.
Shown == {j \in Incarnations : GoodJob(j)}

\* A job that is stored is a typed one, with a good status.
LEMMA StoreJobTyped ==
    ASSUME Typed, NEW new \in Shown, StoreJob(new)
    PROVE  /\ job' \in Incarnations /\ jobFeed' \in Seq(Incarnations)
           /\ GoodJob(job)' /\ \A i \in DOMAIN jobFeed' : GoodJob(jobFeed'[i])
<1>1. jobFeed \in Seq(Incarnations) /\ new \in Incarnations /\ GoodJob(new)
  BY DEF Typed, TypeOK, Shown
<1>2. job' = new /\ jobFeed' = Append(jobFeed, new)
  BY DEF StoreJob
<1>3. \A i \in DOMAIN jobFeed : GoodJob(jobFeed[i])
  BY DEF Typed, StatusHolds
<1>4. \A i \in DOMAIN jobFeed' : jobFeed'[i] = new \/ \E k \in DOMAIN jobFeed : jobFeed'[i] = jobFeed[k]
  BY <1>1, <1>2, AppendFacts
<1>5. GoodJob(job)'
  BY <1>1, <1>2 DEF GoodJob, GoodStatus
<1> QED BY <1>1, <1>2, <1>3, <1>4, <1>5, AppendFacts

LEMMA ChangePodTyped ==
    ASSUME Typed, NEW s \in Slots(spec), NEW pod \in Pod \union {NoPod}, ChangePod(s, pod)
    PROVE  pods' \in Views /\ podFeed' \in Seq(Views)
<1>1. pods \in Views /\ podFeed \in Seq(Views)
  BY DEF Typed, TypeOK
<1>2. pods' \in Views
  BY <1>1 DEF ChangePod, Views
<1>3. podFeed' = Append(podFeed, pods')
  BY DEF ChangePod
<1> QED BY <1>1, <1>2, <1>3, AppendFacts

\* The jobs and the pods that are there.
LEMMA TypedParts ==
    ASSUME Typed
    PROVE  /\ \A j \in Shown : j = NoJob \/ /\ j.uid \in 1..MaxJobs /\ j.of \in 1..MaxJobs
                                            /\ j.status \in Statuses /\ j.deleting \in BOOLEAN
           /\ job \in Shown /\ cached \in Shown /\ NoJob \in Shown
           /\ \A u, o \in 1..MaxJobs, st \in Statuses, d \in BOOLEAN :
                 [uid |-> u, status |-> st, of |-> o, deleting |-> d] \in Shown
           /\ \A s \in Present(pods) : s \in Slots(spec) /\ pods[s] \in Pod
           /\ worker.status \in Statuses
           /\ Busy => worker.uid \in 1..MaxJobs /\ worker.of \in 1..MaxJobs
<1>1. NoJob \in Shown
  BY DEF Shown, Incarnations, GoodJob
<1>2. \A j \in Shown : j = NoJob \/ /\ j.uid \in 1..MaxJobs /\ j.of \in 1..MaxJobs
                                    /\ j.status \in Statuses /\ j.deleting \in BOOLEAN
  BY DEF Shown, Incarnations, GoodJob, Statuses
<1>3. \A u, o \in 1..MaxJobs, st \in Statuses, d \in BOOLEAN :
         [uid |-> u, status |-> st, of |-> o, deleting |-> d] \in Shown
  BY DEF Shown, Incarnations, GoodJob, Statuses
<1>4. job \in Shown /\ cached \in Shown
  BY DEF Typed, TypeOK, StatusHolds, Shown
<1>5. \A s \in Present(pods) : s \in Slots(spec) /\ pods[s] \in Pod
  BY DEF Typed, TypeOK, Views, Present
<1>6. worker.status \in Statuses
  BY DEF Typed, TypeOK, StatusHolds, Statuses
<1>7. Busy => worker.uid \in 1..MaxJobs /\ worker.of \in 1..MaxJobs
  BY ResubmissionBounds DEF Typed, TypeOK, StatusHolds, Busy
<1> QED BY <1>1, <1>2, <1>3, <1>4, <1>5, <1>6, <1>7

\* What keeps the types, each part by itself.
JobsTyped == /\ job \in Shown /\ cached \in Shown /\ last \in 0..MaxJobs
             /\ jobFeed \in Seq(Incarnations)
             /\ \A i \in DOMAIN jobFeed : GoodJob(jobFeed[i])

PodsTyped == /\ pods \in Views /\ podCache \in Views /\ podFeed \in Seq(Views)
             /\ made \subseteq 1..MaxJobs /\ finished \subseteq 1..MaxJobs

Workers == [pc : {"idle", "create", "delete"}, uid : 0..MaxJobs, of : 0..MaxJobs,
            status : Statuses, creates : SUBSET Slots(spec),
            deletes : SUBSET Slots(spec), wake : {"none", "soon", "limit"},
            gens : [Types(spec) -> Nat], update : BOOLEAN, aliased : BOOLEAN,
            fresh : BOOLEAN, tries : Nat]

WorkerTyped == /\ worker \in Workers
               /\ Busy => worker.uid # 0 /\ worker.of # 0

OthersTyped == queued \in BOOLEAN /\ delayed \in BOOLEAN /\ faults \in 0..Faults

LEMMA TypedMeans == Typed <=> JobsTyped /\ PodsTyped /\ WorkerTyped /\ OthersTyped
  BY DEF Typed, TypeOK, StatusHolds, JobsTyped, PodsTyped, WorkerTyped, OthersTyped,
         Workers, Statuses, Shown

LEMMA TypedMeansNext == Typed' <=> JobsTyped' /\ PodsTyped' /\ WorkerTyped' /\ OthersTyped'
  BY DEF Typed, TypeOK, StatusHolds, JobsTyped, PodsTyped, WorkerTyped, OthersTyped,
         Workers, Statuses, Shown, Views, Pod, Incarnations, GoodJob, GoodStatus, Busy

LEMMA TypedInit == Init => Typed
<1> SUFFICES ASSUME Init PROVE Typed
  OBVIOUS
<1>1. JobsTyped
  BY ResubmissionBounds, EmptyFeed DEF Init, JobsTyped, Shown, Incarnations, GoodJob
<1>2. PodsTyped
  BY DEF Init, PodsTyped, NoPods, Views
<1>3. WorkerTyped
  <2>1. NewStatus.counts \in [Types(spec) -> Nat] /\ NewStatus \in Statuses
    BY NewStatusIsGood DEF NewStatus, Statuses
  <2>2. Idle \in Workers /\ Idle.pc = "idle"
    BY <2>1, ResubmissionBounds DEF Idle, Workers
  <2> QED BY <2>2 DEF Init, WorkerTyped, Busy
<1>4. OthersTyped
  <2>1. faults \in 0..Faults
    BY ResubmissionBounds DEF Init
  <2>2. queued \in BOOLEAN /\ delayed \in BOOLEAN
    BY Zenon DEF Init
  <2> QED BY <2>1, <2>2, Zenon DEF OthersTyped
<1> QED BY <1>1, <1>2, <1>3, <1>4, TypedMeans

\* Steps that leave a part alone keep its types.
LEMMA Frames ==
    ASSUME Typed
    PROVE  /\ UNCHANGED jobs => JobsTyped'
           /\ UNCHANGED <<pods, podFeed, podCache, made, finished>> => PodsTyped'
           /\ UNCHANGED worker => WorkerTyped'
           /\ worker' = Idle => WorkerTyped'
           /\ UNCHANGED <<queued, delayed, faults>> => OthersTyped'
<1>1. JobsTyped /\ PodsTyped /\ WorkerTyped /\ OthersTyped
  BY TypedMeans
<1>2. UNCHANGED jobs => JobsTyped'
  BY <1>1 DEF jobs, JobsTyped
<1>3. UNCHANGED <<pods, podFeed, podCache, made, finished>> => PodsTyped'
  BY <1>1 DEF PodsTyped
<1>4. UNCHANGED worker => WorkerTyped'
  BY <1>1 DEF WorkerTyped, Busy
<1>5. worker' = Idle => WorkerTyped'
  <2>1. NewStatus.counts \in [Types(spec) -> Nat] /\ NewStatus \in Statuses
    BY NewStatusIsGood DEF NewStatus, Statuses
  <2>2. Idle \in Workers /\ Idle.pc = "idle"
    BY <2>1, ResubmissionBounds DEF Idle, Workers
  <2> QED BY <2>2 DEF WorkerTyped, Busy
<1>6. UNCHANGED <<queued, delayed, faults>> => OthersTyped'
  BY <1>1 DEF OthersTyped
<1> QED BY <1>2, <1>3, <1>4, <1>5, <1>6

LEMMA StoreKeepsTypes ==
    ASSUME Typed, NEW new \in Shown, StoreJob(new),
           last' \in 0..MaxJobs, cached' = cached
    PROVE  JobsTyped'
<1>1. JobsTyped
  BY TypedMeans
<1>2. job' \in Shown /\ jobFeed' \in Seq(Incarnations)
  BY StoreJobTyped DEF StoreJob
<1>3. \A i \in DOMAIN jobFeed' : GoodJob(jobFeed'[i])
  BY StoreJobTyped
<1> QED BY <1>1, <1>2, <1>3 DEF JobsTyped

\* The user and the cluster keep the types.
LEMMA ClusterKeepsTypes ==
    ASSUME Typed, Cluster
    PROVE  Typed'
<1> USE ResubmissionBounds
<1>1. JobsTyped /\ PodsTyped /\ WorkerTyped /\ OthersTyped
  BY TypedMeans
<1>2. ASSUME Outdate PROVE WorkerTyped'
  BY <1>1, <1>2 DEF WorkerTyped, Outdate, Workers, Busy
<1>3. CASE Submit
  <2>1. /\ last + 1 \in 1..MaxJobs /\ last' = last + 1 /\ StoreJob(NewJob(last + 1))
        /\ Outdate /\ cached' = cached
        /\ UNCHANGED <<pods, podFeed, podCache, made, finished>>
        /\ UNCHANGED <<queued, delayed, faults>>
    BY <1>1, <1>3 DEF Submit, JobsTyped, allPods, queue, history
  <2>2. NewJob(last + 1) \in Shown
    <3>1. NewStatus \in Statuses
      BY NewStatusIsGood DEF Statuses
    <3> QED BY <2>1, <3>1, TypedParts DEF NewJob
  <2>3. JobsTyped'
    BY <2>1, <2>2, StoreKeepsTypes
  <2> QED BY <1>2, <2>1, <2>3, Frames, TypedMeansNext
<1>4. ASSUME NEW how \in Propagations, Withdraw(how) PROVE Typed'
  <2> DEFINE new == IF how = "Background" THEN NoJob ELSE [job EXCEPT !.deleting = TRUE]
  <2>1. /\ StoreJob(new) /\ Outdate /\ cached' = cached /\ last' = last /\ job # NoJob
        /\ UNCHANGED <<pods, podFeed, podCache, made, finished>>
        /\ UNCHANGED <<queued, delayed, faults>>
    BY <1>4 DEF Withdraw, allPods, queue, history
  <2>2. new \in Shown
    <3>1. job \in Incarnations /\ GoodJob(job)
      BY <1>1 DEF JobsTyped, Shown
    <3>2. [job EXCEPT !.deleting = TRUE] \in Shown
      BY <2>1, <3>1 DEF Incarnations, GoodJob, Shown, NoJob
    <3> QED BY <3>2, TypedParts
  <2>3. JobsTyped'
    <3> HIDE DEF new
    <3>1. last' \in 0..MaxJobs
      BY <1>1, <2>1 DEF JobsTyped
    <3> QED BY <2>1, <2>2, <3>1, StoreKeepsTypes
  <2> QED BY <1>2, <2>1, <2>3, Frames, TypedMeansNext
<1>5. CASE JobGone
  <2>1. /\ StoreJob(NoJob) /\ Outdate /\ cached' = cached /\ last' = last
        /\ UNCHANGED <<pods, podFeed, podCache, made, finished>>
        /\ UNCHANGED <<queued, delayed, faults>>
    BY <1>5 DEF JobGone, allPods, queue, history
  <2>2. JobsTyped'
    <3>1. last' \in 0..MaxJobs
      BY <1>1, <2>1 DEF JobsTyped
    <3> QED BY <2>1, <3>1, StoreKeepsTypes, TypedParts
  <2> QED BY <1>2, <2>1, <2>2, Frames, TypedMeansNext
<1>6. ASSUME NEW s \in Present(pods),
             CollectDependent(s) \/ StartPod(s) \/ Succeed(s) \/ PodGone(s)
      PROVE  Typed'
  <2>1. s \in Slots(spec) /\ pods[s] \in Pod
    BY TypedParts
  <2>2. PICK pod \in Pod \union {NoPod} : ChangePod(s, pod)
    <3>1. CASE CollectDependent(s)
      BY <2>1, <3>1 DEF CollectDependent, Remove, Pod
    <3>2. CASE StartPod(s)
      BY <2>1, <3>2 DEF StartPod, Pod, PodStates
    <3>3. CASE Succeed(s)
      BY <2>1, <3>3 DEF Succeed, Pod, PodStates
    <3>4. CASE PodGone(s)
      BY <3>4 DEF PodGone
    <3> QED BY <1>6, <3>1, <3>2, <3>3, <3>4
  <2>3. /\ UNCHANGED jobs /\ podCache' = podCache /\ UNCHANGED worker
        /\ UNCHANGED <<queued, delayed, faults>> /\ made' = made
        /\ finished' = finished \/ finished' = finished \union {pods[s].uid}
    BY <1>6 DEF CollectDependent, StartPod, Succeed, PodGone, OnlyPods, history, queue
  <2>4. PodsTyped'
    <3>1. pods[s].uid \in 1..MaxJobs
      BY <2>1 DEF Pod
    <3>2. pods' \in Views /\ podFeed' \in Seq(Views)
      BY <2>1, <2>2, ChangePodTyped
    <3> QED BY <1>1, <2>3, <3>1, <3>2 DEF PodsTyped
  <2> QED BY <2>3, <2>4, Frames, TypedMeansNext
<1> QED BY <1>3, <1>4, <1>5, <1>6 DEF Cluster

\* What the watches deliver is what was sent.
LEMMA WatchesKeepTypes ==
    ASSUME Typed, Watches
    PROVE  Typed'
<1>1. JobsTyped /\ PodsTyped /\ WorkerTyped /\ OthersTyped
  BY TypedMeans
<1>2. ASSUME NEW new \in Shown, SeeJob(new), faults' \in 0..Faults,
             job' = job, last' = last, UNCHANGED allPods,
             jobFeed' \in Seq(Incarnations), \A i \in DOMAIN jobFeed' : GoodJob(jobFeed'[i])
      PROVE  Typed'
  <2>1. JobsTyped'
    BY <1>1, <1>2 DEF SeeJob, JobsTyped
  <2>2. PodsTyped'
    BY <1>2, Frames DEF allPods, history
  <2>3. WorkerTyped'
    BY <1>1, <1>2 DEF SeeJob, WorkerTyped, Workers, Busy
  <2>4. queued' \in BOOLEAN /\ delayed' \in BOOLEAN
    BY <1>1, <1>2, Zenon DEF SeeJob, OthersTyped
  <2>5. OthersTyped'
    BY <1>2, <2>4, Zenon DEF OthersTyped
  <2> QED BY <2>1, <2>2, <2>3, <2>5, TypedMeansNext
<1>3. CASE DeliverJob
  <2>1. /\ jobFeed \in Seq(Incarnations) /\ jobFeed # <<>>
        /\ \A i \in DOMAIN jobFeed : GoodJob(jobFeed[i])
        /\ jobFeed' = Tail(jobFeed)
    BY <1>1, <1>3 DEF JobsTyped, DeliverJob
  <2>2. Head(jobFeed) \in Shown
    BY <2>1, TailFacts DEF Shown
  <2>3. jobFeed' \in Seq(Incarnations) /\ \A i \in DOMAIN jobFeed' : GoodJob(jobFeed'[i])
    BY <2>1, TailFacts
  <2>4. faults' \in 0..Faults
    BY <1>1, <1>3 DEF DeliverJob, OthersTyped
  <2> QED BY <1>2, <1>3, <2>2, <2>3, <2>4 DEF DeliverJob
<1>4. CASE RelistJobs
  <2>1. job \in Shown
    BY TypedParts
  <2>2. faults' \in 0..Faults
    BY <1>1, <1>4, ResubmissionBounds DEF RelistJobs, Spend, OthersTyped
  <2>3. jobFeed' \in Seq(Incarnations) /\ \A i \in DOMAIN jobFeed' : GoodJob(jobFeed'[i])
    BY <1>4, EmptyFeed DEF RelistJobs
  <2> QED BY <1>2, <1>4, <2>1, <2>2, <2>3 DEF RelistJobs
<1>5. CASE DeliverPods
  <2>1. podFeed \in Seq(Views) /\ podFeed # <<>>
    BY <1>1, <1>5 DEF PodsTyped, DeliverPods
  <2>2. podCache' \in Views /\ podFeed' \in Seq(Views)
    BY <1>5, <2>1, TailFacts DEF DeliverPods, SeePods
  <2>3. PodsTyped'
    BY <1>1, <1>5, <2>2 DEF DeliverPods, history, PodsTyped
  <2>4. queued' \in BOOLEAN /\ UNCHANGED <<delayed, faults>>
    BY <1>5, Zenon DEF DeliverPods, SeePods
  <2>5. OthersTyped'
    BY <1>1, <2>4 DEF OthersTyped
  <2>6. UNCHANGED jobs /\ UNCHANGED worker
    BY <1>5 DEF DeliverPods
  <2> QED BY <2>3, <2>5, <2>6, Frames, TypedMeansNext
<1> QED BY <1>3, <1>4, <1>5 DEF Watches

\* The status of a plan is a typed one, and obeys the rules.
LEMMA SyncPlans ==
    ASSUME Typed, SyncHandler
    PROVE  \E w \in Workers :
              /\ w.pc = "create" /\ w.uid = cached.uid /\ w.of = cached.of
              /\ w.deletes \subseteq Present(ClaimPods)
              /\ \E clock \in CreatingClocks :
                    \E plan \in ReconcileTrainingJobs(spec, cached.status, ClaimPods, {},
                                                      {Node}, 0, clock) :
                       w.status = plan.job
              /\ \/ Decide(w)
                 \/ worker' = w /\ UNCHANGED <<cached, delayed>>
<1>1. cached \in Shown /\ cached # NoJob
  BY TypedParts DEF SyncHandler, NeedsSync
<1>2. /\ cached.uid \in 1..MaxJobs /\ cached.of \in 1..MaxJobs
      /\ cached.status \in Statuses
  BY <1>1, TypedParts
<1>3. /\ cached.status \in Jobs(spec)
      /\ HasVerdict(cached.status) /\ WithinLimit(spec, cached.status)
      /\ cached.status.counts \in [Types(spec) -> Nat]
  BY <1>2 DEF Statuses, GoodStatus, Jobs
<1>4. DOMAIN ClaimPods = Slots(spec)
  BY DEF ClaimPods
<1> DEFINE changes(touched, plan) ==
               \/ touched
               \/ [plan.job EXCEPT !.annotations = {}]
                     # [cached.status EXCEPT !.annotations = {}]
           w(touched, plan) ==
               [pc |-> "create", uid |-> cached.uid, of |-> cached.of,
                status |-> plan.job, creates |-> plan.creates,
                deletes |-> plan.deletes, wake |-> plan.wake,
                gens |-> cached.status.counts, update |-> changes(touched, plan),
                aliased |-> TRUE, fresh |-> jobFeed = <<>>, tries |-> 0]
<1>5. PICK clock \in CreatingClocks, touched \in BOOLEAN :
        \E plan \in ReconcileTrainingJobs(spec, cached.status, ClaimPods, {}, {Node},
                                          0, clock) :
           IF plan.creates = {} THEN Decide(w(touched, plan))
           ELSE worker' = w(touched, plan) /\ UNCHANGED <<cached, delayed>>
  BY Zenon DEF SyncHandler
<1>6. PICK plan \in ReconcileTrainingJobs(spec, cached.status, ClaimPods, {}, {Node},
                                          0, clock) :
           IF plan.creates = {} THEN Decide(w(touched, plan))
           ELSE worker' = w(touched, plan) /\ UNCHANGED <<cached, delayed>>
  BY <1>5, Zenon
<1>7. GoodPlan(spec, plan)
  BY <1>3, <1>4, <1>6, SpecIsFull, PlansAreGood
<1>8. plan.deletes \subseteq Present(ClaimPods)
  BY <1>6, DeletionsAreSeen
<1>9. /\ plan.job \in Statuses /\ plan.creates \in SUBSET Slots(spec)
      /\ plan.deletes \in SUBSET Slots(spec) /\ plan.wake \in {"none", "soon", "limit"}
  BY <1>7 DEF GoodPlan, Plans, Statuses, GoodStatus
<1>10. w(touched, plan) \in Workers
  <2>1. changes(touched, plan) \in BOOLEAN /\ (jobFeed = <<>>) \in BOOLEAN
    BY Zenon
  <2> HIDE DEF changes
  <2> QED BY <1>2, <1>3, <1>9, <2>1 DEF Workers
<1>11. w(touched, plan).status = plan.job
  OBVIOUS
<1> QED BY <1>6, <1>8, <1>10, <1>11, Zenon

\* The same without the plan.
LEMMA SyncTyped ==
    ASSUME Typed, SyncHandler
    PROVE  \E w \in Workers : /\ w.pc = "create" /\ w.uid = cached.uid /\ w.of = cached.of
                              /\ w.deletes \subseteq Present(ClaimPods)
                              /\ \/ Decide(w)
                                 \/ worker' = w /\ UNCHANGED <<cached, delayed>>
BY SyncPlans, Zenon

\* A status that obeys the rules may be put over a job that is shown.
LEMMA OverwriteTyped ==
    ASSUME Typed, NEW j \in Shown, j # NoJob, NEW st \in Statuses
    PROVE  /\ [j EXCEPT !.status = st] \in Shown
           /\ \A o \in 1..MaxJobs : [j EXCEPT !.status = st, !.of = o] \in Shown
  BY DEF Shown, Incarnations, GoodJob, Statuses, NoJob

LEMMA DecideTyped ==
    ASSUME Typed, NEW w \in Workers, w.uid # 0 /\ w.of # 0, Decide(w)
    PROVE  /\ WorkerTyped' /\ cached' \in Shown /\ delayed' \in BOOLEAN
<1>1. delayed' \in BOOLEAN
  BY TypedMeans, Zenon DEF Decide, OthersTyped
<1>2. w.status \in Statuses
  BY DEF Workers
<1>3. cached' \in Shown
  <2>1. [NoJob EXCEPT !.status = w.status] = NoJob
    BY DEF NoJob
  <2> QED BY <1>2, <2>1, TypedParts, OverwriteTyped DEF Decide
<1>4. WorkerTyped'
  <2>1. CASE w.update
    <3>1. worker' = [w EXCEPT !.pc = "delete"]
      BY <2>1 DEF Decide
    <3> QED BY <3>1 DEF WorkerTyped, Workers, Busy
  <2>2. CASE ~w.update
    BY <2>2, Frames DEF Decide
  <2> QED BY <2>1, <2>2
<1> QED BY <1>1, <1>3, <1>4

LEMMA RetryTyped ==
    ASSUME Typed, Busy, NEW b \in BOOLEAN, Retry(b)
    PROVE  WorkerTyped' /\ cached' \in Shown /\ delayed' \in BOOLEAN
<1>1. worker \in Workers /\ worker.uid # 0 /\ worker.of # 0
  BY TypedMeans DEF WorkerTyped
<1>2. worker.status \in Statuses /\ worker.of \in 1..MaxJobs /\ cached \in Shown
  BY TypedParts
<1>3. cached' \in Shown
  BY <1>2, OverwriteTyped DEF Retry
<1>4. delayed' \in BOOLEAN
  <2>1. delayed \in BOOLEAN
    BY TypedMeans DEF OthersTyped
  <2> QED BY <2>1, Zenon DEF Retry, Abort
<1>5. CASE worker.tries + 1 < UpdateTries
  <2> DEFINE found == cached # NoJob
             newest == IF found THEN b ELSE FALSE
             shared == worker.aliased \/ found
  <2>1. worker' = [worker EXCEPT !.aliased = shared, !.tries = @ + 1, !.fresh = newest]
    BY <1>5 DEF Retry
  <2>2. shared \in BOOLEAN /\ newest \in BOOLEAN
    BY Zenon
  <2> HIDE DEF shared, newest, found
  <2>3. worker.tries + 1 \in Nat
    BY <1>1 DEF Workers
  <2>4. worker' \in Workers
    BY <1>1, <2>1, <2>2, <2>3 DEF Workers
  <2>5. worker'.uid = worker.uid /\ worker'.of = worker.of
    BY <1>1, <2>1 DEF Workers
  <2> QED BY <1>1, <1>3, <1>4, <2>4, <2>5 DEF WorkerTyped
<1>6. CASE ~(worker.tries + 1 < UpdateTries)
  <2>1. worker' = Idle
    BY <1>6 DEF Retry, Abort
  <2> QED BY <1>3, <1>4, <2>1, Frames
<1> QED BY <1>5, <1>6

JobsSame == UNCHANGED <<job, jobFeed, last>>

LEMMA CachedKeepsTypes ==
    ASSUME Typed, JobsSame, cached' \in Shown
    PROVE  JobsTyped'
<1>1. JobsTyped
  BY TypedMeans
<1> QED BY <1>1 DEF JobsSame, JobsTyped

LEMMA StatusStored ==
    ASSUME Typed, Accepted
    PROVE  /\ job' \in Shown /\ jobFeed' \in Seq(Incarnations)
           /\ \A i \in DOMAIN jobFeed' : GoodJob(jobFeed'[i])
<1> DEFINE new == [job EXCEPT !.status = worker.status, !.of = worker.of]
<1>1. StoreJob(new) /\ job # NoJob /\ Busy
  BY DEF Accepted, Updating, Busy
<1>2. new \in Shown
  BY <1>1, TypedParts, OverwriteTyped
<1> HIDE DEF new
<1>3. job' = new
  BY <1>1 DEF StoreJob
<1> QED BY <1>1, <1>2, <1>3, StoreJobTyped

\* What the worker does keeps the types.
LEMMA WorkerKeepsTypes ==
    ASSUME Typed, Worker
    PROVE  Typed'
<1>1. JobsTyped /\ PodsTyped /\ WorkerTyped /\ OthersTyped
  BY TypedMeans
<1>2. worker \in Workers /\ (Busy => worker.uid # 0 /\ worker.of # 0)
  BY <1>1 DEF WorkerTyped
<1>3. queued \in BOOLEAN /\ delayed \in BOOLEAN /\ faults \in 0..Faults
  BY <1>1 DEF OthersTyped
<1>4. CASE SkipSync
  <2>1. /\ UNCHANGED jobs /\ UNCHANGED worker
        /\ UNCHANGED <<pods, podFeed, podCache, made, finished>>
    BY <1>4 DEF SkipSync, allPods, history
  <2>2. OthersTyped'
    BY <1>3, <1>4, Zenon DEF SkipSync, TakeKey, OthersTyped
  <2> QED BY <2>1, <2>2, Frames, TypedMeansNext
<1>5. CASE SyncHandler
  <2>1. PICK w \in Workers :
           /\ w.pc = "create" /\ w.uid = cached.uid /\ w.of = cached.of
           /\ Decide(w) \/ (worker' = w /\ UNCHANGED <<cached, delayed>>)
    BY <1>5, SyncTyped
  <2>2. w.uid # 0 /\ w.of # 0
    <3>1. cached \in Shown /\ cached # NoJob
      BY <1>5, TypedParts DEF SyncHandler, NeedsSync
    <3> QED BY <2>1, <3>1, TypedParts
  <2>3. WorkerTyped' /\ cached' \in Shown /\ delayed' \in BOOLEAN
    <3>1. CASE Decide(w)
      BY <2>2, <3>1, DecideTyped
    <3>2. CASE worker' = w /\ UNCHANGED <<cached, delayed>>
      BY <1>3, <2>2, <3>2, TypedParts DEF WorkerTyped
    <3> QED BY <2>1, <3>1, <3>2
  <2>4. /\ JobsSame /\ UNCHANGED <<pods, podFeed, podCache, made, finished>>
        /\ queued' = FALSE /\ faults' = faults
    BY <1>5 DEF SyncHandler, TakeKey, JobsSame, allPods, history
  <2>5. JobsTyped'
    BY <2>3, <2>4, CachedKeepsTypes
  <2>6. OthersTyped'
    BY <1>3, <2>3, <2>4, Zenon DEF OthersTyped
  <2> QED BY <2>3, <2>4, <2>5, <2>6, Frames, TypedMeansNext
<1>6. CASE Commit
  <2>1. /\ Decide(worker) /\ Busy /\ JobsSame
        /\ UNCHANGED <<pods, podFeed, podCache, made, finished>>
        /\ queued' = queued /\ faults' = faults
    BY <1>6 DEF Commit, Busy, JobsSame, allPods, history
  <2>2. WorkerTyped' /\ cached' \in Shown /\ delayed' \in BOOLEAN
    BY <1>2, <2>1, DecideTyped
  <2>3. JobsTyped'
    BY <2>1, <2>2, CachedKeepsTypes
  <2>4. OthersTyped'
    BY <1>3, <2>1, <2>2, Zenon DEF OthersTyped
  <2> QED BY <2>1, <2>2, <2>3, <2>4, Frames, TypedMeansNext
<1>7. CASE UpdateAccepted
  <2>1. /\ Accepted /\ worker' = Idle /\ last' = last /\ cached' = cached
        /\ UNCHANGED <<pods, podFeed, podCache, made, finished>>
        /\ UNCHANGED <<queued, delayed, faults>>
    BY <1>7 DEF UpdateAccepted, allPods, history, queue
  <2>2. JobsTyped'
    BY <1>1, <2>1, StatusStored DEF JobsTyped
  <2> QED BY <2>1, <2>2, Frames, TypedMeansNext
<1>8. CASE UpdateRejected
  <2>1. /\ Retry(jobFeed = <<>>) /\ Busy /\ JobsSame
        /\ UNCHANGED <<pods, podFeed, podCache, made, finished>>
        /\ queued' = queued /\ faults' = faults
    BY <1>8 DEF UpdateRejected, Updating, Busy, JobsSame, allPods, history
  <2>2. WorkerTyped' /\ cached' \in Shown /\ delayed' \in BOOLEAN
    BY <2>1, RetryTyped
  <2>3. JobsTyped'
    BY <2>1, <2>2, CachedKeepsTypes
  <2>4. OthersTyped'
    BY <1>3, <2>1, <2>2, Zenon DEF OthersTyped
  <2> QED BY <2>1, <2>2, <2>3, <2>4, Frames, TypedMeansNext
<1>9. ASSUME NEW s \in Slots(spec), CreatePod(s) PROVE Typed'
  <2>1. /\ ChangePod(s, NewPod(worker.uid, worker.gens[s[1]])) /\ Busy
        /\ made' = made \union {worker.uid} /\ finished' = finished
        /\ worker' = [worker EXCEPT !.creates = @ \ {s}]
        /\ UNCHANGED jobs /\ podCache' = podCache
        /\ UNCHANGED <<queued, delayed, faults>>
    BY <1>9 DEF CreatePod, MayCreate, Busy, queue
  <2>2. worker.uid \in 1..MaxJobs /\ worker.gens \in [Types(spec) -> Nat]
    BY <1>2, <2>1, TypedParts DEF Workers
  <2>3. s[1] \in Types(spec)
    BY DEF Slots, SlotsOf
  <2>4. NewPod(worker.uid, worker.gens[s[1]]) \in Pod
    BY <2>2, <2>3 DEF NewPod, Pod, PodStates
  <2>5. PodsTyped'
    <3>1. pods' \in Views /\ podFeed' \in Seq(Views)
      BY <2>1, <2>4, ChangePodTyped
    <3> QED BY <1>1, <2>1, <2>2, <3>1 DEF PodsTyped
  <2>6. WorkerTyped'
    <3>1. worker' \in Workers /\ worker'.uid = worker.uid /\ worker'.of = worker.of
      BY <1>2, <2>1 DEF Workers
    <3> QED BY <1>2, <2>1, <3>1 DEF WorkerTyped
  <2> QED BY <2>1, <2>5, <2>6, Frames, TypedMeansNext
<1>10. ASSUME NEW s \in Slots(spec), CreatePodFails(s) PROVE Typed'
  <2>1. /\ worker' = Idle /\ delayed' = TRUE /\ queued' = queued /\ faults' = faults
        /\ UNCHANGED jobs
        /\ UNCHANGED <<pods, podFeed, podCache, made, finished>>
    BY <1>10 DEF CreatePodFails, Abort, allPods, history
  <2>2. OthersTyped'
    BY <1>3, <2>1, Zenon DEF OthersTyped
  <2> QED BY <2>1, <2>2, Frames, TypedMeansNext
<1>11. ASSUME NEW s \in Slots(spec), DeletePod(s) PROVE Typed'
  <2>1. /\ IF pods[s] # NoPod /\ ~pods[s].dying THEN Remove(s)
           ELSE UNCHANGED <<pods, podFeed>>
        /\ Busy /\ worker' = [worker EXCEPT !.deletes = @ \ {s}]
        /\ UNCHANGED jobs /\ podCache' = podCache /\ UNCHANGED <<made, finished>>
        /\ UNCHANGED <<queued, delayed, faults>>
    BY <1>11 DEF DeletePod, Busy, queue, history
  <2>2. pods \in Views /\ podFeed \in Seq(Views)
    BY <1>1 DEF PodsTyped
  <2>3. pods' \in Views /\ podFeed' \in Seq(Views)
    <3>1. CASE pods[s] # NoPod /\ ~pods[s].dying
      <4>1. pods[s] \in Pod
        BY <2>2, <3>1 DEF Views
      <4>2. \E pod \in Pod \union {NoPod} : ChangePod(s, pod)
        BY <2>1, <3>1, <4>1 DEF Remove, Pod
      <4> QED BY <4>2, ChangePodTyped
    <3>2. CASE ~(pods[s] # NoPod /\ ~pods[s].dying)
      BY <2>1, <2>2, <3>2
    <3> QED BY <3>1, <3>2
  <2>4. PodsTyped'
    BY <1>1, <2>1, <2>3 DEF PodsTyped
  <2>5. WorkerTyped'
    <3>1. worker' \in Workers /\ worker'.uid = worker.uid /\ worker'.of = worker.of
      BY <1>2, <2>1 DEF Workers
    <3> QED BY <1>2, <2>1, <3>1 DEF WorkerTyped
  <2> QED BY <2>1, <2>4, <2>5, Frames, TypedMeansNext
<1> QED BY <1>4, <1>5, <1>6, <1>7, <1>8, <1>9, <1>10, <1>11 DEF Worker

\* So do the faults, and the queue.
LEMMA FaultsKeepTypes ==
    ASSUME Typed, DelayIsOver \/ UpdateLost \/ UpdateReplyLost \/ Crash \/ TakeOver
    PROVE  Typed'
<1>1. JobsTyped /\ PodsTyped /\ WorkerTyped /\ OthersTyped
  BY TypedMeans
<1>2. queued \in BOOLEAN /\ delayed \in BOOLEAN /\ faults \in 0..Faults
  BY <1>1 DEF OthersTyped
<1>3. Spend => faults' \in 0..Faults
  BY <1>2, ResubmissionBounds DEF Spend
<1>4. CASE DelayIsOver
  <2>1. /\ UNCHANGED jobs /\ UNCHANGED worker
        /\ UNCHANGED <<pods, podFeed, podCache, made, finished>>
    BY <1>4 DEF DelayIsOver, allPods, history
  <2>2. OthersTyped'
    BY <1>2, <1>4, Zenon DEF DelayIsOver, OthersTyped
  <2> QED BY <2>1, <2>2, Frames, TypedMeansNext
<1>5. CASE UpdateLost
  <2>1. /\ Retry(jobFeed = <<>>) /\ Busy /\ JobsSame
        /\ UNCHANGED <<pods, podFeed, podCache, made, finished>>
        /\ queued' = queued /\ Spend
    BY <1>5 DEF UpdateLost, Updating, Busy, JobsSame, allPods, history
  <2>2. WorkerTyped' /\ cached' \in Shown /\ delayed' \in BOOLEAN
    BY <2>1, RetryTyped
  <2>3. JobsTyped'
    BY <2>1, <2>2, CachedKeepsTypes
  <2>4. OthersTyped'
    BY <1>2, <1>3, <2>1, <2>2, Zenon DEF OthersTyped
  <2> QED BY <2>1, <2>2, <2>3, <2>4, Frames, TypedMeansNext
<1>6. CASE UpdateReplyLost
  <2>1. /\ Accepted /\ Retry(FALSE) /\ Busy /\ last' = last
        /\ UNCHANGED <<pods, podFeed, podCache, made, finished>>
        /\ queued' = queued /\ Spend
    BY <1>6 DEF UpdateReplyLost, Accepted, Updating, Busy, allPods, history
  <2>2. WorkerTyped' /\ cached' \in Shown /\ delayed' \in BOOLEAN
    BY <2>1, RetryTyped
  <2>3. JobsTyped'
    BY <1>1, <2>1, <2>2, StatusStored DEF JobsTyped
  <2>4. OthersTyped'
    BY <1>2, <1>3, <2>1, <2>2, Zenon DEF OthersTyped
  <2> QED BY <2>1, <2>2, <2>3, <2>4, Frames, TypedMeansNext
<1>7. CASE Crash
  <2>1. JobsTyped'
    BY <1>1, <1>7, EmptyFeed DEF Crash, JobsTyped
  <2>2. PodsTyped'
    BY <1>1, <1>7 DEF Crash, PodsTyped, history
  <2>3. OthersTyped'
    <3>1. queued' \in BOOLEAN /\ delayed' \in BOOLEAN
      BY <1>7, Zenon DEF Crash
    <3> QED BY <1>3, <1>7, <3>1, Zenon DEF Crash, OthersTyped
  <2>4. WorkerTyped'
    BY <1>7, Frames DEF Crash
  <2> QED BY <2>1, <2>2, <2>3, <2>4, TypedMeansNext
<1>8. CASE TakeOver
  <2>1. JobsTyped'
    <3>1. CASE jobFeed = <<>>
      BY <1>1, <1>8, <3>1 DEF TakeOver, JobsTyped
    <3>2. CASE jobFeed # <<>>
      <4>1. Head(jobFeed) \in Shown
        BY <1>1, <3>2, TailFacts DEF JobsTyped, Shown
      <4>2. /\ jobFeed' \in Seq(Incarnations)
            /\ \A i \in DOMAIN jobFeed' : GoodJob(jobFeed'[i])
        BY <1>1, <1>8, <3>2, TailFacts DEF TakeOver, JobsTyped
      <4> QED BY <1>1, <1>8, <3>2, <4>1, <4>2 DEF TakeOver, JobsTyped
    <3> QED BY <3>1, <3>2
  <2>2. PodsTyped'
    BY <1>8, Frames DEF TakeOver, allPods, history
  <2>3. WorkerTyped'
    <3>1. worker' = Idle
      BY <1>8, Zenon DEF TakeOver
    <3> QED BY <3>1, Frames, Zenon
  <2>4. OthersTyped'
    <3>1. (last > 0) \in BOOLEAN
      OBVIOUS
    <3>2. queued' \in BOOLEAN /\ delayed' \in BOOLEAN
      BY <1>8, <3>1, Zenon DEF TakeOver
    <3> QED BY <1>3, <1>8, <3>2, Zenon DEF TakeOver, OthersTyped
  <2> QED BY <2>1, <2>2, <2>3, <2>4, TypedMeansNext
<1> QED BY <1>4, <1>5, <1>6, <1>7, <1>8

LEMMA TypedNext ==
    ASSUME Typed, [Next]_vars
    PROVE  Typed'
<1>1. CASE UNCHANGED vars
  BY <1>1, Frames, TypedMeansNext DEF vars, allPods, history, queue
<1>2. CASE Next
  BY <1>2, ClusterKeepsTypes, WatchesKeepTypes, WorkerKeepsTypes, FaultsKeepTypes DEF Next
<1> QED BY <1>1, <1>2

\* Every variable keeps its type, and every status, stored or on its way, obeys
\* the rules of a verdict and of the restart limit (updateTrainingJobPhase,
\* status.go:267-305, whosever object it writes).
THEOREM TypeCorrect == Spec => []TypeOK
<1>1. Typed => TypeOK
  BY DEF Typed
<1> QED BY <1>1, TypedInit, TypedNext, PTL DEF Spec

------------------------------------------------------------------------------
(***************************************************************************)
(* Ages: every step is one of a few kinds for the jobs, the pods and the   *)
(* worker                                                                  *)
(***************************************************************************)

\* A pod changes but stays the one it is, or goes; a pod is made for the job of
\* the worker; the cache takes what comes next, or what there is.
PodChanged == \E s \in Slots(spec), pod \in Pod \union {NoPod} :
                 /\ ChangePod(s, pod) /\ podCache' = podCache
                 /\ pods[s] # NoPod /\ (pod # NoPod => pod.uid = pods[s].uid)

PodMade == \E s \in Slots(spec), pod \in Pod :
              /\ ChangePod(s, pod) /\ podCache' = podCache
              /\ Busy /\ pod.uid = worker.uid

PodsDelivered == /\ podFeed # <<>> /\ podFeed' = Tail(podFeed)
                 /\ podCache' = Head(podFeed) /\ pods' = pods

PodsListed == podFeed' = <<>> /\ podCache' = pods /\ pods' = pods

PodsSame == UNCHANGED <<pods, podFeed, podCache>>

\* A job is stored; the cache takes what comes next, or what there is, or keeps
\* the incarnation it has.
CachedSame == \/ cached' = cached
              \/ cached # NoJob /\ cached' # NoJob /\ cached'.uid = cached.uid

JobStored == \E new \in Shown :
                /\ StoreJob(new) /\ CachedSame
                /\ \/ new = NoJob /\ last' = last
                   \/ job # NoJob /\ new # NoJob /\ new.uid = job.uid /\ last' = last
                   \/ new # NoJob /\ new.uid = last + 1 /\ last' = last + 1

JobDelivered == /\ jobFeed # <<>> /\ jobFeed' = Tail(jobFeed)
                /\ cached' = Head(jobFeed) /\ UNCHANGED <<job, last>>

JobListed == jobFeed' = <<>> /\ cached' = job /\ UNCHANGED <<job, last>>

JobOverwritten == JobsSame /\ CachedSame

\* The worker goes on, or stops; or it starts to work for the cached job.
WorkGoesOn == \/ worker'.pc = "idle"
              \/ /\ Busy /\ worker'.uid = worker.uid
                 /\ worker'.deletes \subseteq worker.deletes

Starts == /\ cached # NoJob /\ worker'.uid = cached.uid
          /\ worker'.deletes \subseteq Present(ClaimPods)

------------------------------------------------------------------------------
(***************************************************************************)
(* The pods                                                                *)
(***************************************************************************)

PodStep == PodChanged \/ PodMade \/ PodsDelivered \/ PodsListed \/ PodsSame

LEMMA ChangedView ==
    ASSUME Typed, NEW s \in Slots(spec), NEW pod \in Pod \union {NoPod}, ChangePod(s, pod)
    PROVE  /\ \A r \in Slots(spec) : pods'[r] = IF r = s THEN pod ELSE pods[r]
           /\ \A i \in DOMAIN podFeed' : \/ i \in DOMAIN podFeed /\ podFeed'[i] = podFeed[i]
                                         \/ podFeed'[i] = pods'
<1>1. pods \in Views /\ podFeed \in Seq(Views)
  BY TypedMeans DEF PodsTyped
<1>2. pods' \in Views /\ podFeed' = Append(podFeed, pods')
  BY ChangePodTyped DEF ChangePod
<1>3. \A r \in Slots(spec) : pods'[r] = IF r = s THEN pod ELSE pods[r]
  BY <1>1 DEF ChangePod, Views
<1> QED BY <1>1, <1>2, <1>3, AppendFacts

\* A bound that the worker's job keeps too stays a bound on all pods.
LEMMA BoundsStay ==
    ASSUME Typed, PodStep, NEW n \in Nat, UpTo(pods, podCache, podFeed, n),
           Busy => worker.uid <= n
    PROVE  UpTo(pods', podCache', podFeed', n)
<1>1. podFeed \in Seq(Views)
  BY TypedMeans DEF PodsTyped
<1>2. ASSUME NEW s \in Slots(spec), NEW pod \in Pod \union {NoPod},
             ChangePod(s, pod), podCache' = podCache, pod # NoPod => pod.uid <= n
      PROVE  UpTo(pods', podCache', podFeed', n)
  <2>1. NoneAbove(pods', n)
    BY <1>2, ChangedView DEF UpTo, NoneAbove
  <2>2. \A i \in DOMAIN podFeed' : NoneAbove(podFeed'[i], n)
    BY <1>2, <2>1, ChangedView DEF UpTo
  <2> QED BY <1>2, <2>1, <2>2 DEF UpTo
<1>3. CASE PodChanged
  BY <1>2, <1>3 DEF PodChanged, UpTo, NoneAbove
<1>4. CASE PodMade
  BY <1>2, <1>4 DEF PodMade
<1>5. CASE PodsDelivered
  BY <1>1, <1>5, TailFacts DEF PodsDelivered, UpTo
<1>6. CASE PodsListed
  BY <1>6, EmptyFeed DEF PodsListed, UpTo
<1>7. CASE PodsSame
  BY <1>7 DEF PodsSame
<1> QED BY <1>3, <1>4, <1>5, <1>6, <1>7 DEF PodStep

\* Who gets a name comes after those who were seen to have it.
LEMMA PodsStayInOrder ==
    ASSUME Typed, PodStep, PodsInOrder, WorkerInOrder
    PROVE  PodsInOrder'
<1>1. podFeed \in Seq(Views) /\ pods \in Views /\ podCache \in Views
  BY TypedMeans DEF PodsTyped
<1>2. \A view \in Views, s \in Slots(spec) : view[s] # NoPod => view[s].uid \in Nat
  BY DEF Views, Pod
<1>3. ASSUME NEW s \in Slots(spec), NEW pod \in Pod \union {NoPod},
             ChangePod(s, pod), podCache' = podCache,
             NEW u \in Nat, pod # NoPod => pod.uid = u,
             podCache[s] # NoPod => podCache[s].uid <= u,
             \A i \in DOMAIN podFeed : podFeed[i][s] # NoPod => podFeed[i][s].uid <= u
      PROVE  PodsInOrder'
  <2>1. /\ \A r \in Slots(spec) : pods'[r] = IF r = s THEN pod ELSE pods[r]
        /\ \A i \in DOMAIN podFeed' : \/ i \in DOMAIN podFeed /\ podFeed'[i] = podFeed[i]
                                      \/ podFeed'[i] = pods'
    BY <1>3, ChangedView
  <2>2. pods' \in Views
    BY <1>3, ChangePodTyped
  <2>3. Succeeds(pods', podCache')
    BY <1>3, <2>1 DEF PodsInOrder, Succeeds
  <2>4. ASSUME NEW i \in DOMAIN podFeed PROVE Succeeds(pods', podFeed[i])
    BY <1>3, <2>1 DEF PodsInOrder, Succeeds
  <2>5. Succeeds(pods', pods')
    BY <1>2, <2>2 DEF Succeeds
  <2> QED BY <2>1, <2>3, <2>4, <2>5 DEF PodsInOrder
<1>4. CASE PodChanged
  <2>1. PICK s \in Slots(spec), pod \in Pod \union {NoPod} :
           /\ ChangePod(s, pod) /\ podCache' = podCache
           /\ pods[s] # NoPod /\ (pod # NoPod => pod.uid = pods[s].uid)
    BY <1>4 DEF PodChanged
  <2>2. pods[s].uid \in Nat
    BY <1>1, <1>2, <2>1
  <2>3. podCache[s] # NoPod => podCache[s].uid <= pods[s].uid
    BY <2>1 DEF PodsInOrder, Succeeds
  <2>4. \A i \in DOMAIN podFeed :
           podFeed[i][s] # NoPod => podFeed[i][s].uid <= pods[s].uid
    BY <2>1 DEF PodsInOrder, Succeeds
  <2> QED BY <1>3, <2>1, <2>2, <2>3, <2>4
<1>5. CASE PodMade
  <2>1. PICK s \in Slots(spec), pod \in Pod :
           /\ ChangePod(s, pod) /\ podCache' = podCache /\ Busy /\ pod.uid = worker.uid
    BY <1>5 DEF PodMade
  <2>2. worker.uid \in Nat
    BY <2>1, TypedParts, ResubmissionBounds
  <2>3. UpTo(pods, podCache, podFeed, worker.uid)
    BY <2>1 DEF WorkerInOrder
  <2> QED BY <1>3, <2>1, <2>2, <2>3 DEF UpTo, NoneAbove
<1>6. CASE PodsDelivered
  BY <1>1, <1>6, TailFacts DEF PodsDelivered, PodsInOrder
<1>7. CASE PodsListed
  BY <1>1, <1>2, <1>7, EmptyFeed DEF PodsListed, PodsInOrder, Succeeds
<1>8. CASE PodsSame
  BY <1>8 DEF PodsSame, PodsInOrder
<1> QED BY <1>4, <1>5, <1>6, <1>7, <1>8 DEF PodStep

------------------------------------------------------------------------------
(***************************************************************************)
(* The jobs and the worker                                                 *)
(***************************************************************************)

JobStep == JobStored \/ JobDelivered \/ JobListed \/ JobOverwritten

\* The numbers the order is about.
LEMMA UidsAreNat ==
    ASSUME Typed
    PROVE  /\ last \in Nat
           /\ \A j \in Shown : j # NoJob => j.uid \in Nat
           /\ job \in Shown /\ cached \in Shown
           /\ jobFeed \in Seq(Incarnations)
           /\ \A i \in DOMAIN jobFeed : jobFeed[i] \in Shown
           /\ Busy => worker.uid \in Nat
<1>1. JobsTyped
  BY TypedMeans
<1>2. \A i \in DOMAIN jobFeed : jobFeed[i] \in Shown
  <2> TAKE i \in DOMAIN jobFeed
  <2>1. jobFeed[i] \in Incarnations /\ GoodJob(jobFeed[i])
    BY <1>1 DEF JobsTyped
  <2> QED BY <2>1 DEF Shown
<1>3. last \in Nat
  BY <1>1, ResubmissionBounds DEF JobsTyped
<1> QED BY <1>1, <1>2, <1>3, TypedParts, ResubmissionBounds DEF JobsTyped

\* A larger bound is a bound.
LEMMA BoundsGrow ==
    ASSUME Typed, NEW m \in Nat, NEW n \in Nat, m <= n, UpTo(pods, podCache, podFeed, m)
    PROVE  UpTo(pods, podCache, podFeed, n)
<1>1. podFeed \in Seq(Views) /\ pods \in Views /\ podCache \in Views
  BY TypedMeans DEF PodsTyped
<1>2. ASSUME NEW view \in Views, NoneAbove(view, m) PROVE NoneAbove(view, n)
  <2>1. \A s \in Slots(spec) : view[s] # NoPod => view[s].uid \in Nat
    BY DEF Views, Pod
  <2> QED BY <1>2, <2>1 DEF NoneAbove
<1>3. \A i \in DOMAIN podFeed : podFeed[i] \in Views
  BY <1>1
<1> QED BY <1>1, <1>2, <1>3 DEF UpTo

\* The feed after a job was stored.
LEMMA StoredFeed ==
    ASSUME Typed, NEW new \in Shown, StoreJob(new)
    PROVE  /\ job' = new
           /\ DOMAIN jobFeed \subseteq Int
           /\ \A i \in DOMAIN jobFeed' :
                 \/ i \in DOMAIN jobFeed /\ jobFeed'[i] = jobFeed[i]
                 \/ jobFeed'[i] = new /\ \A k \in DOMAIN jobFeed : k < i
<1>1. jobFeed \in Seq(Incarnations) /\ new \in Incarnations
  BY UidsAreNat DEF Shown
<1> QED BY <1>1, AppendFacts DEF StoreJob

\* What is stored last is the youngest; the bound of the worker's job stays.
LEMMA JobsStayInOrder ==
    ASSUME Typed, JobsInOrder, WorkerInOrder, JobStep, PodStep
    PROVE  /\ JobsInOrder'
           /\ Busy => /\ worker.uid <= last'
                      /\ UpTo(pods', podCache', podFeed', worker.uid)
                      /\ cached' # NoJob => worker.uid <= cached'.uid
                      /\ \A i \in DOMAIN jobFeed' :
                            jobFeed'[i] # NoJob => worker.uid <= jobFeed'[i].uid
<1> DEFINE Kept(n) == UpTo(pods', podCache', podFeed', n)
<1>1. Kept(last) /\ (last + 1 \in Nat => Kept(last + 1))
  <2>1. /\ UpTo(pods, podCache, podFeed, last) /\ last \in Nat
        /\ Busy => worker.uid <= last /\ worker.uid \in Nat
    BY UidsAreNat DEF JobsInOrder, WorkerInOrder
  <2>2. UpTo(pods, podCache, podFeed, last + 1)
    BY <2>1, BoundsGrow
  <2> QED BY <2>1, <2>2, BoundsStay
<1>2. cached # NoJob => Kept(cached.uid)
  BY UidsAreNat, BoundsStay DEF JobsInOrder, WorkerInOrder
<1>3. \A i \in DOMAIN jobFeed : jobFeed[i] # NoJob => Kept(jobFeed[i].uid)
  BY UidsAreNat, BoundsStay DEF JobsInOrder, WorkerInOrder
<1>4. Busy => Kept(worker.uid)
  BY UidsAreNat, BoundsStay DEF WorkerInOrder
<1> HIDE DEF Kept
<1>5. CASE JobStored
  <2>1. PICK new \in Shown :
           /\ StoreJob(new) /\ CachedSame
           /\ \/ new = NoJob /\ last' = last
              \/ job # NoJob /\ new # NoJob /\ new.uid = job.uid /\ last' = last
              \/ new # NoJob /\ new.uid = last + 1 /\ last' = last + 1
    BY <1>5 DEF JobStored
  <2>2. /\ new # NoJob => new.uid = last'
        /\ last' = last \/ last' = last + 1
        /\ last' \in Nat /\ last <= last' /\ last \in Nat
    BY <2>1, UidsAreNat DEF JobsInOrder
  <2>3. Kept(last')
    BY <1>1, <2>2
  <2>4. /\ job' = new
        /\ DOMAIN jobFeed \subseteq Int
        /\ \A i \in DOMAIN jobFeed' :
              \/ i \in DOMAIN jobFeed /\ jobFeed'[i] = jobFeed[i]
              \/ jobFeed'[i] = new /\ \A k \in DOMAIN jobFeed : k < i
    BY <2>1, StoredFeed
  <2>5. cached' # NoJob => cached # NoJob /\ cached'.uid = cached.uid
    BY <2>1 DEF CachedSame
  <2>6. cached' # NoJob =>
          /\ cached'.uid <= last' /\ Kept(cached'.uid)
          /\ \A i \in DOMAIN jobFeed' : jobFeed'[i] # NoJob => cached'.uid <= jobFeed'[i].uid
    <3> HAVE cached' # NoJob
    <3>1. /\ cached.uid \in Nat /\ cached.uid <= last /\ cached'.uid = cached.uid
          /\ \A i \in DOMAIN jobFeed : jobFeed[i] # NoJob => cached.uid <= jobFeed[i].uid
      BY <2>5, UidsAreNat DEF JobsInOrder
    <3>2. cached.uid <= last'
      BY <2>2, <3>1
    <3> QED BY <1>2, <2>2, <2>4, <2>5, <3>1, <3>2
  <2>7. ASSUME NEW i \in DOMAIN jobFeed', jobFeed'[i] # NoJob
        PROVE  /\ jobFeed'[i].uid <= last' /\ Kept(jobFeed'[i].uid)
               /\ \A k \in DOMAIN jobFeed' :
                     i <= k /\ jobFeed'[k] # NoJob => jobFeed'[i].uid <= jobFeed'[k].uid
    <3>1. CASE i \in DOMAIN jobFeed /\ jobFeed'[i] = jobFeed[i]
      <4>1. /\ jobFeed[i].uid \in Nat /\ jobFeed[i].uid <= last
            /\ \A k \in DOMAIN jobFeed :
                  i <= k /\ jobFeed[k] # NoJob => jobFeed[i].uid <= jobFeed[k].uid
        BY <2>7, <3>1, UidsAreNat DEF JobsInOrder
      <4>2. jobFeed[i].uid <= last'
        BY <2>2, <4>1
      <4> QED BY <1>3, <2>2, <2>4, <2>7, <3>1, <4>1, <4>2
    <3>2. CASE jobFeed'[i] = new /\ \A k \in DOMAIN jobFeed : k < i
      <4>1. i \in Int
        BY StoredFeed, <2>1, UidsAreNat DEF StoreJob
      <4>2. \A k \in DOMAIN jobFeed' : i <= k => jobFeed'[k] = new
        BY <2>4, <3>2, <4>1
      <4> QED BY <2>2, <2>3, <2>7, <3>2, <4>2
    <3> QED BY <2>4, <3>1, <3>2
  <2>8. JobsInOrder'
    BY <2>2, <2>3, <2>4, <2>6, <2>7 DEF JobsInOrder, Kept
  <2>9. ASSUME Busy
        PROVE  /\ worker.uid <= last'
               /\ cached' # NoJob => worker.uid <= cached'.uid
               /\ \A i \in DOMAIN jobFeed' :
                     jobFeed'[i] # NoJob => worker.uid <= jobFeed'[i].uid
    <3>1. worker.uid \in Nat /\ worker.uid <= last
      BY <2>9, UidsAreNat DEF WorkerInOrder
    <3>2. worker.uid <= last'
      BY <2>2, <3>1
    <3> QED BY <2>2, <2>4, <2>5, <2>9, <3>2 DEF WorkerInOrder
  <2> QED BY <1>4, <2>8, <2>9 DEF Kept
<1>6. CASE JobDelivered
  <2>1. /\ jobFeed \in Seq(Incarnations) /\ jobFeed # <<>>
        /\ jobFeed' = Tail(jobFeed) /\ cached' = jobFeed[1] /\ UNCHANGED <<job, last>>
        /\ 1 \in DOMAIN jobFeed
        /\ \A i \in DOMAIN jobFeed : i \in Nat /\ 1 <= i
        /\ \A i \in DOMAIN jobFeed' :
              i \in Nat /\ i + 1 \in DOMAIN jobFeed /\ jobFeed'[i] = jobFeed[i + 1]
    BY <1>6, UidsAreNat, TailFacts DEF JobDelivered
  <2>2. JobsInOrder'
    <3>1. job' # NoJob => job'.uid = last'
      BY <2>1 DEF JobsInOrder
    <3>2. cached' # NoJob =>
            /\ cached'.uid <= last' /\ Kept(cached'.uid)
            /\ \A i \in DOMAIN jobFeed' :
                  jobFeed'[i] # NoJob => cached'.uid <= jobFeed'[i].uid
      BY <1>3, <2>1 DEF JobsInOrder
    <3>3. \A i \in DOMAIN jobFeed' : jobFeed'[i] # NoJob =>
            /\ jobFeed'[i].uid <= last' /\ Kept(jobFeed'[i].uid)
            /\ \A k \in DOMAIN jobFeed' :
                  i <= k /\ jobFeed'[k] # NoJob => jobFeed'[i].uid <= jobFeed'[k].uid
      BY <1>3, <2>1 DEF JobsInOrder
    <3>4. Kept(last')
      BY <1>1, <2>1
    <3> QED BY <3>1, <3>2, <3>3, <3>4 DEF JobsInOrder, Kept
  <2> QED BY <1>4, <2>1, <2>2 DEF WorkerInOrder, Kept
<1>7. CASE JobListed
  <2>1. /\ jobFeed' = <<>> /\ cached' = job /\ UNCHANGED <<job, last>>
        /\ DOMAIN jobFeed' = {}
    BY <1>7, EmptyFeed DEF JobListed
  <2>2. job # NoJob => job.uid = last
    BY DEF JobsInOrder
  <2>3. JobsInOrder'
    BY <1>1, <2>1, <2>2, UidsAreNat DEF JobsInOrder, Kept
  <2> QED BY <1>4, <2>1, <2>2, <2>3 DEF WorkerInOrder, Kept
<1>8. CASE JobOverwritten
  <2>1. /\ UNCHANGED <<job, jobFeed, last>>
        /\ cached' # NoJob => cached # NoJob /\ cached'.uid = cached.uid
    BY <1>8 DEF JobOverwritten, JobsSame, CachedSame
  <2>2. JobsInOrder'
    BY <1>1, <1>2, <1>3, <2>1 DEF JobsInOrder, Kept
  <2> QED BY <1>4, <2>1, <2>2 DEF WorkerInOrder, Kept
<1> QED BY <1>5, <1>6, <1>7, <1>8 DEF JobStep

LEMMA WorkerStaysInOrder ==
    ASSUME Typed, JobsInOrder, WorkerInOrder, JobStep, PodStep,
           WorkGoesOn \/ (Starts /\ JobOverwritten)
    PROVE  WorkerInOrder'
<1>1. CASE WorkGoesOn
  <2>1. CASE worker'.pc = "idle"
    BY <2>1 DEF WorkerInOrder, Busy
  <2>2. CASE Busy /\ worker'.uid = worker.uid
    BY <2>2, JobsStayInOrder DEF WorkerInOrder
  <2> QED BY <1>1, <2>1, <2>2 DEF WorkGoesOn
<1>2. CASE Starts /\ JobOverwritten
  <2>1. cached' # NoJob /\ cached'.uid = worker'.uid
    BY <1>2 DEF Starts, JobOverwritten, CachedSame
  <2>2. JobsInOrder'
    BY JobsStayInOrder
  <2>3. worker'.uid <= worker'.uid
    BY <1>2, UidsAreNat DEF Starts
  <2> QED BY <2>1, <2>2, <2>3 DEF JobsInOrder, WorkerInOrder
<1> QED BY <1>1, <1>2

\* The names a sync deletes had pods of its job in the cache; who has them now is
\* as old as they were, or is made by that sync.
LEMMA TargetsStayOwn ==
    ASSUME Typed, JobsInOrder, PodsInOrder, TargetsAreOwn, PodStep,
           WorkGoesOn \/ (Starts /\ PodsSame)
    PROVE  TargetsAreOwn'
<1>1. pods \in Views /\ podCache \in Views
  BY TypedMeans DEF PodsTyped
<1>2. CASE WorkGoesOn
  <2>1. CASE worker'.pc = "idle"
    BY <2>1 DEF TargetsAreOwn, Busy
  <2>2. CASE Busy /\ worker'.uid = worker.uid /\ worker'.deletes \subseteq worker.deletes
    <3>1. ASSUME NEW s \in worker'.deletes, pods'[s] # NoPod
          PROVE  pods'[s].uid = worker.uid
      <4>1. s \in worker.deletes /\ (pods[s] # NoPod => pods[s].uid = worker.uid)
        BY <2>2, <3>1 DEF TargetsAreOwn
      <4>2. s \in Slots(spec)
        BY <2>2, <4>1, TypedMeans DEF WorkerTyped, Workers
      <4>3. CASE PodChanged
        <5>1. PICK r \in Slots(spec), pod \in Pod \union {NoPod} :
                 /\ ChangePod(r, pod)
                 /\ pods[r] # NoPod /\ (pod # NoPod => pod.uid = pods[r].uid)
          BY <4>3 DEF PodChanged
        <5>2. pods'[s] = IF s = r THEN pod ELSE pods[s]
          BY <4>2, <5>1, ChangedView
        <5> QED BY <3>1, <4>1, <5>1, <5>2
      <4>4. CASE PodMade
        <5>1. PICK r \in Slots(spec), pod \in Pod :
                 ChangePod(r, pod) /\ pod.uid = worker.uid
          BY <4>4 DEF PodMade
        <5>2. pods'[s] = IF s = r THEN pod ELSE pods[s]
          BY <4>2, <5>1, ChangedView
        <5> QED BY <3>1, <4>1, <5>1, <5>2
      <4>5. CASE pods' = pods
        BY <3>1, <4>1, <4>5
      <4> QED BY <4>3, <4>4, <4>5 DEF PodStep, PodsDelivered, PodsListed, PodsSame
    <3> QED BY <2>2, <3>1 DEF TargetsAreOwn
  <2> QED BY <1>2, <2>1, <2>2 DEF WorkGoesOn
<1>3. CASE Starts /\ PodsSame
  <2>1. ASSUME NEW s \in worker'.deletes, pods[s] # NoPod
        PROVE  pods[s].uid = cached.uid
    <3>1. s \in Slots(spec) /\ podCache[s] # NoPod /\ podCache[s].uid = cached.uid
      BY <1>3, <2>1 DEF Starts, Present, ClaimPods
    <3>2. cached.uid <= pods[s].uid
      BY <2>1, <3>1 DEF PodsInOrder, Succeeds
    <3>3. pods[s].uid <= cached.uid
      BY <1>3, <2>1, <3>1 DEF Starts, JobsInOrder, UpTo, NoneAbove
    <3>4. pods[s].uid \in Nat /\ cached.uid \in Nat
      BY <1>1, <1>3, <2>1, <3>1, UidsAreNat DEF Starts, Views, Pod
    <3> QED BY <3>2, <3>3, <3>4
  <2> QED BY <1>3, <2>1 DEF Starts, PodsSame, TargetsAreOwn
<1> QED BY <1>2, <1>3

------------------------------------------------------------------------------
(***************************************************************************)
(* The invariant                                                           *)
(***************************************************************************)

Aged == JobsInOrder /\ WorkerInOrder /\ PodsInOrder /\ TargetsAreOwn

LEMMA AgedInit == Init => Aged
<1> SUFFICES ASSUME Init PROVE Aged
  OBVIOUS
<1>1. ~Busy
  BY DEF Init, Idle, Busy
<1>2. \A s \in Slots(spec) : NoPods[s] = NoPod
  BY DEF NoPods
<1>3. \A n : UpTo(pods, podCache, podFeed, n)
  BY <1>2, EmptyFeed DEF Init, UpTo, NoneAbove
<1>4. JobsInOrder
  BY <1>3, EmptyFeed DEF Init, JobsInOrder
<1>5. PodsInOrder
  BY <1>2, EmptyFeed DEF Init, PodsInOrder, Succeeds
<1> QED BY <1>1, <1>4, <1>5 DEF Aged, WorkerInOrder, TargetsAreOwn

\* A step of one kind each keeps the ages.
LEMMA Ages ==
    ASSUME Typed, Aged, JobStep, PodStep,
           WorkGoesOn \/ (Starts /\ JobOverwritten /\ PodsSame)
    PROVE  Aged'
<1>1. JobsInOrder' /\ WorkerInOrder'
  BY JobsStayInOrder, WorkerStaysInOrder DEF Aged
<1>2. PodsInOrder' /\ TargetsAreOwn'
  BY PodsStayInOrder, TargetsStayOwn DEF Aged
<1> QED BY <1>1, <1>2 DEF Aged

\* A worker that keeps to its job.
LEMMA StillGoesOn ==
    ASSUME Typed, \/ worker' = worker \/ Outdate \/ worker' = Idle
                  \/ worker' = [worker EXCEPT !.aliased = FALSE]
                  \/ \E s : Busy /\ worker' = [worker EXCEPT !.creates = @ \ {s}]
                  \/ \E s : Busy /\ worker' = [worker EXCEPT !.deletes = @ \ {s}]
                  \/ Busy /\ Decide(worker)
                  \/ \E b \in BOOLEAN : Busy /\ Retry(b)
    PROVE  WorkGoesOn
<1>1. worker \in Workers
  BY TypedMeans DEF WorkerTyped
<1>2. worker' = Idle => WorkGoesOn
  BY DEF Idle, WorkGoesOn
<1>3. ASSUME worker'.pc = worker.pc, worker'.uid = worker.uid,
             worker'.deletes \subseteq worker.deletes
      PROVE  WorkGoesOn
  BY <1>3 DEF WorkGoesOn, Busy
<1>4. CASE worker' = worker \/ Outdate \/ worker' = [worker EXCEPT !.aliased = FALSE]
  BY <1>1, <1>3, <1>4 DEF Outdate, Workers
<1>5. CASE \E s : \/ worker' = [worker EXCEPT !.creates = @ \ {s}]
                  \/ worker' = [worker EXCEPT !.deletes = @ \ {s}]
  BY <1>1, <1>3, <1>5 DEF Workers
<1>6. CASE Busy /\ Decide(worker)
  BY <1>1, <1>2, <1>6 DEF Decide, WorkGoesOn, Workers
<1>7. ASSUME NEW b \in BOOLEAN, Busy, Retry(b) PROVE WorkGoesOn
  <2>1. CASE worker.tries + 1 < UpdateTries
    BY <1>1, <1>3, <1>7, <2>1 DEF Retry, Workers
  <2>2. CASE ~(worker.tries + 1 < UpdateTries)
    BY <1>2, <1>7, <2>2 DEF Retry, Abort
  <2> QED BY <2>1, <2>2
<1> QED BY <1>2, <1>4, <1>5, <1>6, <1>7

\* A status over a job leaves the incarnation as it is.
LEMMA SameIncarnation ==
    ASSUME NEW j \in Shown, j # NoJob, NEW st
    PROVE  /\ [j EXCEPT !.status = st] # NoJob /\ [j EXCEPT !.status = st].uid = j.uid
           /\ [j EXCEPT !.deleting = TRUE] # NoJob /\ [j EXCEPT !.deleting = TRUE].uid = j.uid
<1>1. /\ DOMAIN j = {"uid", "status", "of", "deleting"}
      /\ j \in [uid : 1..MaxJobs, status : Jobs(spec), of : 1..MaxJobs, deleting : BOOLEAN]
  BY DEF Shown, Incarnations
<1>2. DOMAIN NoJob = {"uid"}
  BY DEF NoJob
<1> QED BY <1>1, <1>2

Over(j, st, o) == [j EXCEPT !.status = st, !.of = o]

LEMMA OverIsSame ==
    ASSUME NEW j \in Shown, j # NoJob, NEW st, NEW o
    PROVE  Over(j, st, o) # NoJob /\ Over(j, st, o).uid = j.uid
<1>1. /\ DOMAIN j = {"uid", "status", "of", "deleting"}
      /\ j \in [uid : 1..MaxJobs, status : Jobs(spec), of : 1..MaxJobs, deleting : BOOLEAN]
  BY DEF Shown, Incarnations
<1>2. DOMAIN NoJob = {"uid"}
  BY DEF NoJob
<1> QED BY <1>1, <1>2 DEF Over

\* What happens to a pod leaves it the pod it is.
LEMMA SamePod ==
    ASSUME NEW p \in Pod
    PROVE  /\ [p EXCEPT !.dying = TRUE] \in Pod
           /\ [p EXCEPT !.dying = TRUE].uid = p.uid
           /\ [p EXCEPT !.state = "Running", !.node = Node] \in Pod
           /\ [p EXCEPT !.state = "Running", !.node = Node].uid = p.uid
           /\ [p EXCEPT !.state = "Succeeded", !.exit = {0}] \in Pod
           /\ [p EXCEPT !.state = "Succeeded", !.exit = {0}].uid = p.uid
  BY DEF Pod, PodStates

LEMMA ClusterAges ==
    ASSUME Typed, Cluster
    PROVE  JobStep /\ PodStep /\ WorkGoesOn
<1>1. job \in Shown
  BY TypedParts
<1>2. CASE Submit
  <2>1. NewJob(last + 1) \in Shown /\ NewJob(last + 1) # NoJob /\ NewJob(last + 1).uid = last + 1
    <3>1. last + 1 \in 1..MaxJobs /\ NewStatus \in Statuses
      BY <1>2, NewStatusIsGood, UidsAreNat, ResubmissionBounds DEF Submit, Statuses, TypedMeans, JobsTyped
    <3>2. NewJob(last + 1) \in Shown
      BY <3>1, TypedParts DEF NewJob
    <3>3. DOMAIN NewJob(last + 1) # DOMAIN NoJob
      BY DEF NewJob, NoJob
    <3> QED BY <3>2, <3>3 DEF NewJob
  <2>2. JobStored
    BY <1>2, <2>1 DEF Submit, JobStored, CachedSame
  <2> QED BY <1>2, <2>2, StillGoesOn DEF Submit, allPods, JobStep, PodStep, PodsSame
<1>3. ASSUME NEW how \in Propagations, Withdraw(how) PROVE JobStep /\ PodStep /\ WorkGoesOn
  <2>1. PICK new : /\ StoreJob(new)
                   /\ new = NoJob \/ (job # NoJob /\ new = [job EXCEPT !.deleting = TRUE])
    BY <1>3 DEF Withdraw
  <2>2. new \in Shown
    <3>1. job # NoJob => [job EXCEPT !.deleting = TRUE] \in Shown
      BY <1>1 DEF Shown, Incarnations, GoodJob, NoJob
    <3> QED BY <2>1, <3>1, TypedParts
  <2>3. JobStored
    BY <1>1, <1>3, <2>1, <2>2, SameIncarnation DEF Withdraw, JobStored, CachedSame
  <2> QED BY <1>3, <2>3, StillGoesOn DEF Withdraw, allPods, JobStep, PodStep, PodsSame
<1>4. CASE JobGone
  <2>1. JobStored
    BY <1>4, TypedParts DEF JobGone, JobStored, CachedSame
  <2> QED BY <1>4, <2>1, StillGoesOn DEF JobGone, allPods, JobStep, PodStep, PodsSame
<1>5. ASSUME NEW s \in Present(pods),
             CollectDependent(s) \/ StartPod(s) \/ Succeed(s) \/ PodGone(s)
      PROVE  JobStep /\ PodStep /\ WorkGoesOn
  <2>1. s \in Slots(spec) /\ pods[s] \in Pod /\ pods[s] # NoPod
    BY TypedParts DEF Present
  <2>2. \E pod \in Pod \union {NoPod} :
           ChangePod(s, pod) /\ (pod # NoPod => pod.uid = pods[s].uid)
    <3>1. \/ ChangePod(s, NoPod)
          \/ ChangePod(s, [pods[s] EXCEPT !.dying = TRUE])
          \/ ChangePod(s, [pods[s] EXCEPT !.state = "Running", !.node = Node])
          \/ ChangePod(s, [pods[s] EXCEPT !.state = "Succeeded", !.exit = {0}])
      BY <1>5, Zenon DEF CollectDependent, Remove, StartPod, Succeed, PodGone
    <3> QED BY <2>1, <3>1, SamePod, Zenon
  <2>3. podCache' = podCache /\ UNCHANGED jobs /\ worker' = worker
    BY <1>5 DEF CollectDependent, StartPod, Succeed, PodGone, OnlyPods
  <2>4. PodChanged
    BY <2>1, <2>2, <2>3 DEF PodChanged
  <2> QED BY <2>3, <2>4, StillGoesOn
          DEF jobs, JobStep, JobOverwritten, JobsSame, CachedSame, PodStep
<1> QED BY <1>2, <1>3, <1>4, <1>5 DEF Cluster

LEMMA WatchesAge ==
    ASSUME Typed, Watches
    PROVE  JobStep /\ PodStep /\ WorkGoesOn
<1>1. CASE DeliverJob
  BY <1>1, StillGoesOn
     DEF DeliverJob, SeeJob, JobStep, JobDelivered, PodStep, PodsSame, allPods
<1>2. CASE RelistJobs
  BY <1>2, StillGoesOn
     DEF RelistJobs, SeeJob, JobStep, JobListed, PodStep, PodsSame, allPods
<1>3. CASE DeliverPods
  BY <1>3, StillGoesOn
     DEF DeliverPods, SeePods, jobs, JobStep, JobOverwritten, JobsSame, CachedSame,
         PodStep, PodsDelivered
<1> QED BY <1>1, <1>2, <1>3 DEF Watches

\* A job that is shared with the cache is overwritten, not replaced.
LEMMA DecideOverwrites ==
    ASSUME Typed, NEW w, Decide(w)
    PROVE  CachedSame
<1>1. cached \in Shown
  BY TypedParts
<1>2. cached = NoJob => [cached EXCEPT !.status = w.status] = cached
  BY DEF NoJob
<1> QED BY <1>1, <1>2, SameIncarnation DEF Decide, CachedSame

LEMMA RetryOverwrites ==
    ASSUME Typed, NEW b \in BOOLEAN, Retry(b)
    PROVE  CachedSame
<1>1. cached \in Shown
  BY TypedParts
<1>2. cached' = IF cached # NoJob
                THEN [cached EXCEPT !.status = worker.status, !.of = worker.of]
                ELSE cached
  BY Zenon DEF Retry
<1>3. cached # NoJob => /\ Over(cached, worker.status, worker.of) # NoJob
                        /\ Over(cached, worker.status, worker.of).uid = cached.uid
  BY <1>1, OverIsSame
<1>4. cached # NoJob => cached' = Over(cached, worker.status, worker.of)
  BY <1>2, Zenon DEF Over
<1> QED BY <1>2, <1>3, <1>4 DEF CachedSame

LEMMA AcceptedStores ==
    ASSUME Typed, Accepted, CachedSame, last' = last
    PROVE  JobStored
<1> DEFINE new == [job EXCEPT !.status = worker.status, !.of = worker.of]
<1>1. StoreJob(new) /\ job # NoJob /\ Busy /\ job \in Shown
  BY TypedParts DEF Accepted, Updating, Busy
<1>2. new \in Shown
  BY <1>1, TypedParts, OverwriteTyped
<1>3. new # NoJob /\ new.uid = job.uid
  BY <1>1, OverIsSame, Zenon DEF Over
<1> HIDE DEF new
<1> QED BY <1>1, <1>2, <1>3 DEF JobStored

LEMMA WorkerAges ==
    ASSUME Typed, Worker
    PROVE  JobStep /\ PodStep /\ (WorkGoesOn \/ (Starts /\ JobOverwritten /\ PodsSame))
<1>1. worker \in Workers
  BY TypedMeans DEF WorkerTyped
<1>2. CASE SkipSync
  BY <1>2, StillGoesOn
     DEF SkipSync, jobs, allPods, JobStep, JobOverwritten, JobsSame, CachedSame,
         PodStep, PodsSame
<1>3. CASE SyncHandler
  <2>1. PICK w \in Workers :
           /\ w.pc = "create" /\ w.uid = cached.uid /\ w.deletes \subseteq Present(ClaimPods)
           /\ Decide(w) \/ (worker' = w /\ UNCHANGED <<cached, delayed>>)
    BY <1>3, SyncTyped
  <2>2. JobOverwritten /\ PodsSame
    BY <1>3, <2>1, DecideOverwrites
       DEF SyncHandler, allPods, JobOverwritten, JobsSame, CachedSame, PodsSame
  <2>3. WorkGoesOn \/ Starts
    <3>1. cached # NoJob
      BY <1>3 DEF SyncHandler, NeedsSync
    <3>2. CASE worker' = Idle
      BY <3>2 DEF Idle, WorkGoesOn
    <3>3. CASE worker' = w
      BY <2>1, <3>1, <3>3 DEF Starts
    <3>4. CASE worker' = [w EXCEPT !.pc = "delete"]
      BY <2>1, <3>1, <3>4 DEF Starts, Workers
    <3> QED BY <2>1, <3>2, <3>3, <3>4 DEF Decide
  <2> QED BY <2>2, <2>3 DEF JobStep, PodStep
<1>4. CASE Commit
  <2>1. /\ Decide(worker) /\ Busy /\ JobsSame /\ PodsSame
    BY <1>4 DEF Commit, Busy, JobsSame, allPods, PodsSame
  <2> QED BY <2>1, DecideOverwrites, StillGoesOn DEF JobStep, JobOverwritten, PodStep
<1>5. CASE UpdateAccepted
  <2>1. Accepted /\ worker' = Idle /\ CachedSame /\ last' = last /\ PodsSame
    BY <1>5 DEF UpdateAccepted, CachedSame, allPods, PodsSame
  <2> QED BY <2>1, AcceptedStores, StillGoesOn DEF JobStep, PodStep
<1>6. CASE UpdateRejected
  <2>1. /\ Retry(jobFeed = <<>>) /\ (jobFeed = <<>>) \in BOOLEAN
        /\ Busy /\ JobsSame /\ PodsSame
    BY <1>6, Zenon DEF UpdateRejected, Updating, Busy, JobsSame, allPods, PodsSame
  <2> QED BY <2>1, RetryOverwrites, StillGoesOn DEF JobStep, JobOverwritten, PodStep
<1>7. ASSUME NEW s \in Slots(spec), CreatePod(s)
      PROVE  JobStep /\ PodStep /\ WorkGoesOn
  <2>1. /\ ChangePod(s, NewPod(worker.uid, worker.gens[s[1]])) /\ Busy
        /\ worker' = [worker EXCEPT !.creates = @ \ {s}]
        /\ UNCHANGED jobs /\ podCache' = podCache
    BY <1>7 DEF CreatePod, MayCreate, Busy
  <2>2. NewPod(worker.uid, worker.gens[s[1]]) \in Pod
    <3>1. worker.uid \in 1..MaxJobs /\ worker.gens \in [Types(spec) -> Nat]
      BY <1>1, <2>1, TypedParts DEF Workers
    <3>2. s[1] \in Types(spec)
      BY DEF Slots, SlotsOf
    <3> QED BY <3>1, <3>2 DEF NewPod, Pod, PodStates
  <2>3. PodMade
    BY <2>1, <2>2 DEF PodMade, NewPod
  <2> QED BY <2>1, <2>3, StillGoesOn
          DEF jobs, JobStep, JobOverwritten, JobsSame, CachedSame, PodStep
<1>8. ASSUME NEW s \in Slots(spec), CreatePodFails(s)
      PROVE  JobStep /\ PodStep /\ WorkGoesOn
  BY <1>8, StillGoesOn
     DEF CreatePodFails, Abort, jobs, allPods, JobStep, JobOverwritten, JobsSame,
         CachedSame, PodStep, PodsSame
<1>9. ASSUME NEW s \in Slots(spec), DeletePod(s)
      PROVE  JobStep /\ PodStep /\ WorkGoesOn
  <2>1. /\ IF pods[s] # NoPod /\ ~pods[s].dying THEN Remove(s)
           ELSE UNCHANGED <<pods, podFeed>>
        /\ Busy /\ worker' = [worker EXCEPT !.deletes = @ \ {s}]
        /\ UNCHANGED jobs /\ podCache' = podCache
    BY <1>9 DEF DeletePod, Busy
  <2>2. PodStep
    <3>1. CASE pods[s] # NoPod /\ ~pods[s].dying
      <4>1. pods[s] \in Pod
        BY <3>1, TypedParts, TypedMeans DEF PodsTyped, Views
      <4>2. \E pod \in Pod \union {NoPod} :
               ChangePod(s, pod) /\ (pod # NoPod => pod.uid = pods[s].uid)
        <5>1. \/ ChangePod(s, NoPod)
              \/ ChangePod(s, [pods[s] EXCEPT !.dying = TRUE])
          BY <2>1, <3>1, Zenon DEF Remove
        <5> QED BY <4>1, <5>1, SamePod, Zenon
      <4> QED BY <2>1, <3>1, <4>2 DEF PodStep, PodChanged
    <3>2. CASE ~(pods[s] # NoPod /\ ~pods[s].dying)
      BY <2>1, <3>2 DEF PodStep, PodsSame
    <3> QED BY <3>1, <3>2
  <2> QED BY <2>1, <2>2, StillGoesOn DEF jobs, JobStep, JobOverwritten, JobsSame, CachedSame
<1> QED BY <1>2, <1>3, <1>4, <1>5, <1>6, <1>7, <1>8, <1>9 DEF Worker

LEMMA FaultsAge ==
    ASSUME Typed, DelayIsOver \/ UpdateLost \/ UpdateReplyLost \/ Crash \/ TakeOver
    PROVE  JobStep /\ PodStep /\ WorkGoesOn
<1>1. CASE DelayIsOver
  BY <1>1, StillGoesOn
     DEF DelayIsOver, jobs, allPods, JobStep, JobOverwritten, JobsSame, CachedSame,
         PodStep, PodsSame
<1>2. CASE UpdateLost
  <2>1. /\ Retry(jobFeed = <<>>) /\ (jobFeed = <<>>) \in BOOLEAN
        /\ Busy /\ JobsSame /\ PodsSame
    BY <1>2, Zenon DEF UpdateLost, Updating, Busy, JobsSame, allPods, PodsSame
  <2> QED BY <2>1, RetryOverwrites, StillGoesOn DEF JobStep, JobOverwritten, PodStep
<1>3. CASE UpdateReplyLost
  <2>1. Accepted /\ Retry(FALSE) /\ Busy /\ last' = last /\ PodsSame
    BY <1>3 DEF UpdateReplyLost, Accepted, Updating, Busy, allPods, PodsSame
  <2> QED BY <2>1, RetryOverwrites, AcceptedStores, StillGoesOn DEF JobStep, PodStep
<1>4. CASE Crash
  BY <1>4, StillGoesOn DEF Crash, JobStep, JobListed, PodStep, PodsListed
<1>5. CASE TakeOver
  BY <1>5, StillGoesOn
     DEF TakeOver, allPods, JobStep, JobListed, JobDelivered, PodStep, PodsSame
<1> QED BY <1>1, <1>2, <1>3, <1>4, <1>5

IInv == Typed /\ Aged

LEMMA NextIInv ==
    ASSUME IInv, [Next]_vars
    PROVE  IInv'
<1>1. Typed'
  BY TypedNext DEF IInv
<1>2. CASE UNCHANGED vars
  <2>1. PodStep /\ JobStep /\ WorkGoesOn
    BY <1>2, StillGoesOn
       DEF IInv, vars, jobs, allPods, PodStep, PodsSame, JobStep, JobOverwritten,
           JobsSame, CachedSame
  <2> QED BY <1>1, <2>1, Ages DEF IInv
<1>3. CASE Next
  BY <1>1, <1>3, ClusterAges, WatchesAge, WorkerAges, FaultsAge, Ages DEF IInv, Next
<1> QED BY <1>2, <1>3

LEMMA Invariance == Spec => []IInv
<1>1. Init => IInv
  BY TypedInit, AgedInit DEF IInv
<1> QED BY <1>1, NextIInv, PTL DEF Spec

\* A sync stops no pod of another incarnation of the job than the one it works
\* for, however old the cache is it deletes from (claimPods, pod.go:134-150;
\* deletePodsAndServices, trainingjob.go:53-73).
THEOREM OwnPods == Spec => OwnPodsOnly
<1>1. ASSUME IInv, NEW r \in Slots(spec), DeletePod(r),
             NEW s \in Present(pods), pods'[s] # pods[s]
      PROVE  pods[s].uid = worker.uid
  <2>1. Typed
    BY <1>1 DEF IInv
  <2>2. /\ Busy /\ r \in worker.deletes
        /\ s \in Slots(spec) /\ pods[s] # NoPod /\ pods \in Views
    BY <1>1, <2>1, TypedParts, TypedMeans DEF DeletePod, Busy, Present, PodsTyped
  <2>3. pods' = pods \/ \E pod : pods' = [pods EXCEPT ![r] = pod]
    BY <1>1, Zenon DEF DeletePod, Remove, ChangePod
  <2>4. s = r
    <3>1. \A pod : s # r => [pods EXCEPT ![r] = pod][s] = pods[s]
      BY <2>2 DEF Views
    <3> QED BY <1>1, <2>3, <3>1
  <2> QED BY <1>1, <2>2, <2>4 DEF IInv, Aged, TargetsAreOwn
<1>2. IInv /\ [Next]_vars =>
        [Deletes => \A s \in Present(pods) :
                       pods'[s] # pods[s] => pods[s].uid = worker.uid]_vars
  BY <1>1 DEF Deletes
<1> QED BY <1>2, Invariance, PTL DEF Spec, OwnPodsOnly

------------------------------------------------------------------------------
(***************************************************************************)
(* Success: a status names it only if a pod of the job it was made for has *)
(* succeeded.  The name of the job, the pods and the status outlive the    *)
(* incarnations they came from, so the claim is made of every copy of a    *)
(* job, and of every view of the pods, with the incarnation it is of.      *)
(***************************************************************************)

\* The status of an incarnation, over the job of that incarnation or of a later
\* one: a later one may not owe its success to a pod of its own, an equal one does.
OfItsOwn(done, uid, of, status) ==
    /\ of <= uid
    /\ NamesSuccess(status) => of \in done \/ of < uid

Own(done, j) == j # NoJob => OfItsOwn(done, j.uid, j.of, j.status)

\* Every copy of the job, and the status the worker is about to write.
StatusesAreOwn ==
    /\ Own(finished, job) /\ Own(finished, cached)
    /\ \A i \in DOMAIN jobFeed : Own(finished, jobFeed[i])
    /\ Busy => OfItsOwn(finished, worker.uid, worker.of, worker.status)

\* The pods that are seen to have succeeded have.
Witnessed(done, view) ==
    \A s \in Slots(spec) :
        view[s] # NoPod /\ view[s].state = "Succeeded" => view[s].uid \in done

Witnesses ==
    /\ Witnessed(finished, pods) /\ Witnessed(finished, podCache)
    /\ \A i \in DOMAIN podFeed : Witnessed(finished, podFeed[i])

\* While the worker makes pods, the object it shares with the cache is the one
\* it took from there.
Shared ==
    worker.pc = "create" /\ worker.aliased =>
        cached # NoJob /\ cached.uid = worker.uid /\ cached.of = worker.of

\* The specification asks for at least one pod of every type: success is not
\* had for nothing.
AsksForPods ==
    /\ Types(spec) # {}
    /\ \A t \in Types(spec) : spec.replicaSpecs[t].replicas > 0

PodMoves == \E s \in Slots(spec), pod \in Pod \union {NoPod} :
               /\ ChangePod(s, pod) /\ podCache' = podCache
               /\ pod # NoPod /\ pod.state = "Succeeded" => pod.uid \in finished'

\* What has succeeded once has succeeded, and is seen as it is, or was.
LEMMA WitnessesStay ==
    ASSUME Typed, Witnesses, finished \subseteq finished',
           PodMoves \/ PodsDelivered \/ PodsListed \/ PodsSame
    PROVE  Witnesses'
<1>1. podFeed \in Seq(Views)
  BY TypedMeans DEF PodsTyped
<1>2. \A view : Witnessed(finished, view) => Witnessed(finished', view)
  BY DEF Witnessed
<1>3. CASE PodMoves
  <2>1. PICK s \in Slots(spec), pod \in Pod \union {NoPod} :
           /\ ChangePod(s, pod) /\ podCache' = podCache
           /\ pod # NoPod /\ pod.state = "Succeeded" => pod.uid \in finished'
    BY <1>3 DEF PodMoves
  <2>2. /\ \A r \in Slots(spec) : pods'[r] = IF r = s THEN pod ELSE pods[r]
        /\ \A i \in DOMAIN podFeed' : \/ i \in DOMAIN podFeed /\ podFeed'[i] = podFeed[i]
                                      \/ podFeed'[i] = pods'
    BY <2>1, ChangedView
  <2>3. Witnessed(finished', pods')
    BY <1>2, <2>1, <2>2 DEF Witnesses, Witnessed
  <2> QED BY <1>2, <2>1, <2>2, <2>3 DEF Witnesses
<1>4. CASE PodsDelivered
  BY <1>1, <1>2, <1>4, TailFacts DEF PodsDelivered, Witnesses
<1>5. CASE PodsListed
  BY <1>2, <1>5, EmptyFeed DEF PodsListed, Witnesses
<1>6. CASE PodsSame
  BY <1>2, <1>6 DEF PodsSame, Witnesses
<1> QED BY <1>3, <1>4, <1>5, <1>6

\* Where a job comes from that is stored, cached, or worked for.
StoreMoves == \/ UNCHANGED <<job, jobFeed>>
              \/ \E new \in Shown : Own(finished, new) /\ StoreJob(new)
              \/ job' = job /\ jobFeed # <<>> /\ jobFeed' = Tail(jobFeed)
              \/ job' = job /\ jobFeed' = <<>>

CacheMoves == \/ cached' = cached
              \/ cached' = job
              \/ jobFeed # <<>> /\ cached' = Head(jobFeed)
              \/ Own(finished, cached')

WorkerMoves == \/ worker'.pc = "idle"
               \/ /\ Busy /\ worker'.uid = worker.uid /\ worker'.of = worker.of
                  /\ worker'.status = worker.status
               \/ OfItsOwn(finished, worker'.uid, worker'.of, worker'.status)

LEMMA StatusesStayOwn ==
    ASSUME Typed, StatusesAreOwn, finished \subseteq finished',
           StoreMoves, CacheMoves, WorkerMoves
    PROVE  StatusesAreOwn'
<1>1. /\ \A j : Own(finished, j) => Own(finished', j)
      /\ \A u, o, st : OfItsOwn(finished, u, o, st) => OfItsOwn(finished', u, o, st)
  BY DEF Own, OfItsOwn
<1>2. jobFeed \in Seq(Incarnations)
  BY UidsAreNat
<1>3. Own(finished, job') /\ \A i \in DOMAIN jobFeed' : Own(finished, jobFeed'[i])
  <2>1. ASSUME NEW new \in Shown, Own(finished, new), StoreJob(new)
        PROVE  Own(finished, job') /\ \A i \in DOMAIN jobFeed' : Own(finished, jobFeed'[i])
    BY <2>1, StoredFeed DEF StatusesAreOwn
  <2>2. CASE UNCHANGED <<job, jobFeed>>
    BY <2>2 DEF StatusesAreOwn
  <2>3. CASE job' = job /\ jobFeed # <<>> /\ jobFeed' = Tail(jobFeed)
    BY <1>2, <2>3, TailFacts DEF StatusesAreOwn
  <2>4. CASE job' = job /\ jobFeed' = <<>>
    BY <2>4, EmptyFeed DEF StatusesAreOwn
  <2> QED BY <2>1, <2>2, <2>3, <2>4 DEF StoreMoves
<1>4. Own(finished, cached')
  <2>1. jobFeed # <<>> => Own(finished, Head(jobFeed))
    BY <1>2, TailFacts DEF StatusesAreOwn
  <2> QED BY <2>1 DEF CacheMoves, StatusesAreOwn
<1>5. worker'.pc # "idle" => OfItsOwn(finished, worker'.uid, worker'.of, worker'.status)
  BY DEF WorkerMoves, StatusesAreOwn
<1> QED BY <1>1, <1>3, <1>4, <1>5 DEF StatusesAreOwn, Busy

PodsMove == PodMoves \/ PodsDelivered \/ PodsListed \/ PodsSame

\* A step that tells nothing new about who has succeeded, nor forgets it.
Moves == /\ finished \subseteq finished' /\ PodsMove
         /\ StoreMoves /\ CacheMoves /\ WorkerMoves /\ Shared'

OwnInv == StatusesAreOwn /\ Witnesses /\ Shared

\* What is put over a job that is no older than the incarnation it was made for.
LEMMA OverIsOwn ==
    ASSUME NEW j \in Shown, j # NoJob, NEW o \in Nat, NEW st, NEW u \in Nat, u <= j.uid,
           OfItsOwn(finished, u, o, st)
    PROVE  /\ [j EXCEPT !.status = st, !.of = o] # NoJob
           /\ [j EXCEPT !.status = st, !.of = o].uid = j.uid
           /\ [j EXCEPT !.status = st, !.of = o].of = o
           /\ Own(finished, [j EXCEPT !.status = st, !.of = o])
<1>1. /\ DOMAIN j = {"uid", "status", "of", "deleting"}
      /\ j \in [uid : 1..MaxJobs, status : Jobs(spec), of : 1..MaxJobs, deleting : BOOLEAN]
  BY DEF Shown, Incarnations
<1>2. DOMAIN NoJob = {"uid"}
  BY DEF NoJob
<1>3. j.uid \in Nat
  BY <1>1, ResubmissionBounds
<1> DEFINE new == [j EXCEPT !.status = st, !.of = o]
<1>4. new # NoJob /\ new.uid = j.uid /\ new.of = o /\ new.status = st
  BY <1>1, <1>2
<1>5. OfItsOwn(finished, j.uid, o, st)
  BY <1>3 DEF OfItsOwn
<1> HIDE DEF new
<1>6. Own(finished, new)
  BY <1>4, <1>5 DEF Own
<1> QED BY <1>4, <1>6 DEF new

LEMMA ClusterMoves ==
    ASSUME IInv, OwnInv, Cluster
    PROVE  Moves
<1>1. job \in Shown /\ Typed /\ worker \in Workers
  BY TypedParts, TypedMeans DEF IInv, WorkerTyped
<1>2. ASSUME Outdate \/ worker' = worker, cached' = cached
      PROVE  WorkerMoves /\ CacheMoves /\ Shared'
  <2>1. /\ worker'.pc = worker.pc /\ worker'.aliased = worker.aliased
        /\ worker'.uid = worker.uid /\ worker'.of = worker.of
        /\ worker'.status = worker.status
    BY <1>1, <1>2 DEF Outdate, Workers
  <2> QED BY <1>2, <2>1 DEF WorkerMoves, CacheMoves, Shared, OwnInv, Busy
<1>3. ASSUME NEW new \in Shown, Own(finished, new), StoreJob(new), Outdate,
             UNCHANGED <<cached, allPods>>
      PROVE  Moves
  BY <1>2, <1>3 DEF Moves, StoreMoves, PodsMove, PodsSame, allPods, history
<1>4. CASE Submit
  <2>1. last + 1 \in 1..MaxJobs /\ NewStatus \in Statuses
    BY <1>1, <1>4, NewStatusIsGood, UidsAreNat, ResubmissionBounds
       DEF Submit, Statuses
  <2>2. NewJob(last + 1) \in Shown
    BY <1>1, <2>1, TypedParts DEF NewJob
  <2>3. Own(finished, NewJob(last + 1))
    <3>1. ~NamesSuccess(NewStatus)
      BY DEF NamesSuccess, NewStatus, NoPhase
    <3>2. OfItsOwn(finished, last + 1, last + 1, NewStatus)
      BY <2>1, <3>1 DEF OfItsOwn
    <3> QED BY <3>2 DEF Own, NewJob
  <2> QED BY <1>3, <1>4, <2>2, <2>3 DEF Submit
<1>5. ASSUME NEW how \in Propagations, Withdraw(how) PROVE Moves
  <2>1. PICK new : /\ StoreJob(new)
                   /\ new = NoJob \/ (job # NoJob /\ new = [job EXCEPT !.deleting = TRUE])
    BY <1>5 DEF Withdraw
  <2>2. new \in Shown
    <3>1. job # NoJob => [job EXCEPT !.deleting = TRUE] \in Shown
      BY <1>1 DEF Shown, Incarnations, GoodJob, NoJob
    <3> QED BY <1>1, <2>1, <3>1, TypedParts
  <2>3. Own(finished, new)
    <3>1. CASE new = NoJob
      BY <3>1 DEF Own
    <3>2. CASE job # NoJob /\ new = [job EXCEPT !.deleting = TRUE]
      <4>1. new.uid = job.uid /\ new.of = job.of /\ new.status = job.status
        BY <1>1, <3>2 DEF Shown, Incarnations
      <4> QED BY <3>2, <4>1 DEF OwnInv, StatusesAreOwn, Own
    <3> QED BY <2>1, <3>1, <3>2
  <2> QED BY <1>3, <1>5, <2>1, <2>2, <2>3 DEF Withdraw
<1>6. CASE JobGone
  BY <1>1, <1>3, <1>6, TypedParts DEF JobGone, Own
<1>7. ASSUME NEW s \in Present(pods),
             CollectDependent(s) \/ StartPod(s) \/ Succeed(s) \/ PodGone(s)
      PROVE  Moves
  <2>1. s \in Slots(spec) /\ pods[s] \in Pod /\ pods[s] # NoPod
    BY <1>1, TypedParts DEF Present
  <2>2. finished \subseteq finished' /\ podCache' = podCache /\ UNCHANGED jobs /\ worker' = worker
    BY <1>7 DEF CollectDependent, StartPod, Succeed, PodGone, OnlyPods, history
  <2>3. PodMoves
    <3>1. CASE ChangePod(s, NoPod)
      BY <2>1, <2>2, <3>1 DEF PodMoves
    <3>2. CASE ChangePod(s, [pods[s] EXCEPT !.dying = TRUE]) /\ pods[s].state = "Running"
      <4>1. /\ [pods[s] EXCEPT !.dying = TRUE] \in Pod
            /\ [pods[s] EXCEPT !.dying = TRUE].state = "Running"
        BY <2>1, <3>2, SamePod DEF Pod
      <4> QED BY <2>1, <2>2, <3>2, <4>1 DEF PodMoves
    <3>3. CASE ChangePod(s, [pods[s] EXCEPT !.state = "Running", !.node = Node])
      <4>1. /\ [pods[s] EXCEPT !.state = "Running", !.node = Node] \in Pod
            /\ [pods[s] EXCEPT !.state = "Running", !.node = Node].state = "Running"
        BY <2>1, SamePod DEF Pod
      <4> QED BY <2>1, <2>2, <3>3, <4>1 DEF PodMoves
    <3>4. CASE /\ ChangePod(s, [pods[s] EXCEPT !.state = "Succeeded", !.exit = {0}])
               /\ pods[s].uid \in finished'
      <4>1. /\ [pods[s] EXCEPT !.state = "Succeeded", !.exit = {0}] \in Pod
            /\ [pods[s] EXCEPT !.state = "Succeeded", !.exit = {0}].uid = pods[s].uid
        BY <2>1, SamePod
      <4> QED BY <2>1, <2>2, <3>4, <4>1 DEF PodMoves
    <3>5. CASE CollectDependent(s)
      BY <3>1, <3>2, <3>5 DEF CollectDependent, Remove
    <3>6. CASE StartPod(s)
      BY <3>3, <3>6 DEF StartPod
    <3>7. CASE Succeed(s)
      BY <3>4, <3>7 DEF Succeed
    <3>8. CASE PodGone(s)
      BY <3>1, <3>8 DEF PodGone
    <3> QED BY <1>7, <3>5, <3>6, <3>7, <3>8
  <2> QED BY <1>2, <2>2, <2>3 DEF Moves, PodsMove, StoreMoves, jobs
<1> QED BY <1>4, <1>5, <1>6, <1>7 DEF Cluster

LEMMA WatchesMove ==
    ASSUME IInv, OwnInv, Watches
    PROVE  Moves
<1>1. worker \in Workers
  BY TypedMeans DEF IInv, WorkerTyped
<1>2. ASSUME worker' = [worker EXCEPT !.aliased = FALSE]
      PROVE  WorkerMoves /\ Shared'
  <2>1. /\ worker'.pc = worker.pc /\ ~worker'.aliased
        /\ worker'.uid = worker.uid /\ worker'.of = worker.of
        /\ worker'.status = worker.status
    BY <1>1, <1>2 DEF Workers
  <2> QED BY <2>1 DEF WorkerMoves, Shared, Busy
<1>3. CASE DeliverJob
  BY <1>2, <1>3 DEF DeliverJob, SeeJob, Moves, PodsMove, PodsSame, StoreMoves,
                    CacheMoves, allPods, history
<1>4. CASE RelistJobs
  BY <1>2, <1>4 DEF RelistJobs, SeeJob, Moves, PodsMove, PodsSame, StoreMoves,
                    CacheMoves, allPods, history
<1>5. CASE DeliverPods
  <2>1. PodsDelivered /\ UNCHANGED <<jobs, history, worker>>
    BY <1>5 DEF DeliverPods, SeePods, PodsDelivered
  <2> QED BY <2>1 DEF Moves, PodsMove, StoreMoves, CacheMoves, WorkerMoves, Busy,
                      Shared, OwnInv, jobs, history
<1> QED BY <1>3, <1>4, <1>5 DEF Watches

\* What a sync makes of the job it takes is of that job's own: it sees the pods
\* of that incarnation alone.
LEMMA PlansAreOwn ==
    ASSUME AsksForPods, IInv, OwnInv, cached # NoJob,
           cached.status.phase \in ReconciledPhases, NEW clock \in CreatingClocks,
           NEW plan \in ReconcileTrainingJobs(spec, cached.status, ClaimPods, {},
                                              {Node}, 0, clock)
    PROVE  OfItsOwn(finished, cached.uid, cached.of, plan.job)
<1>1. Own(finished, cached) /\ Witnessed(finished, podCache)
  BY DEF OwnInv, StatusesAreOwn, Witnesses
<1>2. /\ cached.of \in Nat /\ cached.uid \in Nat /\ cached.of <= cached.uid
      /\ NamesSuccess(cached.status) => cached.of \in finished \/ cached.of < cached.uid
  BY <1>1, TypedParts, ResubmissionBounds DEF IInv, Own, OfItsOwn
<1>3. StaysOpen(spec, cached.status)
  <2>1. cached.status \in Jobs(spec)
    BY TypedParts DEF IInv, Statuses
  <2> QED BY <2>1, PhaseFacts DEF StaysOpen, Ended
<1>4. ASSUME NamesSuccess(plan.job), ~NamesSuccess(cached.status)
      PROVE  cached.uid \in finished
  <2>1. \E s \in Present(ClaimPods) : ClaimPods[s].state = "Succeeded"
    BY <1>3, <1>4, SpecIsFull, SuccessHasAPod DEF AsksForPods
  <2>2. PICK s \in Slots(spec) : ClaimPods[s] # NoPod /\ ClaimPods[s].state = "Succeeded"
    BY <2>1 DEF Present, ClaimPods
  <2>3. podCache[s] # NoPod /\ podCache[s].uid = cached.uid /\ podCache[s].state = "Succeeded"
    BY <2>2 DEF ClaimPods
  <2> QED BY <1>1, <2>3 DEF Witnessed
<1>5. cached.of = cached.uid \/ cached.of < cached.uid
  BY <1>2
<1> QED BY <1>2, <1>4, <1>5 DEF OfItsOwn

\* The status of the worker goes over the object it shares with the cache.
LEMMA DecideMoves ==
    ASSUME Typed, NEW w \in Workers, Decide(w),
           OfItsOwn(finished, w.uid, w.of, w.status), Own(finished, cached),
           w.aliased => cached # NoJob /\ cached.uid = w.uid /\ cached.of = w.of
    PROVE  CacheMoves /\ WorkerMoves /\ Shared'
<1>1. worker'.pc = "idle" \/ (w.update /\ worker' = [w EXCEPT !.pc = "delete"])
  BY DEF Decide, Idle
<1>2. worker' = [w EXCEPT !.pc = "delete"] =>
         /\ worker'.pc = "delete" /\ worker'.uid = w.uid
         /\ worker'.of = w.of /\ worker'.status = w.status
  BY DEF Workers
<1>3. CacheMoves
  <2>1. CASE w.aliased
    <3> DEFINE new == [cached EXCEPT !.status = w.status]
    <3>1. cached' = new
      BY <2>1, Zenon DEF Decide
    <3>2. new.uid = cached.uid /\ new.of = cached.of /\ new.status = w.status
      <4>1. cached \in Shown /\ cached # NoJob
        BY <2>1, TypedParts
      <4> QED BY <4>1 DEF Shown, Incarnations
    <3> HIDE DEF new
    <3>3. Own(finished, new)
      BY <2>1, <3>2 DEF Own
    <3> QED BY <3>1, <3>3 DEF CacheMoves
  <2>2. CASE ~w.aliased
    BY <2>2, Zenon DEF Decide, CacheMoves
  <2> QED BY <2>1, <2>2
<1> QED BY <1>1, <1>2, <1>3 DEF WorkerMoves, Shared

\* So does it over the object of that name the lister shows, which is of this
\* incarnation or of a later one.
LEMMA RetryMoves ==
    ASSUME IInv, OwnInv, Updating, NEW b \in BOOLEAN, Retry(b)
    PROVE  CacheMoves /\ WorkerMoves /\ Shared'
<1>1. Typed /\ worker \in Workers /\ Busy /\ worker.pc = "delete"
  BY TypedMeans DEF IInv, WorkerTyped, Updating, Busy
<1>2. /\ worker.uid \in Nat /\ worker.of \in Nat
      /\ OfItsOwn(finished, worker.uid, worker.of, worker.status)
      /\ cached # NoJob => worker.uid <= cached.uid
  BY <1>1, TypedParts, ResubmissionBounds
     DEF IInv, Aged, WorkerInOrder, OwnInv, StatusesAreOwn
<1>3. CacheMoves
  <2>1. CASE cached # NoJob
    <3>1. Own(finished, [cached EXCEPT !.status = worker.status, !.of = worker.of])
      BY <1>1, <1>2, <2>1, TypedParts, OverIsOwn
    <3>2. cached' = [cached EXCEPT !.status = worker.status, !.of = worker.of]
      BY <2>1, Zenon DEF Retry
    <3> QED BY <3>1, <3>2, Zenon DEF CacheMoves
  <2>2. CASE cached = NoJob
    BY <2>2, Zenon DEF Retry, CacheMoves
  <2> QED BY <2>1, <2>2
<1>4. CASE worker.tries + 1 < UpdateTries
  <2> DEFINE newest == IF cached # NoJob THEN b ELSE FALSE
             shared == worker.aliased \/ cached # NoJob
  <2>1. worker' = [worker EXCEPT !.aliased = shared, !.tries = @ + 1, !.fresh = newest]
    BY <1>4 DEF Retry
  <2> HIDE DEF shared, newest
  <2>2. /\ worker'.pc = "delete" /\ worker'.uid = worker.uid /\ worker'.of = worker.of
        /\ worker'.status = worker.status
    BY <1>1, <2>1 DEF Workers
  <2> QED BY <1>1, <1>3, <2>2 DEF WorkerMoves, Shared
<1>5. CASE ~(worker.tries + 1 < UpdateTries)
  <2>1. worker'.pc = "idle"
    BY <1>5 DEF Retry, Abort, Idle
  <2> QED BY <1>3, <2>1 DEF WorkerMoves, Shared
<1> QED BY <1>4, <1>5

\* And over the stored one, if the API server takes it.
LEMMA AcceptedMoves ==
    ASSUME IInv, OwnInv, Accepted
    PROVE  StoreMoves
<1>1. /\ Typed /\ Busy /\ job # NoJob /\ job \in Shown
      /\ StoreJob([job EXCEPT !.status = worker.status, !.of = worker.of])
  BY TypedParts DEF IInv, Accepted, Updating, Busy
<1>2. /\ worker.uid \in Nat /\ worker.of \in Nat /\ worker.of \in 1..MaxJobs
      /\ worker.status \in Statuses
      /\ OfItsOwn(finished, worker.uid, worker.of, worker.status)
      /\ worker.uid <= job.uid
  BY <1>1, TypedParts, ResubmissionBounds
     DEF IInv, Aged, JobsInOrder, WorkerInOrder, OwnInv, StatusesAreOwn
<1>3. [job EXCEPT !.status = worker.status, !.of = worker.of] \in Shown
  BY <1>1, <1>2, OverwriteTyped
<1>4. Own(finished, [job EXCEPT !.status = worker.status, !.of = worker.of])
  BY <1>1, <1>2, OverIsOwn
<1> QED BY <1>1, <1>3, <1>4 DEF StoreMoves

LEMMA WorkMoves ==
    ASSUME AsksForPods, IInv, OwnInv, Worker
    PROVE  Moves
<1>1. /\ Typed /\ worker \in Workers
      /\ Busy => OfItsOwn(finished, worker.uid, worker.of, worker.status)
      /\ Own(finished, cached)
  BY TypedMeans DEF IInv, WorkerTyped, OwnInv, StatusesAreOwn
<1>2. CASE SkipSync
  BY <1>2 DEF SkipSync, jobs, allPods, history, Moves, PodsMove, PodsSame, StoreMoves,
              CacheMoves, WorkerMoves, Busy, Shared, OwnInv
<1>3. CASE SyncHandler
  <2>1. cached # NoJob /\ cached.status.phase \in ReconciledPhases
    BY <1>3 DEF SyncHandler, NeedsSync
  <2>2. \E w \in Workers :
           /\ w.pc = "create" /\ w.uid = cached.uid /\ w.of = cached.of
           /\ \E clock \in CreatingClocks :
                 \E plan \in ReconcileTrainingJobs(spec, cached.status, ClaimPods, {},
                                                   {Node}, 0, clock) :
                    w.status = plan.job
           /\ \/ Decide(w)
              \/ worker' = w /\ UNCHANGED <<cached, delayed>>
    BY <1>1, <1>3, SyncPlans, Zenon
  <2>3. PICK w \in Workers :
           /\ w.pc = "create" /\ w.uid = cached.uid /\ w.of = cached.of
           /\ OfItsOwn(finished, cached.uid, cached.of, w.status)
           /\ \/ Decide(w)
              \/ worker' = w /\ UNCHANGED <<cached, delayed>>
    BY <2>1, <2>2, PlansAreOwn, Zenon
  <2>4. CacheMoves /\ WorkerMoves /\ Shared'
    <3>1. CASE Decide(w)
      BY <1>1, <2>1, <2>3, <3>1, DecideMoves
    <3>2. CASE worker' = w /\ UNCHANGED <<cached, delayed>>
      BY <2>1, <2>3, <3>2 DEF CacheMoves, WorkerMoves, Shared
    <3> QED BY <2>3, <3>1, <3>2
  <2> QED BY <1>3, <2>4 DEF SyncHandler, allPods, history, Moves, PodsMove, PodsSame,
                            StoreMoves
<1>4. CASE Commit
  <2>1. /\ Decide(worker) /\ Busy
        /\ worker.aliased => cached # NoJob /\ cached.uid = worker.uid /\ cached.of = worker.of
        /\ UNCHANGED <<job, jobFeed, allPods>>
    BY <1>4 DEF Commit, Busy, OwnInv, Shared
  <2>2. CacheMoves /\ WorkerMoves /\ Shared'
    BY <1>1, <2>1, DecideMoves
  <2> QED BY <2>1, <2>2 DEF allPods, history, Moves, PodsMove, PodsSame, StoreMoves
<1>5. CASE UpdateAccepted
  <2>1. /\ Accepted /\ worker' = Idle /\ cached' = cached /\ UNCHANGED allPods
    BY <1>5 DEF UpdateAccepted
  <2>2. worker'.pc = "idle"
    BY <2>1 DEF Idle
  <2> QED BY <2>1, <2>2, AcceptedMoves
          DEF allPods, history, Moves, PodsMove, PodsSame, CacheMoves, WorkerMoves, Shared
<1>6. CASE UpdateRejected
  <2>1. /\ Updating /\ Retry(jobFeed = <<>>) /\ (jobFeed = <<>>) \in BOOLEAN
        /\ UNCHANGED <<job, jobFeed, allPods>>
    BY <1>6, Zenon DEF UpdateRejected
  <2>2. CacheMoves /\ WorkerMoves /\ Shared'
    BY <2>1, RetryMoves
  <2> QED BY <2>1, <2>2 DEF allPods, history, Moves, PodsMove, PodsSame, StoreMoves
<1>7. ASSUME NEW s \in Slots(spec), CreatePod(s) PROVE Moves
  <2>1. /\ ChangePod(s, NewPod(worker.uid, worker.gens[s[1]])) /\ Busy
        /\ worker' = [worker EXCEPT !.creates = @ \ {s}]
        /\ UNCHANGED jobs /\ podCache' = podCache /\ finished' = finished
    BY <1>7 DEF CreatePod, MayCreate, Busy
  <2>2. NewPod(worker.uid, worker.gens[s[1]]) \in Pod
    <3>1. worker.uid \in 1..MaxJobs /\ worker.gens \in [Types(spec) -> Nat]
      BY <1>1, <2>1, TypedParts DEF Workers
    <3>2. s[1] \in Types(spec)
      BY DEF Slots, SlotsOf
    <3> QED BY <3>1, <3>2 DEF NewPod, Pod, PodStates
  <2>3. NewPod(worker.uid, worker.gens[s[1]]).state = "Pending"
    BY DEF NewPod
  <2>4. PodMoves
    BY <2>1, <2>2, <2>3 DEF PodMoves
  <2>5. /\ worker'.pc = worker.pc /\ worker'.uid = worker.uid /\ worker'.of = worker.of
        /\ worker'.status = worker.status /\ worker'.aliased = worker.aliased
    BY <1>1, <2>1 DEF Workers
  <2> QED BY <2>1, <2>4, <2>5 DEF jobs, Moves, PodsMove, StoreMoves, CacheMoves,
                                  WorkerMoves, Shared, OwnInv
<1>8. ASSUME NEW s \in Slots(spec), CreatePodFails(s) PROVE Moves
  BY <1>8 DEF CreatePodFails, Abort, Idle, jobs, allPods, history, Moves, PodsMove,
              PodsSame, StoreMoves, CacheMoves, WorkerMoves, Shared
<1>9. ASSUME NEW s \in Slots(spec), DeletePod(s) PROVE Moves
  <2>1. /\ IF pods[s] # NoPod /\ ~pods[s].dying THEN Remove(s)
           ELSE UNCHANGED <<pods, podFeed>>
        /\ Busy /\ worker' = [worker EXCEPT !.deletes = @ \ {s}]
        /\ UNCHANGED jobs /\ podCache' = podCache /\ finished' = finished
    BY <1>9 DEF DeletePod, Busy, history
  <2>2. PodsMove
    <3>1. CASE pods[s] # NoPod /\ ~pods[s].dying
      <4>1. pods[s] \in Pod
        BY <1>1, <3>1, TypedMeans DEF PodsTyped, Views
      <4>2. CASE pods[s].state = "Running"
        <5>1. /\ [pods[s] EXCEPT !.dying = TRUE] \in Pod
              /\ [pods[s] EXCEPT !.dying = TRUE].state = "Running"
          BY <4>1, <4>2, SamePod DEF Pod
        <5>2. ChangePod(s, [pods[s] EXCEPT !.dying = TRUE])
          BY <2>1, <3>1, <4>2 DEF Remove
        <5> QED BY <2>1, <5>1, <5>2 DEF PodsMove, PodMoves
      <4>3. CASE pods[s].state # "Running"
        <5>1. ChangePod(s, NoPod)
          BY <2>1, <3>1, <4>3 DEF Remove
        <5> QED BY <2>1, <5>1 DEF PodsMove, PodMoves
      <4> QED BY <4>2, <4>3
    <3>2. CASE ~(pods[s] # NoPod /\ ~pods[s].dying)
      BY <2>1, <3>2 DEF PodsMove, PodsSame
    <3> QED BY <3>1, <3>2
  <2>3. /\ worker'.pc = worker.pc /\ worker'.uid = worker.uid /\ worker'.of = worker.of
        /\ worker'.status = worker.status /\ worker'.aliased = worker.aliased
    BY <1>1, <2>1 DEF Workers
  <2> QED BY <2>1, <2>2, <2>3 DEF jobs, Moves, StoreMoves, CacheMoves, WorkerMoves,
                                  Shared, OwnInv
<1> QED BY <1>2, <1>3, <1>4, <1>5, <1>6, <1>7, <1>8, <1>9 DEF Worker

LEMMA FaultsMove ==
    ASSUME IInv, OwnInv, DelayIsOver \/ UpdateLost \/ UpdateReplyLost \/ Crash \/ TakeOver
    PROVE  Moves
<1>1. CASE DelayIsOver
  BY <1>1 DEF DelayIsOver, jobs, allPods, history, Moves, PodsMove, PodsSame, StoreMoves,
              CacheMoves, WorkerMoves, Busy, Shared, OwnInv
<1>2. CASE UpdateLost
  <2>1. /\ Updating /\ Retry(jobFeed = <<>>) /\ (jobFeed = <<>>) \in BOOLEAN
        /\ UNCHANGED <<job, jobFeed, allPods>>
    BY <1>2, Zenon DEF UpdateLost
  <2>2. CacheMoves /\ WorkerMoves /\ Shared'
    BY <2>1, RetryMoves
  <2> QED BY <2>1, <2>2 DEF allPods, history, Moves, PodsMove, PodsSame, StoreMoves
<1>3. CASE UpdateReplyLost
  <2>1. Accepted /\ Updating /\ Retry(FALSE) /\ UNCHANGED allPods
    BY <1>3 DEF UpdateReplyLost, Accepted
  <2>2. CacheMoves /\ WorkerMoves /\ Shared'
    BY <2>1, RetryMoves
  <2> QED BY <2>1, <2>2, AcceptedMoves DEF allPods, history, Moves, PodsMove, PodsSame
<1>4. CASE Crash
  BY <1>4 DEF Crash, Idle, history, Moves, PodsMove, PodsListed, StoreMoves, CacheMoves,
              WorkerMoves, Shared
<1>5. CASE TakeOver
  BY <1>5 DEF TakeOver, Idle, allPods, history, Moves, PodsMove, PodsSame, StoreMoves,
              CacheMoves, WorkerMoves, Shared
<1> QED BY <1>1, <1>2, <1>3, <1>4, <1>5

LEMMA OwnInit == Init => OwnInv
<1> SUFFICES ASSUME Init PROVE OwnInv
  OBVIOUS
<1>1. worker.pc = "idle"
  BY DEF Init, Idle
<1>2. \A s \in Slots(spec) : NoPods[s] = NoPod
  BY DEF NoPods
<1>3. Witnesses
  BY <1>2, EmptyFeed DEF Init, Witnesses, Witnessed
<1>4. StatusesAreOwn
  BY <1>1, EmptyFeed DEF Init, StatusesAreOwn, Own, Busy
<1> QED BY <1>1, <1>3, <1>4 DEF OwnInv, Shared

LEMMA NextOwnInv ==
    ASSUME AsksForPods, IInv, OwnInv, [Next]_vars
    PROVE  OwnInv'
<1>1. Moves
  <2>1. CASE UNCHANGED vars
    BY <2>1 DEF vars, jobs, allPods, history, Moves, PodsMove, PodsSame, StoreMoves,
                CacheMoves, WorkerMoves, Busy, Shared, OwnInv
  <2>2. CASE Next
    BY <2>2, ClusterMoves, WatchesMove, WorkMoves, FaultsMove DEF Next
  <2> QED BY <2>1, <2>2
<1> QED BY <1>1, WitnessesStay, StatusesStayOwn DEF OwnInv, IInv, Moves, PodsMove

\* For every specification that asks for a pod of each of its types, whatever
\* the faults, the order of the events and the incarnation a sync or a retry
\* meets under the name: a status that was made for the stored job names success
\* only if a pod of that very job has succeeded (claimPods, pod.go:134-150;
\* updateTrainingJobPhase, status.go:267-305).
THEOREM SuccessOfItsOwn ==
    ASSUME AsksForPods
    PROVE  Spec => []SuccessIsOwn
<1>1. OwnInv /\ IInv => SuccessIsOwn
  <2> SUFFICES ASSUME OwnInv, IInv, job # NoJob, job.of = job.uid,
                      "Succeed" \in job.status.annotations \union {job.status.phase}
               PROVE  job.uid \in finished
    BY DEF SuccessIsOwn
  <2>1. NamesSuccess(job.status)
    BY DEF NamesSuccess
  <2>2. job.uid \in Nat
    BY UidsAreNat DEF IInv
  <2> QED BY <2>1, <2>2 DEF OwnInv, StatusesAreOwn, Own, OfItsOwn
<1>2. IInv /\ OwnInv /\ [Next]_vars => OwnInv'
  BY NextOwnInv
<1> HIDE DEF OwnInv, IInv, SuccessIsOwn
<1> QED BY <1>1, <1>2, OwnInit, Invariance, PTL DEF Spec
==============================================================================
