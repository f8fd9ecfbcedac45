---------------------------- MODULE ThreadpoolProofs ----------------------------
(***************************************************************************)
(* Proofs about the C++ thread pool, for any number of workers, posters    *)
(* and jobs.                                                               *)
(***************************************************************************)
EXTENDS Threadpool, FiniteSetTheorems, SequenceTheorems, TLAPS

------------------------------------------------------------------------------
(* Where the threads are after a step.                                     *)

Places == WorkerPlaces \cup PosterPlaces \cup OwnerPlaces

(* The sets of threads are disjoint.                                       *)
LEMMA ThreadsDisjoint ==
    /\ Workers \subseteq Threads /\ Posters \subseteq Threads /\ Owner \in Threads
    /\ \A w \in Workers, p \in Posters : w # p
    /\ \A w \in Workers : w # Owner
    /\ \A p \in Posters : p # Owner
    /\ NoThread \notin Threads
  BY ThreadsAssumption DEF Threads

(* The others stay where they are, but a sleeper may be woken.             *)
OthersStay(t) ==
    \A u \in Threads \ {t} :
       \/ pc'[u] = pc[u]
       \/ u \in Workers /\ pc[u] = "asleep" /\ pc'[u] = "woken"

Goes(t, place) ==
    /\ pc' \in [Threads -> Places]
    /\ pc'[t] = place
    /\ OthersStay(t)

(* A sleeper is woken if there is one.                                     *)
Wakes == Asleep # {} => \E w \in Workers : pc'[w] = "woken"

(* A step of one thread moves that thread only.                            *)
LEMMA GotoGoes ==
    ASSUME TypeOK, NEW t \in Threads, NEW place \in Places, Goto(t, place)
    PROVE  Goes(t, place)
  BY DEF TypeOK, Goto, Places, Goes, OthersStay

(* notify_one moves the caller and one sleeper, if there is one.           *)
LEMMA NotifyGoes ==
    ASSUME TypeOK, NEW t \in Threads, NEW place \in Places,
           pc[t] # "asleep", Notify(t, place)
    PROVE  Goes(t, place) /\ Wakes
<1>1. CASE Asleep = {} /\ Goto(t, place)
  BY <1>1, GotoGoes DEF Wakes
<1>2. ASSUME NEW w \in Asleep, pc' = [pc EXCEPT ![t] = place, ![w] = "woken"]
      PROVE  Goes(t, place) /\ Wakes
  <2>1. w \in Workers /\ w \in Threads /\ w # t /\ pc[w] = "asleep"
    BY <1>2 DEF Asleep, Threads
  <2>2. pc \in [Threads -> Places] /\ "woken" \in Places
    BY DEF TypeOK, Places, WorkerPlaces
  <2>3. pc' \in [Threads -> Places] /\ pc'[t] = place /\ pc'[w] = "woken"
    BY <1>2, <2>1, <2>2
  <2>4. \A u \in Threads \ {t, w} : pc'[u] = pc[u]
    BY <1>2, <2>1, <2>2
  <2>5. QED
    BY <2>1, <2>3, <2>4 DEF Goes, OthersStay, Wakes
<1>3. QED
  BY <1>1, <1>2 DEF Notify

(* Where each step takes its thread.                                       *)
LEMMA WorkerGoes ==
    ASSUME TypeOK, NEW w \in Workers
    PROVE  /\ ReadBack(w) => Goes(w, "read_front")
           /\ ReadFront(w) => Goes(w, "test_stop") \/ Goes(w, "lock")
           /\ TestStop(w) => Goes(w, "left") \/ Goes(w, "lock")
           /\ Acquire(w) => Goes(w, "inspect")
           /\ InspectJob(w) => Goes(w, "pluck")
           /\ InspectIdle(w) => Goes(w, "wait")
           /\ InspectBreak(w) => Goes(w, "break_notify")
           /\ Wait(w) => Goes(w, "asleep")
           /\ SpuriousWake(w) => Goes(w, "woken")
           /\ Pluck(w) => Goes(w, "notify")
           /\ PluckNotify(w) => Goes(w, "run") /\ Wakes
           /\ BreakNotify(w) => Goes(w, "broke") /\ Wakes
           /\ RunJob(w) => Goes(w, "read_back")
<1>1. w \in Threads /\ WorkerPlaces \subseteq Places
  BY ThreadsDisjoint DEF Places
<1>2. /\ ReadBack(w) => Goes(w, "read_front")
      /\ ReadFront(w) => Goes(w, "test_stop") \/ Goes(w, "lock")
      /\ TestStop(w) => Goes(w, "left") \/ Goes(w, "lock")
  BY <1>1, GotoGoes DEF ReadBack, ReadFront, TestStop, WorkerPlaces
<1>3. /\ Acquire(w) => Goes(w, "inspect")
      /\ InspectJob(w) => Goes(w, "pluck")
      /\ InspectIdle(w) => Goes(w, "wait")
      /\ InspectBreak(w) => Goes(w, "break_notify")
  BY <1>1, GotoGoes DEF Acquire, InspectJob, InspectIdle, InspectBreak, WorkerPlaces
<1>4. /\ Wait(w) => Goes(w, "asleep")
      /\ SpuriousWake(w) => Goes(w, "woken")
      /\ Pluck(w) => Goes(w, "notify")
      /\ RunJob(w) => Goes(w, "read_back")
  BY <1>1, GotoGoes DEF Wait, SpuriousWake, Pluck, RunJob, WorkerPlaces
<1>5. /\ PluckNotify(w) => Goes(w, "run") /\ Wakes
      /\ BreakNotify(w) => Goes(w, "broke") /\ Wakes
  BY <1>1, NotifyGoes DEF PluckNotify, BreakNotify, WorkerPlaces
<1>6. QED
  BY <1>2, <1>3, <1>4, <1>5

LEMMA PosterGoes ==
    ASSUME TypeOK, NEW p \in Posters
    PROVE  /\ \A j \in Jobs : PostLock(p, j) => Goes(p, "push")
           /\ PostPush(p) => Goes(p, "post_notify")
           /\ PostNotify(p) => Goes(p, "post_unlock") /\ Wakes
           /\ PostUnlock(p) => Goes(p, "idle")
<1>1. p \in Threads /\ PosterPlaces \subseteq Places
  BY ThreadsDisjoint DEF Places
<1>2. \A j \in Jobs : PostLock(p, j) => Goes(p, "push")
  BY <1>1, GotoGoes DEF PostLock, PosterPlaces
<1>3. /\ PostPush(p) => Goes(p, "post_notify")
      /\ PostUnlock(p) => Goes(p, "idle")
  BY <1>1, GotoGoes DEF PostPush, PostUnlock, PosterPlaces
<1>4. PostNotify(p) => Goes(p, "post_unlock") /\ Wakes
  BY <1>1, NotifyGoes DEF PostNotify, PosterPlaces
<1>5. QED
  BY <1>2, <1>3, <1>4

LEMMA OwnerGoes ==
    ASSUME TypeOK
    PROVE  /\ JoinStop => Goes(Owner, "join_notify")
           /\ JoinNotify => Goes(Owner, "join_threads") /\ Wakes
           /\ JoinThreads => Goes(Owner, "joined")
           /\ Destroy => Goes(Owner, "destroyed")
<1>1. Owner \in Threads /\ OwnerPlaces \subseteq Places
  BY ThreadsDisjoint DEF Places
<1>2. /\ JoinStop => Goes(Owner, "join_notify")
      /\ JoinThreads => Goes(Owner, "joined")
      /\ Destroy => Goes(Owner, "destroyed")
  BY <1>1, GotoGoes DEF JoinStop, JoinThreads, Destroy, OwnerPlaces
<1>3. JoinNotify => Goes(Owner, "join_threads") /\ Wakes
  BY <1>1, NotifyGoes DEF JoinNotify, OwnerPlaces
<1>4. QED
  BY <1>2, <1>3

------------------------------------------------------------------------------
(* Types, mutual exclusion and what the threads know.                      *)

(* From the lock to the unlock.                                            *)
Inside == {"inspect", "wait", "pluck", "push", "post_notify", "post_unlock"}

(* A thread is inside exactly when it holds the mutex: at most one is.     *)
LockHeld == \A t \in Threads : lock = t <=> pc[t] \in Inside

(* A poster that is about to push has a job.                               *)
PostingOK ==
    \A p \in Posters : pc[p] = "push" => posting[p] \in Jobs \ unposted

(* The flag is set by join, and nobody posts after that.                   *)
OwnerOK ==
    /\ stop <=> pc[Owner] # "up"
    /\ stop => \A p \in Posters : pc[p] = "idle"
    /\ pc[Owner] \in {"joined", "destroyed"} => \A w \in Workers : pc[w] \in {"left", "broke"}

(* What a worker found under the mutex is still so.                        *)
InspectedOK ==
    \A w \in Workers :
        /\ pc[w] = "pluck" => jobs # <<>>
        /\ pc[w] = "wait" => jobs = <<>>
        /\ pc[w] \in {"break_notify", "broke"} => stop /\ jobs = <<>>

Control == TypeOK /\ LockHeld /\ PostingOK /\ OwnerOK /\ InspectedOK

(* The places of TypeOK.                                                   *)
PlacesOK ==
    /\ pc \in [Threads -> Places]
    /\ \A w \in Workers : pc[w] \in WorkerPlaces
    /\ \A p \in Posters : pc[p] \in PosterPlaces
    /\ pc[Owner] \in OwnerPlaces

LEMMA GoesPlaces ==
    ASSUME TypeOK, NEW t \in Threads, NEW place, Goes(t, place),
           \/ t \in Workers /\ place \in WorkerPlaces
           \/ t \in Posters /\ place \in PosterPlaces
           \/ t = Owner /\ place \in OwnerPlaces
    PROVE  PlacesOK'
  BY ThreadsDisjoint DEF TypeOK, PlacesOK, WorkerPlaces, Goes, OthersStay

(* Who holds a job after a step that leaves the held jobs alone.           *)
HoldsOK == \A w \in Workers : held[w] \in Jobs <=> pc[w] \in {"notify", "run"}

LEMMA HoldsFrame ==
    ASSUME TypeOK, NEW t \in Threads, NEW place, Goes(t, place), held' = held,
           t \in Workers => (pc[t] \in {"notify", "run"} <=> place \in {"notify", "run"})
    PROVE  HoldsOK'
  BY ThreadsDisjoint DEF TypeOK, HoldsOK, Goes, OthersStay

LEMMA WorkerType ==
    ASSUME Control, NEW w \in Workers, WorkerStep(w) \/ SpuriousWake(w)
    PROVE  TypeOK'
<1> USE DEF Control
<1>1. w \in Threads
  BY ThreadsDisjoint
<1>2. CASE ReadBack(w) \/ ReadFront(w)
  <2>1. PlacesOK' /\ HoldsOK'
    BY <1>1, <1>2, WorkerGoes, GoesPlaces, HoldsFrame DEF ReadBack, ReadFront, WorkerPlaces
  <2>2. Pushed \subseteq Jobs
    BY DEF Pushed
  <2>3. seen' \in [Workers -> SUBSET Jobs]
    BY <1>2, <2>2 DEF ReadBack, ReadFront, TypeOK
  <2>4. QED
    BY <1>2, <2>1, <2>3 DEF ReadBack, ReadFront, TypeOK, PlacesOK, HoldsOK, Places
<1>3. CASE TestStop(w) \/ InspectJob(w) \/ InspectIdle(w) \/ SpuriousWake(w)
  <2>1. PlacesOK' /\ HoldsOK'
    BY <1>1, <1>3, WorkerGoes, GoesPlaces, HoldsFrame
       DEF TestStop, InspectJob, InspectIdle, SpuriousWake, WorkerPlaces
  <2>2. QED
    BY <1>3, <2>1
       DEF TestStop, InspectJob, InspectIdle, SpuriousWake, TypeOK, PlacesOK, HoldsOK, Places
<1>4. CASE Acquire(w) \/ InspectBreak(w) \/ Wait(w)
  <2>1. PlacesOK' /\ HoldsOK'
    BY <1>1, <1>4, WorkerGoes, GoesPlaces, HoldsFrame
       DEF Acquire, InspectBreak, Wait, WorkerPlaces
  <2>2. QED
    BY <1>1, <1>4, <2>1 DEF Acquire, InspectBreak, Wait, TypeOK, PlacesOK, HoldsOK, Places
<1>5. CASE PluckNotify(w) \/ BreakNotify(w)
  <2>1. PlacesOK' /\ HoldsOK'
    BY <1>1, <1>5, WorkerGoes, GoesPlaces, HoldsFrame
       DEF PluckNotify, BreakNotify, WorkerPlaces
  <2>2. QED
    BY <1>5, <2>1 DEF PluckNotify, BreakNotify, TypeOK, PlacesOK, HoldsOK, Places
<1>6. CASE Pluck(w)
  <2>1. jobs # <<>> /\ jobs \in Seq(Jobs)
    BY <1>6 DEF Pluck, InspectedOK, TypeOK
  <2>2. Head(jobs) \in Jobs /\ Tail(jobs) \in Seq(Jobs)
    BY <2>1
  <2>3. PlacesOK'
    BY <1>1, <1>6, WorkerGoes, GoesPlaces DEF WorkerPlaces
  <2>4. held' = [held EXCEPT ![w] = Head(jobs)] /\ jobs' = Tail(jobs)
    BY <1>6, <2>1 DEF Pluck
  <2>5. held' \in [Workers -> Jobs \cup {Null}]
    BY <2>2, <2>4 DEF TypeOK
  <2>6. HoldsOK'
    <3>1. Goes(w, "notify") /\ held'[w] \in Jobs
      BY <1>6, <2>2, <2>4, WorkerGoes DEF TypeOK
    <3>2. \A v \in Workers \ {w} : held'[v] = held[v]
      BY <2>4 DEF TypeOK
    <3>3. QED
      BY <3>1, <3>2, ThreadsDisjoint DEF HoldsOK, TypeOK, Goes, OthersStay
  <2>7. QED
    BY <1>6, <2>2, <2>3, <2>4, <2>5, <2>6 DEF Pluck, TypeOK, PlacesOK, HoldsOK, Places
<1>7. CASE RunJob(w)
  <2>1. PlacesOK'
    BY <1>1, <1>7, WorkerGoes, GoesPlaces DEF WorkerPlaces
  <2>2. held[w] \in Jobs
    BY <1>7 DEF RunJob, TypeOK
  <2>3. held' \in [Workers -> Jobs \cup {Null}]
    BY <1>7 DEF RunJob, TypeOK
  <2>4. HoldsOK'
    <3>1. Goes(w, "read_back") /\ held'[w] \notin Jobs
      BY <1>7, WorkerGoes, NullAssumption DEF RunJob, TypeOK
    <3>2. \A v \in Workers \ {w} : held'[v] = held[v]
      BY <1>7 DEF RunJob, TypeOK
    <3>3. QED
      BY <3>1, <3>2, ThreadsDisjoint DEF HoldsOK, TypeOK, Goes, OthersStay
  <2>5. QED
    BY <1>7, <2>1, <2>2, <2>3, <2>4 DEF RunJob, TypeOK, PlacesOK, HoldsOK, Places
<1>8. QED
  BY <1>2, <1>3, <1>4, <1>5, <1>6, <1>7 DEF WorkerStep

LEMMA PosterType ==
    ASSUME Control, NEW p \in Posters,
           PosterStep(p) \/ \E j \in unposted : PostLock(p, j)
    PROVE  TypeOK'
<1> USE DEF Control
<1>1. p \in Threads /\ p \notin Workers /\ unposted \subseteq Jobs
  BY ThreadsDisjoint DEF TypeOK
<1>2. ASSUME NEW j \in unposted, PostLock(p, j)
      PROVE  TypeOK'
  <2>1. PlacesOK' /\ HoldsOK'
    BY <1>1, <1>2, PosterGoes, GoesPlaces, HoldsFrame DEF PostLock, PosterPlaces
  <2>2. QED
    BY <1>1, <1>2, <2>1 DEF PostLock, TypeOK, PlacesOK, HoldsOK, Places
<1>3. CASE PostPush(p)
  <2>1. PlacesOK' /\ HoldsOK'
    BY <1>1, <1>3, PosterGoes, GoesPlaces, HoldsFrame DEF PostPush, PosterPlaces
  <2>2. posting[p] \in Jobs
    BY <1>3 DEF PostPush, PostingOK
  <2>3. jobs' \in Seq(Jobs)
    BY <1>3, <2>2 DEF PostPush, TypeOK
  <2>4. posting' \in [Posters -> Jobs \cup {Null}]
    BY <1>3 DEF PostPush, TypeOK
  <2>5. QED
    BY <1>3, <2>1, <2>3, <2>4 DEF PostPush, TypeOK, PlacesOK, HoldsOK, Places
<1>4. CASE PostNotify(p) \/ PostUnlock(p)
  <2>1. PlacesOK' /\ HoldsOK'
    BY <1>1, <1>4, PosterGoes, GoesPlaces, HoldsFrame DEF PostNotify, PostUnlock, PosterPlaces
  <2>2. QED
    BY <1>4, <2>1 DEF PostNotify, PostUnlock, TypeOK, PlacesOK, HoldsOK, Places
<1>5. QED
  BY <1>2, <1>3, <1>4 DEF PosterStep

LEMMA OwnerType ==
    ASSUME Control, JoinStop \/ JoinNotify \/ JoinThreads \/ Destroy
    PROVE  TypeOK'
<1> USE DEF Control
<1>1. Owner \in Threads /\ Owner \notin Workers
  BY ThreadsDisjoint
<1>2. PlacesOK' /\ HoldsOK'
  BY <1>1, OwnerGoes, GoesPlaces, HoldsFrame
     DEF JoinStop, JoinNotify, JoinThreads, Destroy, OwnerPlaces
<1>3. QED
  BY <1>2 DEF JoinStop, JoinNotify, JoinThreads, Destroy, TypeOK, PlacesOK, HoldsOK, Places

(* Thread t enters by taking the free mutex, leaves by releasing it, or    *)
(* stays on its side.                                                      *)
LockMove(t, place) ==
    \/ lock' = lock /\ (pc[t] \in Inside <=> place \in Inside)
    \/ lock = NoThread /\ lock' = t /\ place \in Inside
    \/ lock = t /\ lock' = NoThread /\ place \notin Inside

(* Then the mutex excludes as before.                                      *)
LEMMA LockStep ==
    ASSUME TypeOK, LockHeld, NEW t \in Threads, NEW place, Goes(t, place), LockMove(t, place)
    PROVE  LockHeld'
  BY ThreadsDisjoint DEF LockHeld, LockMove, Goes, OthersStay, Inside

LEMMA WorkerLock ==
    ASSUME Control, NEW w \in Workers, WorkerStep(w) \/ SpuriousWake(w)
    PROVE  LockHeld'
<1> USE DEF Control
<1>1. w \in Threads /\ (lock = w <=> pc[w] \in Inside)
  BY ThreadsDisjoint DEF LockHeld
<1>2. CASE ReadBack(w) \/ ReadFront(w) \/ TestStop(w) \/ SpuriousWake(w)
  BY <1>1, <1>2, WorkerGoes, LockStep
     DEF ReadBack, ReadFront, TestStop, SpuriousWake, LockMove, Inside
<1>3. CASE Acquire(w) \/ InspectJob(w) \/ InspectIdle(w)
  BY <1>1, <1>3, WorkerGoes, LockStep DEF Acquire, InspectJob, InspectIdle, LockMove, Inside
<1>4. CASE InspectBreak(w) \/ Wait(w) \/ Pluck(w)
  BY <1>1, <1>4, WorkerGoes, LockStep DEF InspectBreak, Wait, Pluck, LockMove, Inside
<1>5. CASE PluckNotify(w) \/ BreakNotify(w) \/ RunJob(w)
  BY <1>1, <1>5, WorkerGoes, LockStep DEF PluckNotify, BreakNotify, RunJob, LockMove, Inside
<1>6. QED
  BY <1>2, <1>3, <1>4, <1>5 DEF WorkerStep

LEMMA PosterLock ==
    ASSUME Control, NEW p \in Posters,
           PosterStep(p) \/ \E j \in unposted : PostLock(p, j)
    PROVE  LockHeld'
<1> USE DEF Control
<1>1. p \in Threads /\ (lock = p <=> pc[p] \in Inside) /\ unposted \subseteq Jobs
  BY ThreadsDisjoint DEF LockHeld, TypeOK
<1>2. CASE \E j \in unposted : PostLock(p, j)
  BY <1>1, <1>2, PosterGoes, LockStep DEF PostLock, LockMove, Inside
<1>3. CASE PosterStep(p)
  BY <1>1, <1>3, PosterGoes, LockStep
     DEF PosterStep, PostPush, PostNotify, PostUnlock, LockMove, Inside
<1>4. QED
  BY <1>2, <1>3

LEMMA OwnerLock ==
    ASSUME Control, JoinStop \/ JoinNotify \/ JoinThreads \/ Destroy
    PROVE  LockHeld'
<1> USE DEF Control
<1>1. Owner \in Threads
  BY ThreadsDisjoint
<1>2. QED
  BY <1>1, OwnerGoes, LockStep
     DEF JoinStop, JoinNotify, JoinThreads, Destroy, LockMove, Inside

LEMMA WorkerControl ==
    ASSUME Control, NEW w \in Workers, WorkerStep(w) \/ SpuriousWake(w)
    PROVE  PostingOK' /\ OwnerOK' /\ InspectedOK'
<1> USE DEF Control
<1>1. /\ w \in Threads /\ pc[w] \notin {"left", "broke"}
      /\ \E place \in WorkerPlaces : Goes(w, place)
  BY ThreadsDisjoint, WorkerGoes
     DEF WorkerStep, ReadBack, ReadFront, TestStop, Acquire, InspectJob, InspectIdle,
         InspectBreak, Wait, SpuriousWake, Pluck, PluckNotify, BreakNotify, RunJob, WorkerPlaces
<1>2. UNCHANGED <<stop, posting, unposted>>
  BY DEF WorkerStep, ReadBack, ReadFront, TestStop, Acquire, InspectJob, InspectIdle,
         InspectBreak, Wait, SpuriousWake, Pluck, PluckNotify, BreakNotify, RunJob
<1>3. PostingOK' /\ OwnerOK'
  <2>1. \A p \in Posters : pc'[p] = pc[p]
    BY <1>1, ThreadsDisjoint DEF Goes, OthersStay
  <2>2. pc'[Owner] = pc[Owner]
    BY <1>1, ThreadsDisjoint DEF Goes, OthersStay
  <2>3. pc[Owner] \notin {"joined", "destroyed"}
    BY <1>1 DEF OwnerOK
  <2>4. QED
    BY <1>2, <2>1, <2>2, <2>3 DEF PostingOK, OwnerOK
<1>4. ASSUME NEW v \in Workers, v # w
      PROVE  /\ pc'[v] = "pluck" => jobs' # <<>>
             /\ pc'[v] = "wait" => jobs' = <<>>
             /\ pc'[v] \in {"break_notify", "broke"} => stop' /\ jobs' = <<>>
  <2>1. pc'[v] = pc[v] \/ pc'[v] = "woken"
    BY <1>1, <1>4, ThreadsDisjoint DEF Goes, OthersStay
  <2>2. CASE jobs' = jobs
    BY <1>2, <2>1, <2>2 DEF InspectedOK
  <2>3. CASE Pluck(w)
    <3>1. pc[v] \notin Inside
      <4>1. lock = w /\ v \in Threads
        BY <1>1, <2>3, ThreadsDisjoint DEF LockHeld, Pluck, Inside
      <4>2. QED
        BY <1>4, <4>1 DEF LockHeld
    <3>2. jobs = <<>> => jobs' = <<>>
      BY <2>3 DEF Pluck
    <3>3. QED
      BY <1>2, <2>1, <3>1, <3>2 DEF InspectedOK, Inside
  <2>4. QED
    BY <2>2, <2>3
       DEF WorkerStep, ReadBack, ReadFront, TestStop, Acquire, InspectJob, InspectIdle,
           InspectBreak, Wait, SpuriousWake, PluckNotify, BreakNotify, RunJob
<1>5. /\ pc'[w] = "pluck" => jobs' # <<>>
      /\ pc'[w] = "wait" => jobs' = <<>>
      /\ pc'[w] \in {"break_notify", "broke"} => stop' /\ jobs' = <<>>
  <2>1. CASE InspectJob(w) \/ InspectIdle(w) \/ InspectBreak(w)
    BY <2>1, WorkerGoes DEF InspectJob, InspectIdle, InspectBreak, Goes
  <2>2. CASE BreakNotify(w)
    BY <2>2, WorkerGoes DEF BreakNotify, Goes, InspectedOK
  <2>3. CASE ~(InspectJob(w) \/ InspectIdle(w) \/ InspectBreak(w) \/ BreakNotify(w))
    BY <2>3, WorkerGoes DEF WorkerStep, Goes
  <2>4. QED
    BY <2>1, <2>2, <2>3
<1>6. QED
  BY <1>3, <1>4, <1>5 DEF InspectedOK

LEMMA PosterControl ==
    ASSUME Control, NEW p \in Posters,
           PosterStep(p) \/ \E j \in unposted : PostLock(p, j)
    PROVE  PostingOK' /\ OwnerOK' /\ InspectedOK'
<1> USE DEF Control
<1>1. /\ p \in Threads /\ p \notin Workers /\ unposted \subseteq Jobs
      /\ \E place \in PosterPlaces : Goes(p, place)
  BY ThreadsDisjoint, PosterGoes
     DEF TypeOK, PosterStep, PosterPlaces
<1>2. OwnerOK'
  <2>1. pc'[Owner] = pc[Owner] /\ stop' = stop
    BY <1>1, ThreadsDisjoint DEF Goes, OthersStay, PosterStep, PostLock, PostPush, PostNotify, PostUnlock
  <2>2. pc[Owner] = "up"
    BY DEF OwnerOK, PosterStep, PostLock, PostPush, PostNotify, PostUnlock
  <2>3. QED
    BY <2>1, <2>2 DEF OwnerOK
<1>3. PostingOK'
  <2>1. ASSUME NEW j \in unposted, PostLock(p, j)
        PROVE  PostingOK'
    <3>1. Goes(p, "push") /\ lock = NoThread /\ posting'[p] = j
      BY <1>1, <2>1, PosterGoes DEF PostLock, TypeOK
    <3>2. \A q \in Posters \ {p} : pc'[q] # "push"
      <4>1. \A q \in Posters : pc[q] # "push"
        BY <3>1, ThreadsDisjoint DEF LockHeld, Inside
      <4>2. QED
        BY <3>1, <4>1, ThreadsDisjoint DEF Goes, OthersStay
    <3>3. posting'[p] \in Jobs \ unposted'
      BY <1>1, <2>1, <3>1 DEF PostLock
    <3>4. QED
      BY <3>2, <3>3 DEF PostingOK
  <2>2. CASE PosterStep(p)
    <3>1. pc'[p] # "push" /\ unposted' = unposted
      BY <2>2, PosterGoes DEF PosterStep, PostPush, PostNotify, PostUnlock, Goes
    <3>2. \A q \in Posters \ {p} : pc'[q] = pc[q] /\ posting'[q] = posting[q]
      BY <1>1, <2>2, ThreadsDisjoint
         DEF Goes, OthersStay, TypeOK, PosterStep, PostPush, PostNotify, PostUnlock
    <3>3. QED
      BY <3>1, <3>2 DEF PostingOK
  <2>3. QED
    BY <2>1, <2>2
<1>4. InspectedOK'
  <2>1. \A w \in Workers : pc'[w] = pc[w] \/ pc'[w] = "woken"
    BY <1>1, ThreadsDisjoint DEF Goes, OthersStay
  <2>2. CASE jobs' = jobs /\ stop' = stop
    BY <2>1, <2>2 DEF InspectedOK
  <2>3. CASE PostPush(p)
    <3>1. \A w \in Workers : pc[w] # "wait"
      BY <1>1, <2>3, ThreadsDisjoint DEF PostPush, LockHeld, Inside
    <3>2. ~stop
      BY <2>3 DEF PostPush, OwnerOK
    <3>3. jobs' # <<>>
      BY <2>3 DEF PostPush, TypeOK
    <3>4. QED
      BY <2>1, <3>1, <3>2, <3>3 DEF InspectedOK
  <2>4. QED
    BY <2>2, <2>3 DEF PosterStep, PostLock, PostNotify, PostUnlock
<1>5. QED
  BY <1>2, <1>3, <1>4

LEMMA OwnerControl ==
    ASSUME Control, JoinStop \/ JoinNotify \/ JoinThreads \/ Destroy
    PROVE  PostingOK' /\ OwnerOK' /\ InspectedOK'
<1> USE DEF Control
<1>1. Owner \in Threads /\ UNCHANGED <<jobs, posting, unposted>>
  BY ThreadsDisjoint DEF JoinStop, JoinNotify, JoinThreads, Destroy
<1>2. \E place \in OwnerPlaces : Goes(Owner, place) /\ place # "up"
  BY OwnerGoes DEF OwnerPlaces
<1>3. /\ \A p \in Posters : pc'[p] = pc[p]
      /\ \A w \in Workers : pc'[w] = pc[w] \/ (pc[w] = "asleep" /\ pc'[w] = "woken")
      /\ pc'[Owner] # "up"
  BY <1>2, ThreadsDisjoint DEF Goes, OthersStay
<1>4. stop' /\ (stop \/ JoinStop)
  BY DEF JoinStop, JoinNotify, JoinThreads, Destroy, OwnerOK
<1>5. OwnerOK'
  <2>1. \A p \in Posters : pc'[p] = "idle"
    BY <1>3, <1>4 DEF OwnerOK, JoinStop
  <2>2. pc'[Owner] \in {"joined", "destroyed"} =>
            \A w \in Workers : pc[w] \in {"left", "broke"}
    BY OwnerGoes DEF Goes, JoinThreads, Destroy, OwnerOK
  <2>3. QED
    BY <1>3, <1>4, <2>1, <2>2 DEF OwnerOK
<1>6. PostingOK' /\ InspectedOK'
  BY <1>1, <1>3, <1>4 DEF PostingOK, InspectedOK
<1>7. QED
  BY <1>5, <1>6

LEMMA InitControl == Init => Control
<1> SUFFICES ASSUME Init
             PROVE  Control
  OBVIOUS
<1>1. /\ \A w \in Workers : pc[w] = "read_back"
      /\ \A p \in Posters : pc[p] = "idle"
      /\ pc[Owner] = "up"
      /\ \A t \in Threads : pc[t] \in {"read_back", "idle", "up"}
  BY ThreadsDisjoint DEF Init
<1>2. TypeOK
  <2>1. pc \in [Threads -> Places]
    BY <1>1 DEF Init, Places, WorkerPlaces, PosterPlaces, OwnerPlaces
  <2>2. /\ \A w \in Workers : pc[w] \in WorkerPlaces
        /\ \A p \in Posters : pc[p] \in PosterPlaces
        /\ pc[Owner] \in OwnerPlaces
    BY <1>1 DEF WorkerPlaces, PosterPlaces, OwnerPlaces
  <2>3. /\ seen \in [Workers -> SUBSET Jobs]
        /\ held \in [Workers -> Jobs \cup {Null}]
        /\ posting \in [Posters -> Jobs \cup {Null}]
    BY DEF Init
  <2>4. \A w \in Workers : held[w] \in Jobs <=> pc[w] \in {"notify", "run"}
    BY <1>1, NullAssumption DEF Init
  <2>5. /\ stop \in BOOLEAN /\ lock \in Threads \cup {NoThread}
        /\ unposted \subseteq Jobs /\ finished \subseteq Jobs
    BY DEF Init
  <2>6. jobs \in Seq(Jobs)
    BY DEF Init
  <2>7. QED
    BY <2>1, <2>2, <2>3, <2>4, <2>5, <2>6 DEF TypeOK, Places
<1>3. LockHeld
  BY <1>1, ThreadsDisjoint DEF Init, LockHeld, Inside
<1>4. PostingOK /\ OwnerOK /\ InspectedOK
  BY <1>1 DEF Init, PostingOK, OwnerOK, InspectedOK
<1>5. QED
  BY <1>2, <1>3, <1>4 DEF Control

LEMMA NextControl == Control /\ [Next]_vars => Control'
<1> SUFFICES ASSUME Control, [Next]_vars
             PROVE  Control'
  OBVIOUS
<1>1. ASSUME NEW w \in Workers, WorkerStep(w) \/ SpuriousWake(w)
      PROVE  Control'
  BY <1>1, WorkerType, WorkerLock, WorkerControl DEF Control
<1>2. ASSUME NEW p \in Posters, PosterStep(p) \/ \E j \in unposted : PostLock(p, j)
      PROVE  Control'
  BY <1>2, PosterType, PosterLock, PosterControl DEF Control
<1>3. CASE JoinStop \/ JoinNotify \/ JoinThreads \/ Destroy
  BY <1>3, OwnerType, OwnerLock, OwnerControl DEF Control
<1>4. CASE UNCHANGED vars
  BY <1>4 DEF vars, Control, TypeOK, LockHeld, PostingOK, OwnerOK, InspectedOK
<1>5. QED
  BY <1>1, <1>2, <1>3, <1>4 DEF Next

------------------------------------------------------------------------------
(* No job is left to sleepers.                                             *)

(* The threads that will see to the queue before a sleeper has to: woken,  *)
(* holding the mutex with work ahead, or about to notify for a job.        *)
Minding ==
    \/ \E w \in Workers : pc[w] \in {"woken", "inspect", "pluck", "notify"}
    \/ \E p \in Posters : pc[p] = "post_notify"

Minded == jobs # <<>> /\ Asleep # {} => Minding

(* A step of t keeps the queue minded if it empties the queue, wakes a     *)
(* sleeper, takes t to a place that minds it, or is made from a place      *)
(* that does not, without a job being added or t falling asleep.           *)
LEMMA MindedStep ==
    ASSUME TypeOK, Minded, NEW t \in Threads, NEW place, Goes(t, place),
           \/ jobs' = <<>>
           \/ place # "asleep" /\ Wakes
           \/ t \in Workers /\ place \in {"woken", "inspect", "pluck", "notify"}
           \/ t \in Posters /\ place = "post_notify"
           \/ /\ jobs' = jobs /\ place # "asleep"
              /\ pc[t] \notin {"woken", "inspect", "pluck", "notify", "post_notify"}
    PROVE  Minded'
<1>1. SUFFICES ASSUME jobs' # <<>>, Asleep' # {}, place # "asleep"
               PROVE  Minding'
  BY DEF Minded, Minding
<1>2. PICK v \in Workers : pc'[v] = "asleep"
  BY <1>1 DEF Asleep
<1>3. v # t /\ pc[v] = "asleep" /\ Asleep # {}
  BY <1>1, <1>2, ThreadsDisjoint DEF Goes, OthersStay, Asleep
<1>4. CASE Wakes
  BY <1>3, <1>4 DEF Wakes, Minding
<1>5. CASE \/ t \in Workers /\ place \in {"woken", "inspect", "pluck", "notify"}
           \/ t \in Posters /\ place = "post_notify"
  BY <1>5 DEF Goes, Minding
<1>6. CASE /\ jobs' = jobs
           /\ pc[t] \notin {"woken", "inspect", "pluck", "notify", "post_notify"}
  <2>1. Minding
    BY <1>1, <1>3, <1>6 DEF Minded
  <2>2. CASE \E w \in Workers : pc[w] \in {"woken", "inspect", "pluck", "notify"}
    <3>1. PICK w \in Workers : pc[w] \in {"woken", "inspect", "pluck", "notify"}
      BY <2>2
    <3>2. pc'[w] = pc[w]
      BY <1>6, <3>1, ThreadsDisjoint DEF Goes, OthersStay
    <3>3. QED
      BY <3>1, <3>2 DEF Minding
  <2>3. CASE \E p \in Posters : pc[p] = "post_notify"
    <3>1. PICK p \in Posters : pc[p] = "post_notify"
      BY <2>3
    <3>2. pc'[p] = pc[p]
      BY <1>6, <3>1, ThreadsDisjoint DEF Goes, OthersStay
    <3>3. QED
      BY <3>1, <3>2 DEF Minding
  <2>4. QED
    BY <2>1, <2>2, <2>3 DEF Minding
<1>7. QED
  BY <1>1, <1>4, <1>5, <1>6

LEMMA NextMinded == Control /\ Minded /\ [Next]_vars => Minded'
<1> SUFFICES ASSUME Control, Minded, [Next]_vars
             PROVE  Minded'
  OBVIOUS
<1>1. TypeOK /\ unposted \subseteq Jobs
  BY DEF Control, TypeOK
<1>2. ASSUME NEW w \in Workers, WorkerStep(w) \/ SpuriousWake(w)
      PROVE  Minded'
  <2>1. w \in Threads
    BY ThreadsDisjoint
  <2>2. CASE ReadBack(w) \/ ReadFront(w) \/ TestStop(w) \/ RunJob(w)
    BY <1>1, <2>1, <2>2, WorkerGoes, MindedStep DEF ReadBack, ReadFront, TestStop, RunJob
  <2>3. CASE SpuriousWake(w) \/ Acquire(w) \/ InspectJob(w) \/ Pluck(w)
    BY <1>1, <2>1, <2>3, WorkerGoes, MindedStep
  <2>4. CASE InspectIdle(w) \/ InspectBreak(w) \/ Wait(w)
    <3>1. jobs' = <<>>
      BY <2>4 DEF InspectIdle, InspectBreak, Wait, Control, InspectedOK
    <3>2. QED
      BY <1>1, <2>1, <2>4, <3>1, WorkerGoes, MindedStep
  <2>5. CASE PluckNotify(w) \/ BreakNotify(w)
    BY <1>1, <2>1, <2>5, WorkerGoes, MindedStep
  <2>6. QED
    BY <1>2, <2>2, <2>3, <2>4, <2>5 DEF WorkerStep
<1>3. ASSUME NEW p \in Posters, PosterStep(p) \/ \E j \in unposted : PostLock(p, j)
      PROVE  Minded'
  <2>1. p \in Threads
    BY ThreadsDisjoint
  <2>2. CASE PostPush(p) \/ PostNotify(p)
    BY <1>1, <2>1, <2>2, PosterGoes, MindedStep
  <2>3. CASE PostUnlock(p) \/ \E j \in unposted : PostLock(p, j)
    BY <1>1, <2>1, <2>3, PosterGoes, MindedStep DEF PostUnlock, PostLock
  <2>4. QED
    BY <1>3, <2>2, <2>3 DEF PosterStep
<1>4. CASE JoinStop \/ JoinNotify \/ JoinThreads \/ Destroy
  BY <1>1, <1>4, ThreadsDisjoint, OwnerGoes, MindedStep
     DEF JoinStop, JoinNotify, JoinThreads, Destroy
<1>5. CASE UNCHANGED vars
  BY <1>5 DEF vars, Minded, Minding, Asleep
<1>6. QED
  BY <1>2, <1>3, <1>4, <1>5 DEF Next

(* With the mutex free, those that mind the queue are outside.             *)
LEMMA MindedIsEnough == Control /\ Minded => WorkNeverStranded
<1> SUFFICES ASSUME Control, Minded, lock = NoThread, jobs # <<>>, Asleep # {}
             PROVE  \E w \in Workers : pc[w] \in {"woken", "notify"}
  BY DEF WorkNeverStranded
<1>1. Minding
  BY DEF Minded
<1>2. \A t \in Threads : pc[t] \notin Inside
  BY ThreadsDisjoint DEF Control, LockHeld
<1>3. QED
  BY <1>1, <1>2, ThreadsDisjoint DEF Minding, Inside

------------------------------------------------------------------------------
(* Every job is in one place.                                              *)

Pushing == {p \in Posters : pc[p] = "push"}
InPush == {posting[p] : p \in Pushing}

Distinct ==
    /\ \A i, k \in DOMAIN jobs : jobs[i] = jobs[k] => i = k
    /\ \A v, w \in Workers : held[v] \in Jobs /\ held[v] = held[w] => v = w

Disjoint ==
    /\ unposted \cap (InPush \cup Queued \cup RunningJobs \cup finished) = {}
    /\ InPush \cap (Queued \cup RunningJobs \cup finished) = {}
    /\ Queued \cap (RunningJobs \cup finished) = {}
    /\ RunningJobs \cap finished = {}

Complete == Jobs = unposted \cup InPush \cup Queued \cup RunningJobs \cup finished

Conserved == Distinct /\ Disjoint /\ Complete

LEMMA RunningIs ==
    ASSUME TypeOK, TypeOK'
    PROVE  /\ RunningJobs = {j \in Jobs : \E w \in Workers : held[w] = j}
           /\ RunningJobs' = {j \in Jobs : \E w \in Workers : held'[w] = j}
<1>1. RunningJobs = {j \in Jobs : \E w \in Workers : held[w] = j}
  BY DEF TypeOK, RunningJobs
<1>2. RunningJobs' = {j \in Jobs : \E w \in Workers : held'[w] = j}
  BY DEF TypeOK, RunningJobs
<1>3. QED
  BY <1>1, <1>2

(* One poster at most is between the lock and the push.                    *)
LEMMA PushingAlone ==
    ASSUME Control, NEW p \in Posters, lock \in {NoThread, p}
    PROVE  Pushing \subseteq {p}
  BY ThreadsDisjoint DEF Control, LockHeld, Inside, Pushing

(* Taking the head and adding at the end.                                  *)
LEMMA QueueTail ==
    ASSUME NEW s \in Seq(Jobs), s # <<>>,
           \A i, k \in DOMAIN s : s[i] = s[k] => i = k
    PROVE  LET t == Tail(s)
           IN  /\ \A i, k \in DOMAIN t : t[i] = t[k] => i = k
               /\ {t[i] : i \in DOMAIN t} = {s[i] : i \in DOMAIN s} \ {Head(s)}
               /\ Head(s) \in {s[i] : i \in DOMAIN s}
<1> DEFINE t == Tail(s)
<1>1. /\ DOMAIN s = 1..Len(s) /\ Len(s) \in Nat /\ Len(s) > 0
      /\ Head(s) = s[1]
      /\ DOMAIN t = 1..(Len(s) - 1)
      /\ \A i \in DOMAIN t : t[i] = s[i + 1] /\ i + 1 \in DOMAIN s
  OBVIOUS
<1> HIDE DEF t
<1>2. \A i, k \in DOMAIN t : t[i] = t[k] => i = k
  BY <1>1
<1>3. ASSUME NEW j
      PROVE  j \in {t[i] : i \in DOMAIN t} <=> j \in {s[i] : i \in DOMAIN s} \ {Head(s)}
  <2>1. ASSUME NEW i \in DOMAIN t, j = t[i]
        PROVE  j \in {s[k] : k \in DOMAIN s} \ {Head(s)}
    BY <1>1, <2>1
  <2>2. ASSUME NEW k \in DOMAIN s, j = s[k], j # Head(s)
        PROVE  j \in {t[i] : i \in DOMAIN t}
    <3>1. k - 1 \in DOMAIN t /\ (k - 1) + 1 = k
      BY <1>1, <2>2
    <3>2. t[k - 1] = j
      BY <1>1, <2>2, <3>1
    <3>3. QED
      BY <3>1, <3>2
  <2>3. QED
    BY <2>1, <2>2
<1>4. Head(s) \in {s[i] : i \in DOMAIN s}
  BY <1>1
<1>5. QED
  BY <1>2, <1>3, <1>4 DEF t

LEMMA QueueAppend ==
    ASSUME NEW s \in Seq(Jobs), NEW j \in Jobs, j \notin {s[i] : i \in DOMAIN s},
           \A i, k \in DOMAIN s : s[i] = s[k] => i = k
    PROVE  LET t == Append(s, j)
           IN  /\ \A i, k \in DOMAIN t : t[i] = t[k] => i = k
               /\ {t[i] : i \in DOMAIN t} = {s[i] : i \in DOMAIN s} \cup {j}
<1> DEFINE t == Append(s, j)
<1>1. /\ DOMAIN s = 1..Len(s) /\ Len(s) \in Nat
      /\ DOMAIN t = 1..(Len(s) + 1)
      /\ t[Len(s) + 1] = j
      /\ \A i \in DOMAIN s : t[i] = s[i]
  OBVIOUS
<1> HIDE DEF t
<1>2. DOMAIN t = DOMAIN s \cup {Len(s) + 1}
  BY <1>1
<1>3. \A i, k \in DOMAIN t : t[i] = t[k] => i = k
  BY <1>1, <1>2
<1>4. {t[i] : i \in DOMAIN t} = {s[i] : i \in DOMAIN s} \cup {j}
  BY <1>1, <1>2
<1>5. QED
  BY <1>3, <1>4 DEF t

(* The step that does not pass a job on.                                   *)
LEMMA ConservedFrame ==
    ASSUME Conserved, UNCHANGED <<jobs, held, posting, unposted, finished>>,
           Pushing' = Pushing, TypeOK, TypeOK'
    PROVE  Conserved'
<1>1. RunningJobs' = RunningJobs
  BY RunningIs
<1>2. InPush' = InPush /\ Queued' = Queued
  BY DEF InPush, Queued
<1>3. QED
  BY <1>1, <1>2 DEF Conserved, Distinct, Disjoint, Complete

(* The steps that do.                                                      *)
LEMMA PostLockMoves ==
    ASSUME Control, TypeOK', NEW p \in Posters, NEW j \in unposted, PostLock(p, j)
    PROVE  /\ unposted' = unposted \ {j} /\ j \notin unposted'
           /\ InPush = {} /\ InPush' = {j}
           /\ UNCHANGED <<jobs, held, Queued, RunningJobs, finished>>
<1>1. TypeOK /\ p \in Threads /\ j \in Jobs
  BY ThreadsDisjoint DEF Control, TypeOK
<1>2. Goes(p, "push")
  BY <1>1, PosterGoes
<1>3. Pushing = {} /\ Pushing' = {p}
  <2>1. Pushing \subseteq {p} /\ p \notin Pushing
    BY PushingAlone DEF PostLock, Pushing
  <2>2. \A q \in Posters \ {p} : pc'[q] = pc[q]
    BY <1>2, ThreadsDisjoint DEF Goes, OthersStay
  <2>3. QED
    BY <1>2, <2>1, <2>2 DEF Pushing, Goes
<1>4. posting'[p] = j
  BY <1>1 DEF PostLock, TypeOK
<1>5. InPush = {} /\ InPush' = {j}
  BY <1>3, <1>4 DEF InPush
<1>6. UNCHANGED <<jobs, held, Queued, RunningJobs, finished>>
  BY <1>1, RunningIs DEF PostLock, Queued
<1>7. QED
  BY <1>5, <1>6 DEF PostLock

LEMMA PostPushMoves ==
    ASSUME Control, TypeOK', Conserved, NEW p \in Posters, PostPush(p)
    PROVE  /\ posting[p] \in Jobs /\ jobs' = Append(jobs, posting[p])
           /\ InPush = {posting[p]} /\ InPush' = {}
           /\ Queued' = Queued \cup {posting[p]} /\ Distinct'
           /\ UNCHANGED <<unposted, RunningJobs, finished>>
<1>1. TypeOK /\ p \in Threads /\ posting[p] \in Jobs /\ jobs' = Append(jobs, posting[p])
  BY ThreadsDisjoint DEF Control, TypeOK, PostingOK, PostPush
<1>2. Pushing = {p} /\ Pushing' = {}
  <2>1. Goes(p, "post_notify") /\ lock = p /\ p \in Pushing
    BY <1>1, PosterGoes DEF PostPush, Control, LockHeld, Inside, Pushing
  <2>2. Pushing \subseteq {p}
    BY <2>1, PushingAlone
  <2>3. \A q \in Posters \ {p} : pc'[q] = pc[q]
    BY <2>1, ThreadsDisjoint DEF Goes, OthersStay
  <2>4. QED
    BY <2>1, <2>2, <2>3 DEF Pushing, Goes
<1>3. InPush = {posting[p]} /\ InPush' = {}
  BY <1>2 DEF InPush
<1>4. posting[p] \notin Queued /\ jobs \in Seq(Jobs)
  BY <1>1, <1>3 DEF Conserved, Disjoint, TypeOK
<1>5. Queued' = Queued \cup {posting[p]} /\ Distinct'
  BY <1>1, <1>4, QueueAppend DEF Conserved, Distinct, Queued, PostPush
<1>6. UNCHANGED <<unposted, RunningJobs, finished>>
  BY <1>1, RunningIs DEF PostPush
<1>7. QED
  BY <1>1, <1>3, <1>5, <1>6

LEMMA PluckMoves ==
    ASSUME Control, TypeOK', Conserved, NEW w \in Workers, Pluck(w)
    PROVE  /\ jobs # <<>> /\ jobs' = Tail(jobs)
           /\ Head(jobs) \in Queued /\ Queued' = Queued \ {Head(jobs)}
           /\ RunningJobs' = RunningJobs \cup {Head(jobs)} /\ Distinct'
           /\ UNCHANGED <<unposted, InPush, finished>>
<1>1. TypeOK /\ w \in Threads /\ jobs # <<>> /\ jobs \in Seq(Jobs)
  BY ThreadsDisjoint DEF Control, TypeOK, InspectedOK, Pluck
<1>2. jobs' = Tail(jobs) /\ held' = [held EXCEPT ![w] = Head(jobs)]
  BY <1>1 DEF Pluck
<1>3. /\ Head(jobs) \in Queued /\ Queued' = Queued \ {Head(jobs)}
      /\ \A i, k \in DOMAIN jobs' : jobs'[i] = jobs'[k] => i = k
  <2>1. \A i, k \in DOMAIN jobs : jobs[i] = jobs[k] => i = k
    BY DEF Conserved, Distinct
  <2>2. LET t == Tail(jobs)
        IN  /\ \A i, k \in DOMAIN t : t[i] = t[k] => i = k
            /\ {t[i] : i \in DOMAIN t} = {jobs[i] : i \in DOMAIN jobs} \ {Head(jobs)}
            /\ Head(jobs) \in {jobs[i] : i \in DOMAIN jobs}
    BY <1>1, <2>1, QueueTail
  <2>3. QED
    BY <1>2, <2>2 DEF Queued
<1>4. held[w] \notin Jobs /\ Head(jobs) \in Jobs
  BY <1>1 DEF TypeOK, Pluck
<1>5. /\ held'[w] = Head(jobs)
      /\ \A v \in Workers \ {w} : held'[v] = held[v]
  BY <1>2 DEF TypeOK, Control
<1>6. RunningJobs' = RunningJobs \cup {Head(jobs)}
  <2>1. /\ RunningJobs = {j \in Jobs : \E v \in Workers : held[v] = j}
        /\ RunningJobs' = {j \in Jobs : \E v \in Workers : held'[v] = j}
    BY <1>1, RunningIs
  <2>2. QED
    BY <1>4, <1>5, <2>1
<1>7. Distinct'
  <2>1. \A v \in Workers : held[v] # Head(jobs)
    <3>1. Head(jobs) \notin RunningJobs
      BY <1>3 DEF Conserved, Disjoint
    <3>2. QED
      BY <1>1, <1>4, <3>1, RunningIs
  <2>2. QED
    BY <1>3, <1>5, <2>1 DEF Conserved, Distinct
<1>8. InPush' = InPush
  <2>1. Pushing' = Pushing
    BY <1>1, WorkerGoes, ThreadsDisjoint DEF Goes, OthersStay, Pushing
  <2>2. QED
    BY <2>1 DEF InPush, Pluck
<1>9. QED
  BY <1>1, <1>2, <1>3, <1>6, <1>7, <1>8 DEF Pluck

LEMMA RunJobMoves ==
    ASSUME Control, TypeOK', Conserved, NEW w \in Workers, RunJob(w)
    PROVE  /\ held[w] \in RunningJobs /\ held[w] \in Jobs
           /\ RunningJobs' = RunningJobs \ {held[w]}
           /\ finished' = finished \cup {held[w]} /\ Distinct'
           /\ UNCHANGED <<unposted, InPush, jobs, Queued>>
<1>1. TypeOK /\ w \in Threads /\ held[w] \in Jobs
  BY ThreadsDisjoint DEF Control, TypeOK, RunJob
<1>2. /\ held'[w] = Null
      /\ \A v \in Workers \ {w} : held'[v] = held[v]
  BY <1>1 DEF TypeOK, RunJob
<1>3. /\ RunningJobs = {j \in Jobs : \E v \in Workers : held[v] = j}
      /\ RunningJobs' = {j \in Jobs : \E v \in Workers : held'[v] = j}
  BY <1>1, RunningIs
<1>4. \A v \in Workers \ {w} : held[v] # held[w]
  BY <1>1 DEF Conserved, Distinct
<1>5. RunningJobs' = RunningJobs \ {held[w]}
  BY <1>1, <1>2, <1>3, <1>4, NullAssumption
<1>6. Distinct'
  BY <1>2, NullAssumption DEF Conserved, Distinct, RunJob
<1>7. InPush' = InPush
  <2>1. Pushing' = Pushing
    BY <1>1, WorkerGoes, ThreadsDisjoint DEF Goes, OthersStay, Pushing
  <2>2. QED
    BY <2>1 DEF InPush, RunJob
<1>8. QED
  BY <1>1, <1>3, <1>5, <1>6, <1>7 DEF RunJob, Queued

(* The other steps change neither the queue nor who holds what.            *)
Passing == \/ \E w \in Workers : Pluck(w) \/ RunJob(w)
           \/ \E p \in Posters : PostPush(p) \/ \E j \in unposted : PostLock(p, j)

LEMMA OtherMoves ==
    ASSUME Control, [Next]_vars, ~Passing
    PROVE  UNCHANGED <<jobs, held, posting, unposted, finished>> /\ Pushing' = Pushing
<1>1. TypeOK
  BY DEF Control
<1>2. ASSUME NEW w \in Workers, WorkerStep(w) \/ SpuriousWake(w)
      PROVE  UNCHANGED <<jobs, held, posting, unposted, finished>> /\ Pushing' = Pushing
  <2>1. \E place \in WorkerPlaces : Goes(w, place)
    BY <1>1, <1>2, WorkerGoes DEF WorkerStep, WorkerPlaces
  <2>2. \A p \in Posters : pc'[p] = pc[p]
    BY <2>1, ThreadsDisjoint DEF Goes, OthersStay
  <2>3. QED
    BY <1>2, <2>2 DEF Passing, Pushing, WorkerStep, ReadBack, ReadFront, TestStop, Acquire,
          InspectJob, InspectIdle, InspectBreak, Wait, SpuriousWake, PluckNotify, BreakNotify
<1>3. ASSUME NEW p \in Posters, PosterStep(p) \/ \E j \in unposted : PostLock(p, j)
      PROVE  UNCHANGED <<jobs, held, posting, unposted, finished>> /\ Pushing' = Pushing
  <2>1. PostNotify(p) \/ PostUnlock(p)
    BY <1>3 DEF Passing, PosterStep
  <2>2. /\ p \in Threads /\ p \notin Pushing /\ pc'[p] # "push"
        /\ \A q \in Posters \ {p} : pc'[q] = pc[q]
    BY <1>1, <2>1, PosterGoes, ThreadsDisjoint
       DEF PostNotify, PostUnlock, Goes, OthersStay, Pushing
  <2>3. QED
    BY <2>1, <2>2 DEF PostNotify, PostUnlock, Pushing
<1>4. CASE JoinStop \/ JoinNotify \/ JoinThreads \/ Destroy
  <2>1. \A p \in Posters : pc'[p] = pc[p]
    BY <1>1, <1>4, OwnerGoes, ThreadsDisjoint DEF Goes, OthersStay
  <2>2. QED
    BY <1>4, <2>1 DEF JoinStop, JoinNotify, JoinThreads, Destroy, Pushing
<1>5. CASE UNCHANGED vars
  BY <1>5 DEF vars, Pushing
<1>6. QED
  BY <1>2, <1>3, <1>4, <1>5 DEF Next

LEMMA NextConserved == Control /\ Control' /\ Conserved /\ [Next]_vars => Conserved'
<1> SUFFICES ASSUME Control, Control', Conserved, [Next]_vars
             PROVE  Conserved'
  OBVIOUS
<1>1. TypeOK /\ TypeOK'
  BY DEF Control
<1>2. ASSUME NEW w \in Workers, Pluck(w)
      PROVE  Conserved'
  <2>1. Disjoint' /\ Complete'
    BY <1>1, <1>2, PluckMoves DEF Conserved, Disjoint, Complete
  <2>2. QED
    BY <1>1, <1>2, <2>1, PluckMoves DEF Conserved
<1>3. ASSUME NEW w \in Workers, RunJob(w)
      PROVE  Conserved'
  <2>1. Disjoint' /\ Complete'
    BY <1>1, <1>3, RunJobMoves DEF Conserved, Disjoint, Complete
  <2>2. QED
    BY <1>1, <1>3, <2>1, RunJobMoves DEF Conserved
<1>4. ASSUME NEW p \in Posters, PostPush(p)
      PROVE  Conserved'
  <2>1. Disjoint' /\ Complete'
    BY <1>1, <1>4, PostPushMoves DEF Conserved, Disjoint, Complete
  <2>2. QED
    BY <1>1, <1>4, <2>1, PostPushMoves DEF Conserved
<1>5. ASSUME NEW p \in Posters, NEW j \in unposted, PostLock(p, j)
      PROVE  Conserved'
  <2>1. Disjoint' /\ Complete'
    BY <1>1, <1>5, PostLockMoves DEF Conserved, Disjoint, Complete
  <2>2. Distinct'
    BY <1>1, <1>5, PostLockMoves DEF Conserved, Distinct
  <2>3. QED
    BY <2>1, <2>2 DEF Conserved
<1>6. CASE ~Passing
  BY <1>1, <1>6, OtherMoves, ConservedFrame
<1>7. QED
  BY <1>2, <1>3, <1>4, <1>5, <1>6 DEF Passing

------------------------------------------------------------------------------
(* Every behaviour of the pool.                                            *)

Inv == Control /\ Minded /\ Conserved

LEMMA InitInv == Init => Inv
<1> SUFFICES ASSUME Init
             PROVE  Inv
  OBVIOUS
<1>1. Control
  BY InitControl
<1>2. Minded
  BY DEF Init, Minded
<1>3. InPush = {} /\ Queued = {} /\ RunningJobs = {}
  <2>1. /\ \A w \in Workers : pc[w] = "read_back"
        /\ \A p \in Posters : pc[p] = "idle"
    BY ThreadsDisjoint DEF Init
  <2>2. Queued = {}
    BY DEF Init, Queued
  <2>3. QED
    BY <2>1, <2>2 DEF InPush, Pushing, RunningJobs
<1>4. Distinct
  BY NullAssumption DEF Init, Distinct
<1>5. Disjoint /\ Complete
  BY <1>3 DEF Init, Disjoint, Complete
<1>6. QED
  BY <1>1, <1>2, <1>4, <1>5 DEF Inv, Conserved

LEMMA NextInv == Inv /\ [Next]_vars => Inv'
  BY NextControl, NextMinded, NextConserved DEF Inv

(* The inductive invariant: control, no job left to sleepers, every job in *)
(* one place.                                                              *)
THEOREM ThreadpoolInvariant == Spec => []Inv
  BY InitInv, NextInv, PTL DEF Spec

(* The members of the pool keep their types, the threads their places, and *)
(* a worker holds a job exactly from the pluck to the return of its        *)
(* function: process never plucks from an empty std::queue.                *)
THEOREM ThreadpoolTypeOK == Spec => []TypeOK
<1>1. Inv => TypeOK
  BY DEF Inv, Control
<1>2. QED
  BY ThreadpoolInvariant, <1>1, PTL

(* The notifications of post and process leave no queued job to sleepers,  *)
(* although post gives them while it holds the mutex.                      *)
THEOREM ThreadpoolWorkNeverStranded == Spec => []WorkNeverStranded
<1>1. Inv => WorkNeverStranded
  BY MindedIsEnough DEF Inv
<1>2. QED
  BY ThreadpoolInvariant, <1>1, PTL

(* After join all workers are gone; if one of them left through the locked *)
(* test of line 35, every posted job has been run.                         *)
THEOREM ThreadpoolEndOfPool == Spec => []EndOfPool
<1>1. Inv => EndOfPool
  <2> SUFFICES ASSUME Inv, pc[Owner] \in {"joined", "destroyed"}
               PROVE  /\ \A w \in Workers : pc[w] \in {"left", "broke"}
                      /\ (\E w \in Workers : pc[w] = "broke") => finished = Jobs \ unposted
    BY DEF EndOfPool
  <2> USE DEF Inv, Control
  <2>1. \A w \in Workers : pc[w] \in {"left", "broke"}
    BY DEF OwnerOK
  <2>2. ASSUME NEW w \in Workers, pc[w] = "broke"
        PROVE  finished = Jobs \ unposted
    <3>1. Queued = {}
      BY <2>2 DEF InspectedOK, Queued
    <3>2. RunningJobs = {}
      BY <2>1 DEF RunningJobs
    <3>3. InPush = {}
      BY DEF OwnerOK, Pushing, InPush
    <3>4. QED
      BY <3>1, <3>2, <3>3 DEF Conserved, Disjoint, Complete
  <2>3. QED
    BY <2>1, <2>2
<1>2. QED
  BY ThreadpoolInvariant, <1>1, PTL

------------------------------------------------------------------------------
(* The pool implements the abstract one.                                   *)

LEMMA InitImplements == Init => Pool!Init
<1> SUFFICES ASSUME Init
             PROVE  Pool!Init
  OBVIOUS
<1>1. RunningJobs = {}
  BY ThreadsDisjoint DEF Init, RunningJobs
<1>2. QED
  BY <1>1 DEF Init, Pool!Init

LEMMA NextImplements == Inv /\ Inv' /\ [Next]_vars => [Pool!Next]_(Pool!vars)
<1> SUFFICES ASSUME Inv, Inv', [Next]_vars
             PROVE  [Pool!Next]_(Pool!vars)
  OBVIOUS
<1>1. Control /\ Conserved /\ TypeOK /\ TypeOK'
  BY DEF Inv, Control
<1>2. ASSUME NEW p \in Posters, PostPush(p)
      PROVE  Pool!Next
  <2>1. /\ posting[p] \in Jobs /\ jobs' = Append(jobs, posting[p])
        /\ InPush = {posting[p]}
        /\ UNCHANGED <<RunningJobs, finished>>
    BY <1>1, <1>2, PostPushMoves
  <2>2. posting[p] \notin Pool!Queued \cup RunningJobs \cup finished
    BY <1>1, <2>1 DEF Conserved, Disjoint, Queued, Pool!Queued
  <2>3. Pool!Post(posting[p])
    BY <2>1, <2>2 DEF Pool!Post
  <2>4. QED
    BY <2>1, <2>3 DEF Pool!Next
<1>3. ASSUME NEW w \in Workers, Pluck(w)
      PROVE  Pool!Next
  BY <1>1, <1>3, PluckMoves DEF Pool!Start, Pool!Next
<1>4. ASSUME NEW w \in Workers, RunJob(w)
      PROVE  Pool!Next
  <2>1. Pool!Finish(held[w])
    BY <1>1, <1>4, RunJobMoves DEF Pool!Finish
  <2>2. held[w] \in Jobs
    BY <1>1, <1>4, RunJobMoves
  <2>3. QED
    BY <2>1, <2>2 DEF Pool!Next
<1>5. ASSUME NEW p \in Posters, NEW j \in unposted, PostLock(p, j)
      PROVE  UNCHANGED Pool!vars
  BY <1>1, <1>5, PostLockMoves DEF Pool!vars
<1>6. CASE ~Passing
  <2>1. UNCHANGED <<jobs, held, finished>>
    BY <1>1, <1>6, OtherMoves
  <2>2. RunningJobs' = RunningJobs
    BY <1>1, <2>1, RunningIs
  <2>3. QED
    BY <2>1, <2>2 DEF Pool!vars
<1>7. QED
  BY <1>2, <1>3, <1>4, <1>5, <1>6 DEF Passing

(* Threadpool.cpp implements the same abstract pool as workers.c: whatever *)
(* the number of threads, a posted job is started once, in the order of    *)
(* posting, and finishes after it was started.                             *)
THEOREM ThreadpoolImplementsJobPool == Spec => ImplementsJobPool
  BY ThreadpoolInvariant, InitImplements, NextImplements, PTL
     DEF Spec, ImplementsJobPool, Pool!Spec

------------------------------------------------------------------------------
(* Where the pool comes to rest.                                           *)

(* A worker waits on the condition variable or for the mutex, or is gone.  *)
WorkerRests(w) ==
    \/ pc[w] \in {"asleep", "left", "broke"}
    \/ pc[w] \in {"lock", "woken"} /\ lock # NoThread

(* The owner is in none of its calls, or join waits for a worker.          *)
OwnerRests ==
    \/ pc[Owner] \in {"up", "joined", "destroyed"}
    \/ pc[Owner] = "join_threads" /\ \E w \in Workers : pc[w] \notin {"left", "broke"}

(* Nothing happens any more unless post, join or the destructor is called  *)
(* or a worker wakes up without a notification.                            *)
AtRest ==
    /\ \A w \in Workers : WorkerRests(w)
    /\ \A p \in Posters : pc[p] = "idle"
    /\ OwnerRests

(* A worker leaves at line 27 only when the flag is set.                   *)
LeftOK == \A w \in Workers : pc[w] = "left" => stop

LEMMA NextLeft == Control /\ LeftOK /\ [Next]_vars => LeftOK'
<1> SUFFICES ASSUME Control, LeftOK, [Next]_vars, NEW w \in Workers, pc'[w] = "left"
             PROVE  stop'
  BY DEF LeftOK
<1>1. TypeOK /\ w \in Threads
  BY ThreadsDisjoint DEF Control
<1>2. stop => stop'
  BY DEF Next, WorkerStep, ReadBack, ReadFront, TestStop, Acquire, InspectJob, InspectIdle,
         InspectBreak, Wait, SpuriousWake, Pluck, PluckNotify, BreakNotify, RunJob, PosterStep,
         PostLock, PostPush, PostNotify, PostUnlock, JoinStop, JoinNotify, JoinThreads, Destroy, vars
<1>3. CASE pc[w] = "left"
  BY <1>2, <1>3 DEF LeftOK
<1>4. CASE pc[w] # "left"
  <2>1. \A t \in Threads : \A place : Goes(t, place) => t = w /\ place = "left"
    BY <1>1, <1>4 DEF Goes, OthersStay
  <2>2. ASSUME NEW v \in Workers, WorkerStep(v) \/ SpuriousWake(v)
        PROVE  TestStop(v) /\ Goes(v, "left")
    BY <1>1, <2>1, <2>2, WorkerGoes, ThreadsDisjoint DEF WorkerStep
  <2>3. ASSUME NEW v \in Workers, TestStop(v), Goes(v, "left")
        PROVE  stop
    <3>1. pc' = [pc EXCEPT ![v] = IF stop THEN "left" ELSE "lock"] /\ v \in Threads
      BY <2>3, ThreadsDisjoint DEF TestStop, Goto
    <3>2. pc'[v] = IF stop THEN "left" ELSE "lock"
      BY <1>1, <3>1 DEF TypeOK
    <3>3. QED
      BY <2>3, <3>2 DEF Goes
  <2>4. ASSUME NEW p \in Posters, PosterStep(p) \/ \E j \in unposted : PostLock(p, j)
        PROVE  FALSE
    <3>1. unposted \subseteq Jobs /\ p \in Threads
      BY <1>1, ThreadsDisjoint DEF TypeOK
    <3>2. QED
      BY <1>1, <2>1, <2>4, <3>1, PosterGoes DEF PosterStep
  <2>5. ~(JoinStop \/ JoinNotify \/ JoinThreads \/ Destroy)
    BY <1>1, <2>1, OwnerGoes, ThreadsDisjoint
  <2>6. ~UNCHANGED vars
    BY <1>4 DEF vars
  <2>7. \E v \in Workers : WorkerStep(v) \/ SpuriousWake(v)
    BY <2>4, <2>5, <2>6 DEF Next
  <2>8. QED
    BY <1>2, <2>2, <2>3, <2>7
<1>5. QED
  BY <1>3, <1>4

(* What is left of the pool then: the mutex is free, and the workers are   *)
(* asleep or gone.  Jobs are queued only if all of them left through the   *)
(* unlocked reads of line 27; before join there are none, every posted job *)
(* has been run.  A join that does not return waits for a sleeper.         *)
RestIsOrderly ==
    AtRest =>
        /\ lock = NoThread
        /\ \A w \in Workers : pc[w] \in {"asleep", "left", "broke"}
        /\ jobs # <<>> => \A w \in Workers : pc[w] = "left"
        /\ ~stop => \A w \in Workers : pc[w] = "asleep"
        /\ ~stop /\ Workers # {} => finished = Jobs \ unposted
        /\ pc[Owner] = "join_threads" => Asleep # {}

LEMMA OrderlyRest == Inv /\ LeftOK => RestIsOrderly
<1> SUFFICES ASSUME Inv, LeftOK, AtRest
             PROVE  /\ lock = NoThread
                    /\ \A w \in Workers : pc[w] \in {"asleep", "left", "broke"}
                    /\ jobs # <<>> => \A w \in Workers : pc[w] = "left"
                    /\ ~stop => \A w \in Workers : pc[w] = "asleep"
                    /\ ~stop /\ Workers # {} => finished = Jobs \ unposted
                    /\ pc[Owner] = "join_threads" => Asleep # {}
  BY DEF RestIsOrderly
<1> USE DEF Inv, Control
<1>1. lock = NoThread
  <2>1. \A t \in Threads : pc[t] \notin Inside
    <3>1. \A w \in Workers : pc[w] \notin Inside
      BY DEF AtRest, WorkerRests, Inside
    <3>2. \A p \in Posters : pc[p] \notin Inside
      BY DEF AtRest, Inside
    <3>3. pc[Owner] \notin Inside
      BY DEF TypeOK, OwnerPlaces, Inside
    <3>4. QED
      BY <3>1, <3>2, <3>3 DEF Threads
  <2>2. QED
    BY <2>1 DEF TypeOK, LockHeld
<1>2. \A w \in Workers : pc[w] \in {"asleep", "left", "broke"}
  BY <1>1 DEF AtRest, WorkerRests
<1>3. ASSUME jobs # <<>>, NEW w \in Workers PROVE pc[w] = "left"
  <2>1. pc[w] # "broke"
    BY <1>3 DEF InspectedOK
  <2>2. pc[w] # "asleep"
    <3>1. WorkNeverStranded
      BY MindedIsEnough
    <3>2. ~\E v \in Workers : pc[v] \in {"woken", "notify"}
      BY <1>2
    <3>3. Asleep = {}
      BY <1>1, <1>3, <3>1, <3>2 DEF WorkNeverStranded
    <3>4. QED
      BY <3>3 DEF Asleep
  <2>3. QED
    BY <1>2, <2>1, <2>2
<1>4. ASSUME ~stop, NEW w \in Workers PROVE pc[w] = "asleep"
  BY <1>2, <1>4 DEF LeftOK, InspectedOK
<1>5. ASSUME ~stop, Workers # {} PROVE finished = Jobs \ unposted
  <2>1. jobs = <<>>
    BY <1>3, <1>4, <1>5
  <2>2. Queued = {}
    BY <2>1 DEF Queued
  <2>3. RunningJobs = {}
    BY <1>2 DEF RunningJobs
  <2>4. InPush = {}
    BY DEF AtRest, Pushing, InPush
  <2>5. QED
    BY <2>2, <2>3, <2>4 DEF Conserved, Disjoint, Complete
<1>6. ASSUME pc[Owner] = "join_threads" PROVE Asleep # {}
  <2>1. PICK w \in Workers : pc[w] \notin {"left", "broke"}
    BY <1>6 DEF AtRest, OwnerRests
  <2>2. QED
    BY <1>2, <2>1 DEF Asleep
<1>7. QED
  BY <1>1, <1>2, <1>3, <1>4, <1>5, <1>6

LEMMA InitLeft == Init => LeftOK
  BY ThreadsDisjoint DEF Init, LeftOK

(* No deadlock but one: when no thread of process, post and join can go on *)
(* the mutex is free, and before join nothing is left to do.  What remains *)
(* possible is that join waits for sleepers that nobody notifies.          *)
THEOREM ThreadpoolRestIsOrderly == Spec => []RestIsOrderly
<1>1. Control /\ LeftOK /\ [Next]_vars => LeftOK'
  BY NextLeft
<1>2. Inv => Control
  BY DEF Inv
<1>3. QED
  BY ThreadpoolInvariant, InitLeft, OrderlyRest, <1>1, <1>2, PTL DEF Spec

(* The flag is set and a worker on its way to the mutex; or, after it got  *)
(* there, nobody is about to fall asleep any more and somebody is about to *)
(* notify the next sleeper, if there is one.                               *)
Ends ==
    /\ stop
    /\ \/ \E w \in Workers : pc[w] \in {"lock", "woken"}
       \/ /\ \A w \in Workers : pc[w] # "wait"
          /\ \/ Asleep = {}
             \/ \E w \in Workers : pc[w] \in {"inspect", "pluck", "notify", "break_notify"}

(* A worker on its way gets to the mutex, one that got there goes on to    *)
(* the next notification, and one that notifies wakes a sleeper.           *)
LEMMA EndsStep ==
    ASSUME Control, Ends, stop', NEW t \in Threads, NEW place, Goes(t, place),
           place \notin {"asleep", "wait"},
           t \in Workers /\ pc[t] \in {"lock", "woken"} => place = "inspect" /\ lock = NoThread,
           t \in Workers /\ pc[t] \in {"inspect", "pluck", "notify", "break_notify"} =>
               place \in {"pluck", "notify", "break_notify"} \/ Wakes
    PROVE  Ends'
<1>1. /\ t \in Workers => pc'[t] = place
      /\ \A w \in Workers : w # t =>
            pc'[w] = pc[w] \/ (pc[w] = "asleep" /\ pc'[w] = "woken")
  BY ThreadsDisjoint DEF Goes, OthersStay
<1>2. CASE \E w \in Workers : pc[w] \in {"lock", "woken"}
  <2>1. PICK w \in Workers : pc[w] \in {"lock", "woken"}
    BY <1>2
  <2>2. CASE w # t
    BY <1>1, <2>1, <2>2 DEF Ends
  <2>3. CASE w = t
    <3>1. pc'[w] = "inspect" /\ lock = NoThread
      BY <1>1, <2>1, <2>3
    <3>2. \A v \in Workers : pc[v] # "wait"
      BY <3>1, ThreadsDisjoint DEF Control, LockHeld, Inside
    <3>3. \A v \in Workers : pc'[v] # "wait"
      BY <1>1, <2>3, <3>1, <3>2
    <3>4. QED
      BY <3>1, <3>3 DEF Ends
  <2>4. QED
    BY <2>2, <2>3
<1>3. CASE /\ \A w \in Workers : pc[w] # "wait"
           /\ \/ Asleep = {}
              \/ \E w \in Workers : pc[w] \in {"inspect", "pluck", "notify", "break_notify"}
  <2>1. \A w \in Workers : pc'[w] # "wait"
    BY <1>1, <1>3
  <2>2. Asleep = {} => Asleep' = {}
    BY <1>1 DEF Asleep
  <2>3. Asleep # {} /\ Wakes => Ends'
    BY DEF Wakes, Ends
  <2>4. ASSUME NEW w \in Workers, pc[w] \in {"inspect", "pluck", "notify", "break_notify"}
        PROVE  Ends'
    <3>1. CASE w # t
      <4>1. pc'[w] = pc[w]
        BY <1>1, <2>4, <3>1
      <4>2. QED
        BY <2>1, <2>4, <4>1 DEF Ends
    <3>2. CASE w = t
      <4>1. pc'[w] = place /\ (place \in {"pluck", "notify", "break_notify"} \/ Wakes)
        BY <1>1, <2>4, <3>2
      <4>2. QED
        BY <2>1, <2>2, <2>3, <4>1 DEF Ends
    <3>3. QED
      BY <3>1, <3>2
  <2>5. QED
    BY <1>3, <2>1, <2>2, <2>4 DEF Ends
<1>4. QED
  BY <1>2, <1>3 DEF Ends

LEMMA NextEnds == Control /\ Ends /\ [Next]_vars => Ends'
<1> SUFFICES ASSUME Control, Ends, [Next]_vars
             PROVE  Ends'
  OBVIOUS
<1>1. TypeOK /\ stop /\ unposted \subseteq Jobs
  BY DEF Control, TypeOK, Ends
<1>2. ASSUME NEW w \in Workers, WorkerStep(w) \/ SpuriousWake(w)
      PROVE  Ends'
  <2>1. w \in Threads /\ stop'
    BY <1>1, <1>2, ThreadsDisjoint
       DEF WorkerStep, ReadBack, ReadFront, TestStop, Acquire, InspectJob, InspectIdle,
           InspectBreak, Wait, SpuriousWake, Pluck, PluckNotify, BreakNotify, RunJob
  <2>2. CASE ReadBack(w) \/ ReadFront(w) \/ TestStop(w) \/ RunJob(w) \/ SpuriousWake(w)
    BY <1>1, <2>1, <2>2, WorkerGoes, EndsStep DEF ReadBack, ReadFront, TestStop, RunJob, SpuriousWake
  <2>3. CASE Acquire(w)
    BY <1>1, <2>1, <2>3, WorkerGoes, EndsStep DEF Acquire
  <2>4. CASE InspectJob(w) \/ InspectBreak(w) \/ Pluck(w)
    BY <1>1, <2>1, <2>4, WorkerGoes, EndsStep DEF InspectJob, InspectBreak, Pluck
  <2>5. ~InspectIdle(w)
    BY <1>1 DEF InspectIdle
  <2>6. CASE PluckNotify(w) \/ BreakNotify(w)
    BY <1>1, <2>1, <2>6, WorkerGoes, EndsStep DEF PluckNotify, BreakNotify
  <2>7. CASE Wait(w)
    <3>1. \E v \in Workers : pc[v] \in {"lock", "woken"}
      <4>1. pc[w] = "wait"
        BY <2>7 DEF Wait
      <4>2. QED
        BY <4>1 DEF Ends
    <3>2. PICK v \in Workers : pc[v] \in {"lock", "woken"}
      BY <3>1
    <3>3. v # w /\ pc'[v] = pc[v]
      BY <1>1, <2>7, <3>2, WorkerGoes, ThreadsDisjoint DEF Wait, Goes, OthersStay
    <3>4. QED
      BY <2>1, <3>2, <3>3 DEF Ends
  <2>8. QED
    BY <1>2, <2>2, <2>3, <2>4, <2>5, <2>6, <2>7 DEF WorkerStep
<1>3. ASSUME NEW p \in Posters, PosterStep(p) \/ \E j \in unposted : PostLock(p, j)
      PROVE  Ends'
  <2>1. pc[p] = "idle" /\ pc[Owner] # "up"
    BY <1>1 DEF Control, OwnerOK
  <2>2. QED
    BY <1>3, <2>1 DEF PosterStep, PostLock, PostPush, PostNotify, PostUnlock
<1>4. CASE JoinStop \/ JoinNotify \/ JoinThreads \/ Destroy
  <2>1. stop' /\ Owner \in Threads /\ Owner \notin Workers
    BY <1>1, <1>4, ThreadsDisjoint DEF JoinStop, JoinNotify, JoinThreads, Destroy
  <2>2. QED
    BY <1>1, <1>4, <2>1, OwnerGoes, EndsStep
<1>5. CASE UNCHANGED vars
  BY <1>5 DEF vars, Ends, Asleep
<1>6. QED
  BY <1>2, <1>3, <1>4, <1>5 DEF Next

(* Once the flag is set and one worker is on its way to the mutex, a pool  *)
(* at rest is a pool whose join has returned.                              *)
EndingIsComplete == Ends /\ AtRest => pc[Owner] \in {"joined", "destroyed"}

LEMMA CompleteEnding == Inv /\ RestIsOrderly => EndingIsComplete
<1> SUFFICES ASSUME Inv, RestIsOrderly, Ends, AtRest
             PROVE  pc[Owner] \in {"joined", "destroyed"}
  BY DEF EndingIsComplete
<1>1. Asleep = {}
  <2>1. \A w \in Workers : pc[w] \in {"asleep", "left", "broke"}
    BY DEF RestIsOrderly
  <2>2. QED
    BY <2>1 DEF Ends
<1>2. pc[Owner] # "up"
  BY DEF Inv, Control, OwnerOK, Ends
<1>3. pc[Owner] # "join_threads"
  BY <1>1 DEF RestIsOrderly
<1>4. QED
  BY <1>2, <1>3 DEF AtRest, OwnerRests

(* The way to the end is not lost again, whichever thread goes on: the     *)
(* safety that OneAwakeEndsAll rests on.                                   *)
THEOREM ThreadpoolEndIsCertain == Spec => []EndingIsComplete /\ [][Ends => Ends']_vars
<1>1. Inv => Control
  BY DEF Inv
<1>2. Inv /\ RestIsOrderly => EndingIsComplete
  BY CompleteEnding
<1>3. Inv /\ [Next]_vars => [Ends => Ends']_vars
  BY <1>1, NextEnds
<1>4. QED
  BY ThreadpoolInvariant, ThreadpoolRestIsOrderly, <1>2, <1>3, PTL DEF Spec

------------------------------------------------------------------------------
(* That the pool comes to rest.                                            *)

(* How many threads are at one of some places.                             *)
Number(S) == Cardinality({t \in Threads : pc[t] \in S})

(* What is left to do, in three numbers, the first of which weighs most:   *)
(* the jobs that have been posted, at the stages of their way,             *)
Coming == {"push"}
HavePlucked == {"notify", "run"}
Load == 3 * Number(Coming) + 2 * Len(jobs) + Number(HavePlucked)

(* the notifications that are still to be given, one by each worker that   *)
(* has not left and one by each call under way,                            *)
Staying == WorkerPlaces \ {"left", "broke"}
Notifying == {"notify", "post_notify", "up", "join_notify"}
Notices == Number(Staying) + Number(Notifying)

(* and the steps up to the next place to rest: Ahead[n] are the places     *)
(* with n of them or more to go.                                           *)
Ahead == <<{"read_back", "read_front", "test_stop", "lock", "woken", "inspect", "wait",
            "post_unlock", "up", "join_notify", "join_threads", "joined"},
           {"read_back", "read_front", "test_stop", "lock", "woken", "inspect",
            "up", "join_notify", "join_threads"},
           {"read_back", "read_front", "test_stop", "lock", "woken", "up", "join_notify"},
           {"read_back", "read_front", "test_stop", "up"},
           {"read_back", "read_front"},
           {"read_back"}>>
Way == Number(Ahead[1]) + Number(Ahead[2]) + Number(Ahead[3])
         + Number(Ahead[4]) + Number(Ahead[5]) + Number(Ahead[6])

Lowers ==
    \/ Load' < Load
    \/ Load' = Load /\ Notices' < Notices
    \/ Load' = Load /\ Notices' = Notices /\ Way' < Way

Counted == Load \in Nat /\ Notices \in Nat /\ Way \in Nat

(* Counting after one thread has moved.                                    *)
LEMMA NumberAfter ==
    ASSUME NEW S, NEW t \in Threads,
           \A u \in Threads \ {t} : pc'[u] \in S <=> pc[u] \in S
    PROVE  /\ Number(S) \in Nat /\ Number(S)' \in Nat
           /\ (pc'[t] \in S <=> pc[t] \in S) => Number(S)' = Number(S)
           /\ pc'[t] \in S /\ pc[t] \notin S => Number(S)' = Number(S) + 1
           /\ pc'[t] \notin S /\ pc[t] \in S => Number(S)' = Number(S) - 1
<1> DEFINE A == {u \in Threads : pc[u] \in S}
           B == {u \in Threads : pc'[u] \in S}
<1>1. IsFiniteSet(A) /\ IsFiniteSet(B)
  BY FiniteThreads, FS_Subset
<1>2. Cardinality(A) \in Nat /\ Cardinality(B) \in Nat
  BY <1>1, FS_CardinalityType
<1>3. Number(S) = Cardinality(A) /\ Number(S)' = Cardinality(B)
  BY DEF Number
<1>4. ASSUME pc'[t] \in S <=> pc[t] \in S PROVE Cardinality(B) = Cardinality(A)
  <2>1. A = B
    BY <1>4
  <2> HIDE DEF A, B
  <2>2. QED
    BY <2>1
<1>5. ASSUME pc'[t] \in S, pc[t] \notin S PROVE Cardinality(B) = Cardinality(A) + 1
  <2>1. B = A \cup {t} /\ t \notin A
    BY <1>5
  <2> HIDE DEF A, B
  <2>2. QED
    BY <1>1, <2>1, FS_AddElement
<1>6. ASSUME pc'[t] \notin S, pc[t] \in S PROVE Cardinality(B) = Cardinality(A) - 1
  <2>1. B = A \ {t} /\ t \in A
    BY <1>6
  <2> HIDE DEF A, B
  <2>2. QED
    BY <1>1, <2>1, FS_RemoveElement
<1> HIDE DEF A, B
<1>7. QED
  BY <1>2, <1>3, <1>4, <1>5, <1>6

(* Which sets a woken sleeper does not matter to.                          *)
LEMMA NumberGoes ==
    ASSUME NEW S, NEW t \in Threads, NEW place, Goes(t, place), "asleep" \in S <=> "woken" \in S
    PROVE  /\ Number(S) \in Nat /\ Number(S)' \in Nat
           /\ (place \in S <=> pc[t] \in S) => Number(S)' = Number(S)
           /\ place \in S /\ pc[t] \notin S => Number(S)' = Number(S) + 1
           /\ place \notin S /\ pc[t] \in S => Number(S)' = Number(S) - 1
<1>1. \A u \in Threads \ {t} : pc'[u] \in S <=> pc[u] \in S
  BY DEF Goes, OthersStay
<1>2. pc'[t] = place
  BY DEF Goes
<1>3. QED
  BY <1>1, <1>2, NumberAfter

LEMMA Counts ==
    ASSUME TypeOK
    PROVE  Counted
<1>1. \A S : Number(S) \in Nat
  <2>1. SUFFICES ASSUME NEW S PROVE Number(S) \in Nat
    OBVIOUS
  <2>2. IsFiniteSet({t \in Threads : pc[t] \in S})
    BY FiniteThreads, FS_Subset
  <2>3. QED
    BY <2>2, FS_CardinalityType DEF Number
<1>2. Len(jobs) \in Nat
  BY DEF TypeOK
<1>3. Load \in Nat
  BY <1>1, <1>2 DEF Load
<1>4. Notices \in Nat
  BY <1>1 DEF Notices
<1>5. Way \in Nat
  BY <1>1 DEF Way
<1>6. QED
  BY <1>3, <1>4, <1>5 DEF Counted

(* A step that moves no job from one stage to the next.                    *)
LEMMA LoadStays ==
    ASSUME TypeOK, NEW t \in Threads, NEW place, Goes(t, place), jobs' = jobs,
           place # "push", pc[t] # "push",
           place \in {"notify", "run"} <=> pc[t] \in {"notify", "run"}
    PROVE  Load' = Load
<1>1. /\ "asleep" \in Coming <=> "woken" \in Coming
      /\ "asleep" \in HavePlucked <=> "woken" \in HavePlucked
      /\ place \in Coming <=> pc[t] \in Coming
      /\ place \in HavePlucked <=> pc[t] \in HavePlucked
  BY DEF Coming, HavePlucked
<1>2. Number(Coming)' = Number(Coming)
  BY <1>1, NumberGoes
<1>3. Number(HavePlucked)' = Number(HavePlucked)
  BY <1>1, NumberGoes
<1>4. QED
  BY <1>2, <1>3 DEF Load

(* A step that gives no notification, and one that does.                   *)
LEMMA NoticesStay ==
    ASSUME NEW t \in Threads, NEW place, Goes(t, place),
           place \in Staying <=> pc[t] \in Staying,
           place \in Notifying <=> pc[t] \in Notifying
    PROVE  Notices' = Notices
<1>1. /\ "asleep" \in Staying <=> "woken" \in Staying
      /\ "asleep" \in Notifying <=> "woken" \in Notifying
  BY DEF Staying, Notifying, WorkerPlaces
<1>2. Number(Staying)' = Number(Staying)
  BY <1>1, NumberGoes
<1>3. Number(Notifying)' = Number(Notifying)
  BY <1>1, NumberGoes
<1>4. QED
  BY <1>2, <1>3 DEF Notices

LEMMA NoticesFall ==
    ASSUME NEW t \in Threads, NEW place, Goes(t, place),
           place \in Staying => pc[t] \in Staying, place \notin Notifying,
           \/ pc[t] \in Staying /\ place \notin Staying
           \/ pc[t] \in Notifying
    PROVE  Notices' < Notices
<1>1. /\ "asleep" \in Staying <=> "woken" \in Staying
      /\ "asleep" \in Notifying <=> "woken" \in Notifying
  BY DEF Staying, Notifying, WorkerPlaces
<1>2. PICK a \in Nat, b \in Nat, c \in Nat, d \in Nat :
           /\ a = Number(Staying) /\ b = Number(Staying)'
           /\ c = Number(Notifying) /\ d = Number(Notifying)'
  BY <1>1, NumberGoes
<1>3. /\ (place \in Staying <=> pc[t] \in Staying) => b = a
      /\ (place \notin Staying /\ pc[t] \in Staying) => b = a - 1
  BY <1>1, <1>2, NumberGoes
<1>4. /\ (place \in Notifying <=> pc[t] \in Notifying) => d = c
      /\ (place \notin Notifying /\ pc[t] \in Notifying) => d = c - 1
  BY <1>1, <1>2, NumberGoes
<1>5. Notices = a + c /\ Notices' = b + d
  BY <1>2 DEF Notices
<1>6. b <= a /\ d <= c /\ (b < a \/ d < c)
  BY <1>2, <1>3, <1>4
<1>7. QED
  BY <1>2, <1>5, <1>6

(* A place is nearer to the next rest than another.                        *)
Nearer(place, from) ==
    /\ \A n \in 1..6 : place \in Ahead[n] => from \in Ahead[n]
    /\ \E n \in 1..6 : place \notin Ahead[n] /\ from \in Ahead[n]

LEMMA NearerPlaces ==
    /\ Nearer("read_front", "read_back")
    /\ Nearer("test_stop", "read_front")
    /\ Nearer("lock", "read_front")
    /\ Nearer("lock", "test_stop")
    /\ Nearer("inspect", "lock")
    /\ Nearer("inspect", "woken")
    /\ Nearer("pluck", "inspect")
    /\ Nearer("wait", "inspect")
    /\ Nearer("break_notify", "inspect")
    /\ Nearer("asleep", "wait")
    /\ Nearer("idle", "post_unlock")
    /\ Nearer("join_notify", "up")
    /\ Nearer("joined", "join_threads")
    /\ Nearer("destroyed", "joined")
<1>1. \A n : n \in 1..6 <=> n = 1 \/ n = 2 \/ n = 3 \/ n = 4 \/ n = 5 \/ n = 6
  OBVIOUS
<1>2. \A place, from :
          Nearer(place, from) <=>
              /\ place \in Ahead[1] => from \in Ahead[1]
              /\ place \in Ahead[2] => from \in Ahead[2]
              /\ place \in Ahead[3] => from \in Ahead[3]
              /\ place \in Ahead[4] => from \in Ahead[4]
              /\ place \in Ahead[5] => from \in Ahead[5]
              /\ place \in Ahead[6] => from \in Ahead[6]
              /\ \/ place \notin Ahead[1] /\ from \in Ahead[1]
                 \/ place \notin Ahead[2] /\ from \in Ahead[2]
                 \/ place \notin Ahead[3] /\ from \in Ahead[3]
                 \/ place \notin Ahead[4] /\ from \in Ahead[4]
                 \/ place \notin Ahead[5] /\ from \in Ahead[5]
                 \/ place \notin Ahead[6] /\ from \in Ahead[6]
  BY <1>1 DEF Nearer
<1>3. QED
  BY <1>2 DEF Ahead

LEMMA WayShrinks ==
    ASSUME NEW t \in Threads, NEW place, pc \in [Threads -> Places],
           Goto(t, place), Nearer(place, pc[t])
    PROVE  Way' < Way
<1> DEFINE Before == [n \in 1..6 |-> Number(Ahead[n])]
           After == [n \in 1..6 |-> Number(Ahead[n])']
<1>1. /\ pc'[t] = place
      /\ \A u \in Threads \ {t} : pc'[u] = pc[u]
  BY DEF Goto
<1>2. ASSUME NEW S
      PROVE  /\ Number(S) \in Nat /\ Number(S)' \in Nat
             /\ (place \in S <=> pc[t] \in S) => Number(S)' = Number(S)
             /\ place \notin S /\ pc[t] \in S => Number(S)' = Number(S) - 1
  <2>1. \A u \in Threads \ {t} : pc'[u] \in S <=> pc[u] \in S
    BY <1>1
  <2>2. QED
    BY <1>1, <2>1, NumberAfter
<1>3. \A n \in 1..6 :
          /\ Before[n] \in Nat /\ After[n] \in Nat /\ After[n] <= Before[n]
          /\ place \notin Ahead[n] /\ pc[t] \in Ahead[n] => After[n] < Before[n]
  <2>1. SUFFICES ASSUME NEW n \in 1..6
                 PROVE  /\ Before[n] \in Nat /\ After[n] \in Nat /\ After[n] <= Before[n]
                        /\ place \notin Ahead[n] /\ pc[t] \in Ahead[n] => After[n] < Before[n]
    OBVIOUS
  <2>2. PICK a \in Nat, b \in Nat : a = Number(Ahead[n]) /\ b = Number(Ahead[n])'
    BY <1>2
  <2>3. /\ (place \in Ahead[n] <=> pc[t] \in Ahead[n]) => b = a
        /\ place \notin Ahead[n] /\ pc[t] \in Ahead[n] => b = a - 1
    BY <1>2, <2>2
  <2>4. place \in Ahead[n] => pc[t] \in Ahead[n]
    BY DEF Nearer
  <2>5. b <= a /\ (place \notin Ahead[n] /\ pc[t] \in Ahead[n] => b < a)
    BY <2>2, <2>3, <2>4
  <2>6. Before[n] = a /\ After[n] = b
    BY <2>2
  <2>7. QED
    BY <2>2, <2>5, <2>6
<1>4. \E n \in 1..6 : After[n] < Before[n]
  BY <1>3 DEF Nearer
<1>5. /\ Way = Before[1] + Before[2] + Before[3] + Before[4] + Before[5] + Before[6]
      /\ Way' = After[1] + After[2] + After[3] + After[4] + After[5] + After[6]
  BY DEF Way
<1> HIDE DEF Before, After
<1>6. After[1] + After[2] + After[3] + After[4] + After[5] + After[6]
        < Before[1] + Before[2] + Before[3] + Before[4] + Before[5] + Before[6]
  <2>1. \A n \in {1, 2, 3, 4, 5, 6} :
            Before[n] \in Nat /\ After[n] \in Nat /\ After[n] <= Before[n]
    BY <1>3
  <2>2. PICK n \in {1, 2, 3, 4, 5, 6} : After[n] < Before[n]
    BY <1>4
  <2>3. QED
    BY <2>1, <2>2
<1>7. QED
  BY <1>5, <1>6

(* The three ways in which a step brings the pool nearer to its rest.      *)
LEMMA LowersByWay ==
    ASSUME TypeOK, NEW t \in Threads, NEW place \in Places, Goto(t, place), jobs' = jobs,
           place \notin {"push", "notify", "run"}, pc[t] \notin {"push", "notify", "run"},
           place \in Staying <=> pc[t] \in Staying,
           place \in Notifying <=> pc[t] \in Notifying,
           Nearer(place, pc[t])
    PROVE  Lowers
<1>1. Goes(t, place)
  BY GotoGoes
<1>2. Load' = Load
  BY <1>1, LoadStays
<1>3. pc \in [Threads -> Places]
  BY DEF TypeOK, Places
<1>4. Way' < Way
  BY <1>3, WayShrinks
<1>5. Notices' = Notices
  BY <1>1, NoticesStay
<1>6. QED
  BY <1>2, <1>4, <1>5 DEF Lowers

LEMMA LowersByNotice ==
    ASSUME TypeOK, NEW t \in Threads, NEW place, Goes(t, place), jobs' = jobs,
           place # "push", pc[t] # "push",
           place \in {"notify", "run"} <=> pc[t] \in {"notify", "run"},
           place \in Staying => pc[t] \in Staying, place \notin Notifying,
           \/ pc[t] \in Staying /\ place \notin Staying
           \/ pc[t] \in Notifying
    PROVE  Lowers
<1>1. Load' = Load
  BY LoadStays
<1>2. Notices' < Notices
  BY NoticesFall
<1>3. QED
  BY <1>1, <1>2 DEF Lowers

(* A step that takes a job to the next stage of its way.                   *)
LEMMA PostPushLowers ==
    ASSUME TypeOK, NEW p \in Posters, posting[p] \in Jobs, PostPush(p)
    PROVE  Lowers
<1>1. p \in Threads /\ Goes(p, "post_notify") /\ pc[p] = "push"
  BY PosterGoes, ThreadsDisjoint DEF PostPush
<1>2. /\ "asleep" \in Coming <=> "woken" \in Coming
      /\ "asleep" \in HavePlucked <=> "woken" \in HavePlucked
      /\ "post_notify" \notin Coming /\ pc[p] \in Coming
      /\ "post_notify" \notin HavePlucked /\ pc[p] \notin HavePlucked
  BY <1>1 DEF Coming, HavePlucked
<1>3. Number(Coming) \in Nat /\ Number(Coming)' = Number(Coming) - 1
  BY <1>1, <1>2, NumberGoes
<1>4. Number(HavePlucked) \in Nat /\ Number(HavePlucked)' = Number(HavePlucked)
  BY <1>1, <1>2, NumberGoes
<1>5. Len(jobs) \in Nat /\ Len(jobs') = Len(jobs) + 1
  <2>1. jobs \in Seq(Jobs) /\ jobs' = Append(jobs, posting[p])
    BY DEF TypeOK, PostPush
  <2>2. QED
    BY <2>1
<1>6. PICK a \in Nat, b \in Nat, c \in Nat :
           a = Number(Coming) /\ b = Len(jobs) /\ c = Number(HavePlucked)
  BY <1>3, <1>4, <1>5
<1>7. /\ Load = 3 * a + 2 * b + c
      /\ Load' = 3 * (a - 1) + 2 * (b + 1) + c
  BY <1>3, <1>4, <1>5, <1>6 DEF Load
<1>8. Load' < Load
  BY <1>7
<1>9. QED
  BY <1>8 DEF Lowers

LEMMA PluckLowers ==
    ASSUME TypeOK, NEW w \in Workers, jobs # <<>>, Pluck(w)
    PROVE  Lowers
<1>1. w \in Threads /\ Goes(w, "notify") /\ pc[w] = "pluck"
  BY WorkerGoes, ThreadsDisjoint DEF Pluck
<1>2. /\ "asleep" \in Coming <=> "woken" \in Coming
      /\ "asleep" \in HavePlucked <=> "woken" \in HavePlucked
      /\ "notify" \notin Coming /\ pc[w] \notin Coming
      /\ "notify" \in HavePlucked /\ pc[w] \notin HavePlucked
  BY <1>1 DEF Coming, HavePlucked
<1>3. Number(Coming) \in Nat /\ Number(Coming)' = Number(Coming)
  BY <1>1, <1>2, NumberGoes
<1>4. Number(HavePlucked) \in Nat /\ Number(HavePlucked)' = Number(HavePlucked) + 1
  BY <1>1, <1>2, NumberGoes
<1>5. Len(jobs) \in Nat /\ Len(jobs') = Len(jobs) - 1
  <2>1. jobs \in Seq(Jobs) /\ jobs' = Tail(jobs)
    BY DEF TypeOK, Pluck
  <2>2. QED
    BY <2>1
<1>6. PICK a \in Nat, b \in Nat, c \in Nat :
           a = Number(Coming) /\ b = Len(jobs) /\ c = Number(HavePlucked)
  BY <1>3, <1>4, <1>5
<1>7. /\ Load = 3 * a + 2 * b + c
      /\ Load' = 3 * a + 2 * (b - 1) + (c + 1)
  BY <1>3, <1>4, <1>5, <1>6 DEF Load
<1>8. Load' < Load
  BY <1>7
<1>9. QED
  BY <1>8 DEF Lowers

LEMMA RunJobLowers ==
    ASSUME TypeOK, NEW w \in Workers, RunJob(w)
    PROVE  Lowers
<1>1. w \in Threads /\ Goes(w, "read_back") /\ pc[w] = "run" /\ jobs' = jobs
  BY WorkerGoes, ThreadsDisjoint DEF RunJob
<1>2. /\ "asleep" \in Coming <=> "woken" \in Coming
      /\ "asleep" \in HavePlucked <=> "woken" \in HavePlucked
      /\ "read_back" \notin Coming /\ pc[w] \notin Coming
      /\ "read_back" \notin HavePlucked /\ pc[w] \in HavePlucked
  BY <1>1 DEF Coming, HavePlucked
<1>3. Number(Coming) \in Nat /\ Number(Coming)' = Number(Coming)
  BY <1>1, <1>2, NumberGoes
<1>4. Number(HavePlucked) \in Nat /\ Number(HavePlucked)' = Number(HavePlucked) - 1
  BY <1>1, <1>2, NumberGoes
<1>5. Len(jobs) \in Nat
  BY DEF TypeOK
<1>6. PICK a \in Nat, b \in Nat, c \in Nat :
           a = Number(Coming) /\ b = Len(jobs) /\ c = Number(HavePlucked)
  BY <1>3, <1>4, <1>5
<1>7. /\ Load = 3 * a + 2 * b + c
      /\ Load' = 3 * a + 2 * b + (c - 1)
  BY <1>1, <1>3, <1>4, <1>6 DEF Load
<1>8. Load' < Load
  BY <1>7
<1>9. QED
  BY <1>8 DEF Lowers

LEMMA WorkerLowers ==
    ASSUME TypeOK, InspectedOK, NEW w \in Workers, WorkerStep(w)
    PROVE  Lowers
<1>1. w \in Threads /\ WorkerPlaces \subseteq Places
  BY ThreadsDisjoint DEF Places
<1>2. ASSUME NEW from, pc[w] = from, NEW place \in WorkerPlaces, Goto(w, place), jobs' = jobs,
             from \notin {"notify", "run"}, from \in Staying,
             place \notin {"notify", "run"}, place \in Staying, Nearer(place, from)
      PROVE  Lowers
  <2>1. from \in WorkerPlaces
    BY <1>2 DEF Staying
  <2>2. /\ place \notin {"push", "notify", "run"} /\ place \notin Notifying
        /\ from \notin {"push", "notify", "run"} /\ from \notin Notifying
    BY <1>2, <2>1 DEF WorkerPlaces, Notifying
  <2>3. QED
    BY <1>1, <1>2, <2>2, LowersByWay
<1>3. CASE ReadBack(w) \/ ReadFront(w)
  BY <1>2, <1>3, NearerPlaces DEF ReadBack, ReadFront, WorkerPlaces, Staying
<1>4. CASE TestStop(w)
  <2>1. CASE stop
    <3>1. Goes(w, "left") /\ pc[w] = "test_stop" /\ jobs' = jobs
      BY <1>1, <1>4, <2>1, GotoGoes DEF TestStop, WorkerPlaces
    <3>2. QED
      BY <1>1, <3>1, LowersByNotice DEF WorkerPlaces, Staying, Notifying
  <2>2. CASE ~stop
    BY <1>2, <1>4, <2>2, NearerPlaces DEF TestStop, WorkerPlaces, Staying
  <2>3. QED
    BY <2>1, <2>2
<1>5. CASE Acquire(w)
  BY <1>2, <1>5, NearerPlaces DEF Acquire, WorkerPlaces, Staying
<1>6. CASE InspectJob(w) \/ InspectIdle(w) \/ InspectBreak(w)
  BY <1>2, <1>6, NearerPlaces DEF InspectJob, InspectIdle, InspectBreak, WorkerPlaces, Staying
<1>7. CASE Wait(w)
  BY <1>2, <1>7, NearerPlaces DEF Wait, WorkerPlaces, Staying
<1>8. CASE Pluck(w)
  <2>1. jobs # <<>>
    BY <1>8 DEF Pluck, InspectedOK
  <2>2. QED
    BY <1>8, <2>1, PluckLowers
<1>9. CASE PluckNotify(w)
  <2>1. Goes(w, "run") /\ pc[w] = "notify" /\ jobs' = jobs
    BY <1>9, WorkerGoes DEF PluckNotify
  <2>2. QED
    BY <1>1, <2>1, LowersByNotice DEF WorkerPlaces, Staying, Notifying
<1>10. CASE BreakNotify(w)
  <2>1. Goes(w, "broke") /\ pc[w] = "break_notify" /\ jobs' = jobs
    BY <1>10, WorkerGoes DEF BreakNotify
  <2>2. QED
    BY <1>1, <2>1, LowersByNotice DEF WorkerPlaces, Staying, Notifying
<1>11. CASE RunJob(w)
  BY <1>11, RunJobLowers
<1>12. QED
  BY <1>3, <1>4, <1>5, <1>6, <1>7, <1>8, <1>9, <1>10, <1>11 DEF WorkerStep

LEMMA PosterLowers ==
    ASSUME TypeOK, PostingOK, NEW p \in Posters, PosterStep(p)
    PROVE  Lowers
<1>1. p \in Threads
  BY ThreadsDisjoint
<1>2. CASE PostPush(p)
  <2>1. posting[p] \in Jobs
    BY <1>2 DEF PostPush, PostingOK
  <2>2. QED
    BY <1>2, <2>1, PostPushLowers
<1>3. CASE PostNotify(p)
  <2>1. Goes(p, "post_unlock") /\ pc[p] = "post_notify" /\ jobs' = jobs
    BY <1>3, PosterGoes DEF PostNotify
  <2>2. QED
    BY <1>1, <2>1, LowersByNotice DEF WorkerPlaces, Staying, Notifying
<1>4. CASE PostUnlock(p)
  <2>1. Goto(p, "idle") /\ pc[p] = "post_unlock" /\ jobs' = jobs
    BY <1>4 DEF PostUnlock
  <2>2. "idle" \in Places /\ Nearer("idle", "post_unlock")
    BY NearerPlaces DEF Places, PosterPlaces
  <2>3. QED
    BY <1>1, <2>1, <2>2, LowersByWay DEF WorkerPlaces, Staying, Notifying
<1>5. QED
  BY <1>2, <1>3, <1>4 DEF PosterStep

LEMMA OwnerLowers ==
    ASSUME TypeOK, JoinStop \/ JoinNotify \/ JoinThreads \/ Destroy
    PROVE  Lowers
<1>1. Owner \in Threads
  BY ThreadsDisjoint
<1>2. ASSUME NEW from, pc[Owner] = from, NEW place \in OwnerPlaces, Goto(Owner, place), jobs' = jobs,
             from \in OwnerPlaces, place \in Notifying <=> from \in Notifying, Nearer(place, from)
      PROVE  Lowers
  <2>1. /\ place \notin {"push", "notify", "run"} /\ place \notin Staying /\ place \in Places
        /\ from \notin {"push", "notify", "run"} /\ from \notin Staying
    BY <1>2 DEF OwnerPlaces, WorkerPlaces, Staying, Places
  <2>2. QED
    BY <1>1, <1>2, <2>1, LowersByWay
<1>3. CASE JoinStop
  BY <1>2, <1>3, NearerPlaces DEF JoinStop, OwnerPlaces, Notifying
<1>4. CASE JoinNotify
  <2>1. Goes(Owner, "join_threads") /\ pc[Owner] = "join_notify" /\ jobs' = jobs
    BY <1>4, OwnerGoes DEF JoinNotify
  <2>2. QED
    BY <1>1, <2>1, LowersByNotice DEF WorkerPlaces, Staying, Notifying
<1>5. CASE JoinThreads \/ Destroy
  BY <1>2, <1>5, NearerPlaces DEF JoinThreads, Destroy, OwnerPlaces, Notifying
<1>6. QED
  BY <1>3, <1>4, <1>5

(* What starts something anew: a call of post that gets the mutex, or a    *)
(* worker woken without a notification.                                    *)
StartsAnew ==
    \/ \E w \in Workers : SpuriousWake(w)
    \/ \E p \in Posters, j \in unposted : PostLock(p, j)

(* Between two calls of post, spurious wakeups apart, the pool takes       *)
(* finitely many steps, then it is at rest: no two threads keep each other *)
(* busy, and a chain of notifications comes to an end.                     *)
THEOREM ThreadpoolSettles == Spec => [][StartsAnew \/ (Counted /\ Counted' /\ Lowers)]_vars
<1>1. Inv => TypeOK /\ PostingOK /\ InspectedOK
  BY DEF Inv, Control
<1>2. Inv => Counted
  BY <1>1, Counts
<1>3. ASSUME Inv, Next
      PROVE  StartsAnew \/ Lowers
  <2>1. ASSUME NEW w \in Workers, WorkerStep(w) \/ SpuriousWake(w)
        PROVE  StartsAnew \/ Lowers
    BY <1>1, <1>3, <2>1, WorkerLowers DEF StartsAnew
  <2>2. ASSUME NEW p \in Posters, PosterStep(p) \/ \E j \in unposted : PostLock(p, j)
        PROVE  StartsAnew \/ Lowers
    BY <1>1, <1>3, <2>2, PosterLowers DEF StartsAnew
  <2>3. QED
    BY <1>1, <1>3, <2>1, <2>2, OwnerLowers DEF Next
<1>4. Inv /\ [Next]_vars => [StartsAnew \/ Lowers]_vars
  BY <1>3
<1>5. QED
  BY ThreadpoolInvariant, <1>2, <1>4, PTL DEF Spec
==============================================================================
