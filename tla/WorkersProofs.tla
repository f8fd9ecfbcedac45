---------------------------- MODULE WorkersProofs ----------------------------
(***************************************************************************)
(* Proofs about the thread pool of workers.c, for any number of workers,   *)
(* posters and jobs.                                                       *)
(***************************************************************************)
EXTENDS Workers, FiniteSetTheorems, SequenceTheorems, TLAPS

------------------------------------------------------------------------------
(* Where the threads are after a step.                                     *)

Places == WorkerPlaces \cup PosterPlaces \cup OwnerPlaces

(* A step of one thread moves that thread only.                            *)
LEMMA GotoFacts ==
    ASSUME TypeOK, NEW t \in Threads, NEW place \in Places, Goto(t, place)
    PROVE  /\ pc' \in [Threads -> Places]
           /\ pc'[t] = place
           /\ \A u \in Threads \ {t} : pc'[u] = pc[u]
  BY DEF TypeOK, Goto, Places

(* pthread_cond_signal moves the caller and at most one sleeper, which it  *)
(* does move when there is one.                                            *)
LEMMA SignalFacts ==
    ASSUME TypeOK, NEW t \in Threads, NEW place \in Places,
           pc[t] # "asleep", Signal(t, place)
    PROVE  /\ pc' \in [Threads -> Places]
           /\ pc'[t] = place
           /\ \A u \in Threads \ {t} :
                 \/ pc'[u] = pc[u]
                 \/ u \in Workers /\ pc[u] = "asleep" /\ pc'[u] = "woken"
           /\ Asleep # {} => \E w \in Workers : pc'[w] = "woken"
<1>1. CASE Asleep = {} /\ Goto(t, place)
  BY <1>1, GotoFacts
<1>2. ASSUME NEW w \in Asleep, pc' = [pc EXCEPT ![t] = place, ![w] = "woken"]
      PROVE  /\ pc' \in [Threads -> Places]
             /\ pc'[t] = place
             /\ \A u \in Threads \ {t} :
                   \/ pc'[u] = pc[u]
                   \/ u \in Workers /\ pc[u] = "asleep" /\ pc'[u] = "woken"
             /\ \E v \in Workers : pc'[v] = "woken"
  <2>1. w \in Workers /\ w \in Threads /\ w # t /\ pc[w] = "asleep"
    BY <1>2 DEF Asleep, Threads
  <2>2. pc \in [Threads -> Places] /\ "woken" \in Places
    BY DEF TypeOK, Places, WorkerPlaces
  <2>3. pc' \in [Threads -> Places] /\ pc'[t] = place /\ pc'[w] = "woken"
    BY <1>2, <2>1, <2>2
  <2>4. \A u \in Threads \ {t, w} : pc'[u] = pc[u]
    BY <1>2, <2>1, <2>2
  <2>5. QED
    BY <2>1, <2>3, <2>4
<1>3. QED
  BY <1>1, <1>2 DEF Signal

(* The sets of threads are disjoint.                                       *)
LEMMA ThreadsDisjoint ==
    /\ Workers \subseteq Threads /\ Posters \subseteq Threads /\ Owner \in Threads
    /\ \A w \in Workers, p \in Posters : w # p
    /\ \A w \in Workers : w # Owner
    /\ \A p \in Posters : p # Owner
    /\ NoThread \notin Threads
  BY ThreadsAssumption DEF Threads

------------------------------------------------------------------------------
(* Types.                                                                  *)

(* The places of TypeOK, for a step that moves one thread or signals.      *)
PlacesOK ==
    /\ pc \in [Threads -> Places]
    /\ \A w \in Workers : pc[w] \in WorkerPlaces
    /\ \A p \in Posters : pc[p] \in PosterPlaces
    /\ pc[Owner] \in OwnerPlaces

LEMMA MovePlaces ==
    ASSUME TypeOK, NEW t \in Threads, NEW place \in Places,
           pc' \in [Threads -> Places],
           pc'[t] = place,
           \A u \in Threads \ {t} :
              \/ pc'[u] = pc[u]
              \/ u \in Workers /\ pc[u] = "asleep" /\ pc'[u] = "woken",
           \/ t \in Workers /\ place \in WorkerPlaces
           \/ t \in Posters /\ place \in PosterPlaces
           \/ t = Owner /\ place \in OwnerPlaces
    PROVE  PlacesOK'
  BY ThreadsDisjoint DEF TypeOK, PlacesOK, WorkerPlaces

(* Taking a cell leaves a queue of cells and yields a cell or Null.        *)
LEMMA NextCellFacts ==
    ASSUME jobs \in Seq(Cells)
    PROVE  AfterNext \in Seq(Cells) /\ NextCell \in Cells \cup {Null}
  BY DEF AfterNext, NextCell

(* A step of worker w alone.                                               *)
LEMMA WorkerPlacesStep ==
    ASSUME TypeOK, NEW w \in Workers, NEW place \in WorkerPlaces, Goto(w, place)
    PROVE  PlacesOK'
<1>1. place \in Places /\ w \in Threads
  BY ThreadsDisjoint DEF Places
<1>2. QED
  BY <1>1, GotoFacts, MovePlaces

LEMMA WorkerType ==
    ASSUME TypeOK, PairsWhole, NEW w \in Workers, WorkerStep(w)
    PROVE  TypeOK'
<1>1. w \in Threads /\ TypeOK
  BY ThreadsDisjoint
<1>2. CASE TestSize(w)
  <2>1. PlacesOK'
    BY <1>1, <1>2, WorkerPlacesStep DEF TestSize, WorkerPlaces
  <2>2. QED
    BY <1>1, <1>2, <2>1 DEF TestSize, TypeOK, PlacesOK, Places
<1>3. CASE TestStop(w)
  <2>1. PlacesOK'
    BY <1>1, <1>3, WorkerPlacesStep DEF TestStop, WorkerPlaces
  <2>2. QED
    BY <1>1, <1>3, <2>1 DEF TestStop, TypeOK, PlacesOK, Places
<1>4. CASE Acquire(w)
  <2>1. PlacesOK'
    BY <1>1, <1>4, WorkerPlacesStep DEF Acquire, WorkerPlaces
  <2>2. QED
    BY <1>1, <1>4, <2>1 DEF Acquire, TypeOK, PlacesOK, Places
<1>5. CASE InspectJob(w)
  <2>1. PlacesOK'
    BY <1>1, <1>5, WorkerPlacesStep DEF InspectJob, WorkerPlaces
  <2>2. QED
    BY <1>1, <1>5, <2>1 DEF InspectJob, TypeOK, PlacesOK, Places
<1>6. CASE InspectIdle(w)
  <2>1. PlacesOK'
    BY <1>1, <1>6, WorkerPlacesStep DEF InspectIdle, WorkerPlaces
  <2>2. QED
    BY <1>1, <1>6, <2>1 DEF InspectIdle, TypeOK, PlacesOK, Places
<1>7. CASE InspectBreak(w)
  <2>1. PlacesOK'
    BY <1>1, <1>7, WorkerPlacesStep DEF InspectBreak, WorkerPlaces
  <2>2. QED
    BY <1>1, <1>7, <2>1 DEF InspectBreak, TypeOK, PlacesOK, Places
<1>8. CASE Wait(w)
  <2>1. PlacesOK'
    BY <1>1, <1>8, WorkerPlacesStep DEF Wait, WorkerPlaces
  <2>2. QED
    BY <1>1, <1>8, <2>1 DEF Wait, TypeOK, PlacesOK, Places
<1>9. CASE PluckFn(w)
  <2>1. PlacesOK'
    BY <1>1, <1>9, WorkerPlacesStep DEF PluckFn, WorkerPlaces
  <2>2. held' \in [Workers -> [fn : Cells \cup {Null}, args : Cells \cup {Null}]]
    BY <1>1, <1>9, NextCellFacts DEF PluckFn, TypeOK
  <2>3. QED
    BY <1>1, <1>9, <2>1, <2>2, NextCellFacts DEF PluckFn, TypeOK, PlacesOK, Places
<1>10. CASE PluckArgs(w)
  <2>1. PlacesOK'
    BY <1>1, <1>10, WorkerPlacesStep DEF PluckArgs, WorkerPlaces
  <2>2. held' \in [Workers -> [fn : Cells \cup {Null}, args : Cells \cup {Null}]]
    BY <1>1, <1>10, NextCellFacts DEF PluckArgs, TypeOK
  <2>3. QED
    BY <1>1, <1>10, <2>1, <2>2, NextCellFacts DEF PluckArgs, TypeOK, PlacesOK, Places
<1>11. CASE PluckSignal(w)
  <2>1. PlacesOK'
    BY <1>1, <1>11, SignalFacts, MovePlaces DEF PluckSignal, WorkerPlaces, Places
  <2>2. QED
    BY <1>1, <1>11, <2>1 DEF PluckSignal, TypeOK, PlacesOK, Places
<1>12. CASE BreakSignal(w)
  <2>1. PlacesOK'
    BY <1>1, <1>12, SignalFacts, MovePlaces DEF BreakSignal, WorkerPlaces, Places
  <2>2. QED
    BY <1>1, <1>12, <2>1 DEF BreakSignal, TypeOK, PlacesOK, Places
<1>13. CASE RunJob(w)
  <2>1. PlacesOK'
    BY <1>1, <1>13, WorkerPlacesStep DEF RunJob, WorkerPlaces
  <2>2. held' \in [Workers -> [fn : Cells \cup {Null}, args : Cells \cup {Null}]]
    BY <1>1, <1>13 DEF RunJob, TypeOK, NothingHeld
  <2>3. held[w].args.job \in Jobs
    <3>1. PICK j \in Jobs : held[w] = [fn |-> FnCell(j), args |-> ArgsCell(j)]
      BY <1>13 DEF RunJob, PairsWhole
    <3>2. held[w].args.job = j
      BY <3>1 DEF ArgsCell
    <3>3. QED
      BY <3>2
  <2>4. QED
    BY <1>1, <1>13, <2>1, <2>2, <2>3 DEF RunJob, TypeOK, PlacesOK, Places
<1>14. QED
  BY <1>2, <1>3, <1>4, <1>5, <1>6, <1>7, <1>8, <1>9, <1>10, <1>11, <1>12, <1>13 DEF WorkerStep

(* A step of poster p alone.                                               *)
LEMMA PosterPlacesStep ==
    ASSUME TypeOK, NEW p \in Posters, NEW place \in PosterPlaces, Goto(p, place)
    PROVE  PlacesOK'
<1>1. place \in Places /\ p \in Threads
  BY ThreadsDisjoint DEF Places
<1>2. QED
  BY <1>1, GotoFacts, MovePlaces

(* A poster that holds the lock is posting a job.                          *)
PostingOK ==
    \A p \in Posters : pc[p] \in {"push_fn", "push_args"} => posting[p] \in Jobs \ unposted

LEMMA PosterType ==
    ASSUME TypeOK, PostingOK, NEW p \in Posters,
           PosterStep(p) \/ \E j \in unposted : PostLock(p, j)
    PROVE  TypeOK'
<1>1. p \in Threads
  BY ThreadsDisjoint
<1>2. ASSUME NEW j \in unposted, PostLock(p, j)
      PROVE  TypeOK'
  <2>1. PlacesOK'
    BY <1>2, PosterPlacesStep DEF PostLock, PosterPlaces
  <2>2. QED
    BY <1>1, <1>2, <2>1 DEF PostLock, TypeOK, PlacesOK, Places
<1>3. CASE BeginGrow(p)
  BY <1>3 DEF BeginGrow, TypeOK
<1>4. CASE EndGrow(p)
  <2>1. capacity' \in Nat \ {0}
    BY <1>4 DEF EndGrow, TypeOK
  <2>2. QED
    BY <1>4, <2>1 DEF EndGrow, TypeOK
<1>5. CASE PushFn(p) /\ posting[p] \in Jobs
  <2>1. PlacesOK'
    BY <1>5, PosterPlacesStep DEF PushFn, PosterPlaces
  <2>2. FnCell(posting[p]) \in Cells
    BY <1>5 DEF FnCell, Cells
  <2>3. jobs' \in Seq(Cells)
    BY <1>5, <2>2 DEF PushFn, TypeOK
  <2>4. QED
    BY <1>5, <2>1, <2>3 DEF PushFn, TypeOK, PlacesOK, Places
<1>6. CASE PushArgs(p) /\ posting[p] \in Jobs
  <2>1. PlacesOK'
    BY <1>6, PosterPlacesStep DEF PushArgs, PosterPlaces
  <2>2. ArgsCell(posting[p]) \in Cells
    BY <1>6 DEF ArgsCell, Cells
  <2>3. jobs' \in Seq(Cells)
    BY <1>6, <2>2 DEF PushArgs, TypeOK
  <2>4. QED
    BY <1>6, <2>1, <2>3 DEF PushArgs, TypeOK, PlacesOK, Places
<1>7. CASE PostSignal(p)
  <2>1. PlacesOK'
    BY <1>1, <1>7, SignalFacts, MovePlaces DEF PostSignal, PosterPlaces, Places
  <2>2. QED
    BY <1>7, <2>1 DEF PostSignal, TypeOK, PlacesOK, Places
<1>8. PushFn(p) \/ PushArgs(p) => posting[p] \in Jobs
  BY DEF PostingOK, PushFn, PushArgs
<1>9. QED
  BY <1>2, <1>3, <1>4, <1>5, <1>6, <1>7, <1>8 DEF PosterStep

LEMMA OwnerType ==
    ASSUME TypeOK, JoinStop \/ JoinSignal \/ JoinThreads
    PROVE  TypeOK'
<1>1. Owner \in Threads
  BY ThreadsDisjoint
<1>2. CASE JoinStop
  <2>1. PlacesOK'
    BY <1>1, <1>2, GotoFacts, MovePlaces DEF JoinStop, OwnerPlaces, Places
  <2>2. QED
    BY <1>2, <2>1 DEF JoinStop, TypeOK, PlacesOK, Places
<1>3. CASE JoinSignal
  <2>1. PlacesOK'
    BY <1>1, <1>3, SignalFacts, MovePlaces DEF JoinSignal, OwnerPlaces, Places
  <2>2. QED
    BY <1>3, <2>1 DEF JoinSignal, TypeOK, PlacesOK, Places
<1>4. CASE JoinThreads
  <2>1. PlacesOK'
    BY <1>1, <1>4, GotoFacts, MovePlaces DEF JoinThreads, OwnerPlaces, Places
  <2>2. QED
    BY <1>4, <2>1 DEF JoinThreads, TypeOK, PlacesOK, Places
<1>5. QED
  BY <1>2, <1>3, <1>4

LEMMA SpuriousType ==
    ASSUME TypeOK, NEW w \in Workers, SpuriousWake(w)
    PROVE  TypeOK'
<1>1. PlacesOK'
  BY WorkerPlacesStep DEF SpuriousWake, WorkerPlaces
<1>2. QED
  BY <1>1 DEF SpuriousWake, TypeOK, PlacesOK, Places

------------------------------------------------------------------------------
(* The inductive invariant.                                                *)

(* The critical sections, and the wait before the mutex is released.       *)
Inside == {"inspect", "wait", "pluck_fn", "pluck_args", "push_fn", "push_args"}

(* A thread is inside exactly when it holds the mutex: at most one is.     *)
LockHeld == \A t \in Threads : lock = t <=> pc[t] \in Inside

(* The flag is set by w_join, and nobody posts after that.                 *)
OwnerOK ==
    /\ stop <=> pc[Owner] # "up"
    /\ stop => \A p \in Posters : pc[p] = "idle"

(* What a worker found under the lock is still so.                         *)
InspectedOK ==
    \A w \in Workers :
        /\ pc[w] = "pluck_fn" => jobs # <<>>
        /\ pc[w] = "wait" => jobs = <<>>
        /\ pc[w] = "break_signal" => stop /\ jobs = <<>>

Control == TypeOK /\ LockHeld /\ PostingOK /\ OwnerOK /\ InspectedOK

(* The array is only reallocated by a poster that holds the mutex and has  *)
(* found it full.                                                          *)
GrowingOK ==
    growing => /\ Len(jobs) >= capacity
               /\ \E p \in Posters : pc[p] \in {"push_fn", "push_args"}

Inv == Control /\ GrowingOK /\ QueueOfPairs /\ PairsWhole /\ WorkNeverStranded

------------------------------------------------------------------------------

(* Mutual exclusion and what the threads know.                             *)

(* The others stay where they are, but a sleeper may be woken.             *)
OthersStay(t) ==
    \A u \in Threads \ {t} :
       \/ pc'[u] = pc[u]
       \/ u \in Workers /\ pc[u] = "asleep" /\ pc'[u] = "woken"

(* Thread t enters by taking the free mutex, leaves by releasing it, or    *)
(* stays on its side.                                                      *)
LockMove(t) ==
    \/ lock' = lock /\ (pc[t] \in Inside <=> pc'[t] \in Inside)
    \/ lock = NoThread /\ lock' = t /\ pc'[t] \in Inside
    \/ lock = t /\ lock' = NoThread /\ pc'[t] \notin Inside

(* Then the mutex excludes as before.                                      *)
LEMMA LockStep ==
    ASSUME TypeOK, LockHeld, NEW t \in Threads, OthersStay(t), LockMove(t)
    PROVE  LockHeld'
  BY ThreadsDisjoint DEF LockHeld, LockMove, OthersStay, Inside

LEMMA WorkerMoves ==
    ASSUME TypeOK, LockHeld, NEW w \in Workers, WorkerStep(w)
    PROVE  OthersStay(w) /\ LockHeld'
<1>1. w \in Threads /\ (lock = w <=> pc[w] \in Inside)
  BY ThreadsDisjoint DEF LockHeld
<1>2. CASE TestSize(w)
  <2>1. OthersStay(w) /\ pc' \in [Threads -> Places]
    BY <1>1, <1>2, GotoFacts DEF TestSize, OthersStay, Places, WorkerPlaces
  <2>2. LockHeld'
    <3>1. LockMove(w)
      BY <1>1, <1>2, GotoFacts DEF TestSize, LockMove, Inside, Places, WorkerPlaces
    <3>2. QED
      BY <1>1, <2>1, <3>1, LockStep
  <2>3. QED
    BY <2>1, <2>2
<1>3. CASE TestStop(w)
  <2>1. OthersStay(w) /\ pc' \in [Threads -> Places]
    BY <1>1, <1>3, GotoFacts DEF TestStop, OthersStay, Places, WorkerPlaces
  <2>2. LockHeld'
    <3>1. LockMove(w)
      BY <1>1, <1>3, GotoFacts DEF TestStop, LockMove, Inside, Places, WorkerPlaces
    <3>2. QED
      BY <1>1, <2>1, <3>1, LockStep
  <2>3. QED
    BY <2>1, <2>2
<1>4. CASE Acquire(w)
  <2>1. OthersStay(w) /\ pc' \in [Threads -> Places]
    BY <1>1, <1>4, GotoFacts DEF Acquire, OthersStay, Places, WorkerPlaces
  <2>2. LockHeld'
    <3>1. LockMove(w)
      BY <1>1, <1>4, GotoFacts DEF Acquire, LockMove, Inside, Places, WorkerPlaces
    <3>2. QED
      BY <1>1, <2>1, <3>1, LockStep
  <2>3. QED
    BY <2>1, <2>2
<1>5. CASE InspectJob(w)
  <2>1. OthersStay(w) /\ pc' \in [Threads -> Places]
    BY <1>1, <1>5, GotoFacts DEF InspectJob, OthersStay, Places, WorkerPlaces
  <2>2. LockHeld'
    <3>1. LockMove(w)
      BY <1>1, <1>5, GotoFacts DEF InspectJob, LockMove, Inside, Places, WorkerPlaces
    <3>2. QED
      BY <1>1, <2>1, <3>1, LockStep
  <2>3. QED
    BY <2>1, <2>2
<1>6. CASE InspectIdle(w)
  <2>1. OthersStay(w) /\ pc' \in [Threads -> Places]
    BY <1>1, <1>6, GotoFacts DEF InspectIdle, OthersStay, Places, WorkerPlaces
  <2>2. LockHeld'
    <3>1. LockMove(w)
      BY <1>1, <1>6, GotoFacts DEF InspectIdle, LockMove, Inside, Places, WorkerPlaces
    <3>2. QED
      BY <1>1, <2>1, <3>1, LockStep
  <2>3. QED
    BY <2>1, <2>2
<1>7. CASE InspectBreak(w)
  <2>1. OthersStay(w) /\ pc' \in [Threads -> Places]
    BY <1>1, <1>7, GotoFacts DEF InspectBreak, OthersStay, Places, WorkerPlaces
  <2>2. LockHeld'
    <3>1. LockMove(w)
      BY <1>1, <1>7, GotoFacts DEF InspectBreak, LockMove, Inside, Places, WorkerPlaces
    <3>2. QED
      BY <1>1, <2>1, <3>1, LockStep
  <2>3. QED
    BY <2>1, <2>2
<1>8. CASE Wait(w)
  <2>1. OthersStay(w) /\ pc' \in [Threads -> Places]
    BY <1>1, <1>8, GotoFacts DEF Wait, OthersStay, Places, WorkerPlaces
  <2>2. LockHeld'
    <3>1. LockMove(w)
      BY <1>1, <1>8, GotoFacts DEF Wait, LockMove, Inside, Places, WorkerPlaces
    <3>2. QED
      BY <1>1, <2>1, <3>1, LockStep
  <2>3. QED
    BY <2>1, <2>2
<1>9. CASE PluckFn(w)
  <2>1. OthersStay(w) /\ pc' \in [Threads -> Places]
    BY <1>1, <1>9, GotoFacts DEF PluckFn, OthersStay, Places, WorkerPlaces
  <2>2. LockHeld'
    <3>1. LockMove(w)
      BY <1>1, <1>9, GotoFacts DEF PluckFn, LockMove, Inside, Places, WorkerPlaces
    <3>2. QED
      BY <1>1, <2>1, <3>1, LockStep
  <2>3. QED
    BY <2>1, <2>2
<1>10. CASE PluckArgs(w)
  <2>1. OthersStay(w) /\ pc' \in [Threads -> Places]
    BY <1>1, <1>10, GotoFacts DEF PluckArgs, OthersStay, Places, WorkerPlaces
  <2>2. LockHeld'
    <3>1. LockMove(w)
      BY <1>1, <1>10, GotoFacts DEF PluckArgs, LockMove, Inside, Places, WorkerPlaces
    <3>2. QED
      BY <1>1, <2>1, <3>1, LockStep
  <2>3. QED
    BY <2>1, <2>2
<1>11. CASE PluckSignal(w)
  <2>1. OthersStay(w) /\ pc' \in [Threads -> Places]
    BY <1>1, <1>11, SignalFacts DEF PluckSignal, OthersStay, Places, WorkerPlaces
  <2>2. LockHeld'
    <3>1. LockMove(w)
      BY <1>1, <1>11, SignalFacts DEF PluckSignal, LockMove, Inside, Places, WorkerPlaces
    <3>2. QED
      BY <1>1, <2>1, <3>1, LockStep
  <2>3. QED
    BY <2>1, <2>2
<1>12. CASE BreakSignal(w)
  <2>1. OthersStay(w) /\ pc' \in [Threads -> Places]
    BY <1>1, <1>12, SignalFacts DEF BreakSignal, OthersStay, Places, WorkerPlaces
  <2>2. LockHeld'
    <3>1. LockMove(w)
      BY <1>1, <1>12, SignalFacts DEF BreakSignal, LockMove, Inside, Places, WorkerPlaces
    <3>2. QED
      BY <1>1, <2>1, <3>1, LockStep
  <2>3. QED
    BY <2>1, <2>2
<1>13. CASE RunJob(w)
  <2>1. OthersStay(w) /\ pc' \in [Threads -> Places]
    BY <1>1, <1>13, GotoFacts DEF RunJob, OthersStay, Places, WorkerPlaces
  <2>2. LockHeld'
    <3>1. LockMove(w)
      BY <1>1, <1>13, GotoFacts DEF RunJob, LockMove, Inside, Places, WorkerPlaces
    <3>2. QED
      BY <1>1, <2>1, <3>1, LockStep
  <2>3. QED
    BY <2>1, <2>2
<1>14. QED
  BY <1>2, <1>3, <1>4, <1>5, <1>6, <1>7, <1>8, <1>9, <1>10, <1>11, <1>12, <1>13 DEF WorkerStep

LEMMA WorkerControl ==
    ASSUME Control, NEW w \in Workers, WorkerStep(w)
    PROVE  PostingOK' /\ OwnerOK' /\ InspectedOK'
<1> USE DEF Control
<1>1. OthersStay(w)
  BY WorkerMoves
<1>2. UNCHANGED <<stop, posting, unposted>>
  BY DEF WorkerStep, TestSize, TestStop, Acquire, InspectJob, InspectIdle, InspectBreak, Wait,
         PluckFn, PluckArgs, PluckSignal, BreakSignal, RunJob
<1>3. PostingOK' /\ OwnerOK'
  <2>1. \A p \in Posters : pc'[p] = pc[p]
    BY <1>1, ThreadsDisjoint DEF OthersStay
  <2>2. pc'[Owner] = pc[Owner]
    BY <1>1, ThreadsDisjoint DEF OthersStay
  <2>3. QED
    BY <1>2, <2>1, <2>2 DEF PostingOK, OwnerOK
<1>4. ASSUME NEW v \in Workers, v # w
      PROVE  /\ pc'[v] = "pluck_fn" => jobs' # <<>>
             /\ pc'[v] = "wait" => jobs' = <<>>
             /\ pc'[v] = "break_signal" => stop' /\ jobs' = <<>>
  <2>1. pc'[v] = pc[v] \/ pc'[v] = "woken"
    BY <1>1, <1>4, ThreadsDisjoint DEF OthersStay
  <2>2. CASE jobs' = jobs
    BY <1>2, <2>1, <2>2 DEF InspectedOK
  <2>3. CASE PluckFn(w) \/ PluckArgs(w)
    <3>1. pc[v] \notin Inside
      <4>1. lock = w /\ w \in Threads /\ v \in Threads
        BY <2>3, ThreadsDisjoint DEF LockHeld, PluckFn, PluckArgs, Inside
      <4>2. QED
        BY <1>4, <4>1 DEF LockHeld
    <3>2. jobs = <<>> => jobs' = <<>>
      BY <2>3 DEF PluckFn, PluckArgs, AfterNext
    <3>3. QED
      BY <1>2, <2>1, <3>1, <3>2 DEF InspectedOK, Inside
  <2>4. QED
    BY <2>2, <2>3
       DEF WorkerStep, TestSize, TestStop, Acquire, InspectJob, InspectIdle, InspectBreak,
           Wait, PluckSignal, BreakSignal, RunJob
<1>5. /\ pc'[w] = "pluck_fn" => jobs' # <<>>
      /\ pc'[w] = "wait" => jobs' = <<>>
      /\ pc'[w] = "break_signal" => stop' /\ jobs' = <<>>
  <2>1. w \in Threads /\ pc \in [Threads -> Places]
    BY ThreadsDisjoint DEF TypeOK, Places
  <2>2. CASE InspectJob(w) \/ InspectIdle(w) \/ InspectBreak(w)
    BY <2>1, <2>2 DEF InspectJob, InspectIdle, InspectBreak, Goto
  <2>3. CASE PluckSignal(w) \/ BreakSignal(w)
    <3>1. pc'[w] \in {"run", "exited"}
      BY <2>1, <2>3, SignalFacts DEF PluckSignal, BreakSignal, Places, WorkerPlaces
    <3>2. QED
      BY <3>1
  <2>4. CASE ~(\/ InspectJob(w) \/ InspectIdle(w) \/ InspectBreak(w)
               \/ PluckSignal(w) \/ BreakSignal(w))
    BY <2>1, <2>4 DEF WorkerStep, TestSize, TestStop, Acquire, Wait, PluckFn, PluckArgs, RunJob, Goto
  <2>5. QED
    BY <2>2, <2>3, <2>4
<1>6. QED
  BY <1>3, <1>4, <1>5 DEF InspectedOK

(* The same for the steps of a poster, of the owner and of a sleeper that  *)
(* wakes without a signal.                                                 *)
LEMMA PosterControl ==
    ASSUME Control, NEW p \in Posters,
           PosterStep(p) \/ \E j \in unposted : PostLock(p, j)
    PROVE  OthersStay(p) /\ LockHeld' /\ PostingOK' /\ OwnerOK' /\ InspectedOK'
<1> USE DEF Control
<1>1. /\ p \in Threads /\ (lock = p <=> pc[p] \in Inside)
      /\ posting \in [Posters -> Jobs \cup {Null}]
  BY ThreadsDisjoint DEF LockHeld, TypeOK
<1>2. OthersStay(p)
  <2>1. ASSUME NEW j \in unposted, PostLock(p, j)
        PROVE  OthersStay(p)
    BY <1>1, <2>1, GotoFacts DEF PostLock, OthersStay, Places, PosterPlaces
  <2>2. CASE BeginGrow(p) \/ EndGrow(p)
    BY <2>2 DEF BeginGrow, EndGrow, OthersStay
  <2>3. CASE PushFn(p) \/ PushArgs(p)
    BY <1>1, <2>3, GotoFacts DEF PushFn, PushArgs, OthersStay, Places, PosterPlaces
  <2>4. CASE PostSignal(p)
    BY <1>1, <2>4, SignalFacts DEF PostSignal, OthersStay, Places, PosterPlaces
  <2>5. QED
    BY <2>1, <2>2, <2>3, <2>4 DEF PosterStep
<1>3. LockMove(p)
  <2>1. ASSUME NEW j \in unposted, PostLock(p, j)
        PROVE  LockMove(p)
    BY <1>1, <2>1, GotoFacts DEF PostLock, LockMove, Inside, Places, PosterPlaces
  <2>2. CASE BeginGrow(p) \/ EndGrow(p)
    BY <2>2 DEF BeginGrow, EndGrow, LockMove
  <2>3. CASE PushFn(p) \/ PushArgs(p)
    BY <1>1, <2>3, GotoFacts DEF PushFn, PushArgs, LockMove, Inside, Places, PosterPlaces
  <2>4. CASE PostSignal(p)
    BY <1>1, <2>4, SignalFacts DEF PostSignal, LockMove, Inside, Places, PosterPlaces
  <2>5. QED
    BY <2>1, <2>2, <2>3, <2>4 DEF PosterStep
<1>4. LockHeld'
  BY <1>1, <1>2, <1>3, LockStep
<1>5. \A q \in Posters : q # p => pc'[q] = pc[q]
  BY <1>2, ThreadsDisjoint DEF OthersStay
<1>6. PostingOK'
  <2>1. ASSUME NEW j \in unposted, PostLock(p, j)
        PROVE  PostingOK'
    <3>1. \A q \in Posters : q # p => pc[q] \notin Inside
      BY <2>1, ThreadsDisjoint DEF PostLock, LockHeld
    <3>2. j \in Jobs /\ j \notin unposted'
      BY <2>1 DEF PostLock, TypeOK
    <3>3. posting'[p] = j
      BY <1>1, <2>1 DEF PostLock
    <3>4. QED
      BY <1>5, <3>1, <3>2, <3>3 DEF PostingOK, Inside
  <2>2. CASE BeginGrow(p) \/ EndGrow(p)
    BY <2>2 DEF BeginGrow, EndGrow, PostingOK
  <2>3. CASE PushFn(p)
    BY <1>1, <1>5, <2>3 DEF PushFn, PostingOK
  <2>4. CASE PushArgs(p)
    <3>1. pc'[p] = "post_signal"
      BY <1>1, <2>4, GotoFacts DEF PushArgs, Places, PosterPlaces
    <3>2. \A q \in Posters : q # p => posting'[q] = posting[q]
      BY <1>1, <2>4 DEF PushArgs
    <3>3. QED
      BY <1>5, <2>4, <3>1, <3>2 DEF PushArgs, PostingOK
  <2>5. CASE PostSignal(p)
    <3>1. pc'[p] = "idle"
      BY <1>1, <2>5, SignalFacts DEF PostSignal, Places, PosterPlaces
    <3>2. QED
      BY <1>5, <2>5, <3>1 DEF PostSignal, PostingOK
  <2>6. QED
    BY <2>1, <2>2, <2>3, <2>4, <2>5 DEF PosterStep
<1>7. ~stop /\ UNCHANGED stop
  <2>1. PosterStep(p) => pc[p] # "idle" /\ UNCHANGED stop
    BY DEF PosterStep, BeginGrow, EndGrow, PushFn, PushArgs, PostSignal
  <2>2. (\E j \in unposted : PostLock(p, j)) => pc[Owner] = "up" /\ UNCHANGED stop
    BY DEF PostLock
  <2>3. QED
    BY <2>1, <2>2 DEF OwnerOK
<1>8. OwnerOK'
  <2>1. pc'[Owner] = pc[Owner]
    BY <1>2, ThreadsDisjoint DEF OthersStay
  <2>2. QED
    BY <1>7, <2>1 DEF OwnerOK
<1>9. InspectedOK'
  <2>1. \A w \in Workers : pc'[w] = pc[w] \/ pc'[w] = "woken"
    BY <1>2, ThreadsDisjoint DEF OthersStay
  <2>2. CASE jobs' = jobs
    BY <1>7, <2>1, <2>2 DEF InspectedOK
  <2>3. CASE PushFn(p) \/ PushArgs(p)
    <3>1. \A w \in Workers : pc[w] \notin Inside
      BY <1>1, <2>3, ThreadsDisjoint DEF LockHeld, PushFn, PushArgs, Inside
    <3>2. QED
      BY <1>7, <2>1, <3>1 DEF InspectedOK, Inside
  <2>4. QED
    BY <2>2, <2>3 DEF PosterStep, BeginGrow, EndGrow, PostSignal, PostLock
<1>10. QED
  BY <1>2, <1>4, <1>6, <1>8, <1>9

LEMMA OwnerControl ==
    ASSUME Control, JoinStop \/ JoinSignal \/ JoinThreads
    PROVE  OthersStay(Owner) /\ LockHeld' /\ PostingOK' /\ OwnerOK' /\ InspectedOK'
<1> USE DEF Control
<1>1. Owner \in Threads /\ pc[Owner] \in OwnerPlaces
  BY ThreadsDisjoint DEF TypeOK
<1>2. /\ OthersStay(Owner)
      /\ JoinStop => pc'[Owner] = "join_signal"
      /\ JoinSignal => pc'[Owner] = "join_threads"
      /\ JoinThreads => pc'[Owner] = "joined"
  <2>1. CASE JoinStop \/ JoinThreads
    BY <1>1, <2>1, GotoFacts DEF JoinStop, JoinSignal, JoinThreads, OthersStay, Places, OwnerPlaces
  <2>2. CASE JoinSignal
    BY <1>1, <2>2, SignalFacts DEF JoinStop, JoinSignal, JoinThreads, OthersStay, Places, OwnerPlaces
  <2>3. QED
    BY <2>1, <2>2
<1>3. LockHeld'
  <2>1. LockMove(Owner)
    BY <1>1, <1>2 DEF JoinStop, JoinSignal, JoinThreads, LockMove, Inside, OwnerPlaces
  <2>2. QED
    BY <1>1, <1>2, <2>1, LockStep
<1>4. /\ \A p \in Posters : pc'[p] = pc[p]
      /\ \A w \in Workers : pc'[w] = pc[w] \/ pc'[w] = "woken"
  BY <1>2, ThreadsDisjoint DEF OthersStay
<1>5. PostingOK' /\ InspectedOK' /\ OwnerOK'
  BY <1>2, <1>4 DEF JoinStop, JoinSignal, JoinThreads, PostingOK, InspectedOK, OwnerOK
<1>6. QED
  BY <1>2, <1>3, <1>5

LEMMA SpuriousControl ==
    ASSUME Control, NEW w \in Workers, SpuriousWake(w)
    PROVE  OthersStay(w) /\ LockHeld' /\ PostingOK' /\ OwnerOK' /\ InspectedOK'
<1> USE DEF Control
<1>1. w \in Threads
  BY ThreadsDisjoint
<1>2. OthersStay(w) /\ pc'[w] = "woken"
  BY <1>1, GotoFacts DEF SpuriousWake, OthersStay, Places, WorkerPlaces
<1>3. LockHeld'
  <2>1. LockMove(w)
    BY <1>2 DEF SpuriousWake, LockMove, Inside
  <2>2. QED
    BY <1>1, <1>2, <2>1, LockStep
<1>4. /\ \A p \in Posters : pc'[p] = pc[p]
      /\ \A v \in Workers : pc'[v] = pc[v] \/ pc'[v] = "woken"
      /\ pc'[Owner] = pc[Owner]
  BY <1>2, ThreadsDisjoint DEF OthersStay
<1>5. PostingOK' /\ InspectedOK' /\ OwnerOK'
  BY <1>4 DEF SpuriousWake, PostingOK, InspectedOK, OwnerOK
<1>6. QED
  BY <1>2, <1>3, <1>5

------------------------------------------------------------------------------
(* The pairs of cells.                                                     *)

(* A step that leaves the queue alone and moves nobody into or out of the  *)
(* middle of a pair.                                                       *)
PairsFrame ==
    /\ jobs' = jobs
    /\ unposted' \subseteq unposted
    /\ \A w \in Workers :
          /\ pc'[w] = "pluck_args" <=> pc[w] = "pluck_args"
          /\ pc'[w] = "pluck_args" => held'[w] = held[w]
    /\ \A p \in Posters :
          /\ pc'[p] = "push_args" <=> pc[p] = "push_args"
          /\ pc'[p] = "push_args" => posting'[p] = posting[p]

LEMMA PairsFrameFacts == QueueOfPairs /\ PairsFrame => QueueOfPairs'
  BY DEF QueueOfPairs, PairsFrame

(* A step after which only workers that had a pair have one, the same.     *)
HeldFrame ==
    /\ unposted' \subseteq unposted
    /\ \A w \in Workers : pc'[w] \in {"signal", "run"} =>
          pc[w] \in {"signal", "run"} /\ held'[w] = held[w]

LEMMA HeldFrameFacts == PairsWhole /\ HeldFrame => PairsWhole'
  BY DEF PairsWhole, HeldFrame

(* The queue without its first cell, and with one more at the end.         *)
LEMMA RestOfQueue ==
    ASSUME jobs \in Seq(Cells), jobs # <<>>
    PROVE  /\ NextCell = jobs[1] /\ AfterNext \in Seq(Cells)
           /\ Len(AfterNext) = Len(jobs) - 1
           /\ \A i \in 1..(Len(jobs) - 1) : AfterNext[i] = jobs[i + 1]
           /\ Len(jobs) \in Nat \ {0}
  BY DEF NextCell, AfterNext

LEMMA CellFacts ==
    /\ \A j : FnCell(j).part = "fn" /\ FnCell(j).job = j
    /\ \A j : ArgsCell(j).part = "args" /\ ArgsCell(j).job = j
    /\ \A c \in Cells : /\ c.job \in Jobs
                        /\ c.part = "fn" => c = FnCell(c.job)
                        /\ c.part = "args" => c = ArgsCell(c.job)
                        /\ c.part \in {"fn", "args"}
  BY DEF FnCell, ArgsCell, Cells

(* A worker in the middle of a pair excludes all the other threads.        *)
LEMMA Alone ==
    ASSUME LockHeld, NEW t \in Threads, pc[t] \in Inside
    PROVE  \A u \in Threads \ {t} : pc[u] \notin Inside
  BY DEF LockHeld

LEMMA PluckFnPairs ==
    ASSUME Inv, NEW w \in Workers, PluckFn(w)
    PROVE  QueueOfPairs' /\ PairsWhole'
<1> USE DEF Inv, Control
<1>1. /\ w \in Threads /\ jobs \in Seq(Cells) /\ jobs # <<>> /\ pc[w] \in Inside
      /\ held \in [Workers -> [fn : Cells \cup {Null}, args : Cells \cup {Null}]]
  BY ThreadsDisjoint DEF PluckFn, InspectedOK, TypeOK, Inside
<1>2. /\ \A v \in Workers \ {w} : pc[v] \notin Inside
      /\ \A p \in Posters : pc[p] \notin Inside
  BY <1>1, Alone, ThreadsDisjoint
<1>3. /\ pc'[w] = "pluck_args"
      /\ \A v \in Workers \ {w} : pc'[v] = pc[v]
      /\ \A p \in Posters : pc'[p] = pc[p]
  BY <1>1, GotoFacts, ThreadsDisjoint DEF PluckFn, Places, WorkerPlaces
<1>4. /\ jobs' = AfterNext /\ held'[w].fn = NextCell
      /\ \A v \in Workers \ {w} : held'[v] = held[v]
      /\ unposted' = unposted
  BY <1>1 DEF PluckFn
<1>5. jobs[1].part = "fn" /\ jobs[Len(jobs)].part = "args"
  BY <1>1, <1>2 DEF QueueOfPairs, Inside, PluckFn
<1>6. Len(jobs) \in Nat /\ Len(jobs) >= 2
  BY <1>1, <1>5
<1>7. jobs[1] \in Cells /\ jobs[2] = ArgsCell(jobs[1].job)
  BY <1>1, <1>5, <1>6 DEF QueueOfPairs
<1>8. /\ Len(jobs') = Len(jobs) - 1
      /\ \A i \in 1..Len(jobs') : i + 1 \in 1..Len(jobs) /\ jobs'[i] = jobs[i + 1]
      /\ jobs' \in Seq(Cells)
  BY <1>1, <1>4, <1>6, RestOfQueue
<1>9. QueueOfPairs'
  <2>1. \A i \in 1..(Len(jobs') - 1) :
           IF jobs'[i].part = "fn" THEN jobs'[i + 1] = ArgsCell(jobs'[i].job)
                                   ELSE jobs'[i + 1].part = "fn"
    <3>1. ASSUME NEW i \in 1..(Len(jobs') - 1)
          PROVE  IF jobs'[i].part = "fn" THEN jobs'[i + 1] = ArgsCell(jobs'[i].job)
                                         ELSE jobs'[i + 1].part = "fn"
      <4> DEFINE k == i + 1
      <4>1. /\ k \in 1..(Len(jobs) - 1) /\ i \in 1..Len(jobs') /\ k \in 1..Len(jobs')
        BY <1>6, <1>8
      <4>2. jobs'[i] = jobs[k] /\ jobs'[k] = jobs[k + 1]
        BY <1>8, <4>1
      <4> HIDE DEF k
      <4>3. IF jobs[k].part = "fn" THEN jobs[k + 1] = ArgsCell(jobs[k].job)
                                   ELSE jobs[k + 1].part = "fn"
        BY <4>1 DEF QueueOfPairs
      <4>4. QED
        BY <4>2, <4>3 DEF k
    <3>2. QED
      BY <3>1
  <2>2. \A i \in 1..Len(jobs') : jobs'[i].job \notin unposted'
    BY <1>4, <1>8 DEF QueueOfPairs
  <2>3. /\ jobs' # <<>> /\ jobs'[1] = ArgsCell(jobs[1].job)
        /\ held'[w].fn = FnCell(jobs'[1].job) /\ jobs'[1].part = "args"
    <3>1. jobs' # <<>> /\ jobs'[1] = jobs[2]
      BY <1>6, <1>8
    <3>2. jobs[1] = FnCell(jobs[1].job)
      BY <1>5, <1>7, CellFacts
    <3>3. held'[w].fn = jobs[1]
      BY <1>1, <1>4, RestOfQueue
    <3>4. QED
      BY <1>7, <3>1, <3>2, <3>3, CellFacts
  <2>4. jobs'[Len(jobs')].part = "args"
    <3>1. Len(jobs') \in 1..Len(jobs') /\ Len(jobs') + 1 = Len(jobs)
      BY <1>6, <1>8
    <3>2. QED
      BY <1>5, <1>8, <3>1
  <2>5. /\ \A v \in Workers \ {w} : pc'[v] # "pluck_args"
        /\ \A p \in Posters : pc'[p] # "push_args"
    BY <1>2, <1>3 DEF Inside
  <2>6. QED
    BY <1>3, <2>1, <2>2, <2>3, <2>4, <2>5 DEF QueueOfPairs
<1>10. PairsWhole'
  <2>1. HeldFrame
    BY <1>3, <1>4 DEF HeldFrame
  <2>2. QED
    BY <2>1, HeldFrameFacts
<1>11. QED
  BY <1>9, <1>10

LEMMA PluckArgsPairs ==
    ASSUME Inv, NEW w \in Workers, PluckArgs(w)
    PROVE  QueueOfPairs' /\ PairsWhole'
<1> USE DEF Inv, Control
<1>1. /\ w \in Threads /\ jobs \in Seq(Cells) /\ jobs # <<>> /\ pc[w] \in Inside
      /\ held \in [Workers -> [fn : Cells \cup {Null}, args : Cells \cup {Null}]]
      /\ held[w].fn = FnCell(jobs[1].job) /\ jobs[1].part = "args"
  BY ThreadsDisjoint DEF PluckArgs, QueueOfPairs, TypeOK, Inside
<1>2. /\ \A v \in Workers \ {w} : pc[v] \notin Inside
      /\ \A p \in Posters : pc[p] \notin Inside
  BY <1>1, Alone, ThreadsDisjoint
<1>3. /\ pc'[w] = "signal"
      /\ \A v \in Workers \ {w} : pc'[v] = pc[v]
      /\ \A p \in Posters : pc'[p] = pc[p]
  BY <1>1, GotoFacts, ThreadsDisjoint DEF PluckArgs, Places, WorkerPlaces
<1>4. /\ jobs' = AfterNext
      /\ held'[w] = [fn |-> held[w].fn, args |-> NextCell]
      /\ \A v \in Workers \ {w} : held'[v] = held[v]
      /\ unposted' = unposted
  BY <1>1 DEF PluckArgs
<1>5. /\ Len(jobs) \in Nat /\ Len(jobs) >= 1
      /\ jobs[1] \in Cells
      /\ Len(jobs') = Len(jobs) - 1
      /\ \A i \in 1..Len(jobs') : i + 1 \in 1..Len(jobs) /\ jobs'[i] = jobs[i + 1]
      /\ jobs' \in Seq(Cells)
  BY <1>1, <1>4, RestOfQueue
<1>6. QueueOfPairs'
  <2>1. \A i \in 1..(Len(jobs') - 1) :
           IF jobs'[i].part = "fn" THEN jobs'[i + 1] = ArgsCell(jobs'[i].job)
                                   ELSE jobs'[i + 1].part = "fn"
    <3>1. ASSUME NEW i \in 1..(Len(jobs') - 1)
          PROVE  IF jobs'[i].part = "fn" THEN jobs'[i + 1] = ArgsCell(jobs'[i].job)
                                         ELSE jobs'[i + 1].part = "fn"
      <4> DEFINE k == i + 1
      <4>1. /\ k \in 1..(Len(jobs) - 1) /\ i \in 1..Len(jobs') /\ k \in 1..Len(jobs')
        BY <1>5
      <4>2. jobs'[i] = jobs[k] /\ jobs'[k] = jobs[k + 1]
        BY <1>5, <4>1
      <4> HIDE DEF k
      <4>3. IF jobs[k].part = "fn" THEN jobs[k + 1] = ArgsCell(jobs[k].job)
                                   ELSE jobs[k + 1].part = "fn"
        BY <4>1 DEF QueueOfPairs
      <4>4. QED
        BY <4>2, <4>3 DEF k
    <3>2. QED
      BY <3>1
  <2>2. \A i \in 1..Len(jobs') : jobs'[i].job \notin unposted'
    BY <1>4, <1>5 DEF QueueOfPairs
  <2>3. jobs' # <<>> => jobs'[1].part = "fn"
    <3>1. SUFFICES ASSUME jobs' # <<>>
                   PROVE  jobs'[1].part = "fn"
      OBVIOUS
    <3>2. 1 \in 1..(Len(jobs) - 1) /\ jobs'[1] = jobs[2]
      BY <1>5, <3>1
    <3>3. QED
      BY <1>1, <3>2 DEF QueueOfPairs
  <2>4. jobs' # <<>> => jobs'[Len(jobs')].part = "args"
    <3>1. SUFFICES ASSUME jobs' # <<>>
                   PROVE  jobs'[Len(jobs')].part = "args"
      OBVIOUS
    <3>2. Len(jobs') \in 1..Len(jobs') /\ Len(jobs') + 1 = Len(jobs)
      BY <1>5, <3>1
    <3>3. jobs[Len(jobs)].part = "args"
      BY <1>1, <1>2 DEF QueueOfPairs, Inside
    <3>4. QED
      BY <1>5, <3>2, <3>3
  <2>5. /\ \A v \in Workers : pc'[v] # "pluck_args"
        /\ \A p \in Posters : pc'[p] # "push_args"
    BY <1>2, <1>3 DEF Inside
  <2>6. QED
    BY <2>1, <2>2, <2>3, <2>4, <2>5 DEF QueueOfPairs
<1>7. PairsWhole'
  <2>1. PICK j \in Jobs \ unposted : j = jobs[1].job
    BY <1>5, CellFacts DEF QueueOfPairs
  <2>2. NextCell = ArgsCell(j)
    BY <1>1, <1>5, <2>1, CellFacts, RestOfQueue
  <2>3. held'[w] = [fn |-> FnCell(j), args |-> ArgsCell(j)]
    BY <1>1, <1>4, <2>1, <2>2
  <2>4. \A v \in Workers \ {w} : pc'[v] \in {"signal", "run"} =>
           \E k \in Jobs \ unposted' : held'[v] = [fn |-> FnCell(k), args |-> ArgsCell(k)]
    BY <1>3, <1>4 DEF PairsWhole
  <2>5. QED
    BY <1>4, <2>1, <2>3, <2>4 DEF PairsWhole
<1>8. QED
  BY <1>6, <1>7

LEMMA PushFnPairs ==
    ASSUME Inv, NEW p \in Posters, PushFn(p)
    PROVE  QueueOfPairs' /\ PairsWhole'
<1> USE DEF Inv, Control
<1> DEFINE c == FnCell(posting[p])
           n == Len(jobs)
<1>1. /\ p \in Threads /\ jobs \in Seq(Cells) /\ pc[p] \in Inside
      /\ posting[p] \in Jobs \ unposted
  BY ThreadsDisjoint DEF PushFn, PostingOK, TypeOK, Inside
<1>2. /\ \A w \in Workers : pc[w] \notin Inside
      /\ \A q \in Posters : pc[q] # "push_args"
  BY <1>1, Alone, ThreadsDisjoint DEF PushFn, Inside
<1>3. /\ pc'[p] = "push_args"
      /\ \A q \in Posters \ {p} : pc'[q] = pc[q]
      /\ \A w \in Workers : pc'[w] = pc[w]
  BY <1>1, GotoFacts, ThreadsDisjoint DEF PushFn, Places, PosterPlaces
<1>4. jobs' = Append(jobs, c) /\ UNCHANGED <<held, posting, unposted>>
  BY DEF PushFn
<1>5. c \in Cells /\ c.part = "fn" /\ c.job = posting[p]
  BY <1>1, CellFacts DEF FnCell, Cells
<1> HIDE DEF c, n
<1>6. /\ n \in Nat /\ Len(jobs') = n + 1 /\ jobs'[n + 1] = c
      /\ \A i \in 1..n : jobs'[i] = jobs[i]
      /\ jobs' # <<>>
  BY <1>1, <1>4, <1>5 DEF n
<1>7. QueueOfPairs'
  <2>1. \A i \in 1..(Len(jobs') - 1) :
           IF jobs'[i].part = "fn" THEN jobs'[i + 1] = ArgsCell(jobs'[i].job)
                                   ELSE jobs'[i + 1].part = "fn"
    <3>1. ASSUME NEW i \in 1..n, i # n
          PROVE  IF jobs'[i].part = "fn" THEN jobs'[i + 1] = ArgsCell(jobs'[i].job)
                                         ELSE jobs'[i + 1].part = "fn"
      <4>1. i \in 1..(n - 1) /\ i + 1 \in 1..n
        BY <1>6, <3>1
      <4>2. jobs'[i] = jobs[i] /\ jobs'[i + 1] = jobs[i + 1]
        BY <1>6, <4>1
      <4>3. QED
        BY <4>1, <4>2 DEF QueueOfPairs, n
    <3>2. n # 0 => jobs'[n].part = "args" /\ jobs'[n + 1].part = "fn"
      <4>1. SUFFICES ASSUME n # 0
                     PROVE  jobs'[n].part = "args" /\ jobs'[n + 1].part = "fn"
        OBVIOUS
      <4>2. jobs # <<>> /\ n \in 1..n
        BY <1>1, <1>6, <4>1 DEF n
      <4>3. jobs[n].part = "args"
        BY <1>2, <4>2 DEF QueueOfPairs, n
      <4>4. QED
        BY <1>5, <1>6, <4>2, <4>3
    <3>3. \A i \in 1..(Len(jobs') - 1) : i \in 1..n /\ n # 0
      BY <1>6
    <3>4. QED
      BY <3>1, <3>2, <3>3
  <2>2. \A i \in 1..Len(jobs') : jobs'[i].job \notin unposted'
    <3>1. \A i \in 1..Len(jobs') : i \in 1..n \/ i = n + 1
      BY <1>6
    <3>2. \A i \in 1..n : jobs[i].job \notin unposted
      BY DEF QueueOfPairs, n
    <3>3. QED
      BY <1>1, <1>4, <1>5, <1>6, <3>1, <3>2
  <2>3. jobs'[1].part = "fn"
    <3>1. CASE n = 0
      BY <1>5, <1>6, <3>1
    <3>2. CASE n # 0
      <4>1. jobs # <<>> /\ 1 \in 1..n
        BY <1>1, <1>6, <3>2 DEF n
      <4>2. jobs[1].part = "fn"
        BY <1>2, <4>1 DEF QueueOfPairs, Inside
      <4>3. QED
        BY <1>6, <4>1, <4>2
    <3>3. QED
      BY <3>1, <3>2
  <2>4. \A w \in Workers : pc'[w] # "pluck_args"
    BY <1>2, <1>3 DEF Inside
  <2>5. \A q \in Posters : pc'[q] = "push_args" => jobs'[Len(jobs')] = FnCell(posting'[q])
    <3>1. \A q \in Posters : pc'[q] = "push_args" => q = p
      BY <1>2, <1>3
    <3>2. jobs'[Len(jobs')] = FnCell(posting'[p])
      BY <1>4, <1>6 DEF c
    <3>3. QED
      BY <3>1, <3>2
  <2>6. QED
    BY <1>3, <1>6, <2>1, <2>2, <2>3, <2>4, <2>5 DEF QueueOfPairs
<1>8. PairsWhole'
  <2>1. HeldFrame
    BY <1>3, <1>4 DEF HeldFrame
  <2>2. QED
    BY <2>1, HeldFrameFacts
<1>9. QED
  BY <1>7, <1>8

LEMMA PushArgsPairs ==
    ASSUME Inv, NEW p \in Posters, PushArgs(p)
    PROVE  QueueOfPairs' /\ PairsWhole'
<1> USE DEF Inv, Control
<1> DEFINE c == ArgsCell(posting[p])
           n == Len(jobs)
<1>1. /\ p \in Threads /\ jobs \in Seq(Cells) /\ pc[p] \in Inside
      /\ posting[p] \in Jobs \ unposted
      /\ jobs # <<>> /\ jobs[n] = FnCell(posting[p])
  BY ThreadsDisjoint DEF PushArgs, PostingOK, TypeOK, Inside, QueueOfPairs
<1>2. /\ \A w \in Workers : pc[w] \notin Inside
      /\ \A q \in Posters \ {p} : pc[q] # "push_args"
  BY <1>1, Alone, ThreadsDisjoint DEF PushArgs, Inside
<1>3. /\ pc'[p] = "post_signal"
      /\ \A q \in Posters \ {p} : pc'[q] = pc[q]
      /\ \A w \in Workers : pc'[w] = pc[w]
  BY <1>1, GotoFacts, ThreadsDisjoint DEF PushArgs, Places, PosterPlaces
<1>4. jobs' = Append(jobs, c) /\ UNCHANGED <<held, unposted>>
  BY DEF PushArgs
<1>5. c \in Cells /\ c.part = "args" /\ c.job = posting[p]
  BY <1>1, CellFacts DEF ArgsCell, Cells
<1> HIDE DEF c, n
<1>6. /\ n \in Nat /\ n # 0 /\ Len(jobs') = n + 1 /\ jobs'[n + 1] = c
      /\ \A i \in 1..n : jobs'[i] = jobs[i]
      /\ jobs' # <<>>
  BY <1>1, <1>4, <1>5 DEF n
<1>7. QueueOfPairs'
  <2>1. \A i \in 1..(Len(jobs') - 1) :
           IF jobs'[i].part = "fn" THEN jobs'[i + 1] = ArgsCell(jobs'[i].job)
                                   ELSE jobs'[i + 1].part = "fn"
    <3>1. ASSUME NEW i \in 1..n, i # n
          PROVE  IF jobs'[i].part = "fn" THEN jobs'[i + 1] = ArgsCell(jobs'[i].job)
                                         ELSE jobs'[i + 1].part = "fn"
      <4>1. i \in 1..(n - 1) /\ i + 1 \in 1..n
        BY <1>6, <3>1
      <4>2. jobs'[i] = jobs[i] /\ jobs'[i + 1] = jobs[i + 1]
        BY <1>6, <4>1
      <4>3. QED
        BY <4>1, <4>2 DEF QueueOfPairs, n
    <3>2. jobs'[n].part = "fn" /\ jobs'[n + 1] = ArgsCell(jobs'[n].job)
      <4>1. n \in 1..n
        BY <1>6
      <4>2. QED
        BY <1>1, <1>6, <4>1, CellFacts DEF c
    <3>3. \A i \in 1..(Len(jobs') - 1) : i \in 1..n
      BY <1>6
    <3>4. QED
      BY <3>1, <3>2, <3>3
  <2>2. \A i \in 1..Len(jobs') : jobs'[i].job \notin unposted'
    <3>1. \A i \in 1..Len(jobs') : i \in 1..n \/ i = n + 1
      BY <1>6
    <3>2. \A i \in 1..n : jobs[i].job \notin unposted
      BY DEF QueueOfPairs, n
    <3>3. QED
      BY <1>1, <1>4, <1>5, <1>6, <3>1, <3>2
  <2>3. jobs'[1].part = "fn"
    <3>1. 1 \in 1..n
      BY <1>6
    <3>2. jobs[1].part = "fn"
      BY <1>1, <1>2 DEF QueueOfPairs, Inside
    <3>3. QED
      BY <1>6, <3>1, <3>2
  <2>4. /\ \A w \in Workers : pc'[w] # "pluck_args"
        /\ \A q \in Posters : pc'[q] # "push_args"
    BY <1>2, <1>3 DEF Inside
  <2>5. jobs'[Len(jobs')].part = "args"
    BY <1>5, <1>6
  <2>6. QED
    BY <2>1, <2>2, <2>3, <2>4, <2>5 DEF QueueOfPairs
<1>8. PairsWhole'
  <2>1. HeldFrame
    BY <1>3, <1>4 DEF HeldFrame
  <2>2. QED
    BY <2>1, HeldFrameFacts
<1>9. QED
  BY <1>7, <1>8

(* What the others do, seen from the workers and from the posters.         *)
LEMMA OthersFacts ==
    ASSUME NEW t \in Threads, OthersStay(t)
    PROVE  /\ \A w \in Workers : w # t => pc'[w] = pc[w] \/ (pc[w] = "asleep" /\ pc'[w] = "woken")
           /\ \A p \in Posters : p # t => pc'[p] = pc[p]
           /\ t \in Workers => \A p \in Posters : pc'[p] = pc[p]
           /\ t \notin Workers =>
                 \A w \in Workers : pc'[w] = pc[w] \/ (pc[w] = "asleep" /\ pc'[w] = "woken")
           /\ t \notin Posters => \A p \in Posters : pc'[p] = pc[p]
<1>1. \A w \in Workers : w # t => pc'[w] = pc[w] \/ (pc[w] = "asleep" /\ pc'[w] = "woken")
  BY ThreadsDisjoint DEF OthersStay
<1>2. \A p \in Posters : p # t => pc'[p] = pc[p]
  BY ThreadsDisjoint DEF OthersStay
<1>3. /\ t \in Workers => \A p \in Posters : p # t
      /\ t \notin Workers => \A w \in Workers : w # t
      /\ t \notin Posters => \A p \in Posters : p # t
  BY ThreadsDisjoint
<1>4. QED
  BY <1>1, <1>2, <1>3

(* The other steps of a worker are outside the pairs.                      *)
LEMMA WorkerPairs ==
    ASSUME Inv, NEW w \in Workers, WorkerStep(w)
    PROVE  QueueOfPairs' /\ PairsWhole'
<1> USE DEF Inv, Control
<1>1. CASE PluckFn(w)
  BY <1>1, PluckFnPairs
<1>2. CASE PluckArgs(w)
  BY <1>2, PluckArgsPairs
<1>3. CASE ~PluckFn(w) /\ ~PluckArgs(w)
  <2>1. OthersStay(w) /\ w \in Threads /\ pc \in [Threads -> Places]
    BY WorkerMoves, ThreadsDisjoint DEF TypeOK, Places
  <2>2. /\ \A v \in Workers \ {w} : pc'[v] = pc[v] \/ (pc[v] = "asleep" /\ pc'[v] = "woken")
        /\ \A p \in Posters : pc'[p] = pc[p]
    BY <2>1, OthersFacts
  <2>3. UNCHANGED <<jobs, posting, unposted>>
    BY <1>3 DEF WorkerStep, TestSize, TestStop, Acquire, InspectJob, InspectIdle, InspectBreak,
                Wait, PluckSignal, BreakSignal, RunJob
  <2>4. CASE PluckSignal(w) \/ BreakSignal(w)
    <3>1. /\ PluckSignal(w) => pc[w] = "signal" /\ pc'[w] = "run"
          /\ BreakSignal(w) => pc[w] = "break_signal" /\ pc'[w] = "exited"
          /\ held' = held
      BY <2>1, <2>4, SignalFacts DEF PluckSignal, BreakSignal, Places, WorkerPlaces
    <3>2. PairsFrame /\ HeldFrame
      BY <2>2, <2>3, <2>4, <3>1 DEF PairsFrame, HeldFrame
    <3>3. QED
      BY <3>2, PairsFrameFacts, HeldFrameFacts
  <2>5. CASE RunJob(w)
    <3>1. /\ pc[w] = "run" /\ pc'[w] = "test_size"
          /\ \A v \in Workers \ {w} : held'[v] = held[v]
      BY <2>1, <2>5 DEF RunJob, Goto, TypeOK
    <3>2. PairsFrame /\ HeldFrame
      BY <2>2, <2>3, <3>1 DEF PairsFrame, HeldFrame
    <3>3. QED
      BY <3>2, PairsFrameFacts, HeldFrameFacts
  <2>6. CASE ~PluckSignal(w) /\ ~BreakSignal(w) /\ ~RunJob(w)
    <3>1. /\ pc[w] \notin {"pluck_args", "signal", "run"}
          /\ pc'[w] \notin {"pluck_args", "signal", "run"}
          /\ held' = held
      BY <1>3, <2>1, <2>6 DEF WorkerStep, TestSize, TestStop, Acquire, InspectJob, InspectIdle,
                              InspectBreak, Wait, Goto
    <3>2. PairsFrame /\ HeldFrame
      BY <2>2, <2>3, <3>1 DEF PairsFrame, HeldFrame
    <3>3. QED
      BY <3>2, PairsFrameFacts, HeldFrameFacts
  <2>7. QED
    BY <2>4, <2>5, <2>6
<1>4. QED
  BY <1>1, <1>2, <1>3

LEMMA PosterPairs ==
    ASSUME Inv, NEW p \in Posters,
           PosterStep(p) \/ \E j \in unposted : PostLock(p, j)
    PROVE  QueueOfPairs' /\ PairsWhole'
<1> USE DEF Inv, Control
<1>1. CASE PushFn(p)
  BY <1>1, PushFnPairs
<1>2. CASE PushArgs(p)
  BY <1>2, PushArgsPairs
<1>3. CASE ~PushFn(p) /\ ~PushArgs(p)
  <2>1. OthersStay(p) /\ p \in Threads /\ pc \in [Threads -> Places]
    BY PosterControl, ThreadsDisjoint DEF TypeOK, Places
  <2>2. /\ \A w \in Workers : pc'[w] = pc[w] \/ (pc[w] = "asleep" /\ pc'[w] = "woken")
        /\ \A q \in Posters \ {p} : pc'[q] = pc[q]
    BY <2>1, OthersFacts, ThreadsDisjoint
  <2>3. CASE BeginGrow(p) \/ EndGrow(p)
    <3>1. PairsFrame /\ HeldFrame
      BY <2>3 DEF BeginGrow, EndGrow, PairsFrame, HeldFrame
    <3>2. QED
      BY <3>1, PairsFrameFacts, HeldFrameFacts
  <2>4. CASE PostSignal(p)
    <3>1. pc[p] = "post_signal" /\ pc'[p] = "idle"
      BY <2>1, <2>4, SignalFacts DEF PostSignal, Places, PosterPlaces
    <3>2. PairsFrame /\ HeldFrame
      BY <2>2, <2>4, <3>1 DEF PostSignal, PairsFrame, HeldFrame
    <3>3. QED
      BY <3>2, PairsFrameFacts, HeldFrameFacts
  <2>5. ASSUME NEW j \in unposted, PostLock(p, j)
        PROVE  QueueOfPairs' /\ PairsWhole'
    <3>1. /\ pc[p] = "idle" /\ pc'[p] = "push_fn"
          /\ \A q \in Posters \ {p} : posting'[q] = posting[q]
      BY <2>1, <2>5 DEF PostLock, Goto, TypeOK
    <3>2. PairsFrame /\ HeldFrame
      BY <2>2, <2>5, <3>1 DEF PostLock, PairsFrame, HeldFrame
    <3>3. QED
      BY <3>2, PairsFrameFacts, HeldFrameFacts
  <2>6. QED
    BY <1>3, <2>3, <2>4, <2>5 DEF PosterStep
<1>4. QED
  BY <1>1, <1>2, <1>3

LEMMA OtherPairs ==
    ASSUME Inv, \/ JoinStop \/ JoinSignal \/ JoinThreads
                \/ \E w \in Workers : SpuriousWake(w)
    PROVE  QueueOfPairs' /\ PairsWhole'
<1> USE DEF Inv, Control
<1>1. /\ \A w \in Workers : pc'[w] = pc[w] \/ (pc[w] = "asleep" /\ pc'[w] = "woken")
      /\ \A p \in Posters : pc'[p] = pc[p]
  <2>1. CASE JoinStop \/ JoinSignal \/ JoinThreads
    <3>1. OthersStay(Owner) /\ Owner \in Threads /\ Owner \notin Workers /\ Owner \notin Posters
      BY <2>1, OwnerControl, ThreadsDisjoint
    <3>2. QED
      BY <3>1, OthersFacts
  <2>2. ASSUME NEW w \in Workers, SpuriousWake(w)
        PROVE  /\ \A v \in Workers : pc'[v] = pc[v] \/ (pc[v] = "asleep" /\ pc'[v] = "woken")
               /\ \A p \in Posters : pc'[p] = pc[p]
    <3>1. OthersStay(w) /\ w \in Threads
      BY <2>2, SpuriousControl, ThreadsDisjoint
    <3>2. pc[w] = "asleep" /\ pc'[w] = "woken"
      BY <2>2, <3>1, GotoFacts DEF SpuriousWake, Places, WorkerPlaces
    <3>3. QED
      BY <3>1, <3>2, OthersFacts
  <2>3. QED
    BY <2>1, <2>2
<1>2. UNCHANGED <<jobs, held, posting, unposted>>
  BY DEF JoinStop, JoinSignal, JoinThreads, SpuriousWake
<1>3. PairsFrame /\ HeldFrame
  BY <1>1, <1>2 DEF PairsFrame, HeldFrame
<1>4. QED
  BY <1>3, PairsFrameFacts, HeldFrameFacts

------------------------------------------------------------------------------
(* Reallocation and the signals.                                           *)

LEMMA WorkerGrowing ==
    ASSUME Inv, NEW w \in Workers, WorkerStep(w)
    PROVE  GrowingOK'
<1> USE DEF Inv, Control
<1>1. OthersStay(w) /\ w \in Threads
  BY WorkerMoves, ThreadsDisjoint
<1>2. \A p \in Posters : pc'[p] = pc[p]
  BY <1>1, OthersFacts
<1>3. UNCHANGED <<capacity, growing>>
  BY DEF WorkerStep, TestSize, TestStop, Acquire, InspectJob, InspectIdle, InspectBreak, Wait,
         PluckFn, PluckArgs, PluckSignal, BreakSignal, RunJob
<1>4. CASE jobs' = jobs
  BY <1>2, <1>3, <1>4 DEF GrowingOK
<1>5. CASE PluckFn(w) \/ PluckArgs(w)
  <2>1. \A p \in Posters : p \in Threads \ {w}
    BY ThreadsDisjoint
  <2>2. pc[w] \in Inside
    BY <1>5 DEF PluckFn, PluckArgs, Inside
  <2>3. ~growing
    BY <1>1, <2>1, <2>2, Alone DEF GrowingOK, Inside
  <2>4. QED
    BY <1>3, <2>3 DEF GrowingOK
<1>6. QED
  BY <1>4, <1>5
     DEF WorkerStep, TestSize, TestStop, Acquire, InspectJob, InspectIdle, InspectBreak, Wait,
         PluckSignal, BreakSignal, RunJob

LEMMA PosterGrowing ==
    ASSUME Inv, NEW p \in Posters,
           PosterStep(p) \/ \E j \in unposted : PostLock(p, j)
    PROVE  GrowingOK'
<1> USE DEF Inv, Control
<1>1. OthersStay(p) /\ p \in Threads
  BY PosterControl, ThreadsDisjoint
<1>2. \A q \in Posters : q # p => pc'[q] = pc[q]
  BY <1>1, OthersFacts
<1>3. CASE BeginGrow(p) \/ EndGrow(p)
  BY <1>3 DEF BeginGrow, EndGrow, GrowingOK
<1>4. CASE PushFn(p) \/ PushArgs(p)
  <2>1. ~growing
    BY <1>4 DEF PushFn, PushArgs, GrowingOK, TypeOK
  <2>2. QED
    BY <1>4, <2>1 DEF PushFn, PushArgs, GrowingOK
<1>5. CASE PostSignal(p) \/ \E j \in unposted : PostLock(p, j)
  <2>1. pc[p] \notin {"push_fn", "push_args"} /\ UNCHANGED <<jobs, capacity, growing>>
    BY <1>5 DEF PostSignal, PostLock
  <2>2. QED
    BY <1>2, <2>1 DEF GrowingOK
<1>6. QED
  BY <1>3, <1>4, <1>5 DEF PosterStep

LEMMA OtherGrowing ==
    ASSUME Inv, \/ JoinStop \/ JoinSignal \/ JoinThreads
                \/ \E w \in Workers : SpuriousWake(w)
    PROVE  GrowingOK'
<1> USE DEF Inv, Control
<1>1. \A p \in Posters : pc'[p] = pc[p]
  <2>1. CASE JoinStop \/ JoinSignal \/ JoinThreads
    <3>1. OthersStay(Owner) /\ Owner \in Threads /\ Owner \notin Posters
      BY <2>1, OwnerControl, ThreadsDisjoint
    <3>2. QED
      BY <3>1, OthersFacts
  <2>2. ASSUME NEW w \in Workers, SpuriousWake(w)
        PROVE  \A p \in Posters : pc'[p] = pc[p]
    <3>1. OthersStay(w) /\ w \in Threads
      BY <2>2, SpuriousControl, ThreadsDisjoint
    <3>2. QED
      BY <3>1, OthersFacts
  <2>3. QED
    BY <2>1, <2>2
<1>2. UNCHANGED <<jobs, capacity, growing>>
  BY DEF JoinStop, JoinSignal, JoinThreads, SpuriousWake
<1>3. QED
  BY <1>1, <1>2 DEF GrowingOK

(* The threads that keep a queued job from being stranded.                 *)
Alert ==
    {"post_signal", "signal", "break_signal", "join_signal",
     "test_size", "lock", "woken", "run"}

LEMMA AlertIsEnough ==
    ASSUME PlacesOK
    PROVE  (\E t \in Threads : pc[t] \in Alert) => AboutToSignal \/ OnItsWay
<1>1. SUFFICES ASSUME NEW t \in Threads, pc[t] \in Alert
               PROVE  AboutToSignal \/ OnItsWay
  OBVIOUS
<1>2. CASE pc[t] \in {"post_signal", "signal", "break_signal", "join_signal"}
  BY <1>2 DEF AboutToSignal
<1>3. CASE pc[t] \in {"test_size", "lock", "woken", "run"}
  <2>1. t \in Workers
    BY <1>3 DEF PlacesOK, Threads, PosterPlaces, OwnerPlaces
  <2>2. QED
    BY <1>3, <2>1 DEF OnItsWay
<1>4. QED
  BY <1>1, <1>2, <1>3 DEF Alert

LEMMA AlertIsNeeded ==
    ASSUME AboutToSignal \/ OnItsWay
    PROVE  \E t \in Threads : pc[t] \in Alert
<1>1. CASE AboutToSignal
  BY <1>1 DEF AboutToSignal, Alert
<1>2. CASE OnItsWay
  BY <1>2, ThreadsDisjoint DEF OnItsWay, Alert
<1>3. QED
  BY <1>1, <1>2

(* A step of t strands nothing if it ends in an alert place, wakes a       *)
(* sleeper, leaves the mutex taken or the queue empty, or starts from a    *)
(* place that is not alert and changes neither the mutex nor the queue.    *)
LEMMA StrandStep ==
    ASSUME TypeOK, TypeOK', WorkNeverStranded, NEW t \in Threads, OthersStay(t),
           \/ pc'[t] \in Alert
           \/ pc'[t] # "asleep" /\ (Asleep # {} => \E w \in Workers : pc'[w] = "woken")
           \/ lock' # NoThread
           \/ jobs' = <<>>
           \/ pc[t] \notin Alert /\ pc'[t] # "asleep" /\ UNCHANGED <<lock, jobs>>
    PROVE  WorkNeverStranded'
<1>1. SUFFICES ASSUME lock' = NoThread, jobs' # <<>>, Asleep' # {}
               PROVE  \E u \in Threads : pc'[u] \in Alert
  <2>1. PlacesOK'
    BY DEF TypeOK, PlacesOK, Places
  <2>2. ASSUME NEW u \in Threads, pc'[u] \in Alert
        PROVE  AboutToSignal' \/ OnItsWay'
    <3>1. CASE pc'[u] \in {"post_signal", "signal", "break_signal", "join_signal"}
      BY <3>1 DEF AboutToSignal
    <3>2. CASE pc'[u] \in {"test_size", "lock", "woken", "run"}
      <4>1. u \in Workers
        BY <2>1, <3>2 DEF PlacesOK, Threads, PosterPlaces, OwnerPlaces
      <4>2. QED
        BY <3>2, <4>1 DEF OnItsWay
    <3>3. QED
      BY <2>2, <3>1, <3>2 DEF Alert
  <2>3. QED
    BY <2>2 DEF WorkNeverStranded
<1>2. CASE pc'[t] \in Alert
  BY <1>2
<1>3. CASE pc'[t] # "asleep" /\ (Asleep # {} => \E w \in Workers : pc'[w] = "woken")
  <2>1. CASE \E w \in Workers : pc'[w] = "woken"
    BY <2>1, ThreadsDisjoint DEF Alert
  <2>2. CASE Asleep = {}
    <3>1. Asleep' = {}
      BY <1>3, <2>2, ThreadsDisjoint DEF Asleep, OthersStay
    <3>2. QED
      BY <1>1, <3>1
  <2>3. QED
    BY <1>3, <2>1, <2>2
<1>4. CASE pc[t] \notin Alert /\ pc'[t] # "asleep" /\ UNCHANGED <<lock, jobs>>
  <2>1. Asleep # {}
    <3>1. PICK v \in Workers : pc'[v] = "asleep"
      BY <1>1 DEF Asleep
    <3>2. pc[v] = "asleep"
      BY <1>4, <3>1, ThreadsDisjoint DEF OthersStay
    <3>3. QED
      BY <3>2 DEF Asleep
  <2>2. AboutToSignal \/ OnItsWay
    BY <1>1, <1>4, <2>1 DEF WorkNeverStranded
  <2>3. PICK u \in Threads : pc[u] \in Alert
    BY <2>2, AlertIsNeeded
  <2>4. u # t /\ pc[u] # "asleep"
    BY <1>4, <2>3 DEF Alert
  <2>5. pc'[u] = pc[u]
    BY <2>4 DEF OthersStay
  <2>6. QED
    BY <2>3, <2>5
<1>5. QED
  BY <1>1, <1>2, <1>3, <1>4

LEMMA WorkerStrand ==
    ASSUME Inv, TypeOK', NEW w \in Workers, WorkerStep(w) \/ SpuriousWake(w)
    PROVE  WorkNeverStranded'
<1> USE DEF Inv, Control
<1>1. OthersStay(w) /\ w \in Threads /\ w # NoThread
  BY WorkerMoves, SpuriousControl, ThreadsDisjoint
<1>2. CASE TestSize(w)
  <2>1. lock = NoThread => ~growing
    <3>1. \A p \in Posters : pc[p] \in {"push_fn", "push_args"} => lock = p
      BY ThreadsDisjoint DEF LockHeld, Inside
    <3>2. QED
      BY <3>1, ThreadsDisjoint DEF GrowingOK
  <2>2. \/ pc'[w] \in Alert
        \/ lock' # NoThread
        \/ jobs' = <<>>
    <3>1. CASE jobs # <<>> /\ Goto(w, "lock")
      BY <1>1, <3>1, GotoFacts DEF Alert, Places, WorkerPlaces
    <3>2. QED
      BY <1>2, <2>1, <3>1 DEF TestSize
  <2>3. QED
    BY <1>1, <2>2, StrandStep
<1>3. CASE TestStop(w)
  <2>1. pc'[w] \in {"exited", "lock"} /\ pc[w] = "test_stop"
    BY <1>1, <1>3, GotoFacts DEF TestStop, Places, WorkerPlaces
  <2>2. pc[w] \notin Alert /\ pc'[w] # "asleep" /\ UNCHANGED <<lock, jobs>>
    BY <1>3, <2>1 DEF TestStop, Alert
  <2>3. QED
    BY <1>1, <2>2, StrandStep
<1>4. CASE Acquire(w) \/ InspectJob(w) \/ InspectIdle(w) \/ PluckFn(w)
  <2>1. lock' = w
    BY <1>1, <1>4 DEF Acquire, InspectJob, InspectIdle, PluckFn, LockHeld, Inside
  <2>2. QED
    BY <1>1, <2>1, StrandStep
<1>5. CASE InspectBreak(w) \/ Wait(w)
  <2>1. jobs' = <<>>
    BY <1>5 DEF InspectBreak, Wait, InspectedOK
  <2>2. QED
    BY <1>1, <2>1, StrandStep
<1>6. CASE PluckArgs(w) \/ RunJob(w) \/ SpuriousWake(w)
  <2>1. pc'[w] \in {"signal", "test_size", "woken"}
    BY <1>1, <1>6, GotoFacts DEF PluckArgs, RunJob, SpuriousWake, Places, WorkerPlaces
  <2>2. pc'[w] \in Alert
    BY <2>1 DEF Alert
  <2>3. QED
    BY <1>1, <2>2, StrandStep
<1>7. CASE PluckSignal(w) \/ BreakSignal(w)
  <2>1. pc'[w] # "asleep" /\ (Asleep # {} => \E v \in Workers : pc'[v] = "woken")
    BY <1>1, <1>7, SignalFacts DEF PluckSignal, BreakSignal, Places, WorkerPlaces
  <2>2. QED
    BY <1>1, <2>1, StrandStep
<1>8. QED
  BY <1>2, <1>3, <1>4, <1>5, <1>6, <1>7 DEF WorkerStep

LEMMA PosterStrand ==
    ASSUME Inv, TypeOK', NEW p \in Posters,
           PosterStep(p) \/ \E j \in unposted : PostLock(p, j)
    PROVE  WorkNeverStranded'
<1> USE DEF Inv, Control
<1>1. OthersStay(p) /\ p \in Threads /\ p # NoThread
  BY PosterControl, ThreadsDisjoint
<1>2. CASE BeginGrow(p) \/ EndGrow(p) \/ PushFn(p) \/ \E j \in unposted : PostLock(p, j)
  <2>1. lock' = p
    BY <1>1, <1>2 DEF BeginGrow, EndGrow, PushFn, PostLock, LockHeld, Inside
  <2>2. QED
    BY <1>1, <2>1, StrandStep
<1>3. CASE PushArgs(p)
  <2>1. pc'[p] \in Alert
    BY <1>1, <1>3, GotoFacts DEF PushArgs, Places, PosterPlaces, Alert
  <2>2. QED
    BY <1>1, <2>1, StrandStep
<1>4. CASE PostSignal(p)
  <2>1. pc'[p] # "asleep" /\ (Asleep # {} => \E v \in Workers : pc'[v] = "woken")
    BY <1>1, <1>4, SignalFacts DEF PostSignal, Places, PosterPlaces
  <2>2. QED
    BY <1>1, <2>1, StrandStep
<1>5. QED
  BY <1>2, <1>3, <1>4 DEF PosterStep

LEMMA OwnerStrand ==
    ASSUME Inv, TypeOK', JoinStop \/ JoinSignal \/ JoinThreads
    PROVE  WorkNeverStranded'
<1> USE DEF Inv, Control
<1>1. OthersStay(Owner) /\ Owner \in Threads
  BY OwnerControl, ThreadsDisjoint
<1>2. CASE JoinStop
  <2>1. pc'[Owner] \in Alert
    BY <1>1, <1>2, GotoFacts DEF JoinStop, Places, OwnerPlaces, Alert
  <2>2. QED
    BY <1>1, <2>1, StrandStep
<1>3. CASE JoinSignal
  <2>1. pc'[Owner] # "asleep" /\ (Asleep # {} => \E v \in Workers : pc'[v] = "woken")
    BY <1>1, <1>3, SignalFacts DEF JoinSignal, Places, OwnerPlaces
  <2>2. QED
    BY <1>1, <2>1, StrandStep
<1>4. CASE JoinThreads
  <2>1. pc[Owner] \notin Alert /\ pc'[Owner] # "asleep" /\ UNCHANGED <<lock, jobs>>
    BY <1>1, <1>4, GotoFacts DEF JoinThreads, Places, OwnerPlaces, Alert
  <2>2. QED
    BY <1>1, <2>1, StrandStep
<1>5. QED
  BY <1>2, <1>3, <1>4

------------------------------------------------------------------------------
(* Every behaviour of the pool.                                            *)

LEMMA InitInv == Init => Inv
<1> SUFFICES ASSUME Init
             PROVE  Inv
  OBVIOUS
<1> USE DEF Init
<1>1. /\ \A w \in Workers : pc[w] = "test_size"
      /\ \A p \in Posters : pc[p] = "idle"
      /\ pc[Owner] = "up"
      /\ \A t \in Threads : pc[t] \in {"test_size", "idle", "up"}
  BY ThreadsDisjoint
<1>2. TypeOK
  <2>1. \A t \in Threads : pc[t] \in WorkerPlaces \cup PosterPlaces \cup OwnerPlaces
    BY <1>1 DEF WorkerPlaces, PosterPlaces, OwnerPlaces
  <2>2. pc \in [Threads -> WorkerPlaces \cup PosterPlaces \cup OwnerPlaces]
    BY <2>1
  <2>3. /\ \A w \in Workers : pc[w] \in WorkerPlaces
        /\ \A p \in Posters : pc[p] \in PosterPlaces
        /\ pc[Owner] \in OwnerPlaces
    BY <1>1 DEF WorkerPlaces, PosterPlaces, OwnerPlaces
  <2>4. held \in [Workers -> [fn : Cells \cup {Null}, args : Cells \cup {Null}]]
    BY DEF NothingHeld
  <2>5. /\ stop \in BOOLEAN /\ growing \in BOOLEAN
        /\ jobs \in Seq(Cells) /\ capacity \in Nat \ {0}
        /\ lock \in Threads \cup {NoThread}
        /\ unposted \subseteq Jobs /\ finished \subseteq Jobs
    <3>1. stop \in BOOLEAN /\ growing \in BOOLEAN
      OBVIOUS
    <3>2. jobs \in Seq(Cells)
      OBVIOUS
    <3>3. /\ capacity \in Nat \ {0} /\ lock \in Threads \cup {NoThread}
          /\ unposted \subseteq Jobs /\ finished \subseteq Jobs
      BY DefaultSizeAssumption
    <3>4. QED
      BY <3>1, <3>2, <3>3
  <2>6. posting \in [Posters -> Jobs \cup {Null}]
    OBVIOUS
  <2> HIDE DEF Init
  <2>7. QED
    BY <2>2, <2>3, <2>4, <2>5, <2>6 DEF TypeOK
<1>3. LockHeld /\ PostingOK /\ OwnerOK /\ InspectedOK
  <2>1. LockHeld
    <3>1. \A t \in Threads : pc[t] \notin Inside /\ lock # t
      BY <1>1, ThreadsDisjoint DEF Inside
    <3>2. QED
      BY <3>1 DEF LockHeld
  <2>2. QED
    BY <1>1, <2>1 DEF PostingOK, OwnerOK, InspectedOK
<1>4. GrowingOK /\ PairsWhole /\ WorkNeverStranded
  BY <1>1 DEF GrowingOK, PairsWhole, WorkNeverStranded
<1>5. QueueOfPairs
  <2>1. jobs = <<>> /\ Len(jobs) = 0
    OBVIOUS
  <2> HIDE DEF Init
  <2>2. QED
    BY <1>1, <2>1 DEF QueueOfPairs
<1>6. QED
  BY <1>2, <1>3, <1>4, <1>5 DEF Inv, Control

LEMMA NextInv == Inv /\ [Next]_vars => Inv'
<1> SUFFICES ASSUME Inv, [Next]_vars
             PROVE  Inv'
  OBVIOUS
<1>1. Control /\ TypeOK /\ LockHeld /\ PairsWhole /\ PostingOK
  BY DEF Inv, Control
<1>2. ASSUME NEW w \in Workers, WorkerStep(w)
      PROVE  Inv'
  <2>1. TypeOK'
    BY <1>1, <1>2, WorkerType
  <2>2. LockHeld' /\ PostingOK' /\ OwnerOK' /\ InspectedOK'
    BY <1>1, <1>2, WorkerMoves, WorkerControl
  <2>3. QED
    BY <1>2, <2>1, <2>2, WorkerPairs, WorkerGrowing, WorkerStrand DEF Inv, Control
<1>3. ASSUME NEW w \in Workers, SpuriousWake(w)
      PROVE  Inv'
  <2>1. TypeOK'
    BY <1>1, <1>3, SpuriousType
  <2>2. LockHeld' /\ PostingOK' /\ OwnerOK' /\ InspectedOK'
    BY <1>1, <1>3, SpuriousControl
  <2>3. QED
    BY <1>3, <2>1, <2>2, OtherPairs, OtherGrowing, WorkerStrand DEF Inv, Control
<1>4. ASSUME NEW p \in Posters, PosterStep(p) \/ \E j \in unposted : PostLock(p, j)
      PROVE  Inv'
  <2>1. TypeOK'
    BY <1>1, <1>4, PosterType
  <2>2. LockHeld' /\ PostingOK' /\ OwnerOK' /\ InspectedOK'
    BY <1>1, <1>4, PosterControl
  <2>3. QED
    BY <1>4, <2>1, <2>2, PosterPairs, PosterGrowing, PosterStrand DEF Inv, Control
<1>5. CASE JoinStop \/ JoinSignal \/ JoinThreads
  <2>1. TypeOK'
    BY <1>1, <1>5, OwnerType
  <2>2. LockHeld' /\ PostingOK' /\ OwnerOK' /\ InspectedOK'
    BY <1>1, <1>5, OwnerControl
  <2>3. QED
    BY <1>5, <2>1, <2>2, OtherPairs, OtherGrowing, OwnerStrand DEF Inv, Control
<1>6. CASE UNCHANGED vars
  BY <1>6 DEF vars, Inv, Control, TypeOK, LockHeld, PostingOK, OwnerOK, InspectedOK, GrowingOK,
              QueueOfPairs, PairsWhole, WorkNeverStranded, Asleep, AboutToSignal, OnItsWay
<1>7. QED
  BY <1>2, <1>3, <1>4, <1>5, <1>6 DEF Next

(* The inductive invariant holds in every state of the pool.               *)
THEOREM PoolInvariant == Spec => []Inv
  BY InitInv, NextInv, PTL DEF Spec

(* The fields of the pool keep their types, the threads their places.      *)
THEOREM PoolTypeOK == Spec => []TypeOK
<1>1. Inv => TypeOK
  BY DEF Inv, Control
<1>2. QED
  BY PoolInvariant, <1>1, PTL

(* The queue is a sequence of whole pairs between the critical sections of *)
(* w_post and w_process, for any number of posters and workers.            *)
THEOREM PoolQueueOfPairs == Spec => []QueueOfPairs
<1>1. Inv => QueueOfPairs
  BY DEF Inv
<1>2. QED
  BY PoolInvariant, <1>1, PTL

(* A worker calls a posted function with its own argument (line 40).       *)
THEOREM PoolPairsWhole == Spec => []PairsWhole
<1>1. Inv => PairsWhole
  BY DEF Inv
<1>2. QED
  BY PoolInvariant, <1>1, PTL

(* The signals of w_post and w_process leave no queued job to sleepers.    *)
THEOREM PoolWorkNeverStranded == Spec => []WorkNeverStranded
<1>1. Inv => WorkNeverStranded
  BY DEF Inv
<1>2. QED
  BY PoolInvariant, <1>1, PTL

(* A worker that breaks at line 28 has left an empty queue.                *)
THEOREM PoolBreakLeavesNothing == Spec => []BreakLeavesNothing
<1>1. Inv => BreakLeavesNothing
  BY DEF Inv, Control, InspectedOK, BreakLeavesNothing
<1>2. QED
  BY PoolInvariant, <1>1, PTL

------------------------------------------------------------------------------
(* The queue of jobs within the queue of cells.                            *)

LEMMA Halves ==
    \A m \in Nat :
        /\ m \div 2 \in Nat /\ m % 2 \in {0, 1}
        /\ m = 2 * (m \div 2) + (m % 2)
  OBVIOUS

(* Odd and even alternate.                                                 *)
LEMMA Parity == \A m \in Nat : (m + 1) % 2 = 0 <=> m % 2 # 0
<1> SUFFICES ASSUME NEW m \in Nat PROVE (m + 1) % 2 = 0 <=> m % 2 # 0
  OBVIOUS
<1> DEFINE h == m \div 2
           k == (m + 1) \div 2
           r == m % 2
           s == (m + 1) % 2
<1>1. h \in Nat /\ k \in Nat /\ r \in {0, 1} /\ s \in {0, 1} /\ m = 2 * h + r /\ m + 1 = 2 * k + s
  BY Halves, m + 1 \in Nat
<1> HIDE DEF h, k, r, s
<1>2. s = 0 <=> r # 0
  BY <1>1
<1>3. QED
  BY <1>2 DEF r, s

(* Arguments and functions alternate.                                      *)
Paired == \A i \in DOMAIN jobs : jobs[i].part = "args" <=> (i + FirstArgs) % 2 = 0

NumQueued == (Len(jobs) + 2 - FirstArgs) \div 2

(* What QueuedJobs is, index by index.                                     *)
QueuedShape ==
    /\ Len(jobs) \in Nat
    /\ FirstArgs \in {1, 2}
    /\ NumQueued \in Nat
    /\ \/ Len(jobs) + 2 - FirstArgs = 2 * NumQueued
       \/ Len(jobs) + 2 - FirstArgs = 2 * NumQueued + 1
    /\ QueuedJobs \in Seq(Jobs) /\ Len(QueuedJobs) = NumQueued
    /\ \A i \in 1..NumQueued :
          /\ 2 * i + FirstArgs - 2 \in 1..Len(jobs)
          /\ QueuedJobs[i] = jobs[2 * i + FirstArgs - 2].job

LEMMA TypedShape == TypeOK => QueuedShape
<1> SUFFICES ASSUME TypeOK PROVE QueuedShape
  OBVIOUS
<1>1. /\ Len(jobs) \in Nat /\ DOMAIN jobs = 1..Len(jobs)
      /\ \A i \in 1..Len(jobs) : jobs[i] \in Cells
      /\ jobs # <<>> => Len(jobs) # 0
  BY LenProperties, ElementOfSeq DEF TypeOK
<1>2. FirstArgs \in {1, 2} /\ (FirstArgs = 1 => Len(jobs) # 0)
  BY <1>1 DEF FirstArgs
<1> DEFINE n == Len(jobs)
           a == FirstArgs
<1>3. n \in Nat /\ a \in {1, 2} /\ n + 2 - a \in Nat
  BY <1>1, <1>2
<1>4. /\ NumQueued \in Nat
      /\ n + 2 - a = 2 * NumQueued \/ n + 2 - a = 2 * NumQueued + 1
  BY <1>3, Halves DEF NumQueued
<1>5. ASSUME NEW i \in 1..NumQueued PROVE 2 * i + a - 2 \in 1..n
  <2> HIDE DEF n, a
  <2>1. QED
    BY <1>3, <1>4
<1>6. \A i \in 1..NumQueued : jobs[2 * i + a - 2].job \in Jobs
  BY <1>1, <1>5, CellFacts
<1>7. QueuedJobs = [i \in 1..NumQueued |-> jobs[2 * i + a - 2].job]
  BY DEF QueuedJobs, NumQueued
<1>8. QueuedJobs \in [1..NumQueued -> Jobs]
  BY <1>6, <1>7
<1>9. QueuedJobs \in Seq(Jobs) /\ Len(QueuedJobs) = NumQueued
  BY <1>4, <1>8
<1>10. QED
  BY <1>1, <1>2, <1>4, <1>5, <1>7, <1>9 DEF QueuedShape

LEMMA TypedShapeAfter == TypeOK' => QueuedShape'
  BY TypedShape, PTL

(* The two q_push of w_post: the job is queued by the second.              *)
LEMMA PushFnQueue ==
    ASSUME Inv, Paired, TypeOK', NEW p \in Posters, PushFn(p)
    PROVE  Paired' /\ QueuedJobs' = QueuedJobs
<1>1. /\ jobs \in Seq(Cells) /\ posting[p] \in Jobs /\ p \in Threads /\ pc[p] \in Inside
      /\ jobs' = Append(jobs, FnCell(posting[p]))
      /\ QueuedShape /\ QueuedShape'
  BY ThreadsDisjoint, TypedShape, TypedShapeAfter
     DEF Inv, Control, TypeOK, PostingOK, PushFn, Inside
<1>2. \A q \in Posters : pc[q] # "push_args"
  BY <1>1, Alone, ThreadsDisjoint DEF Inv, Control, Inside, PushFn
<1>3. jobs # <<>> => jobs[Len(jobs)].part = "args"
  BY <1>2 DEF Inv, QueueOfPairs
<1> DEFINE n == Len(jobs)
           a == FirstArgs
<1>4. /\ n \in Nat /\ DOMAIN jobs = 1..n /\ (jobs = <<>> <=> n = 0)
      /\ DOMAIN jobs' = 1..(n + 1) /\ Len(jobs') = n + 1 /\ jobs' # <<>>
      /\ \A i \in 1..n : jobs'[i] = jobs[i]
      /\ jobs'[n + 1].part = "fn"
  <2>1. FnCell(posting[p]) \in Cells
    BY <1>1 DEF FnCell, Cells
  <2>2. QED
    BY <1>1, <2>1, CellFacts
<1>5. a' = a
  <2>1. CASE n = 0
    BY <1>4, <2>1 DEF FirstArgs
  <2>2. CASE n # 0
    BY <1>4, <2>2, 1 \in 1..n DEF FirstArgs
  <2>3. QED
    BY <2>1, <2>2
<1>6. (n + a) % 2 = 0
  <2>1. CASE n = 0
    BY <1>4, <2>1 DEF FirstArgs
  <2>2. CASE n # 0
    BY <1>3, <1>4, <2>2, n \in 1..n DEF Paired
  <2>3. QED
    BY <2>1, <2>2
<1>7. a \in {1, 2} /\ n + a \in Nat
  BY <1>1, <1>4 DEF QueuedShape
<1>8. Paired'
  <2>1. ((n + 1) + a) % 2 # 0
    BY <1>6, <1>7, Parity, (n + 1) + a = (n + a) + 1
  <2>2. \A i \in 1..(n + 1) : i \in 1..n \/ i = n + 1
    BY <1>4
  <2>3. QED
    BY <1>4, <1>5, <2>1, <2>2 DEF Paired
<1>9. NumQueued' = NumQueued
  <2>1. PICK h \in Nat : n + a = 2 * h
    BY <1>6, <1>7, Halves
  <2> DEFINE k == NumQueued
             l == NumQueued'
  <2>2. /\ k \in Nat /\ (n + 2 - a = 2 * k \/ n + 2 - a = 2 * k + 1)
        /\ l \in Nat /\ (n + 1 + 2 - a = 2 * l \/ n + 1 + 2 - a = 2 * l + 1)
    BY <1>1, <1>4, <1>5 DEF QueuedShape
  <2> HIDE DEF k, l, n, a
  <2>3. k = l
    BY <1>4, <1>7, <2>1, <2>2
  <2>4. QED
    BY <2>3 DEF k, l
<1>10. \A i \in 1..NumQueued : QueuedJobs'[i] = QueuedJobs[i]
  <2>1. SUFFICES ASSUME NEW i \in 1..NumQueued PROVE QueuedJobs'[i] = QueuedJobs[i]
    OBVIOUS
  <2>2. PICK k : k = 2 * i + a - 2
    OBVIOUS
  <2>3. k \in 1..n /\ QueuedJobs[i] = jobs[k].job
    BY <1>1, <2>2 DEF QueuedShape
  <2>4. QueuedJobs'[i] = jobs'[k].job
    BY <1>1, <1>5, <1>9, <2>2 DEF QueuedShape
  <2>5. QED
    BY <1>4, <2>3, <2>4, Zenon
<1>11. QED
  BY <1>1, <1>8, <1>9, <1>10, SeqEqual DEF QueuedShape

LEMMA PushArgsQueue ==
    ASSUME Inv, Paired, TypeOK', NEW p \in Posters, PushArgs(p)
    PROVE  Paired' /\ QueuedJobs' = Append(QueuedJobs, posting[p])
<1>1. /\ jobs \in Seq(Cells) /\ posting[p] \in Jobs
      /\ jobs' = Append(jobs, ArgsCell(posting[p]))
      /\ QueuedShape /\ QueuedShape'
  BY TypedShape, TypedShapeAfter DEF Inv, Control, TypeOK, PostingOK, PushArgs
<1>2. jobs # <<>> /\ jobs[Len(jobs)].part # "args"
  BY CellFacts DEF Inv, QueueOfPairs, PushArgs
<1> DEFINE n == Len(jobs)
           a == FirstArgs
<1>3. /\ n \in Nat \ {0} /\ DOMAIN jobs = 1..n /\ 1 \in 1..n /\ n \in 1..n
      /\ DOMAIN jobs' = 1..(n + 1) /\ Len(jobs') = n + 1 /\ jobs' # <<>>
      /\ \A i \in 1..n : jobs'[i] = jobs[i]
      /\ jobs'[n + 1].part = "args" /\ jobs'[n + 1].job = posting[p]
  <2>1. ArgsCell(posting[p]) \in Cells
    BY <1>1 DEF ArgsCell, Cells
  <2>2. QED
    BY <1>1, <1>2, <2>1, CellFacts
<1>4. a' = a
  BY <1>2, <1>3 DEF FirstArgs
<1>5. (n + a) % 2 # 0
  BY <1>2, <1>3 DEF Paired
<1>6. a \in {1, 2} /\ n + a \in Nat
  BY <1>1, <1>3 DEF QueuedShape
<1>7. Paired'
  <2>1. ((n + 1) + a) % 2 = 0
    BY <1>5, <1>6, Parity, (n + 1) + a = (n + a) + 1
  <2>2. \A i \in 1..(n + 1) : i \in 1..n \/ i = n + 1
    BY <1>3
  <2>3. QED
    BY <1>3, <1>4, <2>1, <2>2 DEF Paired
<1>8. NumQueued' = NumQueued + 1 /\ 2 * NumQueued' + a - 2 = n + 1
  <2>1. PICK h \in Nat : n + a = 2 * h + 1
    BY <1>5, <1>6, Halves
  <2> DEFINE k == NumQueued
             l == NumQueued'
  <2>2. /\ k \in Nat /\ (n + 2 - a = 2 * k \/ n + 2 - a = 2 * k + 1)
        /\ l \in Nat /\ (n + 1 + 2 - a = 2 * l \/ n + 1 + 2 - a = 2 * l + 1)
    BY <1>1, <1>3, <1>4 DEF QueuedShape
  <2> HIDE DEF k, l, n, a
  <2>3. l = k + 1 /\ 2 * l + a - 2 = n + 1
    BY <1>3, <1>6, <2>1, <2>2
  <2>4. QED
    BY <2>3 DEF k, l
<1>9. ASSUME NEW i \in 1..NumQueued PROVE QueuedJobs'[i] = QueuedJobs[i]
  <2>1. 2 * i + a - 2 \in 1..n /\ QueuedJobs[i] = jobs[2 * i + a - 2].job
    BY <1>1 DEF QueuedShape
  <2>2. i \in 1..NumQueued'
    BY <1>1, <1>8 DEF QueuedShape
  <2>3. QueuedJobs'[i] = jobs'[2 * i + a' - 2].job
    BY <1>1, <2>2 DEF QueuedShape
  <2>4. QED
    BY <1>3, <1>4, <2>1, <2>3
<1>10. QueuedJobs'[NumQueued + 1] = posting[p]
  <2>1. NumQueued' \in 1..NumQueued' /\ NumQueued' = NumQueued + 1
    BY <1>1, <1>8 DEF QueuedShape
  <2>2. QueuedJobs'[NumQueued'] = jobs'[2 * NumQueued' + a' - 2].job
    BY <1>1, <2>1 DEF QueuedShape
  <2>3. 2 * NumQueued' + a' - 2 = n + 1
    BY <1>4, <1>8
  <2>4. QED
    BY <1>3, <2>1, <2>2, <2>3
<1>11. /\ Append(QueuedJobs, posting[p]) \in Seq(Jobs)
       /\ Len(Append(QueuedJobs, posting[p])) = NumQueued + 1
       /\ \A i \in 1..NumQueued : Append(QueuedJobs, posting[p])[i] = QueuedJobs[i]
       /\ Append(QueuedJobs, posting[p])[NumQueued + 1] = posting[p]
  BY <1>1, AppendProperties DEF QueuedShape
<1>12. QueuedJobs' = Append(QueuedJobs, posting[p])
  <2> DEFINE s == QueuedJobs'
             t == Append(QueuedJobs, posting[p])
  <2>1. s \in Seq(Jobs) /\ t \in Seq(Jobs) /\ Len(s) = Len(t)
    BY <1>1, <1>8, <1>11 DEF QueuedShape
  <2>2. \A i \in 1..Len(s) : s[i] = t[i]
    BY <1>1, <1>8, <1>9, <1>10, <1>11 DEF QueuedShape
  <2> HIDE DEF s, t
  <2>3. s = t
    BY <2>1, <2>2, SeqEqual
  <2>4. QED
    BY <2>3 DEF s, t
<1>13. QED
  BY <1>7, <1>12

(* The two q_next of w_process: the job is taken by the second.            *)
LEMMA PluckFnQueue ==
    ASSUME Inv, Paired, TypeOK', NEW w \in Workers, PluckFn(w)
    PROVE  Paired' /\ QueuedJobs' = QueuedJobs
<1>1. /\ jobs \in Seq(Cells) /\ jobs # <<>> /\ jobs' = AfterNext
      /\ w \in Threads /\ pc[w] \in Inside /\ pc'[w] = "pluck_args"
      /\ QueuedShape /\ QueuedShape'
  BY ThreadsDisjoint, TypedShape, TypedShapeAfter
     DEF Inv, Control, TypeOK, InspectedOK, PluckFn, Inside, Goto
<1>2. \A v \in Workers : pc[v] # "pluck_args"
  BY <1>1, Alone, ThreadsDisjoint DEF Inv, Control, Inside, PluckFn
<1>3. jobs[1].part = "fn"
  BY <1>1, <1>2 DEF Inv, QueueOfPairs
<1>4. jobs' # <<>> /\ jobs'[1].part = "args"
  BY <1>1, PluckFnPairs DEF QueueOfPairs
<1>5. FirstArgs = 2 /\ FirstArgs' = 1
  BY <1>3, <1>4 DEF FirstArgs
<1> DEFINE n == Len(jobs)
<1>6. /\ n \in Nat \ {0} /\ DOMAIN jobs = 1..n
      /\ Len(jobs') = n - 1 /\ DOMAIN jobs' = 1..(n - 1)
      /\ \A i \in 1..(n - 1) : jobs'[i] = jobs[i + 1] /\ i + 1 \in 1..n
  BY <1>1, RestOfQueue, LenProperties
<1>7. Paired'
  <2>1. ASSUME NEW i \in 1..(n - 1)
        PROVE  jobs'[i].part = "args" <=> (i + 1) % 2 = 0
    <3>1. jobs[i + 1].part = "args" <=> ((i + 1) + 2) % 2 = 0
      BY <1>5, <1>6 DEF Paired
    <3>2. ((i + 1) + 2) % 2 = 0 <=> (i + 1) % 2 = 0
      <4>1. i + 1 \in Nat /\ i + 2 \in Nat /\ (i + 1) + 1 = i + 2 /\ (i + 2) + 1 = (i + 1) + 2
        BY <1>6
      <4>2. QED
        BY <4>1, Parity
    <3>3. QED
      BY <1>6, <3>1, <3>2
  <2>2. QED
    BY <1>5, <1>6, <2>1 DEF Paired
<1>8. NumQueued' = NumQueued
  <2> DEFINE k == NumQueued
             l == NumQueued'
  <2>1. /\ k \in Nat /\ (n + 2 - 2 = 2 * k \/ n + 2 - 2 = 2 * k + 1)
        /\ l \in Nat /\ (n - 1 + 2 - 1 = 2 * l \/ n - 1 + 2 - 1 = 2 * l + 1)
    <3>1. k \in Nat /\ (n + 2 - 2 = 2 * k \/ n + 2 - 2 = 2 * k + 1)
      BY <1>1, <1>5 DEF QueuedShape
    <3>2. l \in Nat /\ (Len(jobs)' + 2 - 1 = 2 * l \/ Len(jobs)' + 2 - 1 = 2 * l + 1)
      BY <1>1, <1>5 DEF QueuedShape
    <3>3. QED
      BY <1>6, <3>1, <3>2
  <2> HIDE DEF k, l, n
  <2>2. k = l
    BY <1>6, <2>1
  <2>3. QED
    BY <2>2 DEF k, l
<1>9. ASSUME NEW i \in 1..NumQueued PROVE QueuedJobs'[i] = QueuedJobs[i]
  <2>1. 2 * i + 2 - 2 = 2 * i /\ 2 * i + 1 - 2 = 2 * i - 1
    BY <1>1 DEF QueuedShape
  <2>2. /\ 2 * i + 2 - 2 \in 1..n /\ QueuedJobs[i] = jobs[2 * i + 2 - 2].job
        /\ 2 * i + 1 - 2 \in 1..(n - 1) /\ QueuedJobs'[i] = jobs'[2 * i + 1 - 2].job
    <3>1. QueuedJobs[i] = jobs[2 * i + 2 - 2].job /\ 2 * i + 2 - 2 \in 1..n
      BY <1>1, <1>5 DEF QueuedShape
    <3>2. \A k \in 1..NumQueued' :
             2 * k + 1 - 2 \in 1..Len(jobs)' /\ QueuedJobs'[k] = jobs'[2 * k + 1 - 2].job
      BY <1>1, <1>5 DEF QueuedShape
    <3>3. QED
      BY <1>6, <1>8, <3>1, <3>2
  <2>3. (2 * i - 1) + 1 = 2 * i
    BY <2>1
  <2>4. jobs'[2 * i - 1] = jobs[2 * i]
    BY <1>6, <2>2, <2>3
  <2>5. QED
    BY <2>2, <2>4
<1>10. QED
  BY <1>1, <1>7, <1>8, <1>9, SeqEqual DEF QueuedShape

LEMMA PluckArgsQueue ==
    ASSUME Inv, Paired, TypeOK', NEW w \in Workers, PluckArgs(w)
    PROVE  /\ Paired'
           /\ QueuedJobs # <<>> /\ QueuedJobs' = Tail(QueuedJobs) /\ Head(QueuedJobs) = jobs[1].job
<1>1. /\ jobs \in Seq(Cells) /\ jobs # <<>> /\ jobs[1].part = "args" /\ jobs' = AfterNext
      /\ QueuedShape /\ QueuedShape'
  BY TypedShape, TypedShapeAfter DEF Inv, Control, TypeOK, QueueOfPairs, PluckArgs
<1> DEFINE n == Len(jobs)
<1>2. /\ n \in Nat \ {0} /\ DOMAIN jobs = 1..n
      /\ Len(jobs') = n - 1 /\ DOMAIN jobs' = 1..(n - 1)
      /\ \A i \in 1..(n - 1) : jobs'[i] = jobs[i + 1] /\ i + 1 \in 1..n
  BY <1>1, RestOfQueue, LenProperties
<1>3. FirstArgs = 1
  BY <1>1 DEF FirstArgs
<1>4. FirstArgs' = 2
  <2>1. CASE jobs' = <<>>
    BY <2>1 DEF FirstArgs
  <2>2. CASE jobs' # <<>>
    <3>1. 1 \in 1..(n - 1) /\ jobs'[1] = jobs[2] /\ 2 \in 1..n
      <4>1. jobs' \in Seq(Cells) /\ Len(jobs') # 0
        BY <2>2, EmptySeq DEF TypeOK
      <4>2. 1 \in 1..(n - 1)
        BY <1>2, <4>1
      <4>3. QED
        BY <1>2, <4>2, 1 + 1 = 2
    <3>2. jobs[2].part # "args"
      <4>1. (2 + 1) % 2 # 0
        BY Parity, 2 \in Nat, 2 % 2 = 0
      <4>2. QED
        BY <1>2, <1>3, <3>1, <4>1 DEF Paired
    <3>3. QED
      BY <2>2, <3>1, <3>2 DEF FirstArgs
  <2>3. QED
    BY <2>1, <2>2
<1>5. Paired'
  <2>1. ASSUME NEW i \in 1..(n - 1)
        PROVE  jobs'[i].part = "args" <=> (i + 2) % 2 = 0
    <3>1. jobs[i + 1].part = "args" <=> ((i + 1) + 1) % 2 = 0
      BY <1>2, <1>3 DEF Paired
    <3>2. (i + 1) + 1 = i + 2
      BY <1>2
    <3>3. QED
      BY <1>2, <3>1, <3>2
  <2>2. QED
    BY <1>2, <1>4, <2>1 DEF Paired
<1>6. NumQueued' = NumQueued - 1 /\ NumQueued # 0
  <2> DEFINE k == NumQueued
             l == NumQueued'
  <2>1. /\ k \in Nat /\ (n + 1 = 2 * k \/ n + 1 = 2 * k + 1)
        /\ l \in Nat /\ (n - 1 = 2 * l \/ n - 1 = 2 * l + 1)
    BY <1>1, <1>2, <1>3, <1>4 DEF QueuedShape
  <2>0. n \in Nat /\ n # 0
    BY <1>2
  <2> HIDE DEF k, l, n
  <2>2. l = k - 1 /\ k # 0
    BY <2>0, <2>1
  <2>3. QED
    BY <2>2 DEF k, l
<1>7. \A i \in 1..NumQueued : 2 * i + 1 - 2 \in 1..n /\ QueuedJobs[i] = jobs[2 * i + 1 - 2].job
  BY <1>1, <1>3 DEF QueuedShape
<1>8. QueuedJobs[1] = jobs[1].job /\ 1 \in 1..NumQueued /\ NumQueued \in Nat
  BY <1>1, <1>6, <1>7, 2 * 1 + 1 - 2 = 1 DEF QueuedShape
<1>9. ASSUME NEW i \in 1..(NumQueued - 1) PROVE QueuedJobs'[i] = QueuedJobs[i + 1]
  <2>1. i + 1 \in 1..NumQueued /\ 2 * (i + 1) + 1 - 2 = 2 * i + 1 /\ 2 * i + 2 - 2 = 2 * i
    BY <1>8
  <2>2. QueuedJobs[i + 1] = jobs[2 * i + 1].job
    BY <1>7, <2>1
  <2>3. QueuedJobs'[i] = jobs'[2 * i].job /\ 2 * i \in 1..(n - 1)
    <3>1. 2 * i + 2 - 2 \in 1..Len(jobs') /\ QueuedJobs'[i] = jobs'[2 * i + 2 - 2].job
      BY <1>1, <1>4, <1>6 DEF QueuedShape
    <3>2. Len(jobs') = n - 1
      BY <1>2, <1>4
    <3>3. QED
      BY <2>1, <3>1, <3>2, Zenon
  <2>4. QED
    BY <1>2, <2>2, <2>3
<1>10. /\ QueuedJobs # <<>> /\ Head(QueuedJobs) = QueuedJobs[1]
       /\ Tail(QueuedJobs) \in Seq(Jobs) /\ Len(Tail(QueuedJobs)) = NumQueued - 1
       /\ \A i \in 1..(NumQueued - 1) : Tail(QueuedJobs)[i] = QueuedJobs[i + 1]
  <2>1. QueuedJobs \in Seq(Jobs) /\ Len(QueuedJobs) = NumQueued /\ QueuedJobs # <<>>
    BY <1>1, <1>6, EmptySeq DEF QueuedShape
  <2>2. QED
    BY <2>1, HeadTailProperties
<1>11. QueuedJobs' = Tail(QueuedJobs)
  <2> DEFINE s == QueuedJobs'
             t == Tail(QueuedJobs)
  <2>1. s \in Seq(Jobs) /\ t \in Seq(Jobs) /\ Len(s) = Len(t) /\ Len(s) = NumQueued - 1
    BY <1>1, <1>6, <1>10 DEF QueuedShape
  <2>2. \A i \in 1..Len(s) : s[i] = t[i]
    BY <1>9, <1>10, <2>1
  <2> HIDE DEF s, t
  <2>3. s = t
    BY <2>1, <2>2, SeqEqual
  <2>4. QED
    BY <2>3 DEF s, t
<1>12. QED
  BY <1>5, <1>8, <1>10, <1>11

------------------------------------------------------------------------------
(* Every job is in one place at a time, and its argument in one cell.      *)

Pushing == {p \in Posters : pc[p] \in {"push_fn", "push_args"}}
Pushed == {posting[p] : p \in Pushing}
QueuedArgs == {j \in Jobs : \E i \in DOMAIN jobs : jobs[i] = ArgsCell(j)}
Runners == {w \in Workers : pc[w] \in {"signal", "run"}}

Distinct ==
    /\ \A i, k \in DOMAIN jobs : jobs[i].part = "args" /\ jobs[i] = jobs[k] => i = k
    /\ \A v, w \in Runners : held[v].args = held[w].args => v = w

Disjoint ==
    /\ unposted \cap finished = {}
    /\ Pushed \cap (QueuedArgs \cup RunningJobs \cup finished) = {}
    /\ QueuedArgs \cap (RunningJobs \cup finished) = {}
    /\ RunningJobs \cap finished = {}

Conserved == Distinct /\ Disjoint

(* What the runners hold is the argument of a job.                         *)
RunningShape ==
    /\ \A w \in Runners : \E j \in Jobs : held[w].args = ArgsCell(j) /\ j \notin unposted
    /\ RunningJobs = {j \in Jobs : \E w \in Runners : held[w].args = ArgsCell(j)}

LEMMA RunningIs == PairsWhole => RunningShape
<1> SUFFICES ASSUME PairsWhole PROVE RunningShape
  OBVIOUS
<1>1. ASSUME NEW w \in Runners
      PROVE  \E j \in Jobs : held[w].args = ArgsCell(j) /\ j \notin unposted
  <2>1. PICK j \in Jobs \ unposted : held[w] = [fn |-> FnCell(j), args |-> ArgsCell(j)]
    BY DEF Runners, PairsWhole
  <2>2. held[w].args = ArgsCell(j)
    BY <2>1
  <2>3. QED
    BY <2>2
<1>2. RunningJobs = {held[w].args.job : w \in Runners}
  BY DEF RunningJobs, Runners
<1>3. QED
  BY <1>1, <1>2, CellFacts DEF RunningShape

LEMMA RunningIsAfter == PairsWhole' => RunningShape'
  BY RunningIs, PTL

(* The jobs in the pool have been posted.                                  *)
LEMMA PoolIsPosted ==
    ASSUME Inv
    PROVE  unposted \cap (Pushed \cup QueuedArgs \cup RunningJobs) = {}
<1>1. unposted \cap Pushed = {}
  BY DEF Inv, Control, PostingOK, Pushed, Pushing
<1>2. unposted \cap QueuedArgs = {}
  <2>1. DOMAIN jobs = 1..Len(jobs)
    BY LenProperties DEF Inv, Control, TypeOK
  <2>2. QED
    BY <2>1, CellFacts DEF Inv, QueueOfPairs, QueuedArgs
<1>3. unposted \cap RunningJobs = {}
  <2>1. \A w \in Runners : held[w].args.job \notin unposted
    BY RunningIs, CellFacts DEF Inv, RunningShape
  <2>2. QED
    BY <2>1 DEF RunningJobs, Runners
<1>4. QED
  BY <1>1, <1>2, <1>3

(* One poster at most is between the lock and the unlock.                  *)
LEMMA PushingAlone ==
    ASSUME Inv, NEW p \in Posters, lock \in {NoThread, p}
    PROVE  Pushing \subseteq {p}
  BY ThreadsDisjoint DEF Inv, Control, LockHeld, Inside, Pushing

LEMMA PostLockMoves ==
    ASSUME Inv, Inv', NEW p \in Posters, NEW j \in unposted, PostLock(p, j)
    PROVE  /\ unposted' = unposted \ {j}
           /\ Pushed = {} /\ Pushed' = {j} /\ Runners' = Runners
           /\ UNCHANGED <<jobs, held, QueuedArgs, RunningJobs, finished>>
<1>1. p \in Threads /\ OthersStay(p) /\ pc[p] = "idle" /\ pc'[p] = "push_fn" /\ posting'[p] = j
  BY ThreadsDisjoint, PosterControl DEF Inv, Control, TypeOK, PostLock, Goto
<1>2. /\ \A q \in Posters \ {p} : pc'[q] = pc[q]
      /\ \A w \in Workers : pc'[w] = pc[w] \/ (pc[w] = "asleep" /\ pc'[w] = "woken")
  BY <1>1, OthersFacts, ThreadsDisjoint
<1>3. Pushing \subseteq {p}
  BY PushingAlone DEF PostLock
<1>4. Pushing = {} /\ Pushing' = {p} /\ Runners' = Runners
  BY <1>1, <1>2, <1>3 DEF Pushing, Runners
<1>5. UNCHANGED <<jobs, held, finished>> /\ unposted' = unposted \ {j}
  BY DEF PostLock
<1>6. RunningJobs' = RunningJobs
  BY <1>4, <1>5, RunningIs, RunningIsAfter DEF Inv, RunningShape
<1>7. QED
  BY <1>1, <1>4, <1>5, <1>6 DEF Pushed, QueuedArgs

(* What a push does to the cells.                                          *)
LEMMA PushedCells ==
    ASSUME Inv, NEW c \in Cells, jobs' = Append(jobs, c)
    PROVE  /\ DOMAIN jobs' = DOMAIN jobs \cup {Len(jobs) + 1}
           /\ \A i \in DOMAIN jobs : jobs'[i] = jobs[i] /\ i # Len(jobs) + 1
           /\ jobs'[Len(jobs) + 1] = c
<1>1. jobs \in Seq(Cells) /\ Len(jobs) \in Nat /\ DOMAIN jobs = 1..Len(jobs)
  BY LenProperties DEF Inv, Control, TypeOK
<1>2. /\ DOMAIN jobs' = 1..(Len(jobs) + 1)
      /\ \A i \in 1..Len(jobs) : jobs'[i] = jobs[i]
      /\ jobs'[Len(jobs) + 1] = c
  BY <1>1, AppendProperties, LenProperties
<1>3. QED
  BY <1>1, <1>2

LEMMA PushFnMoves ==
    ASSUME Inv, Inv', Conserved, NEW p \in Posters, PushFn(p)
    PROVE  /\ Runners' = Runners /\ Distinct'
           /\ UNCHANGED <<held, unposted, Pushed, QueuedArgs, RunningJobs, finished>>
<1>1. /\ p \in Threads /\ OthersStay(p) /\ pc[p] = "push_fn" /\ pc'[p] = "push_args"
      /\ posting[p] \in Jobs
  BY ThreadsDisjoint, PosterControl DEF Inv, Control, TypeOK, PostingOK, PushFn, Goto, PosterStep
<1>2. /\ \A q \in Posters \ {p} : pc'[q] = pc[q]
      /\ \A w \in Workers : pc'[w] = pc[w] \/ (pc[w] = "asleep" /\ pc'[w] = "woken")
  BY <1>1, OthersFacts, ThreadsDisjoint
<1>3. Pushing' = Pushing /\ Runners' = Runners
  BY <1>1, <1>2 DEF Pushing, Runners
<1>4. UNCHANGED <<held, posting, unposted, finished>>
  BY DEF PushFn
<1>5. RunningJobs' = RunningJobs /\ Pushed' = Pushed
  BY <1>3, <1>4, RunningIs, RunningIsAfter DEF Inv, Pushed, RunningShape
<1>6. /\ DOMAIN jobs' = DOMAIN jobs \cup {Len(jobs) + 1}
      /\ \A i \in DOMAIN jobs : jobs'[i] = jobs[i] /\ i # Len(jobs) + 1
      /\ jobs'[Len(jobs) + 1] = FnCell(posting[p])
  BY <1>1, PushedCells DEF PushFn, FnCell, Cells
<1>7. \A j \in Jobs : FnCell(posting[p]) # ArgsCell(j)
  BY CellFacts
<1>8. QueuedArgs' = QueuedArgs
  BY <1>6, <1>7 DEF QueuedArgs
<1>9. Distinct'
  <2>1. \A i, k \in DOMAIN jobs' : jobs'[i].part = "args" /\ jobs'[i] = jobs'[k] => i = k
    BY <1>6, CellFacts DEF Conserved, Distinct
  <2>2. QED
    BY <1>3, <1>4, <2>1 DEF Conserved, Distinct
<1>10. QED
  BY <1>3, <1>4, <1>5, <1>8, <1>9

LEMMA PushArgsMoves ==
    ASSUME Inv, Inv', Conserved, NEW p \in Posters, PushArgs(p)
    PROVE  /\ posting[p] \in Jobs /\ Pushed = {posting[p]} /\ Pushed' = {}
           /\ QueuedArgs' = QueuedArgs \cup {posting[p]} /\ Runners' = Runners /\ Distinct'
           /\ UNCHANGED <<held, unposted, RunningJobs, finished>>
<1>1. /\ p \in Threads /\ OthersStay(p) /\ pc[p] = "push_args" /\ pc'[p] = "post_signal"
      /\ posting[p] \in Jobs /\ lock = p
  BY ThreadsDisjoint, PosterControl
     DEF Inv, Control, TypeOK, PostingOK, PushArgs, Goto, PosterStep, LockHeld, Inside
<1>2. /\ \A q \in Posters \ {p} : pc'[q] = pc[q]
      /\ \A w \in Workers : pc'[w] = pc[w] \/ (pc[w] = "asleep" /\ pc'[w] = "woken")
  BY <1>1, OthersFacts, ThreadsDisjoint
<1>3. Pushing = {p} /\ Pushing' = {} /\ Runners' = Runners
  <2>1. Pushing \subseteq {p}
    BY <1>1, PushingAlone
  <2>2. QED
    BY <1>1, <1>2, <2>1 DEF Pushing, Runners
<1>4. UNCHANGED <<held, unposted, finished>>
  BY DEF PushArgs
<1>5. RunningJobs' = RunningJobs /\ Pushed = {posting[p]} /\ Pushed' = {}
  BY <1>3, <1>4, RunningIs, RunningIsAfter DEF Inv, Pushed, RunningShape
<1>6. /\ DOMAIN jobs' = DOMAIN jobs \cup {Len(jobs) + 1}
      /\ \A i \in DOMAIN jobs : jobs'[i] = jobs[i] /\ i # Len(jobs) + 1
      /\ jobs'[Len(jobs) + 1] = ArgsCell(posting[p])
  BY <1>1, PushedCells DEF PushArgs, ArgsCell, Cells
<1>7. \A j \in Jobs : ArgsCell(posting[p]) = ArgsCell(j) <=> j = posting[p]
  BY CellFacts
<1>8. QueuedArgs' = QueuedArgs \cup {posting[p]}
  BY <1>1, <1>6, <1>7 DEF QueuedArgs
<1>9. Distinct'
  <2>1. \A i \in DOMAIN jobs : jobs[i] # ArgsCell(posting[p])
    BY <1>1, <1>5 DEF Conserved, Disjoint, QueuedArgs
  <2>2. \A i, k \in DOMAIN jobs' : jobs'[i].part = "args" /\ jobs'[i] = jobs'[k] => i = k
    BY <1>6, <2>1 DEF Conserved, Distinct
  <2>3. QED
    BY <1>3, <1>4, <2>2 DEF Conserved, Distinct
<1>10. QED
  BY <1>1, <1>3, <1>4, <1>5, <1>8, <1>9

(* What a pluck does to the cells.                                         *)
LEMMA PluckedCells ==
    ASSUME Inv, Conserved, jobs # <<>>, jobs' = AfterNext
    PROVE  /\ NextCell = jobs[1] /\ jobs[1] \in Cells
           /\ \A i, k \in DOMAIN jobs' : jobs'[i].part = "args" /\ jobs'[i] = jobs'[k] => i = k
           /\ \A j \in Jobs : jobs[1] = ArgsCell(j) => j \in QueuedArgs
           /\ QueuedArgs' = {j \in QueuedArgs : jobs[1] # ArgsCell(j)}
<1>1. jobs \in Seq(Cells)
  BY DEF Inv, Control, TypeOK
<1>2. /\ NextCell = jobs[1] /\ Len(jobs) \in Nat \ {0} /\ DOMAIN jobs = 1..Len(jobs)
      /\ DOMAIN jobs' = 1..(Len(jobs) - 1)
      /\ \A i \in DOMAIN jobs' : jobs'[i] = jobs[i + 1]
      /\ \A i \in DOMAIN jobs : jobs[i] \in Cells
  BY <1>1, RestOfQueue, LenProperties, ElementOfSeq
<1>3. /\ 1 \in DOMAIN jobs
      /\ \A i \in DOMAIN jobs' : i + 1 \in DOMAIN jobs /\ i + 1 # 1
      /\ \A i, k \in DOMAIN jobs' : i + 1 = k + 1 => i = k
      /\ \A i \in DOMAIN jobs : i # 1 => i - 1 \in DOMAIN jobs' /\ (i - 1) + 1 = i
  BY <1>2
<1>4. \A i, k \in DOMAIN jobs' : jobs'[i].part = "args" /\ jobs'[i] = jobs'[k] => i = k
  BY <1>2, <1>3 DEF Conserved, Distinct
<1>5. \A i \in DOMAIN jobs : i # 1 => jobs'[i - 1] = jobs[i]
  BY <1>2, <1>3
<1>6. ASSUME NEW j \in Jobs
      PROVE  j \in QueuedArgs' <=> j \in QueuedArgs /\ jobs[1] # ArgsCell(j)
  <2>1. ASSUME NEW i \in DOMAIN jobs', jobs'[i] = ArgsCell(j)
        PROVE  j \in QueuedArgs /\ jobs[1] # ArgsCell(j)
    <3>1. i + 1 \in DOMAIN jobs /\ i + 1 # 1 /\ jobs[i + 1] = ArgsCell(j)
      BY <1>2, <1>3, <2>1
    <3>2. QED
      BY <1>3, <3>1, CellFacts DEF QueuedArgs, Conserved, Distinct
  <2>2. ASSUME NEW i \in DOMAIN jobs, jobs[i] = ArgsCell(j), jobs[1] # ArgsCell(j)
        PROVE  j \in QueuedArgs'
    <3>1. i - 1 \in DOMAIN jobs' /\ jobs'[i - 1] = ArgsCell(j)
      BY <1>3, <1>5, <2>2
    <3>2. QED
      BY <3>1 DEF QueuedArgs
  <2>3. QED
    BY <2>1, <2>2 DEF QueuedArgs
<1>7. QueuedArgs' \subseteq Jobs /\ QueuedArgs \subseteq Jobs
  BY DEF QueuedArgs
<1>8. QED
  BY <1>2, <1>3, <1>4, <1>6, <1>7 DEF QueuedArgs

LEMMA PluckFnMoves ==
    ASSUME Inv, Inv', Conserved, NEW w \in Workers, PluckFn(w)
    PROVE  /\ Runners' = Runners /\ Distinct'
           /\ UNCHANGED <<unposted, Pushed, QueuedArgs, RunningJobs, finished>>
<1>1. /\ w \in Threads /\ OthersStay(w) /\ pc[w] = "pluck_fn" /\ pc'[w] = "pluck_args"
      /\ pc[w] \in Inside /\ jobs # <<>> /\ jobs' = AfterNext
      /\ held \in [Workers -> [fn : Cells \cup {Null}, args : Cells \cup {Null}]]
  BY ThreadsDisjoint, WorkerMoves
     DEF Inv, Control, TypeOK, InspectedOK, PluckFn, Goto, WorkerStep, Inside
<1>2. /\ \A p \in Posters : pc'[p] = pc[p]
      /\ \A v \in Workers \ {w} : pc'[v] = pc[v] \/ (pc[v] = "asleep" /\ pc'[v] = "woken")
  BY <1>1, OthersFacts, ThreadsDisjoint
<1>3. Pushing' = Pushing /\ Runners' = Runners /\ w \notin Runners
  BY <1>1, <1>2 DEF Pushing, Runners
<1>4. /\ \A v \in Runners : held'[v] = held[v]
      /\ UNCHANGED <<posting, unposted, finished>>
  BY <1>1, <1>3 DEF PluckFn, Runners
<1>5. RunningJobs' = RunningJobs /\ Pushed' = Pushed
  BY <1>3, <1>4, RunningIs, RunningIsAfter DEF Inv, Pushed, RunningShape
<1>6. \A j : jobs[1] # ArgsCell(j)
  <2>1. \A v \in Workers : pc[v] # "pluck_args"
    BY <1>1, Alone, ThreadsDisjoint DEF Inv, Control, Inside
  <2>2. jobs[1].part = "fn"
    BY <1>1, <2>1 DEF Inv, QueueOfPairs
  <2>3. QED
    BY <2>2, CellFacts
<1>7. QueuedArgs' = QueuedArgs
  BY <1>1, <1>6, PluckedCells
<1>8. Distinct'
  BY <1>1, <1>3, <1>4, PluckedCells DEF Conserved, Distinct
<1>9. QED
  BY <1>3, <1>4, <1>5, <1>7, <1>8

LEMMA PluckArgsMoves ==
    ASSUME Inv, Inv', Conserved, NEW w \in Workers, PluckArgs(w)
    PROVE  /\ jobs[1].job \in QueuedArgs /\ QueuedArgs' = QueuedArgs \ {jobs[1].job}
           /\ RunningJobs' = RunningJobs \cup {jobs[1].job} /\ Distinct'
           /\ UNCHANGED <<unposted, Pushed, finished>>
<1>1. /\ w \in Threads /\ OthersStay(w) /\ pc[w] = "pluck_args" /\ pc'[w] = "signal"
      /\ jobs # <<>> /\ jobs[1].part = "args" /\ jobs' = AfterNext
      /\ held \in [Workers -> [fn : Cells \cup {Null}, args : Cells \cup {Null}]]
  BY ThreadsDisjoint, WorkerMoves
     DEF Inv, Control, TypeOK, QueueOfPairs, PluckArgs, Goto, WorkerStep
<1>2. /\ \A p \in Posters : pc'[p] = pc[p]
      /\ \A v \in Workers \ {w} : pc'[v] = pc[v] \/ (pc[v] = "asleep" /\ pc'[v] = "woken")
  BY <1>1, OthersFacts, ThreadsDisjoint
<1>3. Pushing' = Pushing /\ Runners' = Runners \cup {w} /\ w \notin Runners
  BY <1>1, <1>2 DEF Pushing, Runners
<1> DEFINE j == jobs[1].job
<1>4. /\ j \in Jobs /\ jobs[1] = ArgsCell(j) /\ NextCell = jobs[1]
      /\ \A i \in Jobs : jobs[1] = ArgsCell(i) <=> i = j
  BY <1>1, PluckedCells, CellFacts
<1>5. /\ \A v \in Runners : held'[v] = held[v]
      /\ held'[w].args = ArgsCell(j)
      /\ UNCHANGED <<posting, unposted, finished>>
  BY <1>1, <1>3, <1>4 DEF PluckArgs, Runners
<1>6. j \in QueuedArgs /\ QueuedArgs' = QueuedArgs \ {j}
  <2>1. \A i \in QueuedArgs : i \in Jobs
    BY DEF QueuedArgs
  <2>2. QED
    BY <1>1, <1>4, <2>1, PluckedCells
<1> HIDE DEF j
<1>7. Pushed' = Pushed
  BY <1>3, <1>5 DEF Pushed
<1>8. RunningJobs' = RunningJobs \cup {j}
  <2>1. RunningShape /\ RunningShape'
    BY RunningIs, RunningIsAfter DEF Inv
  <2>2. ASSUME NEW i \in Jobs
        PROVE  (\E v \in Runners' : held'[v].args = ArgsCell(i))
                 <=> (\E v \in Runners : held[v].args = ArgsCell(i)) \/ i = j
    BY <1>3, <1>4, <1>5, CellFacts
  <2>3. QED
    BY <1>4, <2>1, <2>2 DEF RunningShape
<1>9. Distinct'
  <2>1. \A v \in Runners : held[v].args # ArgsCell(j)
    <3>1. j \notin RunningJobs
      BY <1>6 DEF Conserved, Disjoint
    <3>2. QED
      BY <1>4, <3>1, RunningIs DEF Inv, RunningShape
  <2>2. \A u, v \in Runners' : held'[u].args = held'[v].args => u = v
    BY <1>3, <1>5, <2>1 DEF Conserved, Distinct
  <2>3. QED
    BY <1>1, <2>2, PluckedCells DEF Distinct
<1>10. QED
  BY <1>5, <1>6, <1>7, <1>8, <1>9 DEF j

LEMMA RunJobMoves ==
    ASSUME Inv, Inv', Conserved, NEW w \in Workers, RunJob(w)
    PROVE  /\ held[w].args.job \in RunningJobs /\ held[w].args.job \in Jobs
           /\ RunningJobs' = RunningJobs \ {held[w].args.job}
           /\ finished' = finished \cup {held[w].args.job} /\ Distinct'
           /\ UNCHANGED <<jobs, unposted, Pushed, QueuedArgs>>
           /\ held[w].args.job \notin unposted
<1>1. /\ w \in Threads /\ OthersStay(w) /\ pc[w] = "run" /\ pc'[w] = "test_size"
      /\ held \in [Workers -> [fn : Cells \cup {Null}, args : Cells \cup {Null}]]
  BY ThreadsDisjoint, WorkerMoves DEF Inv, Control, TypeOK, RunJob, Goto, WorkerStep
<1>2. /\ \A p \in Posters : pc'[p] = pc[p]
      /\ \A v \in Workers \ {w} : pc'[v] = pc[v] \/ (pc[v] = "asleep" /\ pc'[v] = "woken")
  BY <1>1, OthersFacts, ThreadsDisjoint
<1>3. Pushing' = Pushing /\ Runners' = Runners \ {w} /\ w \in Runners
  BY <1>1, <1>2 DEF Pushing, Runners
<1>4. RunningShape /\ RunningShape'
  BY RunningIs, RunningIsAfter DEF Inv
<1>5. PICK j \in Jobs : held[w].args = ArgsCell(j) /\ j \notin unposted
  BY <1>3, <1>4 DEF RunningShape
<1>6. held[w].args.job = j
  BY <1>5, CellFacts
<1>7. /\ \A v \in Runners' : held'[v] = held[v]
      /\ UNCHANGED <<jobs, posting, unposted>>
      /\ finished' = finished \cup {j}
  BY <1>1, <1>3, <1>6 DEF RunJob, Runners
<1>8. Pushed' = Pushed /\ QueuedArgs' = QueuedArgs
  BY <1>3, <1>7 DEF Pushed, QueuedArgs
<1>9. j \in RunningJobs
  BY <1>3, <1>4, <1>5 DEF RunningShape
<1>10. RunningJobs' = RunningJobs \ {j}
  <2>1. \A v \in Runners' : held[v].args # ArgsCell(j)
    BY <1>3, <1>5 DEF Conserved, Distinct
  <2>2. ASSUME NEW i \in Jobs
        PROVE  (\E v \in Runners' : held'[v].args = ArgsCell(i))
                 <=> (\E v \in Runners : held[v].args = ArgsCell(i)) /\ i # j
    BY <1>3, <1>5, <1>7, <2>1, CellFacts
  <2>3. QED
    BY <1>4, <2>2 DEF RunningShape
<1>11. Distinct'
  BY <1>3, <1>7 DEF Conserved, Distinct
<1>12. QED
  BY <1>5, <1>6, <1>7, <1>8, <1>9, <1>10, <1>11

(* The other steps change neither the queue nor who has what.              *)
Passing == \/ \E w \in Workers : PluckFn(w) \/ PluckArgs(w) \/ RunJob(w)
           \/ \E p \in Posters : PushFn(p) \/ PushArgs(p) \/ \E j \in unposted : PostLock(p, j)

LEMMA OtherMoves ==
    ASSUME Inv, Inv', [Next]_vars, ~Passing
    PROVE  /\ UNCHANGED <<jobs, held, posting, unposted, finished>>
           /\ Pushing' = Pushing /\ Runners' = Runners /\ RunningJobs' = RunningJobs
<1>1. /\ Control /\ TypeOK /\ LockHeld /\ pc \in [Threads -> Places]
  BY DEF Inv, Control, TypeOK, Places
<1>2. ASSUME NEW w \in Workers, WorkerStep(w)
      PROVE  /\ UNCHANGED <<jobs, held, posting, unposted, finished>>
             /\ Pushing' = Pushing /\ Runners' = Runners
  <2>1. w \in Threads /\ OthersStay(w)
    BY <1>1, <1>2, WorkerMoves, ThreadsDisjoint
  <2>2. /\ \A p \in Posters : pc'[p] = pc[p]
        /\ \A v \in Workers \ {w} : pc'[v] = pc[v] \/ (pc[v] = "asleep" /\ pc'[v] = "woken")
    BY <2>1, OthersFacts, ThreadsDisjoint
  <2>3. UNCHANGED <<jobs, held, posting, unposted, finished>>
    BY <1>2 DEF Passing, WorkerStep, TestSize, TestStop, Acquire, InspectJob, InspectIdle,
                InspectBreak, Wait, PluckSignal, BreakSignal
  <2>4. pc[w] \in {"signal", "run"} <=> pc'[w] \in {"signal", "run"}
    <3>1. CASE PluckSignal(w) \/ BreakSignal(w)
      BY <1>1, <2>1, <3>1, SignalFacts DEF PluckSignal, BreakSignal, Places, WorkerPlaces
    <3>2. CASE ~PluckSignal(w) /\ ~BreakSignal(w)
      BY <1>1, <1>2, <2>1, <3>2
         DEF Passing, WorkerStep, TestSize, TestStop, Acquire, InspectJob, InspectIdle, InspectBreak,
             Wait, Goto
    <3>3. QED
      BY <3>1, <3>2
  <2>5. QED
    BY <2>2, <2>3, <2>4 DEF Pushing, Runners
<1>3. ASSUME NEW w \in Workers, SpuriousWake(w)
      PROVE  /\ UNCHANGED <<jobs, held, posting, unposted, finished>>
             /\ Pushing' = Pushing /\ Runners' = Runners
  <2>1. w \in Threads /\ OthersStay(w) /\ pc[w] = "asleep" /\ pc'[w] = "woken"
    BY <1>1, <1>3, SpuriousControl, ThreadsDisjoint DEF SpuriousWake, Goto
  <2>2. /\ \A p \in Posters : pc'[p] = pc[p]
        /\ \A v \in Workers \ {w} : pc'[v] = pc[v] \/ (pc[v] = "asleep" /\ pc'[v] = "woken")
    BY <2>1, OthersFacts, ThreadsDisjoint
  <2>3. QED
    BY <1>3, <2>1, <2>2 DEF SpuriousWake, Pushing, Runners
<1>4. ASSUME NEW p \in Posters, PosterStep(p) \/ \E j \in unposted : PostLock(p, j)
      PROVE  /\ UNCHANGED <<jobs, held, posting, unposted, finished>>
             /\ Pushing' = Pushing /\ Runners' = Runners
  <2>1. CASE BeginGrow(p) \/ EndGrow(p)
    BY <2>1 DEF BeginGrow, EndGrow, Pushing, Runners
  <2>2. CASE PostSignal(p)
    <3>1. p \in Threads /\ OthersStay(p)
      BY <1>1, <1>4, PosterControl, ThreadsDisjoint
    <3>2. /\ \A q \in Posters \ {p} : pc'[q] = pc[q]
          /\ \A w \in Workers : pc'[w] = pc[w] \/ (pc[w] = "asleep" /\ pc'[w] = "woken")
      BY <3>1, OthersFacts, ThreadsDisjoint
    <3>3. pc[p] = "post_signal" /\ pc'[p] = "idle"
      BY <1>1, <2>2, <3>1, SignalFacts DEF PostSignal, Places, PosterPlaces
    <3>4. QED
      BY <2>2, <3>2, <3>3 DEF PostSignal, Pushing, Runners
  <2>3. QED
    BY <1>4, <2>1, <2>2 DEF Passing, PosterStep
<1>5. ASSUME JoinStop \/ JoinSignal \/ JoinThreads
      PROVE  /\ UNCHANGED <<jobs, held, posting, unposted, finished>>
             /\ Pushing' = Pushing /\ Runners' = Runners
  <2>1. Owner \in Threads /\ OthersStay(Owner)
    BY <1>1, <1>5, OwnerControl, ThreadsDisjoint
  <2>2. /\ \A p \in Posters : pc'[p] = pc[p]
        /\ \A w \in Workers : pc'[w] = pc[w] \/ (pc[w] = "asleep" /\ pc'[w] = "woken")
    BY <2>1, OthersFacts, ThreadsDisjoint
  <2>3. QED
    BY <1>5, <2>2 DEF JoinStop, JoinSignal, JoinThreads, Pushing, Runners
<1>6. ASSUME UNCHANGED vars
      PROVE  /\ UNCHANGED <<jobs, held, posting, unposted, finished>>
             /\ Pushing' = Pushing /\ Runners' = Runners
  BY <1>6 DEF vars, Pushing, Runners
<1>7. /\ UNCHANGED <<jobs, held, posting, unposted, finished>>
      /\ Pushing' = Pushing /\ Runners' = Runners
  BY <1>2, <1>3, <1>4, <1>5, <1>6 DEF Next
<1>8. RunningJobs' = RunningJobs
  BY <1>7, RunningIs, RunningIsAfter DEF Inv, RunningShape
<1>9. QED
  BY <1>7, <1>8

------------------------------------------------------------------------------
(* The pool implements the abstract one.                                   *)

LEMMA InitConserved == Init => Paired /\ Conserved
<1> SUFFICES ASSUME Init PROVE Paired /\ Conserved
  OBVIOUS
<1>1. DOMAIN jobs = {}
  BY DEF Init
<1>2. /\ \A w \in Workers : pc[w] = "test_size"
      /\ \A p \in Posters : pc[p] = "idle"
  BY ThreadsDisjoint DEF Init
<1>3. Pushing = {} /\ Runners = {} /\ QueuedArgs = {} /\ finished = {}
  BY <1>1, <1>2 DEF Init, Pushing, Runners, QueuedArgs
<1>4. Pushed = {} /\ RunningJobs = {}
  BY <1>3 DEF Pushed, RunningJobs, Runners
<1>5. QED
  BY <1>1, <1>3, <1>4 DEF Paired, Conserved, Distinct, Disjoint

LEMMA NextConserved == Inv /\ Inv' /\ Paired /\ Conserved /\ [Next]_vars => Paired' /\ Conserved'
<1> SUFFICES ASSUME Inv, Inv', Paired, Conserved, [Next]_vars
             PROVE  Paired' /\ Conserved'
  OBVIOUS
<1>1. TypeOK' /\ unposted \cap (Pushed \cup QueuedArgs \cup RunningJobs) = {}
  BY PoolIsPosted DEF Inv, Control
<1>2. ASSUME NEW p \in Posters, NEW j \in unposted, PostLock(p, j)
      PROVE  Paired' /\ Conserved'
  <2>1. /\ unposted' = unposted \ {j} /\ Pushed' = {j} /\ Runners' = Runners
        /\ UNCHANGED <<jobs, held, QueuedArgs, RunningJobs, finished>>
    BY <1>2, PostLockMoves
  <2>2. Disjoint'
    BY <1>1, <2>1 DEF Conserved, Disjoint
  <2>3. Distinct' /\ Paired'
    BY <2>1 DEF Conserved, Distinct, Paired, FirstArgs
  <2>4. QED
    BY <2>2, <2>3 DEF Conserved
<1>3. ASSUME NEW p \in Posters, PushFn(p)
      PROVE  Paired' /\ Conserved'
  <2>1. Disjoint'
    BY <1>3, PushFnMoves DEF Conserved, Disjoint
  <2>2. QED
    BY <1>1, <1>3, <2>1, PushFnMoves, PushFnQueue DEF Conserved
<1>4. ASSUME NEW p \in Posters, PushArgs(p)
      PROVE  Paired' /\ Conserved'
  <2>1. Disjoint'
    BY <1>4, PushArgsMoves DEF Conserved, Disjoint
  <2>2. QED
    BY <1>1, <1>4, <2>1, PushArgsMoves, PushArgsQueue DEF Conserved
<1>5. ASSUME NEW w \in Workers, PluckFn(w)
      PROVE  Paired' /\ Conserved'
  <2>1. Disjoint'
    BY <1>5, PluckFnMoves DEF Conserved, Disjoint
  <2>2. QED
    BY <1>1, <1>5, <2>1, PluckFnMoves, PluckFnQueue DEF Conserved
<1>6. ASSUME NEW w \in Workers, PluckArgs(w)
      PROVE  Paired' /\ Conserved'
  <2>1. Disjoint'
    BY <1>6, PluckArgsMoves DEF Conserved, Disjoint
  <2>2. QED
    BY <1>1, <1>6, <2>1, PluckArgsMoves, PluckArgsQueue DEF Conserved
<1>7. ASSUME NEW w \in Workers, RunJob(w)
      PROVE  Paired' /\ Conserved'
  <2>1. Disjoint'
    BY <1>7, RunJobMoves DEF Conserved, Disjoint
  <2>2. Paired'
    BY <1>7, RunJobMoves DEF Paired, FirstArgs
  <2>3. QED
    BY <1>7, <2>1, <2>2, RunJobMoves DEF Conserved
<1>8. CASE ~Passing
  <2>1. /\ UNCHANGED <<jobs, held, posting, unposted, finished>>
        /\ Pushing' = Pushing /\ Runners' = Runners /\ RunningJobs' = RunningJobs
    BY <1>8, OtherMoves
  <2>2. QED
    BY <2>1 DEF Conserved, Distinct, Disjoint, Pushed, QueuedArgs, Paired, FirstArgs
<1>9. QED
  BY <1>2, <1>3, <1>4, <1>5, <1>6, <1>7, <1>8 DEF Passing

LEMMA InitImplements == Init => Pool!Init
<1> SUFFICES ASSUME Init PROVE Pool!Init
  OBVIOUS
<1>1. RunningJobs = {}
  BY ThreadsDisjoint DEF Init, RunningJobs
<1>2. QueuedJobs = <<>>
  <2>1. Inv
    BY InitInv
  <2>2. QueuedShape /\ Len(jobs) = 0 /\ FirstArgs = 2
    BY <2>1, TypedShape DEF Init, Inv, Control, FirstArgs
  <2>3. Len(QueuedJobs) = 0 /\ QueuedJobs \in Seq(Jobs)
    BY <2>2 DEF QueuedShape
  <2>4. QED
    BY <2>3, EmptySeq
<1>3. QED
  BY <1>1, <1>2 DEF Init, Pool!Init

LEMMA NextImplements ==
    Inv /\ Inv' /\ Paired /\ Conserved /\ [Next]_vars => [Pool!Next]_(Pool!vars)
<1> SUFFICES ASSUME Inv, Inv', Paired, Conserved, [Next]_vars
             PROVE  [Pool!Next]_(Pool!vars)
  OBVIOUS
<1>1. TypeOK /\ TypeOK' /\ QueuedShape
  BY TypedShape DEF Inv, Control
<1>2. ASSUME NEW p \in Posters, PushArgs(p)
      PROVE  Pool!Next
  <2>1. /\ posting[p] \in Jobs /\ QueuedJobs' = Append(QueuedJobs, posting[p])
        /\ posting[p] \notin QueuedArgs \cup RunningJobs \cup finished
        /\ UNCHANGED <<RunningJobs, finished>>
    BY <1>1, <1>2, PushArgsMoves, PushArgsQueue DEF Conserved, Disjoint
  <2>2. posting[p] \notin Pool!Queued
    <3>1. ASSUME NEW i \in 1..NumQueued PROVE QueuedJobs[i] \in QueuedArgs
      <4> DEFINE k == 2 * i + FirstArgs - 2
      <4>1. k \in 1..Len(jobs) /\ QueuedJobs[i] = jobs[k].job
        BY <1>1 DEF QueuedShape
      <4>2. jobs[k] \in Cells /\ k \in DOMAIN jobs
        BY <1>1, <4>1, LenProperties, ElementOfSeq DEF TypeOK
      <4>3. (k + FirstArgs) % 2 = 0
        <5> DEFINE m == k + FirstArgs
        <5>1. FirstArgs \in {1, 2} /\ NumQueued \in Nat
          BY <1>1 DEF QueuedShape
        <5>2. m \in Nat /\ m = 2 * (i + FirstArgs - 1)
          BY <5>1
        <5>3. m % 2 \in {0, 1} /\ m \div 2 \in Nat /\ m = 2 * (m \div 2) + (m % 2)
          BY <5>2, Halves
        <5>4. i + FirstArgs - 1 \in Nat
          BY <5>1
        <5> HIDE DEF m
        <5>5. m % 2 = 0
          BY <5>2, <5>3, <5>4
        <5>6. QED
          BY <5>5 DEF m
      <4>4. jobs[k].part = "args"
        BY <4>2, <4>3 DEF Paired
      <4>5. QED
        BY <4>1, <4>2, <4>4, CellFacts DEF QueuedArgs
    <3>2. DOMAIN QueuedJobs = 1..NumQueued
      BY <1>1, LenProperties DEF QueuedShape
    <3>3. QED
      BY <2>1, <3>1, <3>2 DEF Pool!Queued
  <2>3. Pool!Post(posting[p])
    BY <2>1, <2>2 DEF Pool!Post
  <2>4. QED
    BY <2>1, <2>3 DEF Pool!Next
<1>3. ASSUME NEW w \in Workers, PluckArgs(w)
      PROVE  Pool!Next
  BY <1>1, <1>3, PluckArgsMoves, PluckArgsQueue DEF Pool!Start, Pool!Next
<1>4. ASSUME NEW w \in Workers, RunJob(w)
      PROVE  Pool!Next
  <2>1. QueuedJobs' = QueuedJobs
    BY <1>4, RunJobMoves DEF QueuedJobs, FirstArgs
  <2>2. Pool!Finish(held[w].args.job) /\ held[w].args.job \in Jobs
    BY <1>4, <2>1, RunJobMoves DEF Pool!Finish
  <2>3. QED
    BY <2>2 DEF Pool!Next
<1>5. ASSUME NEW p \in Posters, PushFn(p)
      PROVE  UNCHANGED Pool!vars
  BY <1>1, <1>5, PushFnMoves, PushFnQueue DEF Pool!vars
<1>6. ASSUME NEW w \in Workers, PluckFn(w)
      PROVE  UNCHANGED Pool!vars
  BY <1>1, <1>6, PluckFnMoves, PluckFnQueue DEF Pool!vars
<1>7. ASSUME NEW p \in Posters, NEW j \in unposted, PostLock(p, j)
      PROVE  UNCHANGED Pool!vars
  BY <1>7, PostLockMoves DEF Pool!vars, QueuedJobs, FirstArgs
<1>8. CASE ~Passing
  BY <1>8, OtherMoves DEF Pool!vars, QueuedJobs, FirstArgs
<1>9. QED
  BY <1>2, <1>3, <1>4, <1>5, <1>6, <1>7, <1>8 DEF Passing

LEMMA PoolConserves == Spec => [](Inv /\ Paired /\ Conserved)
<1>1. Inv /\ Inv' /\ Paired /\ Conserved /\ [Next]_vars => (Paired /\ Conserved)'
  BY NextConserved
<1>2. QED
  BY PoolInvariant, InitConserved, <1>1, PTL DEF Spec

(* workers.c implements the abstract pool: whatever the number of threads  *)
(* and jobs, a job whose two cells are pushed and plucked one by one is    *)
(* started once, in the order of posting, and finishes after that.         *)
THEOREM PoolImplementsJobPool == Spec => ImplementsJobPool
  BY PoolConserves, InitImplements, NextImplements, PTL DEF Spec, ImplementsJobPool, Pool!Spec

------------------------------------------------------------------------------
(* No job is lost.                                                         *)

(* A job is not posted yet, or between the lock and the second push, or in *)
(* the queue, or with a worker, or finished: with Disjoint, exactly one.   *)
Complete == Jobs = unposted \cup Pushed \cup QueuedArgs \cup RunningJobs \cup finished

LEMMA InitComplete == Init => Complete
<1> SUFFICES ASSUME Init PROVE Complete
  OBVIOUS
<1>1. unposted = Jobs /\ finished = {}
  BY DEF Init
<1>2. Inv
  BY InitInv
<1>3. /\ \A w \in Workers : pc[w] = "test_size"
      /\ \A p \in Posters : pc[p] = "idle"
  BY ThreadsDisjoint DEF Init
<1>4. Pushed = {} /\ RunningJobs = {}
  BY <1>3 DEF Pushed, Pushing, RunningJobs
<1>5. QueuedArgs \subseteq Jobs
  BY DEF QueuedArgs
<1>6. QED
  BY <1>1, <1>4, <1>5 DEF Complete

LEMMA NextComplete == Inv /\ Inv' /\ Conserved /\ Complete /\ [Next]_vars => Complete'
<1> SUFFICES ASSUME Inv, Inv', Conserved, Complete, [Next]_vars
             PROVE  Complete'
  OBVIOUS
<1>1. unposted \subseteq Jobs
  BY DEF Inv, Control, TypeOK
<1>2. ASSUME NEW p \in Posters, NEW j \in unposted, PostLock(p, j)
      PROVE  Complete'
  BY <1>1, <1>2, PostLockMoves DEF Complete
<1>3. ASSUME NEW p \in Posters, PushFn(p)
      PROVE  Complete'
  BY <1>3, PushFnMoves DEF Complete
<1>4. ASSUME NEW p \in Posters, PushArgs(p)
      PROVE  Complete'
  BY <1>4, PushArgsMoves DEF Complete
<1>5. ASSUME NEW w \in Workers, PluckFn(w)
      PROVE  Complete'
  BY <1>5, PluckFnMoves DEF Complete
<1>6. ASSUME NEW w \in Workers, PluckArgs(w)
      PROVE  Complete'
  BY <1>6, PluckArgsMoves DEF Complete
<1>7. ASSUME NEW w \in Workers, RunJob(w)
      PROVE  Complete'
  BY <1>7, RunJobMoves DEF Complete
<1>8. CASE ~Passing
  BY <1>8, OtherMoves DEF Complete, Pushed, QueuedArgs
<1>9. QED
  BY <1>2, <1>3, <1>4, <1>5, <1>6, <1>7, <1>8 DEF Passing

(* Between w_post and the return of its function a job is in exactly one   *)
(* place, although it is pushed and plucked as two cells.                  *)
THEOREM PoolLosesNoJob == Spec => [](Complete /\ Disjoint)
<1>1. Conserved => Disjoint
  BY DEF Conserved
<1>2. QED
  BY PoolConserves, InitComplete, NextComplete, <1>1, PTL DEF Spec

------------------------------------------------------------------------------
(* Where each step takes its thread.                                       *)

Goes(t, place) ==
    /\ pc' \in [Threads -> Places]
    /\ pc'[t] = place
    /\ OthersStay(t)

(* A sleeper is woken if there is one.                                     *)
Wakes == Asleep # {} => \E w \in Workers : pc'[w] = "woken"

LEMMA GotoGoes ==
    ASSUME TypeOK, NEW t \in Threads, NEW place \in Places, Goto(t, place)
    PROVE  Goes(t, place)
  BY GotoFacts DEF Goes, OthersStay

LEMMA SignalGoes ==
    ASSUME TypeOK, NEW t \in Threads, NEW place \in Places,
           pc[t] # "asleep", Signal(t, place)
    PROVE  Goes(t, place) /\ Wakes
  BY SignalFacts DEF Goes, OthersStay, Wakes

LEMMA WorkerGoes ==
    ASSUME TypeOK, NEW w \in Workers
    PROVE  /\ TestSize(w) => Goes(w, "test_stop") \/ Goes(w, "lock")
           /\ TestStop(w) => Goes(w, "exited") \/ Goes(w, "lock")
           /\ Acquire(w) => Goes(w, "inspect")
           /\ InspectJob(w) => Goes(w, "pluck_fn")
           /\ InspectIdle(w) => Goes(w, "wait")
           /\ InspectBreak(w) => Goes(w, "break_signal")
           /\ Wait(w) => Goes(w, "asleep")
           /\ SpuriousWake(w) => Goes(w, "woken")
           /\ PluckFn(w) => Goes(w, "pluck_args")
           /\ PluckArgs(w) => Goes(w, "signal")
           /\ PluckSignal(w) => Goes(w, "run") /\ Wakes
           /\ BreakSignal(w) => Goes(w, "exited") /\ Wakes
           /\ RunJob(w) => Goes(w, "test_size")
<1>1. w \in Threads /\ WorkerPlaces \subseteq Places
  BY ThreadsDisjoint DEF Places
<1>2. /\ TestSize(w) => Goes(w, "test_stop") \/ Goes(w, "lock")
      /\ TestStop(w) => Goes(w, "exited") \/ Goes(w, "lock")
  BY <1>1, GotoGoes DEF TestSize, TestStop, WorkerPlaces
<1>3. /\ Acquire(w) => Goes(w, "inspect")
      /\ InspectJob(w) => Goes(w, "pluck_fn")
      /\ InspectIdle(w) => Goes(w, "wait")
      /\ InspectBreak(w) => Goes(w, "break_signal")
  BY <1>1, GotoGoes DEF Acquire, InspectJob, InspectIdle, InspectBreak, WorkerPlaces
<1>4. /\ Wait(w) => Goes(w, "asleep")
      /\ SpuriousWake(w) => Goes(w, "woken")
      /\ RunJob(w) => Goes(w, "test_size")
  BY <1>1, GotoGoes DEF Wait, SpuriousWake, RunJob, WorkerPlaces
<1>5. /\ PluckFn(w) => Goes(w, "pluck_args")
      /\ PluckArgs(w) => Goes(w, "signal")
  BY <1>1, GotoGoes DEF PluckFn, PluckArgs, WorkerPlaces
<1>6. /\ PluckSignal(w) => Goes(w, "run") /\ Wakes
      /\ BreakSignal(w) => Goes(w, "exited") /\ Wakes
  BY <1>1, SignalGoes DEF PluckSignal, BreakSignal, WorkerPlaces
<1>7. QED
  BY <1>2, <1>3, <1>4, <1>5, <1>6

LEMMA PosterGoes ==
    ASSUME TypeOK, NEW p \in Posters
    PROVE  /\ \A j \in Jobs : PostLock(p, j) => Goes(p, "push_fn")
           /\ BeginGrow(p) \/ EndGrow(p) => pc' = pc
           /\ PushFn(p) => Goes(p, "push_args")
           /\ PushArgs(p) => Goes(p, "post_signal")
           /\ PostSignal(p) => Goes(p, "idle") /\ Wakes
<1>1. p \in Threads /\ PosterPlaces \subseteq Places
  BY ThreadsDisjoint DEF Places
<1>2. \A j \in Jobs : PostLock(p, j) => Goes(p, "push_fn")
  BY <1>1, GotoGoes DEF PostLock, PosterPlaces
<1>3. /\ PushFn(p) => Goes(p, "push_args")
      /\ PushArgs(p) => Goes(p, "post_signal")
  BY <1>1, GotoGoes DEF PushFn, PushArgs, PosterPlaces
<1>4. PostSignal(p) => Goes(p, "idle") /\ Wakes
  BY <1>1, SignalGoes DEF PostSignal, PosterPlaces
<1>5. BeginGrow(p) \/ EndGrow(p) => pc' = pc
  BY DEF BeginGrow, EndGrow
<1>6. QED
  BY <1>2, <1>3, <1>4, <1>5

LEMMA OwnerGoes ==
    ASSUME TypeOK
    PROVE  /\ JoinStop => Goes(Owner, "join_signal")
           /\ JoinSignal => Goes(Owner, "join_threads") /\ Wakes
           /\ JoinThreads => Goes(Owner, "joined")
<1>1. Owner \in Threads /\ OwnerPlaces \subseteq Places
  BY ThreadsDisjoint DEF Places
<1>2. /\ JoinStop => Goes(Owner, "join_signal")
      /\ JoinThreads => Goes(Owner, "joined")
  BY <1>1, GotoGoes DEF JoinStop, JoinThreads, OwnerPlaces
<1>3. JoinSignal => Goes(Owner, "join_threads") /\ Wakes
  BY <1>1, SignalGoes DEF JoinSignal, OwnerPlaces
<1>4. QED
  BY <1>2, <1>3

------------------------------------------------------------------------------
(* Where the pool comes to rest.                                           *)

(* A worker waits on the condition variable or for the mutex, or is gone.  *)
WorkerRests(w) ==
    \/ pc[w] \in {"asleep", "exited"}
    \/ pc[w] \in {"lock", "woken"} /\ lock # NoThread

(* The owner is in none of its calls, or join waits for a worker.          *)
OwnerRests ==
    \/ pc[Owner] \in {"up", "joined"}
    \/ pc[Owner] = "join_threads" /\ \E w \in Workers : pc[w] # "exited"

(* Nothing happens any more unless w_post or w_join is called or a worker  *)
(* wakes up without a signal.                                              *)
AtRest ==
    /\ \A w \in Workers : WorkerRests(w)
    /\ \A p \in Posters : pc[p] = "idle"
    /\ OwnerRests

(* A worker leaves only when the flag is set.                              *)
ExitedOK == \A w \in Workers : pc[w] = "exited" => stop

LEMMA NextExited == Control /\ ExitedOK /\ [Next]_vars => ExitedOK'
<1> SUFFICES ASSUME Control, ExitedOK, [Next]_vars, NEW w \in Workers, pc'[w] = "exited"
             PROVE  stop'
  BY DEF ExitedOK
<1>1. TypeOK /\ w \in Threads
  BY ThreadsDisjoint DEF Control
<1>2. stop => stop'
  BY DEF Next, WorkerStep, TestSize, TestStop, Acquire, InspectJob, InspectIdle,
         InspectBreak, Wait, SpuriousWake, PluckFn, PluckArgs, PluckSignal, BreakSignal, RunJob,
         PosterStep, PostLock, BeginGrow, EndGrow, PushFn, PushArgs, PostSignal,
         JoinStop, JoinSignal, JoinThreads, vars
<1>3. CASE pc[w] = "exited"
  BY <1>2, <1>3 DEF ExitedOK
<1>4. CASE pc[w] # "exited"
  <2>1. \A t \in Threads : \A place : Goes(t, place) => t = w /\ place = "exited"
    BY <1>1, <1>4 DEF Goes, OthersStay
  <2>2. ASSUME NEW v \in Workers, WorkerStep(v) \/ SpuriousWake(v)
        PROVE  (TestStop(v) /\ Goes(v, "exited")) \/ BreakSignal(v)
    BY <1>1, <2>1, <2>2, WorkerGoes, ThreadsDisjoint DEF WorkerStep
  <2>3. ASSUME NEW v \in Workers, TestStop(v), Goes(v, "exited")
        PROVE  stop
    <3>1. pc' = [pc EXCEPT ![v] = IF stop THEN "exited" ELSE "lock"] /\ v \in Threads
      BY <2>3, ThreadsDisjoint DEF TestStop, Goto
    <3>2. pc'[v] = IF stop THEN "exited" ELSE "lock"
      BY <1>1, <3>1 DEF TypeOK
    <3>3. QED
      BY <2>3, <3>2 DEF Goes
  <2>4. ASSUME NEW v \in Workers, BreakSignal(v)
        PROVE  stop
    BY <2>4 DEF Control, InspectedOK, BreakSignal
  <2>5. ASSUME NEW p \in Posters, PosterStep(p) \/ \E j \in unposted : PostLock(p, j)
        PROVE  FALSE
    <3>1. unposted \subseteq Jobs /\ p \in Threads
      BY <1>1, ThreadsDisjoint DEF TypeOK
    <3>2. QED
      BY <1>1, <1>4, <2>1, <2>5, <3>1, PosterGoes DEF PosterStep
  <2>6. ~(JoinStop \/ JoinSignal \/ JoinThreads)
    BY <1>1, <2>1, OwnerGoes, ThreadsDisjoint
  <2>7. ~UNCHANGED vars
    BY <1>4 DEF vars
  <2>8. \E v \in Workers : WorkerStep(v) \/ SpuriousWake(v)
    BY <2>5, <2>6, <2>7 DEF Next
  <2>9. QED
    BY <1>2, <2>2, <2>3, <2>8, <2>4
<1>5. QED
  BY <1>3, <1>4

(* What is left of the pool then: the mutex is free, the array of the      *)
(* queue is in one piece, and the workers are asleep or gone.  Jobs are    *)
(* queued only if all of them are gone; before w_join there are none, all  *)
(* that was posted has been run.  A w_join that does not return waits for  *)
(* a sleeper.                                                              *)
RestIsOrderly ==
    AtRest =>
        /\ lock = NoThread /\ ~growing
        /\ \A w \in Workers : pc[w] \in {"asleep", "exited"}
        /\ jobs # <<>> => \A w \in Workers : pc[w] = "exited"
        /\ ~stop => \A w \in Workers : pc[w] = "asleep"
        /\ ~stop /\ Workers # {} => finished = Jobs \ unposted
        /\ pc[Owner] = "join_threads" => Asleep # {}

LEMMA OrderlyRest == Inv /\ Disjoint /\ Complete /\ ExitedOK => RestIsOrderly
<1> SUFFICES ASSUME Inv, Disjoint, Complete, ExitedOK, AtRest
             PROVE  /\ lock = NoThread /\ ~growing
                    /\ \A w \in Workers : pc[w] \in {"asleep", "exited"}
                    /\ jobs # <<>> => \A w \in Workers : pc[w] = "exited"
                    /\ ~stop => \A w \in Workers : pc[w] = "asleep"
                    /\ ~stop /\ Workers # {} => finished = Jobs \ unposted
                    /\ pc[Owner] = "join_threads" => Asleep # {}
  BY DEF RestIsOrderly
<1> USE DEF Inv, Control
<1>1. lock = NoThread
  <2>1. \A t \in Threads : pc[t] \notin Inside
    <3>1. \A w \in Workers : pc[w] \notin Inside
      BY DEF AtRest, WorkerRests, Inside
    <3>2. \A p \in Posters : pc[p] \notin Inside
      BY DEF AtRest, Inside
    <3>3. pc[Owner] \notin Inside
      BY DEF TypeOK, OwnerPlaces, Inside
    <3>4. QED
      BY <3>1, <3>2, <3>3 DEF Threads
  <2>2. QED
    BY <2>1 DEF TypeOK, LockHeld
<1>2. \A w \in Workers : pc[w] \in {"asleep", "exited"}
  BY <1>1 DEF AtRest, WorkerRests
<1>3. ASSUME jobs # <<>>, NEW w \in Workers PROVE pc[w] = "exited"
  <2>1. ~AboutToSignal
    <3>1. \A v \in Workers : pc[v] \notin {"post_signal", "signal", "break_signal", "join_signal"}
      BY <1>2
    <3>2. \A p \in Posters : pc[p] \notin {"post_signal", "signal", "break_signal", "join_signal"}
      BY DEF AtRest
    <3>3. pc[Owner] \notin {"post_signal", "signal", "break_signal", "join_signal"}
      BY DEF AtRest, OwnerRests
    <3>4. QED
      BY <3>1, <3>2, <3>3 DEF AboutToSignal, Threads
  <2>2. ~OnItsWay
    BY <1>2 DEF OnItsWay
  <2>3. Asleep = {}
    BY <1>1, <1>3, <2>1, <2>2 DEF WorkNeverStranded
  <2>4. QED
    BY <1>2, <2>3 DEF Asleep
<1>4. ASSUME ~stop, NEW w \in Workers PROVE pc[w] = "asleep"
  BY <1>2, <1>4 DEF ExitedOK
<1>5. ASSUME ~stop, Workers # {} PROVE finished = Jobs \ unposted
  <2>1. jobs = <<>>
    BY <1>3, <1>4, <1>5
  <2>2. QueuedArgs = {}
    BY <2>1 DEF QueuedArgs
  <2>3. RunningJobs = {}
    BY <1>2 DEF RunningJobs
  <2>4. Pushed = {}
    BY DEF AtRest, Pushing, Pushed
  <2>5. QED
    BY <2>2, <2>3, <2>4 DEF Disjoint, Complete
<1>6. ASSUME pc[Owner] = "join_threads" PROVE Asleep # {}
  <2>1. PICK w \in Workers : pc[w] # "exited"
    BY <1>6 DEF AtRest, OwnerRests
  <2>2. QED
    BY <1>2, <2>1 DEF Asleep
<1>7. ~growing
  BY DEF AtRest, GrowingOK
<1>8. QED
  BY <1>1, <1>2, <1>3, <1>4, <1>5, <1>6, <1>7

LEMMA InitExited == Init => ExitedOK
  BY ThreadsDisjoint DEF Init, ExitedOK

(* No deadlock but one: when no thread of w_process, w_post and w_join can *)
(* go on the mutex is free, and before w_join nothing is left to do.  What *)
(* remains possible is that w_join waits for sleepers that nobody signals. *)
THEOREM PoolRestIsOrderly == Spec => []RestIsOrderly
<1>1. Control /\ ExitedOK /\ [Next]_vars => ExitedOK'
  BY NextExited
<1>2. Inv => Control
  BY DEF Inv
<1>3. QED
  BY PoolInvariant, PoolLosesNoJob, InitExited, OrderlyRest, <1>1, <1>2, PTL DEF Spec

(* The flag is set and a worker on its way to the mutex; or, after it got  *)
(* there, nobody is about to fall asleep any more and somebody is about to *)
(* notify the next sleeper, if there is one.                               *)
Ends ==
    /\ stop
    /\ \/ \E w \in Workers : pc[w] \in {"lock", "woken"}
       \/ /\ \A w \in Workers : pc[w] # "wait"
          /\ \/ Asleep = {}
             \/ \E w \in Workers : pc[w] \in {"inspect", "pluck_fn", "pluck_args", "signal", "break_signal"}

(* A worker on its way gets to the mutex, one that got there goes on to    *)
(* the next notification, and one that notifies wakes a sleeper.           *)
LEMMA EndsStep ==
    ASSUME Control, Ends, stop', NEW t \in Threads, NEW place, Goes(t, place),
           place \notin {"asleep", "wait"},
           t \in Workers /\ pc[t] \in {"lock", "woken"} => place = "inspect" /\ lock = NoThread,
           t \in Workers /\ pc[t] \in {"inspect", "pluck_fn", "pluck_args", "signal", "break_signal"} =>
               place \in {"pluck_fn", "pluck_args", "signal", "break_signal"} \/ Wakes
    PROVE  Ends'
<1>1. /\ t \in Workers => pc'[t] = place
      /\ \A w \in Workers : w # t =>
            pc'[w] = pc[w] \/ (pc[w] = "asleep" /\ pc'[w] = "woken")
  BY ThreadsDisjoint DEF Goes, OthersStay
<1>2. CASE \E w \in Workers : pc[w] \in {"lock", "woken"}
  <2>1. PICK w \in Workers : pc[w] \in {"lock", "woken"}
    BY <1>2
  <2>2. CASE w # t
    BY <1>1, <2>1, <2>2 DEF Ends
  <2>3. CASE w = t
    <3>1. pc'[w] = "inspect" /\ lock = NoThread
      BY <1>1, <2>1, <2>3
    <3>2. \A v \in Workers : pc[v] # "wait"
      BY <3>1, ThreadsDisjoint DEF Control, LockHeld, Inside
    <3>3. \A v \in Workers : pc'[v] # "wait"
      BY <1>1, <2>3, <3>1, <3>2
    <3>4. QED
      BY <3>1, <3>3 DEF Ends
  <2>4. QED
    BY <2>2, <2>3
<1>3. CASE /\ \A w \in Workers : pc[w] # "wait"
           /\ \/ Asleep = {}
              \/ \E w \in Workers : pc[w] \in {"inspect", "pluck_fn", "pluck_args", "signal", "break_signal"}
  <2>1. \A w \in Workers : pc'[w] # "wait"
    BY <1>1, <1>3
  <2>2. Asleep = {} => Asleep' = {}
    BY <1>1 DEF Asleep
  <2>3. Asleep # {} /\ Wakes => Ends'
    BY DEF Wakes, Ends
  <2>4. ASSUME NEW w \in Workers, pc[w] \in {"inspect", "pluck_fn", "pluck_args", "signal", "break_signal"}
        PROVE  Ends'
    <3>1. CASE w # t
      <4>1. pc'[w] = pc[w]
        BY <1>1, <2>4, <3>1
      <4>2. QED
        BY <2>1, <2>4, <4>1 DEF Ends
    <3>2. CASE w = t
      <4>1. pc'[w] = place /\ (place \in {"pluck_fn", "pluck_args", "signal", "break_signal"} \/ Wakes)
        BY <1>1, <2>4, <3>2
      <4>2. QED
        BY <2>1, <2>2, <2>3, <4>1 DEF Ends
    <3>3. QED
      BY <3>1, <3>2
  <2>5. QED
    BY <1>3, <2>1, <2>2, <2>4 DEF Ends
<1>4. QED
  BY <1>2, <1>3 DEF Ends

LEMMA NextEnds == Control /\ Ends /\ [Next]_vars => Ends'
<1> SUFFICES ASSUME Control, Ends, [Next]_vars
             PROVE  Ends'
  OBVIOUS
<1>1. TypeOK /\ stop /\ unposted \subseteq Jobs
  BY DEF Control, TypeOK, Ends
<1>2. ASSUME NEW w \in Workers, WorkerStep(w) \/ SpuriousWake(w)
      PROVE  Ends'
  <2>1. w \in Threads /\ stop'
    BY <1>1, <1>2, ThreadsDisjoint
       DEF WorkerStep, TestSize, TestStop, Acquire, InspectJob, InspectIdle,
           InspectBreak, Wait, SpuriousWake, PluckFn, PluckArgs, PluckSignal, BreakSignal, RunJob
  <2>2. CASE TestSize(w) \/ TestStop(w) \/ RunJob(w) \/ SpuriousWake(w)
    BY <1>1, <2>1, <2>2, WorkerGoes, EndsStep DEF TestSize, TestStop, RunJob, SpuriousWake
  <2>3. CASE Acquire(w)
    BY <1>1, <2>1, <2>3, WorkerGoes, EndsStep DEF Acquire
  <2>4. CASE InspectJob(w) \/ InspectBreak(w) \/ PluckFn(w) \/ PluckArgs(w)
    BY <1>1, <2>1, <2>4, WorkerGoes, EndsStep DEF InspectJob, InspectBreak, PluckFn, PluckArgs
  <2>5. ~InspectIdle(w)
    BY <1>1 DEF InspectIdle
  <2>6. CASE PluckSignal(w) \/ BreakSignal(w)
    BY <1>1, <2>1, <2>6, WorkerGoes, EndsStep DEF PluckSignal, BreakSignal
  <2>7. CASE Wait(w)
    <3>1. \E v \in Workers : pc[v] \in {"lock", "woken"}
      <4>1. pc[w] = "wait"
        BY <2>7 DEF Wait
      <4>2. QED
        BY <4>1 DEF Ends
    <3>2. PICK v \in Workers : pc[v] \in {"lock", "woken"}
      BY <3>1
    <3>3. v # w /\ pc'[v] = pc[v]
      BY <1>1, <2>7, <3>2, WorkerGoes, ThreadsDisjoint DEF Wait, Goes, OthersStay
    <3>4. QED
      BY <2>1, <3>2, <3>3 DEF Ends
  <2>8. QED
    BY <1>2, <2>2, <2>3, <2>4, <2>5, <2>6, <2>7 DEF WorkerStep
<1>3. ASSUME NEW p \in Posters, PosterStep(p) \/ \E j \in unposted : PostLock(p, j)
      PROVE  Ends'
  <2>1. pc[p] = "idle" /\ pc[Owner] # "up"
    BY <1>1 DEF Control, OwnerOK
  <2>2. QED
    BY <1>3, <2>1 DEF PosterStep, PostLock, BeginGrow, EndGrow, PushFn, PushArgs, PostSignal
<1>4. CASE JoinStop \/ JoinSignal \/ JoinThreads
  <2>1. stop' /\ Owner \in Threads /\ Owner \notin Workers
    BY <1>1, <1>4, ThreadsDisjoint DEF JoinStop, JoinSignal, JoinThreads
  <2>2. QED
    BY <1>1, <1>4, <2>1, OwnerGoes, EndsStep
<1>5. CASE UNCHANGED vars
  BY <1>5 DEF vars, Ends, Asleep
<1>6. QED
  BY <1>2, <1>3, <1>4, <1>5 DEF Next

(* Once the flag is set and one worker is on its way to the mutex, a pool  *)
(* at rest is a pool whose w_join has returned.                            *)
EndingIsComplete == Ends /\ AtRest => pc[Owner] = "joined"

LEMMA CompleteEnding == Inv /\ RestIsOrderly => EndingIsComplete
<1> SUFFICES ASSUME Inv, RestIsOrderly, Ends, AtRest
             PROVE  pc[Owner] = "joined"
  BY DEF EndingIsComplete
<1>1. Asleep = {}
  <2>1. \A w \in Workers : pc[w] \in {"asleep", "exited"}
    BY DEF RestIsOrderly
  <2>2. QED
    BY <2>1 DEF Ends
<1>2. pc[Owner] # "up"
  BY DEF Inv, Control, OwnerOK, Ends
<1>3. pc[Owner] # "join_threads"
  BY <1>1 DEF RestIsOrderly
<1>4. QED
  BY <1>2, <1>3 DEF AtRest, OwnerRests

(* The way to the end is not lost again, whichever thread goes on: the     *)
(* safety that OneAwakeEndsAll rests on.                                   *)
THEOREM PoolEndIsCertain == Spec => []EndingIsComplete /\ [][Ends => Ends']_vars
<1>1. Inv => Control
  BY DEF Inv
<1>2. Inv /\ RestIsOrderly => EndingIsComplete
  BY CompleteEnding
<1>3. Inv /\ [Next]_vars => [Ends => Ends']_vars
  BY <1>1, NextEnds
<1>4. QED
  BY PoolInvariant, PoolRestIsOrderly, <1>2, <1>3, PTL DEF Spec

------------------------------------------------------------------------------
(* That the pool comes to rest.                                            *)

(* How many threads are at one of some places.                             *)
Number(S) == Cardinality({t \in Threads : pc[t] \in S})

(* What is left to do, in four numbers, the first of which weighs most:    *)
(* the jobs that have been posted, at the stages of their way,             *)
Coming == {"push_fn"}
Halfway == {"push_args"}
Taken == {"pluck_args", "signal", "run"}
Load == 6 * Number(Coming) + 3 * Number(Halfway) + 2 * Len(jobs) + Number(Taken)

(* the room that is still to be made in the queue,                         *)
Room == IF growing THEN 1 ELSE IF Len(jobs) >= capacity THEN 2 ELSE 0

(* the signals that are still to be given, one by each worker that has not *)
(* left and one by each call under way,                                    *)
Staying == WorkerPlaces \ {"exited"}
Notifying == {"signal", "post_signal", "up", "join_signal"}
Notices == Number(Staying) + Number(Notifying)

(* and the steps up to the next place to rest: Ahead[n] are the places     *)
(* with n of them or more to go.                                           *)
Ahead == <<{"test_size", "test_stop", "lock", "woken", "inspect", "wait", "up", "join_threads"},
           {"test_size", "test_stop", "lock", "woken", "inspect"},
           {"test_size", "test_stop", "lock", "woken"},
           {"test_size", "test_stop"},
           {"test_size"}>>
Way == Number(Ahead[1]) + Number(Ahead[2]) + Number(Ahead[3]) + Number(Ahead[4]) + Number(Ahead[5])

Lowers ==
    \/ Load' < Load
    \/ Load' = Load /\ Room' < Room
    \/ Load' = Load /\ Room' = Room /\ Notices' < Notices
    \/ Load' = Load /\ Room' = Room /\ Notices' = Notices /\ Way' < Way

Counted == Load \in Nat /\ Room \in Nat /\ Notices \in Nat /\ Way \in Nat

(* Counting after one thread has moved.                                    *)
LEMMA NumberAfter ==
    ASSUME NEW S, NEW t \in Threads,
           \A u \in Threads \ {t} : pc'[u] \in S <=> pc[u] \in S
    PROVE  /\ Number(S) \in Nat /\ Number(S)' \in Nat
           /\ (pc'[t] \in S <=> pc[t] \in S) => Number(S)' = Number(S)
           /\ pc'[t] \in S /\ pc[t] \notin S => Number(S)' = Number(S) + 1
           /\ pc'[t] \notin S /\ pc[t] \in S => Number(S)' = Number(S) - 1
<1> DEFINE A == {u \in Threads : pc[u] \in S}
           B == {u \in Threads : pc'[u] \in S}
<1>1. IsFiniteSet(A) /\ IsFiniteSet(B)
  BY FiniteThreads, FS_Subset
<1>2. Cardinality(A) \in Nat /\ Cardinality(B) \in Nat
  BY <1>1, FS_CardinalityType
<1>3. Number(S) = Cardinality(A) /\ Number(S)' = Cardinality(B)
  BY DEF Number
<1>4. ASSUME pc'[t] \in S <=> pc[t] \in S PROVE Cardinality(B) = Cardinality(A)
  <2>1. A = B
    BY <1>4
  <2> HIDE DEF A, B
  <2>2. QED
    BY <2>1
<1>5. ASSUME pc'[t] \in S, pc[t] \notin S PROVE Cardinality(B) = Cardinality(A) + 1
  <2>1. B = A \cup {t} /\ t \notin A
    BY <1>5
  <2> HIDE DEF A, B
  <2>2. QED
    BY <1>1, <2>1, FS_AddElement
<1>6. ASSUME pc'[t] \notin S, pc[t] \in S PROVE Cardinality(B) = Cardinality(A) - 1
  <2>1. B = A \ {t} /\ t \in A
    BY <1>6
  <2> HIDE DEF A, B
  <2>2. QED
    BY <1>1, <2>1, FS_RemoveElement
<1> HIDE DEF A, B
<1>7. QED
  BY <1>2, <1>3, <1>4, <1>5, <1>6

(* Which sets a woken sleeper does not matter to.                          *)
LEMMA NumberGoes ==
    ASSUME NEW S, NEW t \in Threads, NEW place, Goes(t, place), "asleep" \in S <=> "woken" \in S
    PROVE  /\ Number(S) \in Nat /\ Number(S)' \in Nat
           /\ (place \in S <=> pc[t] \in S) => Number(S)' = Number(S)
           /\ place \in S /\ pc[t] \notin S => Number(S)' = Number(S) + 1
           /\ place \notin S /\ pc[t] \in S => Number(S)' = Number(S) - 1
<1>1. \A u \in Threads \ {t} : pc'[u] \in S <=> pc[u] \in S
  BY DEF Goes, OthersStay
<1>2. pc'[t] = place
  BY DEF Goes
<1>3. QED
  BY <1>1, <1>2, NumberAfter

LEMMA Counts ==
    ASSUME TypeOK
    PROVE  Counted
<1>1. \A S : Number(S) \in Nat
  <2>1. SUFFICES ASSUME NEW S PROVE Number(S) \in Nat
    OBVIOUS
  <2>2. IsFiniteSet({t \in Threads : pc[t] \in S})
    BY FiniteThreads, FS_Subset
  <2>3. QED
    BY <2>2, FS_CardinalityType DEF Number
<1>2. Len(jobs) \in Nat
  BY DEF TypeOK
<1>3. Load \in Nat
  BY <1>1, <1>2 DEF Load
<1>4. Notices \in Nat
  BY <1>1 DEF Notices
<1>5. Way \in Nat
  BY <1>1 DEF Way
<1>6. Room \in Nat
  BY DEF Room
<1>7. QED
  BY <1>3, <1>4, <1>5, <1>6 DEF Counted

(* A step that moves no job from one stage to the next.                    *)
LEMMA LoadStays ==
    ASSUME TypeOK, NEW t \in Threads, NEW place, Goes(t, place), jobs' = jobs,
           place \notin {"push_fn", "push_args"}, pc[t] \notin {"push_fn", "push_args"},
           place \in Taken <=> pc[t] \in Taken
    PROVE  Load' = Load
<1>1. /\ "asleep" \in Coming <=> "woken" \in Coming
      /\ "asleep" \in Halfway <=> "woken" \in Halfway
      /\ "asleep" \in Taken <=> "woken" \in Taken
      /\ place \in Coming <=> pc[t] \in Coming
      /\ place \in Halfway <=> pc[t] \in Halfway
  BY DEF Coming, Halfway, Taken
<1>2. Number(Coming)' = Number(Coming)
  BY <1>1, NumberGoes
<1>3. Number(Halfway)' = Number(Halfway)
  BY <1>1, NumberGoes
<1>4. Number(Taken)' = Number(Taken)
  BY <1>1, NumberGoes
<1>5. QED
  BY <1>2, <1>3, <1>4 DEF Load

(* A step that gives no signal, and one that does.                         *)
LEMMA NoticesStay ==
    ASSUME NEW t \in Threads, NEW place, Goes(t, place),
           place \in Staying <=> pc[t] \in Staying,
           place \in Notifying <=> pc[t] \in Notifying
    PROVE  Notices' = Notices
<1>1. /\ "asleep" \in Staying <=> "woken" \in Staying
      /\ "asleep" \in Notifying <=> "woken" \in Notifying
  BY DEF Staying, Notifying, WorkerPlaces
<1>2. Number(Staying)' = Number(Staying)
  BY <1>1, NumberGoes
<1>3. Number(Notifying)' = Number(Notifying)
  BY <1>1, NumberGoes
<1>4. QED
  BY <1>2, <1>3 DEF Notices

LEMMA NoticesFall ==
    ASSUME NEW t \in Threads, NEW place, Goes(t, place),
           place \in Staying => pc[t] \in Staying, place \notin Notifying,
           \/ pc[t] \in Staying /\ place \notin Staying
           \/ pc[t] \in Notifying
    PROVE  Notices' < Notices
<1>1. /\ "asleep" \in Staying <=> "woken" \in Staying
      /\ "asleep" \in Notifying <=> "woken" \in Notifying
  BY DEF Staying, Notifying, WorkerPlaces
<1>2. PICK a \in Nat, b \in Nat, c \in Nat, d \in Nat :
           /\ a = Number(Staying) /\ b = Number(Staying)'
           /\ c = Number(Notifying) /\ d = Number(Notifying)'
  BY <1>1, NumberGoes
<1>3. /\ (place \in Staying <=> pc[t] \in Staying) => b = a
      /\ (place \notin Staying /\ pc[t] \in Staying) => b = a - 1
  BY <1>1, <1>2, NumberGoes
<1>4. /\ (place \in Notifying <=> pc[t] \in Notifying) => d = c
      /\ (place \notin Notifying /\ pc[t] \in Notifying) => d = c - 1
  BY <1>1, <1>2, NumberGoes
<1>5. Notices = a + c /\ Notices' = b + d
  BY <1>2 DEF Notices
<1>6. b <= a /\ d <= c /\ (b < a \/ d < c)
  BY <1>2, <1>3, <1>4
<1>7. QED
  BY <1>2, <1>5, <1>6

(* A place is nearer to the next rest than another.                        *)
Nearer(place, from) ==
    /\ \A n \in 1..5 : place \in Ahead[n] => from \in Ahead[n]
    /\ \E n \in 1..5 : place \notin Ahead[n] /\ from \in Ahead[n]

LEMMA NearerPlaces ==
    /\ Nearer("test_stop", "test_size")
    /\ Nearer("lock", "test_size")
    /\ Nearer("lock", "test_stop")
    /\ Nearer("inspect", "lock")
    /\ Nearer("inspect", "woken")
    /\ Nearer("pluck_fn", "inspect")
    /\ Nearer("wait", "inspect")
    /\ Nearer("break_signal", "inspect")
    /\ Nearer("asleep", "wait")
    /\ Nearer("join_signal", "up")
    /\ Nearer("joined", "join_threads")
<1>1. \A n : n \in 1..5 <=> n = 1 \/ n = 2 \/ n = 3 \/ n = 4 \/ n = 5
  OBVIOUS
<1>2. \A place, from :
          Nearer(place, from) <=>
              /\ place \in Ahead[1] => from \in Ahead[1]
              /\ place \in Ahead[2] => from \in Ahead[2]
              /\ place \in Ahead[3] => from \in Ahead[3]
              /\ place \in Ahead[4] => from \in Ahead[4]
              /\ place \in Ahead[5] => from \in Ahead[5]
              /\ \/ place \notin Ahead[1] /\ from \in Ahead[1]
                 \/ place \notin Ahead[2] /\ from \in Ahead[2]
                 \/ place \notin Ahead[3] /\ from \in Ahead[3]
                 \/ place \notin Ahead[4] /\ from \in Ahead[4]
                 \/ place \notin Ahead[5] /\ from \in Ahead[5]
  BY <1>1 DEF Nearer
<1>3. QED
  BY <1>2 DEF Ahead

LEMMA WayShrinks ==
    ASSUME NEW t \in Threads, NEW place, pc \in [Threads -> Places],
           Goto(t, place), Nearer(place, pc[t])
    PROVE  Way' < Way
<1> DEFINE Before == [n \in 1..5 |-> Number(Ahead[n])]
           After == [n \in 1..5 |-> Number(Ahead[n])']
<1>1. /\ pc'[t] = place
      /\ \A u \in Threads \ {t} : pc'[u] = pc[u]
  BY DEF Goto
<1>2. ASSUME NEW S
      PROVE  /\ Number(S) \in Nat /\ Number(S)' \in Nat
             /\ (place \in S <=> pc[t] \in S) => Number(S)' = Number(S)
             /\ place \notin S /\ pc[t] \in S => Number(S)' = Number(S) - 1
  <2>1. \A u \in Threads \ {t} : pc'[u] \in S <=> pc[u] \in S
    BY <1>1
  <2>2. QED
    BY <1>1, <2>1, NumberAfter
<1>3. \A n \in 1..5 :
          /\ Before[n] \in Nat /\ After[n] \in Nat /\ After[n] <= Before[n]
          /\ place \notin Ahead[n] /\ pc[t] \in Ahead[n] => After[n] < Before[n]
  <2>1. SUFFICES ASSUME NEW n \in 1..5
                 PROVE  /\ Before[n] \in Nat /\ After[n] \in Nat /\ After[n] <= Before[n]
                        /\ place \notin Ahead[n] /\ pc[t] \in Ahead[n] => After[n] < Before[n]
    OBVIOUS
  <2>2. PICK a \in Nat, b \in Nat : a = Number(Ahead[n]) /\ b = Number(Ahead[n])'
    BY <1>2
  <2>3. /\ (place \in Ahead[n] <=> pc[t] \in Ahead[n]) => b = a
        /\ place \notin Ahead[n] /\ pc[t] \in Ahead[n] => b = a - 1
    BY <1>2, <2>2
  <2>4. place \in Ahead[n] => pc[t] \in Ahead[n]
    BY DEF Nearer
  <2>5. b <= a /\ (place \notin Ahead[n] /\ pc[t] \in Ahead[n] => b < a)
    BY <2>2, <2>3, <2>4
  <2>6. Before[n] = a /\ After[n] = b
    BY <2>2
  <2>7. QED
    BY <2>2, <2>5, <2>6
<1>4. \E n \in 1..5 : After[n] < Before[n]
  BY <1>3 DEF Nearer
<1>5. /\ Way = Before[1] + Before[2] + Before[3] + Before[4] + Before[5]
      /\ Way' = After[1] + After[2] + After[3] + After[4] + After[5]
  BY DEF Way
<1> HIDE DEF Before, After
<1>6. After[1] + After[2] + After[3] + After[4] + After[5]
        < Before[1] + Before[2] + Before[3] + Before[4] + Before[5]
  <2>1. \A n \in {1, 2, 3, 4, 5} :
            Before[n] \in Nat /\ After[n] \in Nat /\ After[n] <= Before[n]
    BY <1>3
  <2>2. PICK n \in {1, 2, 3, 4, 5} : After[n] < Before[n]
    BY <1>4
  <2>3. QED
    BY <2>1, <2>2
<1>7. QED
  BY <1>5, <1>6

(* The ways in which a step that leaves the queue alone brings the pool    *)
(* nearer to its rest.                                                     *)
LEMMA LowersByWay ==
    ASSUME TypeOK, NEW t \in Threads, NEW place \in Places, Goto(t, place),
           UNCHANGED <<jobs, capacity, growing>>,
           place \notin {"push_fn", "push_args"}, pc[t] \notin {"push_fn", "push_args"},
           place \in Taken <=> pc[t] \in Taken,
           place \in Staying <=> pc[t] \in Staying,
           place \in Notifying <=> pc[t] \in Notifying,
           Nearer(place, pc[t])
    PROVE  Lowers
<1>1. Goes(t, place)
  BY GotoGoes
<1>2. Load' = Load
  BY <1>1, LoadStays
<1>3. pc \in [Threads -> Places]
  BY DEF TypeOK, Places
<1>4. Way' < Way
  BY <1>3, WayShrinks
<1>5. Notices' = Notices
  BY <1>1, NoticesStay
<1>6. Room' = Room
  BY DEF Room
<1>7. QED
  BY <1>2, <1>4, <1>5, <1>6 DEF Lowers

LEMMA LowersByNotice ==
    ASSUME TypeOK, NEW t \in Threads, NEW place, Goes(t, place),
           UNCHANGED <<jobs, capacity, growing>>,
           place \notin {"push_fn", "push_args"}, pc[t] \notin {"push_fn", "push_args"},
           place \in Taken <=> pc[t] \in Taken,
           place \in Staying => pc[t] \in Staying, place \notin Notifying,
           \/ pc[t] \in Staying /\ place \notin Staying
           \/ pc[t] \in Notifying
    PROVE  Lowers
<1>1. Load' = Load
  BY LoadStays
<1>2. Notices' < Notices
  BY NoticesFall
<1>3. Room' = Room
  BY DEF Room
<1>4. QED
  BY <1>1, <1>2, <1>3 DEF Lowers

(* The steps that take a job to the next stage of its way.                 *)
LEMMA PushFnLowers ==
    ASSUME TypeOK, NEW p \in Posters, posting[p] \in Jobs, PushFn(p)
    PROVE  Lowers
<1>1. p \in Threads /\ Goes(p, "push_args") /\ pc[p] = "push_fn"
  BY PosterGoes, ThreadsDisjoint DEF PushFn
<1>2. /\ "asleep" \in Coming <=> "woken" \in Coming
      /\ "asleep" \in Halfway <=> "woken" \in Halfway
      /\ "asleep" \in Taken <=> "woken" \in Taken
      /\ "push_args" \notin Coming /\ pc[p] \in Coming
      /\ "push_args" \in Halfway /\ pc[p] \notin Halfway
      /\ "push_args" \notin Taken /\ pc[p] \notin Taken
  BY <1>1 DEF Coming, Halfway, Taken
<1>3. Number(Coming) \in Nat /\ Number(Coming)' = Number(Coming) - 1
  BY <1>1, <1>2, NumberGoes
<1>4. Number(Halfway) \in Nat /\ Number(Halfway)' = Number(Halfway) + 1
  BY <1>1, <1>2, NumberGoes
<1>5. Number(Taken) \in Nat /\ Number(Taken)' = Number(Taken)
  BY <1>1, <1>2, NumberGoes
<1>6. Len(jobs) \in Nat /\ Len(jobs') = Len(jobs) + 1
  <2>1. jobs \in Seq(Cells) /\ jobs' = Append(jobs, FnCell(posting[p]))
    BY DEF TypeOK, PushFn
  <2>2. FnCell(posting[p]) \in Cells
    BY DEF FnCell, Cells
  <2>3. QED
    BY <2>1, <2>2
<1>7. PICK a \in Nat, b \in Nat, c \in Nat, d \in Nat :
           /\ a = Number(Coming) /\ b = Number(Halfway)
           /\ c = Len(jobs) /\ d = Number(Taken)
  BY <1>3, <1>4, <1>5, <1>6
<1>8. /\ Load = 6 * a + 3 * b + 2 * c + d
      /\ Load' = 6 * (a - 1) + 3 * (b + 1) + 2 * (c + 1) + d
  BY <1>3, <1>4, <1>5, <1>6, <1>7 DEF Load
<1>9. Load' < Load
  BY <1>8
<1>10. QED
  BY <1>9 DEF Lowers

LEMMA PushArgsLowers ==
    ASSUME TypeOK, NEW p \in Posters, posting[p] \in Jobs, PushArgs(p)
    PROVE  Lowers
<1>1. p \in Threads /\ Goes(p, "post_signal") /\ pc[p] = "push_args"
  BY PosterGoes, ThreadsDisjoint DEF PushArgs
<1>2. /\ "asleep" \in Coming <=> "woken" \in Coming
      /\ "asleep" \in Halfway <=> "woken" \in Halfway
      /\ "asleep" \in Taken <=> "woken" \in Taken
      /\ "post_signal" \notin Coming /\ pc[p] \notin Coming
      /\ "post_signal" \notin Halfway /\ pc[p] \in Halfway
      /\ "post_signal" \notin Taken /\ pc[p] \notin Taken
  BY <1>1 DEF Coming, Halfway, Taken
<1>3. Number(Coming) \in Nat /\ Number(Coming)' = Number(Coming)
  BY <1>1, <1>2, NumberGoes
<1>4. Number(Halfway) \in Nat /\ Number(Halfway)' = Number(Halfway) - 1
  BY <1>1, <1>2, NumberGoes
<1>5. Number(Taken) \in Nat /\ Number(Taken)' = Number(Taken)
  BY <1>1, <1>2, NumberGoes
<1>6. Len(jobs) \in Nat /\ Len(jobs') = Len(jobs) + 1
  <2>1. jobs \in Seq(Cells) /\ jobs' = Append(jobs, ArgsCell(posting[p]))
    BY DEF TypeOK, PushArgs
  <2>2. ArgsCell(posting[p]) \in Cells
    BY DEF ArgsCell, Cells
  <2>3. QED
    BY <2>1, <2>2
<1>7. PICK a \in Nat, b \in Nat, c \in Nat, d \in Nat :
           /\ a = Number(Coming) /\ b = Number(Halfway)
           /\ c = Len(jobs) /\ d = Number(Taken)
  BY <1>3, <1>4, <1>5, <1>6
<1>8. /\ Load = 6 * a + 3 * b + 2 * c + d
      /\ Load' = 6 * a + 3 * (b - 1) + 2 * (c + 1) + d
  BY <1>3, <1>4, <1>5, <1>6, <1>7 DEF Load
<1>9. Load' < Load
  BY <1>8
<1>10. QED
  BY <1>9 DEF Lowers

LEMMA PluckFnLowers ==
    ASSUME TypeOK, NEW w \in Workers, jobs # <<>>, PluckFn(w)
    PROVE  Lowers
<1>1. w \in Threads /\ Goes(w, "pluck_args") /\ pc[w] = "pluck_fn"
  BY WorkerGoes, ThreadsDisjoint DEF PluckFn
<1>2. /\ "asleep" \in Coming <=> "woken" \in Coming
      /\ "asleep" \in Halfway <=> "woken" \in Halfway
      /\ "asleep" \in Taken <=> "woken" \in Taken
      /\ "pluck_args" \notin Coming /\ pc[w] \notin Coming
      /\ "pluck_args" \notin Halfway /\ pc[w] \notin Halfway
      /\ "pluck_args" \in Taken /\ pc[w] \notin Taken
  BY <1>1 DEF Coming, Halfway, Taken
<1>3. Number(Coming) \in Nat /\ Number(Coming)' = Number(Coming)
  BY <1>1, <1>2, NumberGoes
<1>4. Number(Halfway) \in Nat /\ Number(Halfway)' = Number(Halfway)
  BY <1>1, <1>2, NumberGoes
<1>5. Number(Taken) \in Nat /\ Number(Taken)' = Number(Taken) + 1
  BY <1>1, <1>2, NumberGoes
<1>6. Len(jobs) \in Nat /\ Len(jobs') = Len(jobs) - 1
  <2>1. jobs \in Seq(Cells) /\ jobs' = Tail(jobs)
    BY DEF TypeOK, PluckFn, AfterNext
  <2>2. QED
    BY <2>1
<1>7. PICK a \in Nat, b \in Nat, c \in Nat, d \in Nat :
           /\ a = Number(Coming) /\ b = Number(Halfway)
           /\ c = Len(jobs) /\ d = Number(Taken)
  BY <1>3, <1>4, <1>5, <1>6
<1>8. /\ Load = 6 * a + 3 * b + 2 * c + d
      /\ Load' = 6 * a + 3 * b + 2 * (c - 1) + (d + 1)
  BY <1>3, <1>4, <1>5, <1>6, <1>7 DEF Load
<1>9. Load' < Load
  BY <1>8
<1>10. QED
  BY <1>9 DEF Lowers

LEMMA PluckArgsLowers ==
    ASSUME TypeOK, NEW w \in Workers, jobs # <<>>, PluckArgs(w)
    PROVE  Lowers
<1>1. w \in Threads /\ Goes(w, "signal") /\ pc[w] = "pluck_args"
  BY WorkerGoes, ThreadsDisjoint DEF PluckArgs
<1>2. /\ "asleep" \in Coming <=> "woken" \in Coming
      /\ "asleep" \in Halfway <=> "woken" \in Halfway
      /\ "asleep" \in Taken <=> "woken" \in Taken
      /\ "signal" \notin Coming /\ pc[w] \notin Coming
      /\ "signal" \notin Halfway /\ pc[w] \notin Halfway
      /\ "signal" \in Taken /\ pc[w] \in Taken
  BY <1>1 DEF Coming, Halfway, Taken
<1>3. Number(Coming) \in Nat /\ Number(Coming)' = Number(Coming)
  BY <1>1, <1>2, NumberGoes
<1>4. Number(Halfway) \in Nat /\ Number(Halfway)' = Number(Halfway)
  BY <1>1, <1>2, NumberGoes
<1>5. Number(Taken) \in Nat /\ Number(Taken)' = Number(Taken)
  BY <1>1, <1>2, NumberGoes
<1>6. Len(jobs) \in Nat /\ Len(jobs') = Len(jobs) - 1
  <2>1. jobs \in Seq(Cells) /\ jobs' = Tail(jobs)
    BY DEF TypeOK, PluckArgs, AfterNext
  <2>2. QED
    BY <2>1
<1>7. PICK a \in Nat, b \in Nat, c \in Nat, d \in Nat :
           /\ a = Number(Coming) /\ b = Number(Halfway)
           /\ c = Len(jobs) /\ d = Number(Taken)
  BY <1>3, <1>4, <1>5, <1>6
<1>8. /\ Load = 6 * a + 3 * b + 2 * c + d
      /\ Load' = 6 * a + 3 * b + 2 * (c - 1) + d
  BY <1>3, <1>4, <1>5, <1>6, <1>7 DEF Load
<1>9. Load' < Load
  BY <1>8
<1>10. QED
  BY <1>9 DEF Lowers

LEMMA RunJobLowers ==
    ASSUME TypeOK, NEW w \in Workers, RunJob(w)
    PROVE  Lowers
<1>1. w \in Threads /\ Goes(w, "test_size") /\ pc[w] = "run"
  BY WorkerGoes, ThreadsDisjoint DEF RunJob
<1>2. /\ "asleep" \in Coming <=> "woken" \in Coming
      /\ "asleep" \in Halfway <=> "woken" \in Halfway
      /\ "asleep" \in Taken <=> "woken" \in Taken
      /\ "test_size" \notin Coming /\ pc[w] \notin Coming
      /\ "test_size" \notin Halfway /\ pc[w] \notin Halfway
      /\ "test_size" \notin Taken /\ pc[w] \in Taken
  BY <1>1 DEF Coming, Halfway, Taken
<1>3. Number(Coming) \in Nat /\ Number(Coming)' = Number(Coming)
  BY <1>1, <1>2, NumberGoes
<1>4. Number(Halfway) \in Nat /\ Number(Halfway)' = Number(Halfway)
  BY <1>1, <1>2, NumberGoes
<1>5. Number(Taken) \in Nat /\ Number(Taken)' = Number(Taken) - 1
  BY <1>1, <1>2, NumberGoes
<1>6. Len(jobs) \in Nat /\ Len(jobs') = Len(jobs)
  BY DEF TypeOK, RunJob
<1>7. PICK a \in Nat, b \in Nat, c \in Nat, d \in Nat :
           /\ a = Number(Coming) /\ b = Number(Halfway)
           /\ c = Len(jobs) /\ d = Number(Taken)
  BY <1>3, <1>4, <1>5, <1>6
<1>8. /\ Load = 6 * a + 3 * b + 2 * c + d
      /\ Load' = 6 * a + 3 * b + 2 * c + (d - 1)
  BY <1>3, <1>4, <1>5, <1>6, <1>7 DEF Load
<1>9. Load' < Load
  BY <1>8
<1>10. QED
  BY <1>9 DEF Lowers

(* The steps that make room in the queue: one doubling is enough, as the   *)
(* queue never holds more than it has room for.                            *)
RoomOK == Len(jobs) <= capacity

LEMMA InitRoom == Init => RoomOK
<1> SUFFICES ASSUME Init PROVE RoomOK
  OBVIOUS
<1>1. Len(jobs) = 0 /\ capacity \in Nat
  BY DefaultSizeAssumption DEF Init
<1>2. QED
  BY <1>1 DEF RoomOK

LEMMA NextRoom == Inv /\ RoomOK /\ [Next]_vars => RoomOK'
<1> SUFFICES ASSUME Inv, RoomOK, [Next]_vars
             PROVE  RoomOK'
  OBVIOUS
<1>1. jobs \in Seq(Cells) /\ Len(jobs) \in Nat /\ capacity \in Nat \ {0} /\ Len(jobs) <= capacity
  BY DEF Inv, Control, TypeOK, RoomOK
<1>2. ASSUME NEW w \in Workers, PluckFn(w) \/ PluckArgs(w)
      PROVE  RoomOK'
  <2>1. capacity' = capacity /\ jobs' = AfterNext
    BY <1>2 DEF PluckFn, PluckArgs
  <2>2. CASE jobs = <<>>
    BY <1>1, <2>1, <2>2 DEF AfterNext, RoomOK
  <2>3. CASE jobs # <<>>
    <3>1. Len(Tail(jobs)) = Len(jobs) - 1
      BY <1>1, <2>3
    <3>2. jobs' = Tail(jobs)
      BY <2>1, <2>3 DEF AfterNext
    <3>3. QED
      BY <1>1, <2>1, <3>1, <3>2 DEF RoomOK
  <2>4. QED
    BY <2>2, <2>3
<1>3. ASSUME NEW p \in Posters, PushFn(p) \/ PushArgs(p)
      PROVE  RoomOK'
  <2>1. PICK c : jobs' = Append(jobs, c)
    BY <1>3 DEF PushFn, PushArgs
  <2>2. Len(Append(jobs, c)) = Len(jobs) + 1
    BY <1>1
  <2>3. capacity' = capacity /\ Len(jobs) < capacity
    BY <1>3 DEF PushFn, PushArgs
  <2>4. QED
    BY <1>1, <2>1, <2>2, <2>3 DEF RoomOK
<1>4. ASSUME NEW p \in Posters, EndGrow(p)
      PROVE  RoomOK'
  BY <1>1, <1>4 DEF EndGrow, RoomOK
<1>5. CASE UNCHANGED <<jobs, capacity>>
  BY <1>5 DEF RoomOK
<1>6. QED
  BY <1>2, <1>3, <1>4, <1>5
     DEF Next, WorkerStep, TestSize, TestStop, Acquire, InspectJob, InspectIdle, InspectBreak, Wait,
         SpuriousWake, PluckSignal, BreakSignal, RunJob, PosterStep, PostLock, BeginGrow, PostSignal,
         JoinStop, JoinSignal, JoinThreads, vars

LEMMA GrowLowers ==
    ASSUME TypeOK, RoomOK, NEW p \in Posters, BeginGrow(p) \/ EndGrow(p)
    PROVE  Lowers
<1>1. pc' = pc /\ jobs' = jobs
  BY DEF BeginGrow, EndGrow
<1>2. Load' = Load
  BY <1>1 DEF Load, Number
<1>3. Len(jobs) \in Nat /\ capacity \in Nat \ {0} /\ Len(jobs) <= capacity
  BY DEF TypeOK, RoomOK
<1>4. Room' < Room
  <2>1. CASE BeginGrow(p)
    BY <1>3, <2>1 DEF BeginGrow, Room
  <2>2. CASE EndGrow(p)
    <3>1. ~growing' /\ Len(jobs') = Len(jobs) /\ capacity' = 2 * capacity /\ growing
      BY <2>2 DEF EndGrow
    <3>2. ~(Len(jobs') >= capacity')
      BY <1>3, <3>1
    <3>3. Room' = 0 /\ Room = 1
      BY <3>1, <3>2 DEF Room
    <3>4. QED
      BY <3>3
  <2>3. QED
    BY <2>1, <2>2
<1>5. QED
  BY <1>2, <1>4 DEF Lowers

LEMMA WorkerLowers ==
    ASSUME Inv, NEW w \in Workers, WorkerStep(w)
    PROVE  Lowers
<1>1. TypeOK /\ w \in Threads /\ WorkerPlaces \subseteq Places
  BY ThreadsDisjoint DEF Places, Inv, Control
<1>2. ASSUME NEW from, pc[w] = from, NEW place \in WorkerPlaces, Goto(w, place),
             UNCHANGED <<jobs, capacity, growing>>,
             from \notin {"pluck_args", "signal", "run"}, from \in Staying,
             place \notin {"pluck_args", "signal", "run"}, place \in Staying, Nearer(place, from)
      PROVE  Lowers
  <2>1. from \in WorkerPlaces
    BY <1>2 DEF Staying
  <2>2. /\ place \notin {"push_fn", "push_args"} /\ place \notin Taken /\ place \notin Notifying
        /\ from \notin {"push_fn", "push_args"} /\ from \notin Taken /\ from \notin Notifying
    BY <1>2, <2>1 DEF WorkerPlaces, Notifying, Taken
  <2>3. QED
    BY <1>1, <1>2, <2>2, LowersByWay
<1>3. CASE TestSize(w)
  BY <1>2, <1>3, NearerPlaces DEF TestSize, WorkerPlaces, Staying
<1>4. CASE TestStop(w)
  <2>1. CASE stop
    <3>1. Goes(w, "exited") /\ pc[w] = "test_stop" /\ UNCHANGED <<jobs, capacity, growing>>
      BY <1>1, <1>4, <2>1, GotoGoes DEF TestStop, WorkerPlaces
    <3>2. QED
      BY <1>1, <3>1, LowersByNotice DEF WorkerPlaces, Staying, Notifying, Taken
  <2>2. CASE ~stop
    BY <1>2, <1>4, <2>2, NearerPlaces DEF TestStop, WorkerPlaces, Staying
  <2>3. QED
    BY <2>1, <2>2
<1>5. CASE Acquire(w)
  BY <1>2, <1>5, NearerPlaces DEF Acquire, WorkerPlaces, Staying
<1>6. CASE InspectJob(w) \/ InspectIdle(w) \/ InspectBreak(w)
  BY <1>2, <1>6, NearerPlaces DEF InspectJob, InspectIdle, InspectBreak, WorkerPlaces, Staying
<1>7. CASE Wait(w)
  BY <1>2, <1>7, NearerPlaces DEF Wait, WorkerPlaces, Staying
<1>8. CASE PluckFn(w)
  <2>1. jobs # <<>>
    BY <1>8 DEF PluckFn, Inv, Control, InspectedOK
  <2>2. QED
    BY <1>1, <1>8, <2>1, PluckFnLowers
<1>9. CASE PluckArgs(w)
  <2>1. jobs # <<>>
    BY <1>9 DEF PluckArgs, Inv, QueueOfPairs
  <2>2. QED
    BY <1>1, <1>9, <2>1, PluckArgsLowers
<1>10. CASE PluckSignal(w)
  <2>1. Goes(w, "run") /\ pc[w] = "signal" /\ UNCHANGED <<jobs, capacity, growing>>
    BY <1>1, <1>10, WorkerGoes DEF PluckSignal
  <2>2. QED
    BY <1>1, <2>1, LowersByNotice DEF WorkerPlaces, Staying, Notifying, Taken
<1>11. CASE BreakSignal(w)
  <2>1. Goes(w, "exited") /\ pc[w] = "break_signal" /\ UNCHANGED <<jobs, capacity, growing>>
    BY <1>1, <1>11, WorkerGoes DEF BreakSignal
  <2>2. QED
    BY <1>1, <2>1, LowersByNotice DEF WorkerPlaces, Staying, Notifying, Taken
<1>12. CASE RunJob(w)
  BY <1>1, <1>12, RunJobLowers
<1>13. QED
  BY <1>3, <1>4, <1>5, <1>6, <1>7, <1>8, <1>9, <1>10, <1>11, <1>12 DEF WorkerStep

LEMMA PosterLowers ==
    ASSUME TypeOK, PostingOK, RoomOK, NEW p \in Posters, PosterStep(p)
    PROVE  Lowers
<1>1. p \in Threads
  BY ThreadsDisjoint
<1>2. CASE BeginGrow(p) \/ EndGrow(p)
  BY <1>2, GrowLowers
<1>3. CASE PushFn(p)
  <2>1. posting[p] \in Jobs
    BY <1>3 DEF PushFn, PostingOK
  <2>2. QED
    BY <1>3, <2>1, PushFnLowers
<1>4. CASE PushArgs(p)
  <2>1. posting[p] \in Jobs
    BY <1>4 DEF PushArgs, PostingOK
  <2>2. QED
    BY <1>4, <2>1, PushArgsLowers
<1>5. CASE PostSignal(p)
  <2>1. Goes(p, "idle") /\ pc[p] = "post_signal" /\ UNCHANGED <<jobs, capacity, growing>>
    BY <1>5, PosterGoes DEF PostSignal
  <2>2. QED
    BY <1>1, <2>1, LowersByNotice DEF WorkerPlaces, Staying, Notifying, Taken
<1>6. QED
  BY <1>2, <1>3, <1>4, <1>5 DEF PosterStep

LEMMA OwnerLowers ==
    ASSUME TypeOK, JoinStop \/ JoinSignal \/ JoinThreads
    PROVE  Lowers
<1>1. Owner \in Threads
  BY ThreadsDisjoint
<1>2. ASSUME NEW from, pc[Owner] = from, NEW place \in OwnerPlaces, Goto(Owner, place),
             UNCHANGED <<jobs, capacity, growing>>, from \in OwnerPlaces,
             place \in Notifying <=> from \in Notifying, Nearer(place, from)
      PROVE  Lowers
  <2>1. /\ place \notin {"push_fn", "push_args"} /\ place \notin Taken
        /\ from \notin {"push_fn", "push_args"} /\ from \notin Taken
        /\ place \notin Staying /\ place \in Places /\ from \notin Staying
    BY <1>2 DEF OwnerPlaces, WorkerPlaces, Staying, Places, Taken
  <2>2. QED
    BY <1>1, <1>2, <2>1, LowersByWay
<1>3. CASE JoinStop
  BY <1>2, <1>3, NearerPlaces DEF JoinStop, OwnerPlaces, Notifying
<1>4. CASE JoinSignal
  <2>1. Goes(Owner, "join_threads") /\ pc[Owner] = "join_signal" /\ UNCHANGED <<jobs, capacity, growing>>
    BY <1>4, OwnerGoes DEF JoinSignal
  <2>2. QED
    BY <1>1, <2>1, LowersByNotice DEF WorkerPlaces, Staying, Notifying, Taken
<1>5. CASE JoinThreads
  BY <1>2, <1>5, NearerPlaces DEF JoinThreads, OwnerPlaces, Notifying
<1>6. QED
  BY <1>3, <1>4, <1>5

(* What starts something anew: a call of w_post that gets the mutex, or a  *)
(* worker woken without a signal.                                          *)
StartsAnew ==
    \/ \E w \in Workers : SpuriousWake(w)
    \/ \E p \in Posters, j \in unposted : PostLock(p, j)

(* Between two calls of w_post, spurious wakeups apart, the pool takes     *)
(* finitely many steps, then it is at rest: no two threads keep each other *)
(* busy, a chain of signals comes to an end, and a poster makes room in    *)
(* the queue once at most for each cell.                                   *)
THEOREM PoolSettles == Spec => [][StartsAnew \/ (Counted /\ Counted' /\ Lowers)]_vars
<1>1. Inv => TypeOK /\ PostingOK /\ Counted
  BY Counts DEF Inv, Control
<1>2. ASSUME Inv, RoomOK, Next
      PROVE  StartsAnew \/ Lowers
  <2>1. ASSUME NEW w \in Workers, WorkerStep(w) \/ SpuriousWake(w)
        PROVE  StartsAnew \/ Lowers
    BY <1>2, <2>1, WorkerLowers DEF StartsAnew
  <2>2. ASSUME NEW p \in Posters, PosterStep(p) \/ \E j \in unposted : PostLock(p, j)
        PROVE  StartsAnew \/ Lowers
    BY <1>1, <1>2, <2>2, PosterLowers DEF StartsAnew
  <2>3. QED
    BY <1>1, <1>2, <2>1, <2>2, OwnerLowers DEF Next
<1>3. Inv /\ RoomOK /\ [Next]_vars => [StartsAnew \/ Lowers]_vars
  BY <1>2
<1>4. QED
  BY PoolInvariant, InitRoom, NextRoom, <1>1, <1>3, PTL DEF Spec
==============================================================================
