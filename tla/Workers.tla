------------------------------- MODULE Workers -------------------------------
(***************************************************************************)
(* The thread pool of src/unix/workers.c: w_create, w_process, w_post and  *)
(* w_join, down to each unlocked read, lock, wait and signal.              *)
(*                                                                         *)
(* A job is two cells of the queue, the function and its argument.  The    *)
(* queue is the sequence that queue.c implements (module RingQueue), with  *)
(* its capacity, because the outer loop of w_process reads the size        *)
(* without the lock and can look into a reallocation.                      *)
(*                                                                         *)
(* Each job is posted once: a member of Jobs is one call of w_post.        *)
(***************************************************************************)
EXTENDS Integers, Sequences, FiniteSets

CONSTANTS
    Workers,      \* the threads of the pool
    Posters,      \* the threads that call w_post
    Owner,        \* the thread that calls w_join
    NoThread,     \* the holder of a free lock
    Jobs,         \* the calls of w_post
    Null,         \* the 0 that q_next returns for an empty queue
    DefaultSize   \* CUSTOM_QUEUE_DEFAULT_SIZE

Threads == Workers \cup Posters \cup {Owner}

ASSUME ThreadsAssumption ==
    /\ Workers \cap Posters = {}
    /\ Owner \notin Workers \cup Posters
    /\ NoThread \notin Threads

(* What a process has of threads.                                         *)
ASSUME FiniteThreads == IsFiniteSet(Threads)

ASSUME DefaultSizeAssumption == DefaultSize \in Nat \ {0}

VARIABLES
    stop,       \* _stop
    jobs,       \* _jobs, oldest cell first
    capacity,   \* _jobs._range_mask + 1
    growing,    \* q_resize is moving the cells, _jobs._size is on its way to 0
    lock,       \* the thread that holds _lock
    pc,         \* where each thread is
    held,       \* the function and the argument a worker has plucked
    posting,    \* the job a poster is posting
    unposted,   \* the jobs not yet posted
    finished    \* the jobs whose function has returned

vars == <<stop, jobs, capacity, growing, lock, pc, held, posting, unposted, finished>>

(* A cell holds the function pointer or the argument of a job.             *)
FnCell(j) == [part |-> "fn", job |-> j]
ArgsCell(j) == [part |-> "args", job |-> j]
Cells == [part : {"fn", "args"}, job : Jobs]

NothingHeld == [fn |-> Null, args |-> Null]

Goto(t, place) == pc' = [pc EXCEPT ![t] = place]

Asleep == {w \in Workers : pc[w] = "asleep"}

(* pthread_cond_signal, after which t goes on at place: one of the threads *)
(* in pthread_cond_wait wakes up, none if there is none.                   *)
Signal(t, place) ==
    \/ /\ Asleep = {}
       /\ Goto(t, place)
    \/ \E w \in Asleep : pc' = [pc EXCEPT ![t] = place, ![w] = "woken"]

------------------------------------------------------------------------------
(* w_process: the workers.                                                 *)

(* Line 17 reads the size without the lock.  While q_resize drains the old *)
(* array into the new one it can see an empty queue.                       *)
TestSize(w) ==
    /\ pc[w] = "test_size"
    /\ \/ /\ jobs # <<>>
          /\ Goto(w, "lock")
       \/ /\ jobs = <<>> \/ growing
          /\ Goto(w, "test_stop")
    /\ UNCHANGED <<stop, jobs, capacity, growing, lock, held, posting, unposted, finished>>

(* Then it reads the stop flag, later and also without the lock.           *)
TestStop(w) ==
    /\ pc[w] = "test_stop"
    /\ Goto(w, IF stop THEN "exited" ELSE "lock")
    /\ UNCHANGED <<stop, jobs, capacity, growing, lock, held, posting, unposted, finished>>

(* Faulty variant: `if' for `while', a woken thread plucks without another *)
(* look at the queue.                                                      *)
AcquireNoRecheck(w) ==
    /\ pc[w] \in {"lock", "woken"}
    /\ lock = NoThread
    /\ lock' = w
    /\ Goto(w, IF pc[w] = "woken" THEN "pluck_fn" ELSE "inspect")
    /\ UNCHANGED <<stop, jobs, capacity, growing, held, posting, unposted, finished>>

(* Take the mutex: at the top, or to come back from pthread_cond_wait.     *)
Acquire(w) ==
    /\ pc[w] \in {"lock", "woken"}
    /\ lock = NoThread
    /\ lock' = w
    /\ Goto(w, "inspect")
    /\ UNCHANGED <<stop, jobs, capacity, growing, held, posting, unposted, finished>>

(* The inner loop's condition and the `if' after it.  The lock keeps the   *)
(* queue as it is between the two; w_join can set the flag at any time.    *)
InspectJob(w) ==
    /\ pc[w] = "inspect"
    /\ jobs # <<>>
    /\ Goto(w, "pluck_fn")
    /\ UNCHANGED <<stop, jobs, capacity, growing, lock, held, posting, unposted, finished>>

InspectIdle(w) ==
    /\ pc[w] = "inspect"
    /\ jobs = <<>>
    /\ ~stop
    /\ Goto(w, "wait")
    /\ UNCHANGED <<stop, jobs, capacity, growing, lock, held, posting, unposted, finished>>

(* Faulty variant: the thread leaves as soon as the flag is set.           *)
InspectBreakEarly(w) ==
    /\ pc[w] = "inspect"
    /\ stop
    /\ lock' = NoThread
    /\ Goto(w, "break_signal")
    /\ UNCHANGED <<stop, jobs, capacity, growing, held, posting, unposted, finished>>

InspectBreak(w) ==
    /\ pc[w] = "inspect"
    /\ jobs = <<>>
    /\ stop
    /\ lock' = NoThread
    /\ Goto(w, "break_signal")
    /\ UNCHANGED <<stop, jobs, capacity, growing, held, posting, unposted, finished>>

(* pthread_cond_wait releases the mutex and goes to sleep in one step.     *)
Wait(w) ==
    /\ pc[w] = "wait"
    /\ lock' = NoThread
    /\ Goto(w, "asleep")
    /\ UNCHANGED <<stop, jobs, capacity, growing, held, posting, unposted, finished>>

(* pthread_cond_wait may return without a signal.                          *)
SpuriousWake(w) ==
    /\ pc[w] = "asleep"
    /\ Goto(w, "woken")
    /\ UNCHANGED <<stop, jobs, capacity, growing, lock, held, posting, unposted, finished>>

(* q_next, twice: the function, then the argument and the unlock.          *)
NextCell == IF jobs = <<>> THEN Null ELSE Head(jobs)
AfterNext == IF jobs = <<>> THEN <<>> ELSE Tail(jobs)

(* Faulty variant: the lock is let go between the two cells.               *)
PluckFnUnlocks(w) ==
    /\ pc[w] = "pluck_fn"
    /\ held' = [held EXCEPT ![w].fn = NextCell]
    /\ jobs' = AfterNext
    /\ lock' = NoThread
    /\ Goto(w, "pluck_args")
    /\ UNCHANGED <<stop, capacity, growing, posting, unposted, finished>>

PluckFn(w) ==
    /\ pc[w] = "pluck_fn"
    /\ held' = [held EXCEPT ![w].fn = NextCell]
    /\ jobs' = AfterNext
    /\ Goto(w, "pluck_args")
    /\ UNCHANGED <<stop, capacity, growing, lock, posting, unposted, finished>>

PluckArgs(w) ==
    /\ pc[w] = "pluck_args"
    /\ held' = [held EXCEPT ![w].args = NextCell]
    /\ jobs' = AfterNext
    /\ lock' = NoThread
    /\ Goto(w, "signal")
    /\ UNCHANGED <<stop, capacity, growing, posting, unposted, finished>>

(* Every worker that leaves the critical section passes a signal on.       *)
PluckSignal(w) ==
    /\ pc[w] = "signal"
    /\ Signal(w, "run")
    /\ UNCHANGED <<stop, jobs, capacity, growing, lock, held, posting, unposted, finished>>

(* Faulty variant: the thread that leaves wakes nobody.                    *)
BreakSilently(w) ==
    /\ pc[w] = "break_signal"
    /\ Goto(w, "exited")
    /\ UNCHANGED <<stop, jobs, capacity, growing, lock, held, posting, unposted, finished>>

BreakSignal(w) ==
    /\ pc[w] = "break_signal"
    /\ Signal(w, "exited")
    /\ UNCHANGED <<stop, jobs, capacity, growing, lock, held, posting, unposted, finished>>

(* function_p(args) returns.                                               *)
RunJob(w) ==
    /\ pc[w] = "run"
    /\ finished' = finished \cup {held[w].args.job}
    /\ held' = [held EXCEPT ![w] = NothingHeld]
    /\ Goto(w, "test_size")
    /\ UNCHANGED <<stop, jobs, capacity, growing, lock, posting, unposted>>

------------------------------------------------------------------------------
(* w_post: the posters.  The callers of the repository post before w_join. *)

(* Faulty variant: the arguments of the call are not stored.               *)
PostLockForgets(p, j) ==
    /\ pc[p] = "idle"
    /\ pc[Owner] = "up"
    /\ lock = NoThread
    /\ lock' = p
    /\ unposted' = unposted \ {j}
    /\ Goto(p, "push_fn")
    /\ UNCHANGED <<stop, jobs, capacity, growing, held, posting, finished>>

PostLock(p, j) ==
    /\ pc[p] = "idle"
    /\ pc[Owner] = "up"
    /\ lock = NoThread
    /\ lock' = p
    /\ posting' = [posting EXCEPT ![p] = j]
    /\ unposted' = unposted \ {j}
    /\ Goto(p, "push_fn")
    /\ UNCHANGED <<stop, jobs, capacity, growing, held, finished>>

(* q_push into a full array first moves the cells to one twice as large.   *)
BeginGrow(p) ==
    /\ pc[p] \in {"push_fn", "push_args"}
    /\ Len(jobs) >= capacity
    /\ ~growing
    /\ growing' = TRUE
    /\ UNCHANGED <<stop, jobs, capacity, lock, pc, held, posting, unposted, finished>>

EndGrow(p) ==
    /\ pc[p] \in {"push_fn", "push_args"}
    /\ growing
    /\ growing' = FALSE
    /\ capacity' = 2 * capacity
    /\ UNCHANGED <<stop, jobs, lock, pc, held, posting, unposted, finished>>

(* Faulty variant: the lock is let go between the two pushes.              *)
PushFnUnlocks(p) ==
    /\ pc[p] = "push_fn"
    /\ Len(jobs) < capacity
    /\ jobs' = Append(jobs, FnCell(posting[p]))
    /\ lock' = NoThread
    /\ Goto(p, "push_args")
    /\ UNCHANGED <<stop, capacity, growing, held, posting, unposted, finished>>

PushFn(p) ==
    /\ pc[p] = "push_fn"
    /\ Len(jobs) < capacity
    /\ jobs' = Append(jobs, FnCell(posting[p]))
    /\ Goto(p, "push_args")
    /\ UNCHANGED <<stop, capacity, growing, lock, held, posting, unposted, finished>>

PushArgs(p) ==
    /\ pc[p] = "push_args"
    /\ Len(jobs) < capacity
    /\ jobs' = Append(jobs, ArgsCell(posting[p]))
    /\ lock' = NoThread
    /\ posting' = [posting EXCEPT ![p] = Null]
    /\ Goto(p, "post_signal")
    /\ UNCHANGED <<stop, capacity, growing, held, unposted, finished>>

(* Faulty variant: the job is queued and nobody is told.                   *)
PostSilently(p) ==
    /\ pc[p] = "post_signal"
    /\ Goto(p, "idle")
    /\ UNCHANGED <<stop, jobs, capacity, growing, lock, held, posting, unposted, finished>>

PostSignal(p) ==
    /\ pc[p] = "post_signal"
    /\ Signal(p, "idle")
    /\ UNCHANGED <<stop, jobs, capacity, growing, lock, held, posting, unposted, finished>>

------------------------------------------------------------------------------
(* w_join: the owner.  A second call finds the flag set and returns.       *)

(* The flag is set without the lock.                                       *)
JoinStop ==
    /\ pc[Owner] = "up"
    /\ \A p \in Posters : pc[p] = "idle"
    /\ ~stop
    /\ stop' = TRUE
    /\ Goto(Owner, "join_signal")
    /\ UNCHANGED <<jobs, capacity, growing, lock, held, posting, unposted, finished>>

JoinSignal ==
    /\ pc[Owner] = "join_signal"
    /\ Signal(Owner, "join_threads")
    /\ UNCHANGED <<stop, jobs, capacity, growing, lock, held, posting, unposted, finished>>

JoinThreads ==
    /\ pc[Owner] = "join_threads"
    /\ \A w \in Workers : pc[w] = "exited"
    /\ Goto(Owner, "joined")
    /\ UNCHANGED <<stop, jobs, capacity, growing, lock, held, posting, unposted, finished>>

------------------------------------------------------------------------------
(* w_create.                                                               *)
Init ==
    /\ stop = FALSE
    /\ jobs = <<>>
    /\ capacity = DefaultSize
    /\ growing = FALSE
    /\ lock = NoThread
    /\ pc = [t \in Threads |-> IF t \in Workers THEN "test_size"
                               ELSE IF t \in Posters THEN "idle" ELSE "up"]
    /\ held = [w \in Workers |-> NothingHeld]
    /\ posting = [p \in Posters |-> Null]
    /\ unposted = Jobs
    /\ finished = {}

WorkerStep(w) ==
    \/ TestSize(w)
    \/ TestStop(w)
    \/ Acquire(w)
    \/ InspectJob(w)
    \/ InspectIdle(w)
    \/ InspectBreak(w)
    \/ Wait(w)
    \/ PluckFn(w)
    \/ PluckArgs(w)
    \/ PluckSignal(w)
    \/ BreakSignal(w)
    \/ RunJob(w)

(* The steps of a call of w_post that has got the lock.                    *)
PosterStep(p) ==
    \/ BeginGrow(p)
    \/ EndGrow(p)
    \/ PushFn(p)
    \/ PushArgs(p)
    \/ PostSignal(p)

Next ==
    \/ \E w \in Workers : WorkerStep(w) \/ SpuriousWake(w)
    \/ \E p \in Posters : PosterStep(p) \/ \E j \in unposted : PostLock(p, j)
    \/ JoinStop
    \/ JoinSignal
    \/ JoinThreads

Spec == Init /\ [][Next]_vars

(* Every thread that can take a step in the middle of a call is scheduled  *)
(* eventually and jobs return.  Nobody is obliged to post, to call w_join  *)
(* or to wake up without a signal.                                         *)
Fairness ==
    /\ \A w \in Workers : WF_vars(WorkerStep(w)) /\ SF_vars(Acquire(w))
    /\ \A p \in Posters : WF_vars(PosterStep(p))
    /\ WF_vars(JoinSignal)
    /\ WF_vars(JoinThreads)

FairSpec == Spec /\ Fairness

------------------------------------------------------------------------------
(* Invariants.                                                             *)

WorkerPlaces ==
    {"test_size", "test_stop", "lock", "inspect", "wait", "asleep", "woken", "pluck_fn",
     "pluck_args", "signal", "run", "break_signal", "exited"}
PosterPlaces == {"idle", "push_fn", "push_args", "post_signal"}
OwnerPlaces == {"up", "join_signal", "join_threads", "joined"}

(* The values of the fields of the pool and the places of its threads.     *)
TypeOK ==
    /\ stop \in BOOLEAN
    /\ jobs \in Seq(Cells)
    /\ capacity \in Nat \ {0}
    /\ growing \in BOOLEAN
    /\ lock \in Threads \cup {NoThread}
    /\ pc \in [Threads -> WorkerPlaces \cup PosterPlaces \cup OwnerPlaces]
    /\ \A w \in Workers : pc[w] \in WorkerPlaces
    /\ \A p \in Posters : pc[p] \in PosterPlaces
    /\ pc[Owner] \in OwnerPlaces
    /\ held \in [Workers -> [fn : Cells \cup {Null}, args : Cells \cup {Null}]]
    /\ posting \in [Posters -> Jobs \cup {Null}]
    /\ unposted \subseteq Jobs
    /\ finished \subseteq Jobs

(* What a worker calls at line 40 is the function of a posted job with the *)
(* argument of the same job.  The two cells are pushed and plucked one at  *)
(* a time, by any of the threads; a single slip (a pluck from a queue with *)
(* one cell, a lock released between the cells) shifts every later pair,   *)
(* so that an argument would be called as a function.                      *)
PairsWhole ==
    \A w \in Workers : pc[w] \in {"signal", "run"} =>
        \E j \in Jobs \ unposted : held[w] = [fn |-> FnCell(j), args |-> ArgsCell(j)]

(* Between critical sections the queue is a sequence of whole pairs of     *)
(* posted jobs.  Inside one, the poster that has pushed a function has it  *)
(* last and the worker that has plucked a function has its argument first. *)
QueueOfPairs ==
    /\ \A i \in 1..(Len(jobs) - 1) :
          IF jobs[i].part = "fn" THEN jobs[i + 1] = ArgsCell(jobs[i].job)
                                 ELSE jobs[i + 1].part = "fn"
    /\ \A i \in 1..Len(jobs) : jobs[i].job \notin unposted
    /\ jobs # <<>> /\ (\A w \in Workers : pc[w] # "pluck_args") => jobs[1].part = "fn"
    /\ \A w \in Workers : pc[w] = "pluck_args" =>
          /\ jobs # <<>>
          /\ held[w].fn = FnCell(jobs[1].job)
          /\ jobs[1].part = "args"
    /\ jobs # <<>> /\ (\A p \in Posters : pc[p] # "push_args") =>
          jobs[Len(jobs)].part = "args"
    /\ \A p \in Posters : pc[p] = "push_args" =>
          /\ jobs # <<>>
          /\ jobs[Len(jobs)] = FnCell(posting[p])

(* No queued job is left to sleeping threads: when the lock is free, a job *)
(* is queued and a worker sleeps, some thread is about to signal or some   *)
(* worker is on its way to the queue.  A worker at the unlocked read of    *)
(* the stop flag does not count: it may have seen an old, empty queue and  *)
(* leave.                                                                  *)
AboutToSignal ==
    \E t \in Threads : pc[t] \in {"post_signal", "signal", "break_signal", "join_signal"}
OnItsWay ==
    \E w \in Workers : pc[w] \in {"test_size", "lock", "woken", "run"}

WorkNeverStranded ==
    lock = NoThread /\ jobs # <<>> /\ Asleep # {} => AboutToSignal \/ OnItsWay

(* A worker that leaves through the locked test (line 25) leaves an empty  *)
(* queue behind, and it stays empty: no job is given up on that path.      *)
BreakLeavesNothing ==
    \A w \in Workers : pc[w] = "break_signal" => jobs = <<>>

(* The pool implements the abstract one: whatever the interleaving, jobs   *)
(* start in the order of posting, each once, none appears from nowhere.    *)
(* A job is posted with its second cell and started when that is plucked.  *)
(* Every second cell is an argument, from the first on if a worker is      *)
(* between its two plucks.                                                 *)
FirstArgs == IF jobs # <<>> /\ jobs[1].part = "args" THEN 1 ELSE 2
QueuedJobs ==
    [i \in 1..((Len(jobs) + 2 - FirstArgs) \div 2) |-> jobs[2 * i + FirstArgs - 2].job]
RunningJobs ==
    {held[w].args.job : w \in {v \in Workers : pc[v] \in {"signal", "run"}}}

Pool == INSTANCE JobPool WITH queued <- QueuedJobs, running <- RunningJobs

ImplementsJobPool == Pool!Spec

------------------------------------------------------------------------------
(* Liveness.                                                               *)

(* A posted job is run, unless the pool is told to stop.                   *)
PostedJobsRun ==
    \A j \in Jobs : (j \in Pool!Queued) ~> (j \in finished \/ stop)

(* Once the flag is set and one worker is on its way to the mutex, its     *)
(* signal and those of the workers it wakes reach every sleeper and w_join *)
(* returns.                                                                *)
OneAwakeEndsAll ==
    (stop /\ \E w \in Workers : pc[w] \in {"lock", "woken"}) ~> pc[Owner] = "joined"

------------------------------------------------------------------------------
(* What the tests of the pool expect, and the code does not guarantee.     *)

(* test/workers-T.cpp:9-16 (shuts_down_after_initial_wait): w_join returns.*)
JoinReturns == (pc[Owner] = "join_signal") ~> (pc[Owner] = "joined")

(* test/workers-T.cpp:66: after w_join every posted job has been run.      *)
JoinMeansAllDone == pc[Owner] = "joined" => finished = Jobs \ unposted
==============================================================================
