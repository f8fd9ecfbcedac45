------------------------------ MODULE Threadpool ------------------------------
(***************************************************************************)
(* The C++ thread pool of src/Nettverksprog/Threadpool.cpp: constructor,   *)
(* process, post, join and destructor.                                     *)
(*                                                                         *)
(* It differs from workers.c (module Workers) where it is delicate: a job  *)
(* is one function pointer, post notifies while it still holds the mutex,  *)
(* and the outer loop of process reads a std::queue without the mutex, so  *)
(* that the two ends of the queue are read at different moments.           *)
(*                                                                         *)
(* Each job is posted once: a member of Jobs is one call of post.          *)
(***************************************************************************)
EXTENDS Integers, Sequences, FiniteSets

CONSTANTS
    Workers,   \* threads[0 .. num_threads - 1]
    Posters,   \* the threads that call post
    Owner,     \* the thread that calls join and the destructor
    NoThread,  \* the holder of a free mutex
    Jobs,      \* the calls of post
    Null       \* what a pluck from an empty queue reads

Threads == Workers \cup Posters \cup {Owner}

ASSUME ThreadsAssumption ==
    /\ Workers \cap Posters = {}
    /\ Owner \notin Workers \cup Posters
    /\ NoThread \notin Threads

(* What a process has of threads.                                         *)
ASSUME FiniteThreads == IsFiniteSet(Threads)

ASSUME NullAssumption == Null \notin Jobs

VARIABLES
    stop,      \* stop
    jobs,      \* jobs, oldest first
    lock,      \* the thread that holds jobs_lock
    pc,        \* where each thread is
    seen,      \* the jobs below the end of the queue a worker has read
    held,      \* the function a worker has plucked
    posting,   \* the function a poster is posting
    unposted,  \* the jobs not yet posted
    finished   \* the jobs whose function has returned

vars == <<stop, jobs, lock, pc, seen, held, posting, unposted, finished>>

Goto(t, place) == pc' = [pc EXCEPT ![t] = place]

Asleep == {w \in Workers : pc[w] = "asleep"}
Queued == {jobs[i] : i \in DOMAIN jobs}

(* The two ends of the queue, as the jobs that lie below them: those pushed*)
(* and those taken so far.                                                 *)
Pushed == Jobs \ (unposted \cup {posting[p] : p \in Posters})
Taken == Pushed \ Queued

(* cv.notify_one, after which t goes on at place: one of the threads in    *)
(* cv.wait wakes up, none if there is none.                                *)
Notify(t, place) ==
    \/ /\ Asleep = {}
       /\ Goto(t, place)
    \/ \E w \in Asleep : pc' = [pc EXCEPT ![t] = place, ![w] = "woken"]

------------------------------------------------------------------------------
(* process: the workers.                                                   *)

(* Line 27 without the mutex: jobs.empty() compares where the queue ends   *)
(* with where it begins.  The end is read first here; the other order sees *)
(* nothing that this one does not.                                         *)
ReadBack(w) ==
    /\ pc[w] = "read_back"
    /\ seen' = [seen EXCEPT ![w] = Pushed]
    /\ Goto(w, "read_front")
    /\ UNCHANGED <<stop, jobs, lock, held, posting, unposted, finished>>

(* Then the beginning.  The queue looks empty if just the jobs below the   *)
(* end read before have been taken, whatever was posted meanwhile; a       *)
(* beginning that has moved past that end is not equal to it.              *)
ReadFront(w) ==
    /\ pc[w] = "read_front"
    /\ Goto(w, IF seen[w] = Taken THEN "test_stop" ELSE "lock")
    /\ seen' = [seen EXCEPT ![w] = {}]
    /\ UNCHANGED <<stop, jobs, lock, held, posting, unposted, finished>>

TestStop(w) ==
    /\ pc[w] = "test_stop"
    /\ Goto(w, IF stop THEN "left" ELSE "lock")
    /\ UNCHANGED <<stop, jobs, lock, seen, held, posting, unposted, finished>>

(* Faulty variant: `if' for `while' around cv.wait, a woken thread plucks  *)
(* without another look at the queue.                                      *)
AcquireNoRecheck(w) ==
    /\ pc[w] \in {"lock", "woken"}
    /\ lock = NoThread
    /\ lock' = w
    /\ Goto(w, IF pc[w] = "woken" THEN "pluck" ELSE "inspect")
    /\ UNCHANGED <<stop, jobs, seen, held, posting, unposted, finished>>

(* Take the mutex: at the top, or to come back from cv.wait.               *)
Acquire(w) ==
    /\ pc[w] \in {"lock", "woken"}
    /\ lock = NoThread
    /\ lock' = w
    /\ Goto(w, "inspect")
    /\ UNCHANGED <<stop, jobs, seen, held, posting, unposted, finished>>

(* Lines 31 and 35.  The mutex keeps the queue as it is between the two;   *)
(* join can set the flag at any time.                                      *)
InspectJob(w) ==
    /\ pc[w] = "inspect"
    /\ jobs # <<>>
    /\ Goto(w, "pluck")
    /\ UNCHANGED <<stop, jobs, lock, seen, held, posting, unposted, finished>>

InspectIdle(w) ==
    /\ pc[w] = "inspect"
    /\ jobs = <<>>
    /\ ~stop
    /\ Goto(w, "wait")
    /\ UNCHANGED <<stop, jobs, lock, seen, held, posting, unposted, finished>>

(* Faulty variant: the thread leaves as soon as the flag is set.           *)
InspectBreakEarly(w) ==
    /\ pc[w] = "inspect"
    /\ stop
    /\ lock' = NoThread
    /\ Goto(w, "break_notify")
    /\ UNCHANGED <<stop, jobs, seen, held, posting, unposted, finished>>

InspectBreak(w) ==
    /\ pc[w] = "inspect"
    /\ jobs = <<>>
    /\ stop
    /\ lock' = NoThread
    /\ Goto(w, "break_notify")
    /\ UNCHANGED <<stop, jobs, seen, held, posting, unposted, finished>>

(* cv.wait releases the mutex and goes to sleep in one step.               *)
Wait(w) ==
    /\ pc[w] = "wait"
    /\ lock' = NoThread
    /\ Goto(w, "asleep")
    /\ UNCHANGED <<stop, jobs, seen, held, posting, unposted, finished>>

(* cv.wait may return without a notification.                              *)
SpuriousWake(w) ==
    /\ pc[w] = "asleep"
    /\ Goto(w, "woken")
    /\ UNCHANGED <<stop, jobs, lock, seen, held, posting, unposted, finished>>

(* Faulty variant: the job is read and the mutex released before the pop.  *)
PluckNoPop(w) ==
    /\ pc[w] = "pluck"
    /\ held' = [held EXCEPT ![w] = IF jobs = <<>> THEN Null ELSE Head(jobs)]
    /\ lock' = NoThread
    /\ Goto(w, "notify")
    /\ UNCHANGED <<stop, jobs, seen, posting, unposted, finished>>

(* front, pop and unlock.                                                  *)
Pluck(w) ==
    /\ pc[w] = "pluck"
    /\ held' = [held EXCEPT ![w] = IF jobs = <<>> THEN Null ELSE Head(jobs)]
    /\ jobs' = IF jobs = <<>> THEN <<>> ELSE Tail(jobs)
    /\ lock' = NoThread
    /\ Goto(w, "notify")
    /\ UNCHANGED <<stop, seen, posting, unposted, finished>>

PluckNotify(w) ==
    /\ pc[w] = "notify"
    /\ Notify(w, "run")
    /\ UNCHANGED <<stop, jobs, lock, seen, held, posting, unposted, finished>>

(* Faulty variant: the thread that leaves wakes nobody.                    *)
BreakSilently(w) ==
    /\ pc[w] = "break_notify"
    /\ Goto(w, "broke")
    /\ UNCHANGED <<stop, jobs, lock, seen, held, posting, unposted, finished>>

BreakNotify(w) ==
    /\ pc[w] = "break_notify"
    /\ Notify(w, "broke")
    /\ UNCHANGED <<stop, jobs, lock, seen, held, posting, unposted, finished>>

(* function_p() returns.                                                   *)
RunJob(w) ==
    /\ pc[w] = "run"
    /\ finished' = finished \cup {held[w]}
    /\ held' = [held EXCEPT ![w] = Null]
    /\ Goto(w, "read_back")
    /\ UNCHANGED <<stop, jobs, lock, seen, posting, unposted>>

------------------------------------------------------------------------------
(* post: the posters.  Nobody posts to a pool that is being joined.        *)
PostLock(p, j) ==
    /\ pc[p] = "idle"
    /\ pc[Owner] = "up"
    /\ lock = NoThread
    /\ lock' = p
    /\ posting' = [posting EXCEPT ![p] = j]
    /\ unposted' = unposted \ {j}
    /\ Goto(p, "push")
    /\ UNCHANGED <<stop, jobs, seen, held, finished>>

(* Faulty variant: the notification is left out.                           *)
PostPushOnly(p) ==
    /\ pc[p] = "push"
    /\ jobs' = Append(jobs, posting[p])
    /\ posting' = [posting EXCEPT ![p] = Null]
    /\ Goto(p, "post_unlock")
    /\ UNCHANGED <<stop, lock, seen, held, unposted, finished>>

PostPush(p) ==
    /\ pc[p] = "push"
    /\ jobs' = Append(jobs, posting[p])
    /\ posting' = [posting EXCEPT ![p] = Null]
    /\ Goto(p, "post_notify")
    /\ UNCHANGED <<stop, lock, seen, held, unposted, finished>>

(* The thread that wakes up has to wait for the mutex.                     *)
PostNotify(p) ==
    /\ pc[p] = "post_notify"
    /\ Notify(p, "post_unlock")
    /\ UNCHANGED <<stop, jobs, lock, seen, held, posting, unposted, finished>>

(* Faulty variant: the lock guard lives on after the call.                 *)
PostKeepsLock(p) ==
    /\ pc[p] = "post_unlock"
    /\ Goto(p, "idle")
    /\ UNCHANGED <<stop, jobs, lock, seen, held, posting, unposted, finished>>

PostUnlock(p) ==
    /\ pc[p] = "post_unlock"
    /\ lock' = NoThread
    /\ Goto(p, "idle")
    /\ UNCHANGED <<stop, jobs, seen, held, posting, unposted, finished>>

------------------------------------------------------------------------------
(* join, called by the user or by the destructor.                          *)

(* The flag is set without the mutex.                                      *)
JoinStop ==
    /\ pc[Owner] = "up"
    /\ \A p \in Posters : pc[p] = "idle"
    /\ ~stop
    /\ stop' = TRUE
    /\ Goto(Owner, "join_notify")
    /\ UNCHANGED <<jobs, lock, seen, held, posting, unposted, finished>>

JoinNotify ==
    /\ pc[Owner] = "join_notify"
    /\ Notify(Owner, "join_threads")
    /\ UNCHANGED <<stop, jobs, lock, seen, held, posting, unposted, finished>>

(* t->join() for every thread, then delete[] threads.                      *)
JoinThreads ==
    /\ pc[Owner] = "join_threads"
    /\ \A w \in Workers : pc[w] \in {"left", "broke"}
    /\ Goto(Owner, "joined")
    /\ UNCHANGED <<stop, jobs, lock, seen, held, posting, unposted, finished>>

(* The destructor of a pool that was joined finds the flag set.            *)
Destroy ==
    /\ pc[Owner] = "joined"
    /\ stop
    /\ Goto(Owner, "destroyed")
    /\ UNCHANGED <<stop, jobs, lock, seen, held, posting, unposted, finished>>

------------------------------------------------------------------------------
(* The constructor: the members are set before the first thread starts.    *)
Init ==
    /\ stop = FALSE
    /\ jobs = <<>>
    /\ lock = NoThread
    /\ pc = [t \in Threads |-> IF t \in Workers THEN "read_back"
                               ELSE IF t \in Posters THEN "idle" ELSE "up"]
    /\ seen = [w \in Workers |-> {}]
    /\ held = [w \in Workers |-> Null]
    /\ posting = [p \in Posters |-> Null]
    /\ unposted = Jobs
    /\ finished = {}

WorkerStep(w) ==
    \/ ReadBack(w)
    \/ ReadFront(w)
    \/ TestStop(w)
    \/ Acquire(w)
    \/ InspectJob(w)
    \/ InspectIdle(w)
    \/ InspectBreak(w)
    \/ Wait(w)
    \/ Pluck(w)
    \/ PluckNotify(w)
    \/ BreakNotify(w)
    \/ RunJob(w)

(* The steps of a call of post that has got the mutex.                     *)
PosterStep(p) ==
    \/ PostPush(p)
    \/ PostNotify(p)
    \/ PostUnlock(p)

Next ==
    \/ \E w \in Workers : WorkerStep(w) \/ SpuriousWake(w)
    \/ \E p \in Posters : PosterStep(p) \/ \E j \in unposted : PostLock(p, j)
    \/ JoinStop
    \/ JoinNotify
    \/ JoinThreads
    \/ Destroy

Spec == Init /\ [][Next]_vars

(* As in Workers: threads in the middle of a call are scheduled, mutexes   *)
(* are granted to those that keep asking, and jobs return.                 *)
Fairness ==
    /\ \A w \in Workers : WF_vars(WorkerStep(w)) /\ SF_vars(Acquire(w))
    /\ \A p \in Posters : WF_vars(PosterStep(p))
    /\ WF_vars(JoinNotify)
    /\ WF_vars(JoinThreads)

FairSpec == Spec /\ Fairness

------------------------------------------------------------------------------
(* Invariants.                                                             *)

WorkerPlaces ==
    {"read_back", "read_front", "test_stop", "lock", "inspect", "wait", "asleep", "woken",
     "pluck", "notify", "run", "break_notify", "left", "broke"}
PosterPlaces == {"idle", "push", "post_notify", "post_unlock"}
OwnerPlaces == {"up", "join_notify", "join_threads", "joined", "destroyed"}

(* The values of the members of the pool and the places of its threads.    *)
(* Only a thread that has plucked holds a job, and it holds one.           *)
TypeOK ==
    /\ stop \in BOOLEAN
    /\ jobs \in Seq(Jobs)
    /\ lock \in Threads \cup {NoThread}
    /\ pc \in [Threads -> WorkerPlaces \cup PosterPlaces \cup OwnerPlaces]
    /\ \A w \in Workers : pc[w] \in WorkerPlaces
    /\ \A p \in Posters : pc[p] \in PosterPlaces
    /\ pc[Owner] \in OwnerPlaces
    /\ seen \in [Workers -> SUBSET Jobs]
    /\ held \in [Workers -> Jobs \cup {Null}]
    /\ \A w \in Workers : held[w] \in Jobs <=> pc[w] \in {"notify", "run"}
    /\ posting \in [Posters -> Jobs \cup {Null}]
    /\ unposted \subseteq Jobs
    /\ finished \subseteq Jobs

(* No queued job is left to sleeping threads.  As post notifies before it  *)
(* releases the mutex, a free mutex means that the notification for every  *)
(* queued job is out: some worker was woken and is on its way to the       *)
(* queue, or has plucked and is about to pass the notification on.         *)
WorkNeverStranded ==
    lock = NoThread /\ jobs # <<>> /\ Asleep # {} =>
        \E w \in Workers : pc[w] \in {"woken", "notify"}

(* The threads array is not deleted and the pool not destroyed under a     *)
(* running worker; and jobs are given up only when every worker has left   *)
(* through the unlocked reads of line 27: one that left through the locked *)
(* test of line 35 proves that all was done, posted and run.               *)
EndOfPool ==
    pc[Owner] \in {"joined", "destroyed"} =>
        /\ \A w \in Workers : pc[w] \in {"left", "broke"}
        /\ (\E w \in Workers : pc[w] = "broke") => finished = Jobs \ unposted

(* The same abstract pool as for workers.c: jobs start in the order of     *)
(* posting, each once, by whichever thread.                                *)
RunningJobs == {held[w] : w \in {v \in Workers : pc[v] \in {"notify", "run"}}}

Pool == INSTANCE JobPool WITH queued <- jobs, running <- RunningJobs

ImplementsJobPool == Pool!Spec

------------------------------------------------------------------------------
(* Liveness.                                                               *)

(* A posted job is run, unless the pool is told to stop.                   *)
PostedJobsRun == \A j \in Jobs : (j \in Queued) ~> (j \in finished \/ stop)

(* Once the flag is set and one worker is on its way to the mutex, its     *)
(* notification and those of the workers it wakes reach every sleeper, and *)
(* join and the destructor return.                                         *)
OneAwakeEndsAll ==
    (stop /\ \E w \in Workers : pc[w] \in {"lock", "woken"}) ~>
        pc[Owner] \in {"joined", "destroyed"}
==============================================================================
