# C10K in TLA+

The repository is a small C library for network servers: a ring-buffer queue, a
thread pool, a set of bits, a stack, an epoll endpoint and a header parser, with
programs built from them under `apps/`. These modules model its concurrent core,
the data structures beneath it, what the http server makes of a request, and the
programs; check them with TLC, and prove the parts that hold for every number of
threads and values with TLAPS.

Paths below are relative to the repository's root.

## 1. Inventory

| component | source | state | operations | hard behaviour |
|---|---|---|---|---|
| ring queue | `src/unix/queue.c` | `_front`, `_back`, `_size`, `_range_mask`, the array | `q_create`, `q_push`, `q_next`, `q_is_empty`, `q_resize`, `q_destroy` | wrap-around, growth at the full ring, copying between arrays, fresh memory |
| thread pool | `src/unix/workers.c` | `_stop`, `_jobs`, `_lock`, `_cv`, the threads | `w_create`, `w_process`, `w_post`, `w_join` | unlocked reads of size and flag, lost signals, jobs of two cells, shutdown |
| endpoint | `src/unix/endpoint.c` | `connected_clients_fds`, `_disconnect_queue`, two locks, two epoll sets | `endpoint_create`, `_accept`, `_wait_event`, `_close_hungups`, `_disconnect_client`, `_disconnect_all_clients`, `_close` | descriptors reused, edge-triggered events, two threads and one stack |
| http server | `apps/Run_unix_srv.c` | `stop`, two threads, a pool of five | `accept_proc`, `client_event_processor`, `client_event`, `html_answer`, `main` | descriptors handed to workers as numbers, blocking `recv`, shutdown order |
| boolset | `src/unix/boolset.c` | array of words | create, set, get, foreach, destroy | growth, bounds, iteration while bits are cleared |
| stack | `src/unix/stack.c` | linked nodes | create, push, pop, is_empty, empty, destroy | pop of an empty stack |
| header parser | `src/unix/http.c` | none but its scans' indices | `http_str_to_header(s)`, `http_header_to_str` | a request cut off anywhere, lines without colon or text, scans that stop behind the request |
| C++ pool | `src/Nettverksprog/Threadpool.cpp` | `stop`, `jobs`, mutex, cv | constructor, `post`, `process`, `join`, destructor | as the C pool; the queue is read at both ends without the mutex |
| calculator server | `apps/Run_calc_srv.c` | as the http server | `calc_request`, otherwise the same | workers disconnect clients themselves |
| UDP calculator | `apps/Run_calc_udp_srv.c` | none between datagrams | `calc_request`, `srv_proc` | none |
| endpoint2 | `src/unix/endpoint2.c` | | | not compiled |
| epoll examples | `apps/Server_example.c`, `apps/Epoll_test.c`, `apps/Run.c` | an epoll set, a listening socket, a signaler | `side_proc`, `main` | one edge for many clients; stopping a thread that sleeps in `epoll_wait` |

How they interact. The pool's queue is a ring queue under the pool's lock,
except that `w_process` reads its size without the lock. The endpoint uses a
boolset as its record of clients and a stack as the list of clients to
disconnect, each under a lock. The http server's acceptor thread calls
`endpoint_accept` and `endpoint_close_hungups` in turn; its event thread calls
`endpoint_wait_event`, which pushes to the stack, and `w_post`; the pool's
workers run `client_event` on a descriptor that they got as a number; `main`
sets `stop`, joins the two threads and the pool and closes the endpoint. The
calculator server has the same threads, but its acceptor calls
`endpoint_close_hungups` only once, and its workers call
`endpoint_disconnect_client`. `html_answer` calls the header parser on the bytes
of one `recv` and lists the headers on the page it sends. The C++ pool and the
epoll examples stand alone.

What makes each part correct:

- ring queue: first in, first out, nothing lost by a push, no unwritten memory
  handed out;
- pool: each posted job runs once, in order, with its own argument; no job is
  left to sleeping threads; `w_join` returns, after all jobs;
- endpoint: record, sockets and epoll set agree; only clients that hung up are
  disconnected, and all of them eventually; closing leaves nothing open;
- boolset: a set of indices; growth moves none; `foreach` calls back once for
  each, although its callback clears bits;
- header parser and page: the headers that arrived are shown, whole, trimmed and
  in order; no index leaves the buffer and every scan ends; a header that has a
  value, made a string and read back, is the same header;
- epoll example: no waiting client is overlooked although one event stands for
  many clients; the signaler stops the thread wherever it is;
- servers: an answer goes to the client that asked; a client that leaves does
  not keep a worker; shutdown completes and leaks nothing.

`PROJECT.json` lists the hazards with their lines and the properties for each.

## 2. Modules

| module | models | extends / uses |
|---|---|---|
| `FifoQueue` | the abstract queue | |
| `RingQueue` | `queue.c` | instance of `FifoQueue` |
| `RingQueueProofs` | proofs | `RingQueue` |
| `JobPool` | the abstract pool | |
| `Workers` | `workers.c` | instance of `JobPool` |
| `WorkersProofs` | proofs | `Workers` |
| `IndexSet` | the abstract set of indices | |
| `Boolset` | `boolset.c` | instance of `IndexSet` |
| `BoolsetProofs` | proofs | `Boolset` |
| `Threadpool` | `Threadpool.cpp` | instance of `JobPool` |
| `ThreadpoolProofs` | proofs | `Threadpool` |
| `HttpHeaders` | the header functions, and what a header line means | |
| `HttpAnswer` | `html_answer` from `recv` to the page, with `http_str_to_headers` | `HttpHeaders` |
| `ServerExample` | `Server_example.c` | |
| `ServerExampleProofs` | proofs | `ServerExample` |
| `EndpointService` | the abstract endpoint | |
| `Sockets` | Linux: descriptors, epoll, clients | external |
| `Endpoint` | `endpoint.c`, with `stack.c` as a sequence and the boolset as `IndexSet` promises it | `Sockets` |
| `Server` | what both server programs share | `Endpoint`; the pool as `JobPool` promises it |
| `UnixServer` | `Run_unix_srv.c` | `Server`; instance of `EndpointService` |
| `CalcServer` | `Run_calc_srv.c` | `Server` |
| `ServerProofs` | types and facts about the steps the two servers share | `Server` |
| `UnixServerProofs` | proofs about the http server program | `UnixServer`, `ServerProofs`, `HttpAnswer` |
| `CalcServerProofs` | proofs | `CalcServer`, `ServerProofs` |
| `MCRingQueue`, `MCWorkers`, `MCThreadpool`, `MCBoolset`, `MCUnixServer`, `MCUnixServerLive`, `MCCalcServer`, `MCHttpAnswer`, `MCServerExample` | instances for TLC | |

Definitions introduced by "Faulty variant" are plausible bugs in the code just
after them. They are not used by any specification; each breaks a property of a
run if it takes the place of the definition it precedes, which shows that the
property depends on that code.

**RingQueue.** `q` is the C struct. `Resized`, `Grown`, `Stored`, `Advanced`
map a struct to the struct after `q_resize`, the test in `q_push`, the rest of
`q_push`, and `q_next`; each action runs one call and records in `event` what
was passed or returned. A cell that was never written holds `Garbage`. Cells
beyond the copied ones hold it after a resize. `x & mask` is `x % (mask + 1)`,
the same for a mask one below a power of two.

**Workers.** `pc` gives each thread's place. The unlocked condition of
`w_process` (line 17) is two steps, `TestSize` and `TestStop`, because the size
and the flag are read one after the other. `growing` is true while a poster is
inside `q_resize`, whose copy loop takes the values out with `q_next`, so that
`_size` runs down to 0 and is set back at line 68: a reader without the lock can
see 0 then. `pthread_cond_wait` is one step that releases and sleeps, and a
later one that takes the lock again; it may wake without a signal
(`SpuriousWake`). Memory is sequentially consistent here; the two plain reads are
data races in C, and the outcomes modelled are those of reading the two fields
in program order. `w_post` is called only before `w_join`, as every caller does.
A job is a member of `Jobs`, posted at most once, so that jobs can be told apart.

**Threadpool.** Written like `Workers`, and different from it where
`Threadpool.cpp` is: a job is one function pointer, so that a pluck is one step;
`post` notifies while it holds the mutex (`PostNotify` before `PostUnlock`); and
the unlocked condition of `process` (line 27) is three steps, since
`std::queue::empty` compares the two ends of the queue, which change separately.
`seen` keeps the jobs that lay below the end that a worker read first (`Pushed` at that
moment); the queue looks empty to it if just these have been taken when it reads the
front (`Taken`). The comparison is one for equality: a front that has moved past that
end sends the worker on to the mutex. As for
`Workers`, the outcomes modelled are those of reading in program order, callers
post before `join`, and each member of `Jobs` is posted once.

**HttpHeaders, HttpAnswer.** A request is its text, its size and how much of it the
one `recv` got: TCP may deliver it in pieces. `Proper` is what a client sends: lines
that end in CR LF, the last one empty, with no other CR and no NUL. The text of the
request line is left out but for whether it asks for
`/`; index 0 of `buf` is the CR that ends it. A request of which nothing of this text
was received (`received = 0`) was cut off in its request line: index 0 is then the NUL
that the code writes behind what it got, and the answer to line 39 is whatever was on
the stack. `Stack` is `in_buf` and what lies behind it: `Leftovers` is what an earlier
request left there, where the scans look; its last character is no space, so that a
scan over spaces ends. The scan of line 50 knows nothing of `bytes_read`: `HeaderStart`
is behind the first CR anywhere in `Stack`, and without one the phase is `overrun`, a
scan out of bounds whose end nothing in the code decides. In the runs characters are a
letter, colon, space, CR, LF and NUL. `Slice`, `SkipUp`, `SkipDown`, `LineEnd` and
`ColonAt` are the loops of the parser by what they find. `HeaderAt` is
`http_str_to_header`, with its negative lengths as the outcome `fault`; `ParseLine` is a
round of the loop of `http_str_to_headers`, where the line after the first one may end
one character later (`http.c:126`). `PageSize` is what `strncat` puts into `out_buf`
(`BufferSize` is 4096 there; `FrameSize` stands for the response line, the beginning and
the end of the page, `TagsSize` for what is put around an item): if the items of a
request, however proper, are longer, the phase is `overflow`. `Meant`, `Fits` and
`Regular` say what a line means without reference to the code's indices. `HeaderToStr`
is the string that the code builds; `http_header_to_str` returns nothing, although
`http.h:126` promises a count; its caller uses only the buffer. The wording of the page
is left out.

**ServerExample.** `edge` is the one unreported event of the edge-triggered
listening socket, `addrlen` the uninitialised `client_address_len`, chosen
afresh for each event: while it is negative, `accept` takes one client, closes it
and fails, so the loop ends, and the others wait for the next arrival. The
signaler is level-triggered and never read. `Epoll_test.c` is the same loop with
only the signaler.

**Sockets.** What Linux does when `endpoint.c` calls it: a backlog, the lowest
free descriptor from `accept`, an edge per change of a socket, `EPOLL_CTL_ADD`
raising an edge if something is there already, `recv` bound to the socket and
not the number. What a client does and the wakeups that follow are steps of their own
(`Wake`): data wakes a socket once, a FIN twice (its state has changed, there is
something to read), a reset twice (state and error). `EpollReport` reports with the flags
of the moment it looks. So a close may be reported by an edge that data raised before
it, and may be reported more than once. `reported` and `repeated` are history variables:
the connections reported with `EPOLLRDHUP`, and whether one of them was so again.
Event masks are cut down to whether
`EPOLLRDHUP` is set; `EPOLLIN` is set in every event the code asks for.

**Endpoint.** One action per system call or critical section, with the thread as
parameter. `connected` is the boolset as a set of indices, `dqueue` the stack,
`queueLock` the stack's lock, which `endpoint_close_hungups` holds throughout.
The other lock only ever surrounds one update, so these are single steps. Two
reads of uninitialised memory are choices: `ep_event.events` after a time-out
(`AcceptTimeout`) and `client_address_len` (`Accept` or `AcceptDrops`).
`endpoint_close` is one step, because its caller has joined every other thread.
`EndpointService` is what the http server relies on: clients come and leave, are
accepted once and in order, and are disconnected after they have left. It
has no descriptors; the mapping takes the connections behind the open ones as the
clients served. A dropped client (`Drop`), and that nothing is promised about who is
disconnected once a hang-up has been reported again (`Repeat`), are part of it, since
the code has both.

**Boolset.** `set` is the struct; a word is the set of its bits that are 1, and
`WordBits` its width. Calls are single steps, except `boolset_foreach`, where each
word read, each bit looked at and each callback is one: the callback may clear
the bit it was called for (`disconnect_all_foreach`), or not. `boolset_get` beyond
the array answers anything. `IndexSet` promises an answer only below `reach`.

**Server, UnixServer, CalcServer.** `Server` has the steps the two programs
share, in the same order; the programs say in which sequence their threads take
them. A worker's `recv` looks up the descriptor and binds to the connection
(`RecvBegins`), later returns (`RecvReads`, `RecvFails`), and `send` looks the
descriptor up again (`Answer`). A send to a socket that was shut down or reset
(`PipeBroken`) may end the process (`BrokenPipe`): SIGPIPE is not handled. In
`UnixServer` a worker may also end it between `recv` and `send` (`AnswerFaults`), with
any request, since `UnixServer` does not know the text: `HttpAnswer` says over which
requests that happens. `answers` records who asked and who was answered. In `CalcServer` a request may be too long
(`RecvTooLong`, `Refuse`), and the worker then takes the steps of
`endpoint_disconnect_client`, which interleave with the acceptor's and with those
of another worker; a division by zero ends the process (`DivideByZero`).

## 3. Runs

| run | instance | distinct states | what it shows |
|---|---|---|---|
| `ring` | 2 values, default size 2, up to 4 cells, every argument of `q_resize` from 0 to 4 | 1 117 | `TypeOK`, `BackFollowsFront`, `ImplementsFifo` |
| `pool` | 3 workers, 2 posters, 2 jobs, ring of 2 cells | 55 178 | `TypeOK`, `PairsWhole`, `QueueOfPairs`, `WorkNeverStranded`, `BreakLeavesNothing`, `ImplementsJobPool`, `PostedJobsRun`, `OneAwakeEndsAll` |
| `server_safety` | 2 clients, 1 request, 2 descriptors, 1 worker; resets of a single client | 3 902 975 | `TypeOK`, `ClientsTracked`, `NothingLeftOpen`, `StackIsCurrent`, `OnlyTheGoneMissOut`, `OnlyTheGoneBreakThePipe`, `ImplementsEndpoint` |
| `server_live` | 1 client with 3 requests or a reset, or 2 that only come and go; 1 descriptor, 1 worker | 163 566 | `HungUpClosed`, `ServedWhenClientsLeave` |
| `calc_safety` | 2 clients, 1 request, 1 descriptor, 2 workers, no resets | 2 518 778 | `TypeOK`, `OpenIsRecorded`, `NothingLeftOpen` |
| `boolset` | words of 2 bits, indices 0 to 4 | 6 076 | `TypeOK`, `ImplementsIndexSet` |
| `threadpool` | 3 workers, 2 posters, 2 jobs | 59 689 | `TypeOK`, `WorkNeverStranded`, `EndOfPool`, `ImplementsJobPool`, `PostedJobsRun`, `OneAwakeEndsAll` |
| `http_answer` | up to 3 lines of up to 5 characters, cut at every place, in the request line too; keys of up to 3 characters, values of up to 2, 2 headers, a page too small for two long headers | 70 248 | `AnswerTypeOK`, `PageShowsRequest`, `FaultsOnlyOnIrregular`, `ReadsBack`, `Answered` |
| `server_example` | 4 clients with resets | 50 922 | `TypeOK`, `NobodyOverlooked`, `WaitingTaken`, `StopEnds` |
| `pool_join_hangs` | 2 workers, 1 job | | `JoinReturns` fails |
| `pool_job_lost` | 2 workers, 2 jobs | | `JoinMeansAllDone` fails |
| `server_stale_close` | 2 clients, 1 descriptor, no resets | | `ClosesOnlyHungUp` fails |

Why the bounds are enough. A ring of two to four cells wraps, grows and shrinks
with values on both sides of the end of the array, and the proofs cover the
rest. Two jobs of two cells overflow a ring of two cells, so that the ring grows while
other threads read its size; three workers
are one to hold the lock, one asleep and one between. Two clients and one
descriptor force the descriptor to be reused and `EMFILE` to occur; two
descriptors add the order of the stack. `MaxSends` counts the requests of all clients
together: one request and a hang-up are three wakeups for one connection already, so
that the descriptor can be in the stack twice before the number is reused. Three requests
in `server_live` let one `recv` take what three posted events stand for, so that the
worker waits with an event still posted. `MCUnixServerLive` bounds what clients do:
either two of them come and go without data or reset, so that a stale entry or event
meets the next owner of the number, or one is alone, with data or
with a reset. Data and reuse together are out of TLC's reach under fairness. It also leaves
out the states after `stop` is set, in which both properties hold by what they say.
The constraint
`Bounded` of `server_safety` has resets only as long as no other client has come, and
lets `main` stop two clients only if they have sent nothing (one client may have);
`calc_safety` has no resets. Without these bounds the runs take longer than minutes, and
the proofs, which are for any number of clients and either value of `MayReset`, stand
for what they leave out. Five indices over words of two bits
need a first growth, a growth by two words at once, and a last word that is half
used. Two workers and one descriptor are what it takes for two disconnects of one
number to overlap with its reuse. Three workers and two jobs of the C++ pool let
one worker read the two ends of the queue around a push and a pop by others. Lines
of five characters hold every order of letters, colon and spaces around a key or
value that just fits or just does not; three lines are one more than
`MaxHeaders`; the cut is at every character, CR and LF included, and before the first of them. Four clients
are one being served, one in the queue, one that comes after the last look, and
one that resets. `MaxCapacity` bounds the ring: a push
at that size is not taken.

Deadlock is not checked where the program is meant to end: after `w_join` or the
pool's destructor, after `main` has returned, when the request is answered, or
when the process is killed.

Fairness. `Workers!FairSpec`: a thread inside a call goes on when it can (weak
fairness), and a thread that tries for the lock gets it if it is free again and
again (strong fairness on `Acquire`): POSIX mutexes are not fair by contract, but
the holders leave the lock for good or sleep between uses, and without it every
program with a contended lock could starve. Nobody is obliged to post or to call
`w_join`; a wait need not wake without a signal. `Threadpool!FairSpec`: the
same. `HttpAnswer`: the thread goes on with its request. `ServerExample`: both
threads go on; nobody is obliged to connect or to stop the server.
`UnixServer!Fairness`: the kernel does not withhold the wakeups of a socket; the
program's threads go on, with time-outs that expire, and strong fairness for the event thread's push to the stack, whose lock
the acceptor leaves for up to a second in each round. Clients are obliged to
nothing: `ServedWhenClientsLeave` has their leaving as a premise.

Reported once. `StackIsCurrent`, `OnlyTheGoneMissOut`, `OnlyTheGoneBreakThePipe` and
the half of `ImplementsEndpoint` that says who is disconnected hold as long as
`epoll_wait` has not reported the hang-up of a connection again: that is their premise
`~repeated`. It is a premise about the kernel's reports and not about the clients: one
plain close may end it, since a FIN wakes a socket twice and an edge raised by data is
reported with the flag if the FIN has come by then, and `endpoint.c:187` pushes on each
report. What the properties show is that this is the only way to a stale entry, whatever
the interleaving of the two threads, the reuse of numbers and the edges that are merged;
`server_stale_close` is what happens otherwise. `ClientsTracked` and `NothingLeftOpen`
have no such premise. In the calculator server
`ClientsTracked` does not hold: two workers may disconnect the same number
(line 44), the second after it was reused, and the number then stays in the
record. Its half `OpenIsRecorded` is what `calc_safety` checks there.

## 4. Where the code departs from what the repository says

With a run that shows it:

1. `w_join` may hang (`pool_join_hangs`, `workers.c:75`): the flag is set and the
   signal sent without the lock, after a worker has tested and before it sleeps.
   `OneAwakeEndsAll` is what remains true: one worker awake wakes all.
2. `w_join` may return with jobs not run (`pool_job_lost`, `workers.c:17`):
   the test of size and flag without the lock. `BreakLeavesNothing` is
   what remains true: the test under the lock leaves no job.
3. `endpoint_close_hungups` may disconnect a client that is there
   (`server_stale_close`, `endpoint.c:188`): one plain close is reported twice, the stack
   has the descriptor twice and the number is reused in between.

Seen in the models, as behaviours the properties leave room for:

4. The C++ pool has the races of 1 and 2 (`Threadpool.cpp:60` and `:27`).
   `OneAwakeEndsAll` and the second half of `EndOfPool` are what remains true.
5. A page may go to another client than the one that asked
   (`Run_unix_srv.c:100`): the descriptor is looked up again for `send`.
   `OnlyTheGoneMissOut` is what remains true as long as no hang-up was reported again:
   only a client that has hung up can miss its answer that way.
6. A client that hangs up while it is being answered may end the server
   (`Run_unix_srv.c:100`): the acceptor shuts its socket down and SIGPIPE is not
   handled. A client that has only closed its sending side (`shutdown` with `SHUT_WR`)
   and still waits for its answer does so too, since `EPOLLRDHUP` is all that
   `endpoint.c:187` looks at. `OnlyTheGoneBreakThePipe` is what remains true as long as
   no hang-up was reported again.
7. `endpoint_accept` may return -1 while the endpoint is open (`endpoint.c:139`),
   because of an uninitialised struct: the http server then accepts nobody any
   more, which `HungUpClosed` allows for.
8. The calculator server never closes clients that hang up
   (`Run_calc_srv.c:98`): `endpoint_close_hungups` is called once, before the loop.
9. A header without a colon ends the process. `http.c:49` means to refuse it, but
   `colon` stops at the length and does not exceed it; the value's length is then
   negative. The same happens with a key or value of spaces only, with a request
   that has no header, and with one whose last LF has not arrived.
   `FaultsOnlyOnIrregular` is what remains true.
10. A line that was cut off by the end of the `recv` may be shown as a header, and
   nothing reads the rest of the request; it becomes a request of its own. Such a
   header may keep a space at its end, since the text is trimmed behind the NUL
   that ends it: `ReadsBack` is about the lines that arrived whole.
11. A request that is cut off before the end of its request line makes the scan of
   `Run_unix_srv.c:50` go on behind `bytes_read`, to the next CR that happens to be on the
   stack, and out of bounds if there is none. If there is one, no later scan goes
   further, and the page is empty (`AnswerTypeOK`, `PageShowsRequest`).
12. A request of regular headers, if they are long enough, overflows the buffers of the
   page (`Run_unix_srv.c:79`, `:93` to `:96`): `strncat` is told the length of what it
   appends. `Answered` leaves room for it.
13. `endpoint_accept` and `side_proc` pass `client_address_len` uninitialised
   (`endpoint.c:147`, `Server_example.c:77`): a negative value closes a client
   that has just come, and in the example leaves the others waiting.

## 5. Proofs

`RingQueueProofs`. From `QueueAssumption` (capacities are powers of two that fit
an `int`, `Garbage` is not a value): `Inv == TypeOK /\ BackFollowsFront /\
QueuedCellsWritten` is inductive. Each conjunct needs the others: which cells
hold values depends on front and size, the next store goes to `back`. The lemmas
`ResizedFacts`, `GrownFacts`, `StoredFacts`, `AdvancedFacts` say what each
operation does to a well-formed struct and to its contents; `MaskedWraps` and
`CellValue` remove the modulus, so that the rest is linear arithmetic. Theorems:
`RingTypeOK`, `RingBackFollowsFront`, `RingQueuedCellsWritten`, and
`RingImplementsFifo`: each step maps to a step of `FifoQueue` or a stutter.
`QueuedCellsWritten` is not among the checks of a run, since `ImplementsFifo` could not
hold without it: a queue of the abstract kind has no unwritten cells.

`WorkersProofs`. From `ThreadsAssumption` (the threads are distinct) and
`DefaultSizeAssumption`: the inductive invariant `Inv` joins control (`TypeOK`;
who is in a critical section holds the lock; a poster in `w_post` has a job; what
a worker has seen under the lock is still so) with `GrowingOK`, `QueueOfPairs`,
`PairsWhole` and `WorkNeverStranded`. Control is needed because a step of one
thread leaves the queue of another's critical section alone only since the lock
excludes it. Each part is preserved in a lemma of its own, by action. Theorems:
`PoolInvariant`, `PoolTypeOK`, `PoolPairsWhole`, `PoolQueueOfPairs`,
`PoolWorkNeverStranded`, `PoolBreakLeavesNothing`, for every number of threads
and jobs. `PoolImplementsJobPool` needs two more facts, inductive beside `Inv`:
`Paired`, that the arguments are every second cell (so that half the cells, rounded
as `FirstArgs` says, are the abstract queue), and `Conserved`, that a job is with a
poster, in one queued argument, held by one worker or finished, never in two of
these. The two middle steps, `PushFn` and `PluckFn`, leave the abstract queue as it is.
`PoolLosesNoJob` adds the other half: every job is in one of them.

`ThreadpoolProofs`. From `ThreadsAssumption` (the threads are distinct) and
`NullAssumption` (a null pointer is no job): `Inv == Control /\ Minded /\
Conserved`. `Control` is types and places, and the mutex. `Minded` says who minds a
queued job while workers sleep: a worker woken or about to notify, or the poster
that pushed it and has not notified yet; `WorkNeverStranded` alone is not
inductive, since it says nothing while the mutex is held. `Conserved` has each
job in exactly one place: not posted, in a poster's hands, queued, held by one
worker, or finished; that is what makes a start in the abstract pool a start of
the first job of its queue, and what `EndOfPool` follows from. Theorems:
`ThreadpoolInvariant`, `ThreadpoolTypeOK`, `ThreadpoolWorkNeverStranded`,
`ThreadpoolEndOfPool`, `ThreadpoolImplementsJobPool`, for every number of
workers, posters and jobs.

The end of both pools, in `WorkersProofs` and `ThreadpoolProofs`. What the liveness
properties `PostedJobsRun` and `OneAwakeEndsAll` rest on is proved for every number of
threads and jobs, from `FiniteThreads` (a process has finitely many threads) besides:

- Where a pool comes to rest (`PoolRestIsOrderly`, `ThreadpoolRestIsOrderly`).
  `AtRest` negates the guards of every step that a thread takes by itself: the workers
  are asleep, gone or kept from the mutex, the posters in no call, the owner in none or
  waiting in the join. Then the mutex is free; if the flag is not set all workers
  sleep and every posted job has been run; jobs are left only if every worker has gone
  (in the C++ pool, by line 27); and if the join does not return, somebody sleeps. So
  there is no deadlock but that of finding 1. It follows from the invariant,
  `WorkNeverStranded` and the conservation of jobs.
- That the end stays certain (`PoolEndIsCertain`, `ThreadpoolEndIsCertain`). `Ends` is
  the premise of `OneAwakeEndsAll`, strengthened until it is inductive: the flag is set
  and a worker is on its way to the mutex, or nobody is about to fall asleep any more
  and there is no sleeper or a worker on its way to the next signal. No step makes it
  false, and a pool at rest in which it holds is one whose join has returned.
- That a pool comes to rest (`PoolSettles`, `ThreadpoolSettles`). `Lowers` is a
  lexicographic order on natural numbers: `Load` weighs the posted jobs by the stage of
  their way, `Room` (only in `Workers`) is a doubling of the queue still to come,
  `Notices` counts the signals that are still to be given, `Way` the steps of each
  thread to the next place where it can rest. Every step lowers it, except for a call of
  post that gets the mutex and a spurious wakeup. A signal wakes a thread that will
  signal in its turn, and a worker goes round its loop again after each job: neither
  goes on for ever. `RoomOK`, that the queue never holds more cells than it has room for,
  is what makes one doubling enough.

What is left to TLC is the step from these to `~>`: that a thread that can go on does,
which is fairness and `ENABLED`.

`BoolsetProofs`. From `BoolsetAssumption` (words have at least one bit, indices
are natural numbers): `TypeOK` is inductive, and enough for the refinement.
`IndexSplits`, `IndexJoins` and `WordsInOrder` are the arithmetic of word and bit;
`MembersByWord` and `PendingByWord` turn the abstract state into statements about
words and bits, `WithBitFacts` is `boolset_set`, `NextMinorPending` a step of the
inner loop. Theorems: `BoolsetTypeOK` and `BoolsetImplementsIndexSet`.

`UnixServerProofs`. From `SocketsAssumption` (there is a descriptor, and
`Nobody` is no client) and `ThreadsAssumption` (the threads are distinct). The inductive
invariant is `Typed /\ StackIsCurrent /\ OnlyTheGoneMissOut /\
OnlyTheGoneBreakThePipe /\ (Killed \/ Upright)`:
a killed process takes no step, and `Upright` describes one that runs. Its parts:
`Staffed` is where each thread may be, and who has ended when `main` joins;
`Tracked` is `ClientsTracked` place by place, inside `endpoint_accept` and
`endpoint_disconnect_client` too; `Distinct` puts each connection behind at most
one descriptor, without which a close could close another socket's connection;
`Current` says that as long as no hang-up has been reported again what is in the stack,
about to be pushed, or being disconnected has hung up, has been reported and is there
once, so that another push of it would be a repeated report; `Asking` is, under the same
premise, what a worker knows of the descriptor it will answer to. The stack alone is not enough: it stays current because a
descriptor is removed from the stack before it is closed, and closed before it
can be reused. Theorems: `UnixServerInvariant`, `UnixServerTypeOK`,
`UnixServerClientsTracked`, `UnixServerNothingLeftOpen`,
`UnixServerStackIsCurrent`, `UnixServerOnlyTheGoneMissOut`,
`UnixServerOnlyTheGoneBreakThePipe` (a socket that is open and shut down is the one the
acceptor is closing: lemma `PipeOfTheGone`), and
`UnixServerImplementsEndpoint`: an accept is a step of the abstract endpoint because
the connection is behind no other descriptor (`Distinct`), a close because its client
has hung up unless there was a repeated report (`Current`), `endpoint_close` because the record has
every open socket once the acceptor has ended (`Tracked`).

`CalcServerProofs`. From the same assumptions; `Distinct` and `Current` do not
hold here. `Recorded` says of each open socket that it is in the record and the
epoll set, or on its way in, or that some worker is past
`endpoint_deregister_client` and will close that number, whichever client it meant.
Theorems: `CalcServerInvariant`, `CalcServerTypeOK`, `CalcServerOpenIsRecorded`,
`CalcServerNothingLeftOpen`. `ServerProofs` has what both need: `Typed`, and that
each shared step keeps it.

`ServerExampleProofs`. From `NoneAssumption`: `Types`, `Queued` (a client that has come
is in the backlog or being served, once), `Watching` (who is alive while the
listening socket is watched, and that the event raised before the thread started is
still there) and `NobodyOverlooked` are inductive together. Theorems:
`ServerExampleTypeOK`, `ServerExampleNobodyOverlooked`.

The page, in `UnixServerProofs`: `html_answer` is part of that program. From
`RequestsAssumption` (every request is `Proper`, with any number of lines of any
length, and cut off anywhere, in the request line too), `SizesAssumption`,
`LeftoversAssumption`, `MaxLengthsAssumption` and `MaxHeadersAssumption`. A buffer is
a function, so what the operators of `HttpHeaders` return is proved without
induction, from least and greatest elements (`MinFacts`, `MaxFacts`):

- `WholeLine`: on a line that arrived whole, `http_str_to_header` returns exactly
  what `Meant`, `Fits` and `Regular` say; `NoColonNoHeader` and `CutLine` are the
  other lines; `HeaderReadsBack` is the round trip over `http_header_to_str`.
- `BufferFacts`: where CR, LF and NUL are in what arrived; `ParseWhole`, `ParseCut`
  and `ParseEmpty`: what a round of `http_str_to_headers` does to the line it is at.

`AnswerInv == HeadedInv \/ HeadlessInv` is inductive. `HeadlessInv` is a request whose
request line did not arrive whole: the scan stopped at some CR of the stack, or nowhere,
the headers begin and end there, and there are none. `HeadedInv` has the others:
`Bounded` says how far behind the received characters
`header_end` can be, depending on whether they end in CR or CR LF (this is what
excludes a header made of what lies behind the request); `Scanning` and `Scanned`
say that the scan is at the beginning of a line and stops at the empty line if all
of the request arrived; `Listed` says that the headers found so far are those of
the lines before `line_start`, one each and in order, plus at most one for a line
that was cut off. `PageShowsRequest` is not inductive, since it speaks only of the end.
Theorems: `AnswerInvariant`, `AnswerTypeCorrect` (the ranges of the indices, which
depend on whether the CR that ends the request line was received), `PageIsRight`,
`FaultsOnlyOverIrregularLines`, `PageReadsBack`; and `AnswerComesToAnEnd`, an action property: each step leaves a
smaller `StepsLeft`, a natural number that begins at twice what was received plus
nine. It is the part of `Answered` that is in the prover's reach: no loop behind the scan of
line 50 goes on for ever, whatever the length of the request; that the thread takes its steps is fairness.

Every invariant that a run checks, and every refinement, is a theorem. Only
model-checked: the liveness properties, which are out of the prover's reach. Of
those of the two pools and of `html_answer` the safety part is proved, as said above.

## 6. Not modelled, and the plan

The plan is done but for the liveness properties: those have runs, and no proofs of
the step from fairness to the promise. `HungUpClosed`, `ServedWhenClientsLeave`,
`WaitingTaken` and `StopEnds` have no proved safety part either.

Left out for good: the text of the calculators' requests and answers (data, not
control; the division is in `CalcServer`); the UDP calculator, which is one
thread around `recvfrom` and `sendto` with no state from one datagram to the
next; `http_header_set`, which only tests call, and `http_count_headers`, which is
empty; the linked nodes of `stack.c`; `endpoint2.c` (commented out of
`src/unix/CMakeLists.txt:4`); `Run.c`, which prints a line; and memory layout (the
write in front of `in_buf` in `Run_unix_srv.c:34`; what an overrun or an overflow does
to the process). Not reached by any instance: the overflow of `1 << msb` in `q_resize`
at 2^31 cells.
