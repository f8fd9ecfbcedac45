------------------------------- MODULE Server -------------------------------
(***************************************************************************)
(* What the two server programs, apps/Run_unix_srv.c and                   *)
(* apps/Run_calc_srv.c, have in common: an acceptor thread and an event    *)
(* thread share one endpoint, the event thread posts client_event to the   *)
(* thread pool, main waits for input and shuts everything down.            *)
(*                                                                         *)
(* The pool is what module Workers shows it to implement: posted jobs are  *)
(* started once, in order, by some worker.  Nothing here relies on w_join  *)
(* draining it, nor on w_join returning.                                   *)
(***************************************************************************)
EXTENDS Endpoint

CONSTANTS
    Workers,     \* the threads of the pool
    Acceptor,    \* accept_proc
    Selector,    \* client_event_processor
    Main

Threads == Workers \cup {Acceptor, Selector, Main}

ASSUME ThreadsAssumption ==
    /\ Acceptor \notin Workers \cup {Selector, Main}
    /\ Selector \notin Workers \cup {Main}
    /\ Main \notin Workers
    /\ NoThread \notin Threads

VARIABLES
    stop,       \* the global of that name
    posted,     \* the pool's queue: the descriptors of the posted events
    job,        \* the descriptor a worker handles, NoFd for none
    asker,      \* the connection a worker's recv reads from
    answers     \* <<asker, receiver>> of every answer sent

serverVars == <<stop, posted, job, asker, answers>>

vars == <<socketVars, endpointVars, serverVars>>

Running == pc[Main] \notin {"killed", "exited"}

(* A signal that nobody handles ends every thread.                         *)
Kill == pc' = [t \in Threads |-> "killed"]

------------------------------------------------------------------------------
(* client_event_processor.                                                 *)

(* The stop flag, w_post if there was an event, and round again.           *)
CheckEvent ==
    /\ pc[Selector] = "reported"
    /\ IF stop
       THEN Goto(Selector, "ended") /\ UNCHANGED posted
       ELSE /\ Goto(Selector, "event_wait")
            /\ posted' = IF event = NoFd THEN posted ELSE Append(posted, event)
    /\ UNCHANGED <<socketVars, connected, dqueue, queueLock, newFd, event, closing,
                   stop, job, asker, answers>>

------------------------------------------------------------------------------
(* client_event, run by the workers: recv, and the answer.                 *)

(* After w_join has returned there are no workers.                         *)
TakeJob(w) ==
    /\ pc[w] = "idle"
    /\ pc[Main] \notin {"endpoint_close", "exited"}
    /\ posted # <<>>
    /\ job' = [job EXCEPT ![w] = Head(posted)]
    /\ posted' = Tail(posted)
    /\ Goto(w, "recv")
    /\ UNCHANGED <<socketVars, connected, dqueue, queueLock, newFd, event, closing,
                   stop, asker, answers>>

(* recv looks the descriptor up; from then on it is bound to the           *)
(* connection, whatever happens to the descriptor.                         *)
RecvBegins(w) ==
    /\ pc[w] = "recv"
    /\ Open(job[w])
    /\ asker' = [asker EXCEPT ![w] = sockOf[job[w]]]
    /\ Goto(w, "receiving")
    /\ UNCHANGED <<socketVars, connected, dqueue, queueLock, newFd, event, closing,
                   stop, posted, job, answers>>

(* The accepted sockets block until there is something to read.            *)
RecvReads(w) ==
    /\ pc[w] = "receiving"
    /\ unread[asker[w]]
    /\ unread' = [unread EXCEPT ![asker[w]] = FALSE]
    /\ Goto(w, "answer")
    /\ UNCHANGED <<listening, backlog, sockOf, shut, interest, edges, peer, sends, wakes,
                   reportVars, connected, dqueue, queueLock, newFd, event, closing, serverVars>>

JobDone(w) ==
    /\ job' = [job EXCEPT ![w] = NoFd]
    /\ asker' = [asker EXCEPT ![w] = Nobody]
    /\ Goto(w, "idle")

(* Faulty variant: recv is tried again after it failed.                    *)
RecvRetries(w) ==
    /\ \/ pc[w] = "recv" /\ ~Open(job[w])
       \/ /\ pc[w] = "receiving"
          /\ ~unread[asker[w]]
          /\ HungUp(asker[w]) \/ asker[w] \in shut
    /\ Goto(w, "recv")
    /\ UNCHANGED <<socketVars, connected, dqueue, queueLock, newFd, event, closing, serverVars>>

(* recv returns 0 or -1 and so does the handler.                           *)
RecvFails(w) ==
    /\ \/ pc[w] = "recv" /\ ~Open(job[w])
       \/ /\ pc[w] = "receiving"
          /\ ~unread[asker[w]]
          /\ HungUp(asker[w]) \/ asker[w] \in shut
    /\ JobDone(w)
    /\ UNCHANGED <<socketVars, connected, dqueue, queueLock, newFd, event, closing,
                   stop, posted, answers>>

(* send looks the descriptor up again.                                     *)
SendAnswer(w) ==
    answers' = IF Open(job[w]) /\ sockOf[job[w]] \notin shut
               THEN answers \cup {<<asker[w], sockOf[job[w]]>>}
               ELSE answers

Answer(w) ==
    /\ pc[w] = "answer"
    /\ SendAnswer(w)
    /\ JobDone(w)
    /\ UNCHANGED <<socketVars, connected, dqueue, queueLock, newFd, event, closing,
                   stop, posted>>

PipeBroken(w) ==
    /\ Open(job[w])
    /\ sockOf[job[w]] \in shut \/ peer[sockOf[job[w]]] = "rst"

(* A send to a socket that was shut down or reset raises SIGPIPE.          *)
BrokenPipe(w) ==
    /\ pc[w] \in {"answer", "refuse"}
    /\ PipeBroken(w)
    /\ Kill
    /\ UNCHANGED <<socketVars, connected, dqueue, queueLock, newFd, event, closing, serverVars>>

------------------------------------------------------------------------------
(* main.                                                                   *)

Stop ==
    /\ pc[Main] = "up"
    /\ stop' = TRUE
    /\ Goto(Main, "join_acceptor")
    /\ UNCHANGED <<socketVars, connected, dqueue, queueLock, newFd, event, closing,
                   posted, job, asker, answers>>

JoinThread(t, here, next) ==
    /\ pc[Main] = here
    /\ pc[t] = "ended"
    /\ Goto(Main, next)
    /\ UNCHANGED <<socketVars, connected, dqueue, queueLock, newFd, event, closing, serverVars>>

(* w_join may leave jobs in the queue.                                     *)
JoinPool ==
    /\ pc[Main] = "w_join"
    /\ \A w \in Workers : pc[w] = "idle"
    /\ Goto(Main, "endpoint_close")
    /\ UNCHANGED <<socketVars, connected, dqueue, queueLock, newFd, event, closing, serverVars>>

------------------------------------------------------------------------------
(* The clients and the kernel, as long as there is a server.               *)
ClientStep(c) ==
    \/ Running /\ Connect(c) /\ UNCHANGED <<endpointVars, serverVars>>
    \/ Running /\ Send(c) /\ UNCHANGED <<endpointVars, serverVars>>
    \/ Running /\ HangUp(c) /\ UNCHANGED <<endpointVars, serverVars>>
    \/ Running /\ Reset(c) /\ UNCHANGED <<endpointVars, serverVars>>
    \/ Running /\ Wake(c) /\ UNCHANGED <<endpointVars, serverVars>>

ServerInit(acceptorStart) ==
    /\ SocketsInit
    /\ EndpointInit(Threads)
    /\ pc = [t \in Threads |-> CASE t = Acceptor -> acceptorStart
                                 [] t = Selector -> "event_wait"
                                 [] t = Main -> "up"
                                 [] OTHER -> "idle"]
    /\ stop = FALSE
    /\ posted = <<>>
    /\ job = [w \in Workers |-> NoFd]
    /\ asker = [w \in Workers |-> Nobody]
    /\ answers = {}

------------------------------------------------------------------------------
(* Properties of both programs.                                            *)

Places ==
    {"accept_wait", "accept", "register", "add", "accepted", "hup_lock", "pop",
     "deregister", "delete", "shutdown", "close", "ended", "event_wait", "enqueue",
     "reported", "idle", "recv", "receiving", "answer", "refuse", "disconnected", "up", "join_acceptor",
     "join_selector", "w_join", "endpoint_close", "exited", "killed"}

(* The values of the kernel's, the endpoint's and the program's state.     *)
TypeOK ==
    /\ listening \in BOOLEAN
    /\ backlog \in Seq(Conns)
    /\ sockOf \in [Fds -> Conns \cup {Nobody}]
    /\ shut \subseteq Conns
    /\ interest \subseteq Fds
    /\ edges \subseteq interest
    /\ peer \in [Conns -> {"away", "open", "fin", "rst"}]
    /\ unread \in [Conns -> BOOLEAN]
    /\ sends \in 0..MaxSends
    /\ wakes \in [Conns -> 0..2]
    /\ reported \subseteq Conns
    /\ repeated \in BOOLEAN
    /\ connected \subseteq Fds
    /\ dqueue \in Seq(Fds)
    /\ queueLock \in {NoThread, Acceptor}
    /\ pc \in [Threads -> Places]
    /\ newFd \in Fds \cup {NoFd}
    /\ event \in Fds \cup {NoFd}
    /\ closing \in [Threads -> Fds \cup {NoFd}]
    /\ stop \in BOOLEAN
    /\ posted \in Seq(Fds)
    /\ job \in [Workers -> Fds \cup {NoFd}]
    /\ asker \in [Workers -> Conns \cup {Nobody}]
    /\ answers \subseteq Conns \X Conns

(* The descriptors that a thread is opening or closing.                    *)
InHand ==
    {newFd} \cup {closing[t] : t \in {u \in Threads : pc[u] \in {"delete", "shutdown", "close"}}}

(* endpoint.h:14: the endpoint keeps a live record of the clients that are *)
(* connected.  Apart from descriptors in a thread's hands the record, the  *)
(* process's open sockets and the epoll set agree, through descriptors     *)
(* that are reused and entries of the stack that are out of date.          *)
ClientsTracked ==
    pc[Main] # "killed" =>
        \A f \in Fds \ InHand :
            /\ Open(f) <=> f \in connected
            /\ Open(f) <=> f \in interest

(* endpoint_close (``forcefully disconnect all clients'') leaves no client *)
(* connected, however the threads ended before it.                         *)
NothingLeftOpen ==
    pc[Main] = "exited" => ~listening /\ \A f \in Fds : ~Open(f)

(* Liveness: the socket of a client that hung up gets closed, unless the   *)
(* program stops, dies or its acceptor gives up.                           *)
Ended == stop \/ ~Running \/ pc[Acceptor] = "ended"

Connected(c) == \E f \in Fds : sockOf[f] = c

HungUpClosed ==
    \A c \in Conns : (HungUp(c) /\ Connected(c)) ~> (~Connected(c) \/ Ended)
==============================================================================
