----------------------------- MODULE UnixServer -----------------------------
(***************************************************************************)
(* apps/Run_unix_srv.c: the acceptor closes hung-up clients in every       *)
(* round, the workers answer requests with a page.                         *)
(***************************************************************************)
EXTENDS Server

(* accept_proc, after each endpoint_accept.                                *)
CheckAccept ==
    /\ pc[Acceptor] = "accepted"
    /\ Goto(Acceptor, IF stop THEN "ended" ELSE "hup_lock")
    /\ UNCHANGED <<socketVars, connected, dqueue, queueLock, newFd, event, closing, serverVars>>

AcceptorStep ==
    \/ AcceptWait(Acceptor) /\ UNCHANGED serverVars
    \/ AcceptTimeout(Acceptor, "ended") /\ UNCHANGED serverVars
    \/ Accept(Acceptor) /\ UNCHANGED serverVars
    \/ AcceptDrops(Acceptor, "accepted") /\ UNCHANGED serverVars
    \/ AcceptNone(Acceptor, "accepted") /\ UNCHANGED serverVars
    \/ Register(Acceptor) /\ UNCHANGED serverVars
    \/ Add(Acceptor, "accepted") /\ UNCHANGED serverVars
    \/ CheckAccept
    \/ HupLock(Acceptor) /\ UNCHANGED serverVars
    \/ Pop(Acceptor) /\ UNCHANGED serverVars
    \/ HupUnlock(Acceptor, "accept_wait") /\ UNCHANGED serverVars
    \/ Deregister(Acceptor) /\ UNCHANGED serverVars
    \/ Delete(Acceptor) /\ UNCHANGED serverVars
    \/ ShutDownClient(Acceptor) /\ UNCHANGED serverVars
    \/ CloseClient(Acceptor, "pop") /\ UNCHANGED serverVars

(* client_event_processor.                                                 *)
SelectorStep ==
    \/ EventReady(Selector, "reported") /\ UNCHANGED serverVars
    \/ EventVanishes(Selector) /\ UNCHANGED serverVars
    \/ EventTimeout(Selector, "reported") /\ UNCHANGED serverVars
    \/ Enqueue(Selector, "reported") /\ UNCHANGED serverVars
    \/ CheckEvent

(* html_answer may not get from recv to send: module HttpAnswer says when. *)
AnswerFaults(w) ==
    /\ pc[w] = "answer"
    /\ Kill
    /\ UNCHANGED <<socketVars, connected, dqueue, queueLock, newFd, event, closing, serverVars>>

(* client_event and html_answer.                                           *)
WorkerStep(w) ==
    \/ TakeJob(w)
    \/ RecvBegins(w)
    \/ RecvReads(w)
    \/ RecvFails(w)
    \/ Answer(w)
    \/ BrokenPipe(w)
    \/ AnswerFaults(w)

MainStep ==
    \/ JoinThread(Acceptor, "join_acceptor", "join_selector")
    \/ JoinThread(Selector, "join_selector", "w_join")
    \/ JoinPool
    \/ EndpointClose(Main, "exited") /\ UNCHANGED serverVars

Init == ServerInit("accept_wait")

Next ==
    \/ \E c \in Conns : ClientStep(c)
    \/ AcceptorStep
    \/ SelectorStep
    \/ \E w \in Workers : WorkerStep(w)
    \/ Stop
    \/ MainStep

Spec == Init /\ [][Next]_vars

(* Every thread goes on while it can; time-outs expire.  The acceptor holds*)
(* the lock of the stack over and over, but sleeps up to a second between, *)
(* so that the event thread gets it too.  The kernel does not withhold the *)
(* wakeups of a socket.  Clients and the operator may do nothing.          *)
Fairness ==
    /\ \A c \in Conns : WF_vars(Running /\ Wake(c) /\ UNCHANGED <<endpointVars, serverVars>>)
    /\ WF_vars(AcceptorStep)
    /\ WF_vars(SelectorStep)
    /\ SF_vars(Enqueue(Selector, "reported") /\ UNCHANGED serverVars)
    /\ \A w \in Workers : WF_vars(WorkerStep(w))
    /\ WF_vars(MainStep)

FairSpec == Spec /\ Fairness

------------------------------------------------------------------------------
(* Properties.                                                             *)

(* The stack's entries are mere numbers of descriptors that get reused.    *)
(* What keeps them current is that a hung-up client is reported once: as   *)
(* long as none has been reported again, each entry, and the event about   *)
(* to be pushed, is an open socket whose client has hung up, and none is   *)
(* there twice.  So each entry popped is one client closed, as the count   *)
(* that endpoint_close_hungups returns (endpoint.h:62) needs, and nobody   *)
(* else is.  The kernel does not promise it: a plain close wakes a socket  *)
(* twice, and endpoint.c:187 pushes on every report (ClosesOnlyHungUp).    *)
StackIsCurrent ==
    LET entries == IF pc[Selector] = "enqueue" THEN StackPush(dqueue, event) ELSE dqueue
    IN  ~repeated =>
            /\ \A i \in DOMAIN entries : Open(entries[i]) /\ HungUp(sockOf[entries[i]])
            /\ \A i, k \in DOMAIN entries : entries[i] = entries[k] => i = k

(* As long as no hang-up has been reported again, an answer reaches        *)
(* somebody else than the asker only if the asker has hung up: html_answer *)
(* looks the descriptor up again after recv, possibly after it was closed  *)
(* and given away.                                                         *)
OnlyTheGoneMissOut ==
    ~repeated => \A a \in answers : a[1] = a[2] \/ HungUp(a[1])

(* As long as no hang-up has been reported again, html_answer sends into a *)
(* socket that was shut down or reset (SIGPIPE, the end of the server)     *)
(* only if the client behind the descriptor has at least shut down its     *)
(* sending side: endpoint_close_hungups closes it under the worker.  Such a*)
(* client may still be waiting for its answer.                             *)
OnlyTheGoneBreakThePipe ==
    ~repeated =>
        \A w \in Workers : pc[w] = "answer" /\ PipeBroken(w) => HungUp(sockOf[job[w]])

(* The endpoint of the http server implements the abstract one, although   *)
(* it works with numbers that are reused, and its record, stack and epoll  *)
(* set are changed by two threads: clients are accepted once and in order, *)
(* each close is the disconnection of one client that has hung up (as long *)
(* as no hang-up has been reported again), and endpoint_close reaches all  *)
(* of them.                                                                *)
Service == INSTANCE EndpointService WITH
    closed <- ~listening,
    arrived <- {c \in Conns : peer[c] # "away"},
    left <- {c \in Conns : HungUp(c)},
    waiting <- backlog,
    served <- {sockOf[f] : f \in {g \in Fds : Open(g)}}

ImplementsEndpoint == Service!Spec

(* Liveness: a worker may block in recv on a quiet client.  If every       *)
(* client that connects eventually hangs up, no posted event stays behind. *)
ServedWhenClientsLeave ==
    (\A c \in Conns : [](peer[c] = "open" => <>(peer[c] # "open" \/ c \in shut)))
        => (posted # <<>> ~> (posted = <<>> \/ stop \/ ~Running))

------------------------------------------------------------------------------
(* What the repository says of the program, and the code does not do.      *)

(* endpoint.h:56: endpoint_close_hungups disconnects clients that have     *)
(* closed the socket on their end, and nobody else.  The stack holds       *)
(* numbers, and one close may put a number there twice; between the second *)
(* push and its pop the number may come to mean another client.            *)
ClosesOnlyHungUp ==
    [][\A f \in Fds : pc[Acceptor] = "close" /\ Open(f) /\ ~Open(f)' => HungUp(sockOf[f])]_vars
==============================================================================
