---------------------------- MODULE UnixServerProofs ----------------------------
(***************************************************************************)
(* Proofs about the http server program, for any number of clients,        *)
(* descriptors and workers.                                                *)
(***************************************************************************)
EXTENDS UnixServer, ServerProofs, HttpAnswer,
        FiniteSetTheorems, SequenceTheorems, WellFoundedInduction

------------------------------------------------------------------------------
(* The inductive invariant.                                                *)

(* Where the threads may be, and in which order main joins them.           *)
Staffed ==
    /\ pc[Acceptor] \in {"accept_wait", "accept", "register", "add", "accepted",
                         "hup_lock", "pop", "ended"} \cup Disconnecting
    /\ pc[Selector] \in {"event_wait", "enqueue", "reported", "ended"}
    /\ \A w \in Workers : pc[w] \in {"idle", "recv", "receiving", "answer"}
    /\ pc[Main] \in {"up", "join_acceptor", "join_selector", "w_join", "endpoint_close", "exited"}
    /\ pc[Main] \in {"join_selector", "w_join", "endpoint_close", "exited"} => pc[Acceptor] = "ended"
    /\ pc[Main] \in {"w_join", "endpoint_close", "exited"} => pc[Selector] = "ended"
    /\ pc[Main] \in {"endpoint_close", "exited"} => \A w \in Workers : pc[w] = "idle"
    /\ newFd \in Fds <=> pc[Acceptor] \in {"register", "add"}

(* Record and epoll set against the open sockets, place by place.          *)
Tracked ==
    /\ pc[Acceptor] \in {"register", "add"} => Open(newFd)
    /\ \A f \in Fds :
          /\ f \in connected <=>
                /\ Open(f)
                /\ ~(pc[Acceptor] = "register" /\ f = newFd)
                /\ ~(pc[Acceptor] \in {"delete", "shutdown", "close"} /\ f = closing[Acceptor])
          /\ f \in interest <=>
                /\ Open(f)
                /\ ~(pc[Acceptor] \in {"register", "add"} /\ f = newFd)
                /\ ~(pc[Acceptor] \in {"shutdown", "close"} /\ f = closing[Acceptor])

(* A connection is in one place: not made yet, in the backlog, behind one  *)
(* descriptor, or closed; it is shut down and open only between the two    *)
(* last calls of endpoint_disconnect_client.                               *)
Distinct ==
    /\ \A f, g \in Fds : Open(f) /\ sockOf[f] = sockOf[g] => f = g
    /\ \A i, k \in DOMAIN backlog : backlog[i] = backlog[k] => i = k
    /\ \A i \in DOMAIN backlog :
          /\ peer[backlog[i]] # "away"
          /\ backlog[i] \notin shut
          /\ \A f \in Fds : sockOf[f] # backlog[i]
    /\ \A f \in Fds : Open(f) => peer[sockOf[f]] # "away"
    /\ \A c \in shut : peer[c] # "away"
    /\ \A f \in Fds : Open(f) /\ sockOf[f] \in shut =>
          pc[Acceptor] = "close" /\ closing[Acceptor] = f

(* The stack with the event about to be pushed.                            *)
Entries == IF pc[Selector] = "enqueue" THEN StackPush(dqueue, event) ELSE dqueue

(* As long as no hang-up has been reported again, what is in the stack or  *)
(* being disconnected is a client that has hung up, was reported so, and is*)
(* there once: the next report is of another client.                       *)
Current ==
    ~repeated =>
        /\ \A i \in DOMAIN Entries :
              /\ Entries[i] \in interest
              /\ HungUp(sockOf[Entries[i]]) /\ sockOf[Entries[i]] \in reported
        /\ \A i, k \in DOMAIN Entries : Entries[i] = Entries[k] => i = k
        /\ pc[Acceptor] \in Disconnecting =>
              /\ Open(closing[Acceptor])
              /\ HungUp(sockOf[closing[Acceptor]]) /\ sockOf[closing[Acceptor]] \in reported
              /\ \A i \in DOMAIN Entries : Entries[i] # closing[Acceptor]

(* Under the same premise the descriptor a worker will answer to is the    *)
(* asker's, or the asker has hung up.                                      *)
Asking ==
    ~repeated =>
        \A w \in Workers : pc[w] \in {"receiving", "answer"} =>
            sockOf[job[w]] = asker[w] \/ HungUp(asker[w])

Upright == Staffed /\ Tracked /\ Distinct /\ Current /\ Asking /\ NothingLeftOpen

Inv ==
    /\ Typed
    /\ StackIsCurrent
    /\ OnlyTheGoneMissOut
    /\ OnlyTheGoneBreakThePipe
    /\ Killed \/ Upright

------------------------------------------------------------------------------
(* A killed process takes no step.                                         *)
LEMMA KilledIsFinal == Killed => ~Next
<1> SUFFICES ASSUME Killed, Next PROVE FALSE
  OBVIOUS
<1> USE ThreadFacts DEF Killed
<1>1. ~\E c \in Conns : ClientStep(c)
  BY DEF ClientStep, Running
<1>2. ~AcceptorStep
  BY DEF AcceptorStep, AcceptWait, AcceptTimeout, Accept, AcceptDrops, AcceptNone, Register, Add,
         CheckAccept, HupLock, Pop, HupUnlock, Deregister, Delete, ShutDownClient, CloseClient,
     changeVars, reportVars
<1>3. ~SelectorStep
  BY DEF SelectorStep, EventReady, EventVanishes, EventTimeout, Enqueue, CheckEvent,
     changeVars, reportVars, EpollReport
<1>4. ~\E w \in Workers : WorkerStep(w)
  BY DEF WorkerStep, TakeJob, RecvBegins, RecvReads, RecvFails, Answer, BrokenPipe, AnswerFaults,
     changeVars, reportVars
<1>5. ~Stop /\ ~MainStep
  BY DEF Stop, MainStep, JoinThread, JoinPool, EndpointClose, changeVars, reportVars
<1>6. QED
  BY <1>1, <1>2, <1>3, <1>4, <1>5 DEF Next

(* Types.                                                                  *)
LEMMA NextTyped == Typed /\ Next => Typed'
<1> SUFFICES ASSUME Typed, Next PROVE Typed'
  OBVIOUS
<1>1. CASE \E c \in Conns : ClientStep(c)
  BY <1>1, ClientTyped
<1>2. CASE AcceptorStep
  <2>1. CASE CheckAccept
    <3>1. pc' \in [Threads -> Places] /\ pc'[Acceptor] \in {"ended", "hup_lock"}
          /\ \A t \in Threads \ {Acceptor} : pc'[t] = pc[t]
      BY <2>1, ThreadFacts DEF CheckAccept, Goto, Typed, Places
    <3>2. UNCHANGED socketVars /\ UNCHANGED serverVars
          /\ UNCHANGED <<connected, dqueue, queueLock, newFd, event, closing>>
      BY <2>1 DEF CheckAccept
    <3>3. QED
      BY <3>1, <3>2, ThreadFacts DEF Typed, SocketTypes, EndpointTypes, ServerTypes, Held,
         Disconnecting, socketVars, serverVars, changeVars, reportVars
  <2>2. QED
    BY <1>2, <2>1, AcceptTyped, HupTyped, DisconnectTyped, ThreadFacts DEF AcceptorStep, Resting
<1>3. CASE SelectorStep
  BY <1>3, EventTyped, ProgramTyped DEF SelectorStep, Resting
<1>4. CASE \E w \in Workers : WorkerStep(w)
  <2>1. PICK w \in Workers : WorkerStep(w)
    BY <1>4
  <2>2. CASE AnswerFaults(w)
    BY <2>2 DEF AnswerFaults, Kill, Typed, SocketTypes, EndpointTypes, ServerTypes, Held, Places,
       Disconnecting, Threads, socketVars, serverVars, changeVars, reportVars
  <2>3. QED
    BY <2>1, <2>2, WorkerTyped DEF WorkerStep
<1>5. CASE Stop \/ MainStep
  BY <1>5, ProgramTyped DEF MainStep
<1>6. QED
  BY <1>1, <1>2, <1>3, <1>4, <1>5 DEF Next

(* Places.                                                                 *)
LEMMA NextStaffed ==
    ASSUME Typed, Staffed, Next
    PROVE  Staffed' \/ Killed'
<1> USE ThreadFacts, FdFacts DEF Typed, EndpointTypes, Staffed, Disconnecting, Goto
<1>1. CASE \E c \in Conns : ClientStep(c)
  BY <1>1 DEF ClientStep, endpointVars
<1>2. CASE AcceptorStep
  <2>1. CASE \/ AcceptWait(Acceptor) \/ AcceptTimeout(Acceptor, "ended")
             \/ AcceptDrops(Acceptor, "accepted") \/ AcceptNone(Acceptor, "accepted")
    BY <2>1 DEF AcceptWait, AcceptTimeout, AcceptDrops, AcceptNone, changeVars, reportVars
  <2>2. CASE Accept(Acceptor)
    BY <2>2, LowestFreeFacts DEF Accept, changeVars, reportVars
  <2>3. CASE Register(Acceptor) \/ Add(Acceptor, "accepted")
    BY <2>3 DEF Register, Add, changeVars, reportVars
  <2>4. CASE CheckAccept
    BY <2>4 DEF CheckAccept
  <2>5. CASE HupLock(Acceptor) \/ Pop(Acceptor) \/ HupUnlock(Acceptor, "accept_wait")
    BY <2>5 DEF HupLock, Pop, HupUnlock
  <2>6. CASE Deregister(Acceptor) \/ Delete(Acceptor) \/ ShutDownClient(Acceptor) \/ CloseClient(Acceptor, "pop")
    BY <2>6 DEF Deregister, Delete, ShutDownClient, CloseClient, changeVars, reportVars
  <2>7. QED
    BY <1>2, <2>1, <2>2, <2>3, <2>4, <2>5, <2>6 DEF AcceptorStep
<1>3. CASE SelectorStep
  BY <1>3 DEF SelectorStep, EventReady, EventVanishes, endpointVars, EventTimeout, Enqueue, CheckEvent,
     changeVars, reportVars, EpollReport
<1>4. ASSUME NEW w \in Workers, WorkerStep(w) PROVE Staffed' \/ Killed'
  <2>1. CASE BrokenPipe(w) \/ AnswerFaults(w)
    BY <2>1 DEF BrokenPipe, AnswerFaults, Kill, Killed
  <2>2. CASE TakeJob(w) \/ RecvBegins(w) \/ RecvReads(w) \/ RecvFails(w) \/ Answer(w)
    BY <2>2 DEF TakeJob, RecvBegins, RecvReads, RecvFails, Answer, JobDone,
       changeVars, reportVars
  <2>3. QED
    BY <1>4, <2>1, <2>2 DEF WorkerStep
<1>5. CASE Stop \/ MainStep
  BY <1>5 DEF Stop, MainStep, JoinThread, JoinPool, EndpointClose, serverVars,
     changeVars, reportVars
<1>6. QED
  BY <1>1, <1>2, <1>3, <1>4, <1>5 DEF Next

------------------------------------------------------------------------------
(* Record and epoll set.                                                   *)

(* The acceptor alone opens, records, watches and closes.                  *)
AcceptorAside ==
    /\ pc'[Acceptor] = pc[Acceptor]
    /\ UNCHANGED <<sockOf, shut, interest, connected, newFd, closing>>

LEMMA WorkersAside ==
    ASSUME Typed, NEW w \in Workers, WorkerStep(w)
    PROVE  AcceptorAside \/ Killed'
<1> USE ThreadFacts DEF Typed, Goto, AcceptorAside, socketVars, changeVars, reportVars
<1>1. CASE BrokenPipe(w) \/ AnswerFaults(w)
  BY <1>1 DEF BrokenPipe, AnswerFaults, Kill, Killed
<1>2. CASE TakeJob(w) \/ RecvBegins(w) \/ RecvReads(w) \/ RecvFails(w) \/ Answer(w)
  BY <1>2 DEF TakeJob, RecvBegins, RecvReads, RecvFails, Answer, JobDone, changeVars, reportVars
<1>3. QED
  BY <1>1, <1>2 DEF WorkerStep

LEMMA OthersAside ==
    ASSUME Typed,
           \/ \E c \in Conns : ClientStep(c)
           \/ SelectorStep
           \/ Stop
           \/ JoinThread(Acceptor, "join_acceptor", "join_selector")
           \/ JoinThread(Selector, "join_selector", "w_join")
           \/ JoinPool
    PROVE  AcceptorAside
<1> USE ThreadFacts DEF Typed, Goto, AcceptorAside, socketVars, changeVars, reportVars
<1>1. CASE \E c \in Conns : ClientStep(c)
  BY <1>1 DEF ClientStep, Connect, Send, HangUp, Reset, Wake, endpointVars
<1>2. CASE SelectorStep
  BY <1>2 DEF SelectorStep, EventReady, EventVanishes, EventTimeout, Enqueue, CheckEvent, endpointVars,
     changeVars, reportVars, EpollReport
<1>3. CASE \/ Stop \/ JoinPool
           \/ JoinThread(Acceptor, "join_acceptor", "join_selector")
           \/ JoinThread(Selector, "join_selector", "w_join")
  BY <1>3 DEF Stop, JoinPool, JoinThread
<1>4. QED
  BY <1>1, <1>2, <1>3

LEMMA NextTracked ==
    ASSUME Typed, Staffed, Tracked, Next
    PROVE  Tracked' \/ Killed'
<1> USE ThreadFacts, FdFacts
<1>1. CASE AcceptorAside
  BY <1>1 DEF AcceptorAside, Tracked, Open
<1>2. CASE AcceptorStep
  <2> USE DEF Typed, SocketTypes, EndpointTypes, Held, Disconnecting, Staffed, Goto, Tracked, Open
  <2>1. CASE \/ AcceptWait(Acceptor) \/ AcceptTimeout(Acceptor, "ended")
             \/ AcceptDrops(Acceptor, "accepted") \/ AcceptNone(Acceptor, "accepted")
    BY <2>1 DEF AcceptWait, AcceptTimeout, AcceptDrops, AcceptNone, socketVars,
       changeVars, reportVars
  <2>2. CASE Accept(Acceptor)
    BY <2>2, LowestFreeFacts DEF Accept, changeVars, reportVars
  <2>3. CASE Register(Acceptor)
    <3>1. pc[Acceptor] = "register" /\ pc'[Acceptor] = "add" /\ newFd \in Fds
      BY <2>3 DEF Register
    <3>2. /\ connected' = connected \cup {newFd}
          /\ UNCHANGED <<sockOf, interest, newFd, closing>>
      BY <2>3 DEF Register, socketVars, changeVars, reportVars
    <3>3. Open(newFd)
      BY <3>1
    <3>4. QED
      BY <3>1, <3>2, <3>3
  <2>4. CASE Add(Acceptor, "accepted")
    BY <2>4 DEF Add, EpollAdd, changeVars, reportVars
  <2>5. CASE CheckAccept
    BY <2>5 DEF CheckAccept, socketVars, changeVars, reportVars
  <2>6. CASE HupLock(Acceptor) \/ Pop(Acceptor) \/ HupUnlock(Acceptor, "accept_wait")
    BY <2>6 DEF HupLock, Pop, HupUnlock, socketVars, changeVars, reportVars
  <2>7. CASE Deregister(Acceptor)
    BY <2>7 DEF Deregister, socketVars, changeVars, reportVars
  <2>8. CASE Delete(Acceptor)
    BY <2>8 DEF Delete, EpollDel, changeVars, reportVars
  <2>9. CASE ShutDownClient(Acceptor)
    BY <2>9 DEF ShutDownClient, ShutDown, changeVars, reportVars
  <2>10. CASE CloseClient(Acceptor, "pop")
    BY <2>10 DEF CloseClient, CloseAll, EpollDel, changeVars, reportVars
  <2>11. QED
    BY <1>2, <2>1, <2>2, <2>3, <2>4, <2>5, <2>6, <2>7, <2>8, <2>9, <2>10 DEF AcceptorStep
<1>3. CASE EndpointClose(Main, "exited")
  <2>1. pc'[Acceptor] = "ended" /\ pc[Acceptor] = "ended"
    BY <1>3 DEF EndpointClose, Goto, Typed, Staffed, changeVars, reportVars
  <2>2. \A f \in Fds : sockOf'[f] = IF f \in connected THEN Nobody ELSE sockOf[f]
    BY <1>3 DEF EndpointClose, DisconnectAllClients, CloseAll, changeVars, reportVars
  <2>3. connected' = {} /\ interest' = interest \ connected
    BY <1>3 DEF EndpointClose, DisconnectAllClients, CloseAll, EpollDel, changeVars, reportVars
  <2>4. QED
    BY <2>1, <2>2, <2>3 DEF Tracked, Open
<1>4. QED
  BY <1>1, <1>2, <1>3, OthersAside, WorkersAside DEF Next, MainStep

(* endpoint_close finds every open socket in the record.                   *)
LEMMA NextNothingLeftOpen ==
    ASSUME Typed, Staffed, Tracked, NothingLeftOpen, Next
    PROVE  NothingLeftOpen' \/ Killed'
<1> USE ThreadFacts
<1>1. CASE EndpointClose(Main, "exited")
  <2>1. \A f \in Fds : sockOf'[f] = IF f \in connected THEN Nobody ELSE sockOf[f]
    BY <1>1 DEF EndpointClose, DisconnectAllClients, CloseAll, changeVars, reportVars
  <2>2. pc[Acceptor] = "ended"
    BY <1>1 DEF EndpointClose, Staffed, changeVars, reportVars
  <2>3. \A f \in Fds : ~Open(f)'
    BY <2>1, <2>2 DEF Tracked, Open
  <2>4. QED
    BY <1>1, <2>3 DEF EndpointClose, NothingLeftOpen, changeVars, reportVars
<1>2. CASE pc[Main] = "exited" /\ Next
  <2>1. UNCHANGED <<listening, sockOf>>
    <3>1. CASE \E c \in Conns : ClientStep(c)
      BY <1>2, <3>1 DEF ClientStep, Running
    <3>2. CASE AcceptorStep
      BY <1>2, <3>2 DEF AcceptorStep, AcceptWait, AcceptTimeout, Accept, AcceptDrops, AcceptNone, Register, Add,
         CheckAccept, HupLock, Pop, HupUnlock, Deregister, Delete, ShutDownClient, CloseClient, Staffed,
         changeVars, reportVars
    <3>3. CASE SelectorStep
      BY <1>2, <3>3 DEF SelectorStep, EventReady, EventVanishes, EventTimeout, Enqueue, CheckEvent, Staffed,
         changeVars, reportVars, EpollReport
    <3>4. CASE \E w \in Workers : WorkerStep(w)
      BY <1>2, <3>4 DEF WorkerStep, TakeJob, RecvBegins, RecvReads, RecvFails, Answer, BrokenPipe, AnswerFaults, Staffed,
         changeVars, reportVars
    <3>5. CASE Stop \/ MainStep
      BY <1>2, <3>5 DEF Stop, MainStep, JoinThread, JoinPool, EndpointClose,
         changeVars, reportVars
    <3>6. QED
      BY <3>1, <3>2, <3>3, <3>4, <3>5 DEF Next
  <2>2. QED
    BY <1>2, <2>1 DEF NothingLeftOpen, Open
<1>3. CASE pc[Main] # "exited" /\ ~EndpointClose(Main, "exited")
  <2>1. pc'[Main] # "exited"
    <3> USE DEF Goto, Typed
    <3>1. CASE \E c \in Conns : ClientStep(c)
      BY <1>3, <3>1 DEF ClientStep, endpointVars
    <3>2. CASE AcceptorStep
      BY <1>3, <3>2 DEF AcceptorStep, AcceptWait, AcceptTimeout, Accept, AcceptDrops, AcceptNone, Register, Add,
         CheckAccept, HupLock, Pop, HupUnlock, Deregister, Delete, ShutDownClient, CloseClient,
         changeVars, reportVars
    <3>3. CASE SelectorStep
      BY <1>3, <3>3 DEF SelectorStep, EventReady, EventVanishes, EventTimeout, Enqueue, CheckEvent, endpointVars,
         changeVars, reportVars, EpollReport
    <3>4. CASE \E w \in Workers : WorkerStep(w)
      BY <1>3, <3>4 DEF WorkerStep, TakeJob, RecvBegins, RecvReads, RecvFails, Answer, BrokenPipe, AnswerFaults, Kill, JobDone,
         changeVars, reportVars
    <3>5. CASE Stop \/ MainStep
      BY <1>3, <3>5 DEF Stop, MainStep, JoinThread, JoinPool
    <3>6. QED
      BY <3>1, <3>2, <3>3, <3>4, <3>5 DEF Next
  <2>2. QED
    BY <2>1 DEF NothingLeftOpen
<1>4. QED
  BY <1>1, <1>2, <1>3

------------------------------------------------------------------------------
(* Connections.                                                            *)

LEMMA DistinctFrame ==
    ASSUME Distinct, UNCHANGED <<backlog, sockOf, shut, peer, closing>>,
           pc[Acceptor] = "close" => pc'[Acceptor] = "close"
    PROVE  Distinct'
  BY DEF Distinct, Open

LEMMA HeadAndTail ==
    ASSUME NEW S, NEW s \in Seq(S), s # <<>>
    PROVE  /\ Head(s) = s[1] /\ 1 \in DOMAIN s
           /\ Tail(s) \in Seq(S)
           /\ \A i \in DOMAIN Tail(s) : i + 1 \in DOMAIN s /\ Tail(s)[i] = s[i + 1]
           /\ \A i, k \in DOMAIN Tail(s) : i + 1 = k + 1 => i = k
           /\ \A i \in DOMAIN Tail(s) : i + 1 # 1
  OBVIOUS

LEMMA AppendIndices ==
    ASSUME NEW S, NEW s \in Seq(S), NEW e \in S
    PROVE  \A i \in DOMAIN Append(s, e) :
              (i \in DOMAIN s /\ Append(s, e)[i] = s[i]) \/ (i = Len(s) + 1 /\ Append(s, e)[i] = e)
<1> DEFINE t == Append(s, e)
<1>1. Len(s) \in Nat /\ DOMAIN s = 1..Len(s) /\ DOMAIN t = 1..(Len(s) + 1)
  BY LenProperties, AppendProperties
<1>2. t[Len(s) + 1] = e /\ \A i \in 1..Len(s) : t[i] = s[i]
  BY AppendProperties
<1> HIDE DEF t
<1>3. \A i \in DOMAIN t : (i \in DOMAIN s /\ t[i] = s[i]) \/ (i = Len(s) + 1 /\ t[i] = e)
  BY <1>1, <1>2
<1>4. QED
  BY <1>3 DEF t

LEMMA CloseOne ==
    ASSUME NEW f \in Fds, CloseAll({f})
    PROVE  /\ sockOf'[f] = Nobody /\ \A g \in Fds \ {f} : sockOf'[g] = sockOf[g]
           /\ \A c \in shut' : c \in shut \/ (Open(f) /\ c = sockOf[f])
<1>1. sockOf'[f] = Nobody /\ \A g \in Fds \ {f} : sockOf'[g] = sockOf[g]
  BY DEF CloseAll
<1> DEFINE closed == {sockOf[g] : g \in {h \in {f} : Open(h)}}
<1>2. \A c \in closed : Open(f) /\ c = sockOf[f]
  OBVIOUS
<1>3. shut' = shut \cup closed
  BY DEF CloseAll
<1> HIDE DEF closed
<1>4. \A c \in shut' : c \in shut \/ (Open(f) /\ c = sockOf[f])
  BY <1>2, <1>3 DEF Open
<1>5. QED
  BY <1>1, <1>4

LEMMA ClientDistinct ==
    ASSUME Typed, Distinct, NEW c \in Conns, ClientStep(c)
    PROVE  Distinct'
<1> USE ThreadFacts, FdFacts DEF Typed, SocketTypes
<1>1. CASE Connect(c)
  <2>1. backlog' = Append(backlog, c) /\ peer[c] = "away" /\ peer'[c] = "open"
        /\ \A d \in Conns \ {c} : peer'[d] = peer[d]
    BY <1>1 DEF Connect
  <2>2. UNCHANGED <<sockOf, shut, closing, pc>>
    BY <1>1 DEF Connect, ClientStep, endpointVars
  <2>3. \A i \in DOMAIN backlog : backlog[i] \in Conns \ {c}
    BY <2>1 DEF Distinct
  <2>4. \A i \in DOMAIN backlog' : \/ i \in DOMAIN backlog /\ backlog'[i] = backlog[i]
                                   \/ i = Len(backlog) + 1 /\ backlog'[i] = c
    BY <2>1, AppendIndices
  <2>5. c \notin shut /\ \A f \in Fds : sockOf[f] # c
    BY <2>1 DEF Distinct, Open
  <2>6. \A i, k \in DOMAIN backlog' : backlog'[i] = backlog'[k] => i = k
    BY <2>3, <2>4 DEF Distinct
  <2>7. \A i \in DOMAIN backlog' : /\ peer'[backlog'[i]] # "away"
                                   /\ backlog'[i] \notin shut'
                                   /\ \A f \in Fds : sockOf'[f] # backlog'[i]
    BY <2>1, <2>2, <2>3, <2>4, <2>5 DEF Distinct
  <2>8. QED
    BY <2>1, <2>2, <2>6, <2>7 DEF Distinct, Open
<1>2. CASE Send(c) \/ Wake(c)
  BY <1>2, DistinctFrame DEF Send, Wake, ClientStep, endpointVars
<1>3. CASE HangUp(c) \/ Reset(c)
  <2>1. UNCHANGED <<backlog, sockOf, shut, closing, pc>>
    BY <1>3 DEF HangUp, Reset, ClientStep, endpointVars
  <2>2. \A d \in Conns : peer[d] # "away" => peer'[d] # "away"
    BY <1>3 DEF HangUp, Reset
  <2>3. \A i \in DOMAIN backlog : backlog[i] \in Conns
    OBVIOUS
  <2>4. QED
    BY <2>1, <2>2, <2>3 DEF Distinct, Open
<1>4. QED
  BY <1>1, <1>2, <1>3 DEF ClientStep

LEMMA AcceptorDistinct ==
    ASSUME Typed, Staffed, Distinct, AcceptorStep
    PROVE  Distinct'
<1> USE ThreadFacts, FdFacts DEF Typed, SocketTypes
<1>1. CASE \/ AcceptWait(Acceptor) \/ AcceptTimeout(Acceptor, "ended") \/ AcceptNone(Acceptor, "accepted")
           \/ Register(Acceptor) \/ Add(Acceptor, "accepted") \/ CheckAccept
  BY <1>1, DistinctFrame
     DEF AcceptWait, AcceptTimeout, AcceptNone, Register, Add, CheckAccept, Goto, socketVars,
        changeVars, reportVars
<1>2. CASE Accept(Acceptor)
  <2> DEFINE f == LowestFree
  <2>1. f \in Fds /\ ~Open(f)
    BY <1>2, LowestFreeFacts DEF Accept, changeVars, reportVars
  <2> HIDE DEF f
  <2>2. /\ backlog # <<>> /\ backlog' = Tail(backlog)
        /\ sockOf' = [sockOf EXCEPT ![f] = Head(backlog)]
        /\ UNCHANGED <<shut, peer>>
        /\ pc[Acceptor] = "accept"
    BY <1>2 DEF Accept, f, changeVars, reportVars
  <2>3. Head(backlog) = backlog[1] /\ 1 \in DOMAIN backlog /\ backlog[1] \in Conns
    BY <2>2, HeadAndTail
  <2>4. sockOf'[f] = backlog[1] /\ \A g \in Fds \ {f} : sockOf'[g] = sockOf[g]
    BY <2>1, <2>2, <2>3
  <2>5. \A i \in DOMAIN backlog' : i + 1 \in DOMAIN backlog /\ backlog'[i] = backlog[i + 1] /\ i + 1 # 1
    BY <2>2, HeadAndTail
  <2>6. \A i, k \in DOMAIN backlog' : backlog'[i] = backlog'[k] => i = k
    BY <2>2, HeadAndTail DEF Distinct
  <2>7. \A i \in DOMAIN backlog' :
           /\ peer'[backlog'[i]] # "away" /\ backlog'[i] \notin shut'
           /\ \A g \in Fds : sockOf'[g] # backlog'[i]
    BY <2>2, <2>3, <2>4, <2>5 DEF Distinct
  <2>8. \A g, h \in Fds : Open(g)' /\ sockOf'[g] = sockOf'[h] => g = h
    BY <2>3, <2>4 DEF Distinct, Open
  <2>9. \A g \in Fds : Open(g)' => peer'[sockOf'[g]] # "away" /\ sockOf'[g] \notin shut'
    BY <2>2, <2>3, <2>4 DEF Distinct, Open
  <2>10. QED
    BY <2>2, <2>6, <2>7, <2>8, <2>9 DEF Distinct
<1>3. CASE AcceptDrops(Acceptor, "accepted")
  <2>1. /\ backlog # <<>> /\ backlog' = Tail(backlog)
        /\ shut' = shut \cup {Head(backlog)}
        /\ UNCHANGED <<sockOf, peer>>
        /\ pc[Acceptor] = "accept"
    BY <1>3 DEF AcceptDrops, changeVars, reportVars
  <2>2. Head(backlog) = backlog[1] /\ 1 \in DOMAIN backlog /\ backlog[1] \in Conns
    BY <2>1, HeadAndTail
  <2>3. \A i \in DOMAIN backlog' : i + 1 \in DOMAIN backlog /\ backlog'[i] = backlog[i + 1] /\ i + 1 # 1
    BY <2>1, HeadAndTail
  <2>4. \A i, k \in DOMAIN backlog' : backlog'[i] = backlog'[k] => i = k
    BY <2>1, HeadAndTail DEF Distinct
  <2>5. \A i \in DOMAIN backlog' :
           /\ peer'[backlog'[i]] # "away" /\ backlog'[i] \notin shut'
           /\ \A g \in Fds : sockOf'[g] # backlog'[i]
    BY <2>1, <2>2, <2>3 DEF Distinct
  <2>6. QED
    BY <2>1, <2>2, <2>4, <2>5 DEF Distinct, Open
<1>4. CASE HupLock(Acceptor) \/ HupUnlock(Acceptor, "accept_wait") \/ Deregister(Acceptor) \/ Delete(Acceptor)
  BY <1>4, DistinctFrame DEF HupLock, HupUnlock, Deregister, Delete, socketVars,
     changeVars, reportVars
<1>5. CASE Pop(Acceptor)
  BY <1>5 DEF Pop, Distinct, Open, socketVars, changeVars, reportVars
<1>6. CASE ShutDownClient(Acceptor)
  BY <1>6 DEF ShutDownClient, ShutDown, Distinct, Open, Goto, Held, Disconnecting,
     changeVars, reportVars
<1>7. CASE CloseClient(Acceptor, "pop")
  <2> DEFINE f == closing[Acceptor]
  <2>1. f \in Fds /\ pc[Acceptor] = "close"
    BY <1>7 DEF CloseClient, Held, Disconnecting, changeVars, reportVars
  <2> HIDE DEF f
  <2>2. /\ sockOf'[f] = Nobody /\ \A g \in Fds \ {f} : sockOf'[g] = sockOf[g]
        /\ \A c \in shut' : c \in shut \/ (Open(f) /\ c = sockOf[f])
        /\ UNCHANGED <<backlog, peer>>
    BY <1>7, <2>1, CloseOne DEF CloseClient, f, changeVars, reportVars
  <2>3. \A g \in Fds : Open(g)' => g # f /\ Open(g) /\ sockOf'[g] = sockOf[g]
    BY <2>2 DEF Open
  <2>4. \A g \in Fds : Open(g)' => sockOf'[g] \notin shut'
    <3>1. \A g \in Fds : Open(g) /\ g # f => sockOf[g] \notin shut
      BY DEF Distinct, f
    <3>2. \A g \in Fds : Open(g) /\ g # f => sockOf[g] # sockOf[f]
      BY <2>1 DEF Distinct
    <3>3. QED
      BY <2>2, <2>3, <3>1, <3>2
  <2>5. \A i \in DOMAIN backlog : backlog[i] \notin shut' /\ \A g \in Fds : sockOf'[g] # backlog[i]
    <3>1. \A i \in DOMAIN backlog : backlog[i] \in Conns
      OBVIOUS
    <3>2. \A i \in DOMAIN backlog : backlog[i] \notin shut /\ \A g \in Fds : sockOf[g] # backlog[i]
      BY DEF Distinct
    <3>3. QED
      BY <2>1, <2>2, <3>1, <3>2
  <2>6. \A c \in shut' : peer[c] # "away"
    BY <2>1, <2>2 DEF Distinct
  <2>7. \A g, h \in Fds : Open(g)' /\ sockOf'[g] = sockOf'[h] => g = h
    BY <2>2, <2>3 DEF Distinct, Open
  <2>8. \A g \in Fds : Open(g)' => peer'[sockOf'[g]] # "away"
    BY <2>2, <2>3 DEF Distinct
  <2>9. QED
    BY <2>2, <2>4, <2>5, <2>6, <2>7, <2>8 DEF Distinct
<1>8. QED
  BY <1>1, <1>2, <1>3, <1>4, <1>5, <1>6, <1>7 DEF AcceptorStep

LEMMA NextDistinct ==
    ASSUME Typed, Staffed, Distinct, Next
    PROVE  Distinct' \/ Killed'
<1> USE ThreadFacts, FdFacts DEF Typed, SocketTypes, Goto
<1>1. CASE SelectorStep
  BY <1>1, DistinctFrame
     DEF SelectorStep, EventReady, EventVanishes, EventTimeout, Enqueue, CheckEvent, endpointVars, socketVars,
        changeVars, reportVars, EpollReport
<1>2. ASSUME NEW w \in Workers, WorkerStep(w), ~Killed' PROVE Distinct'
  <2>1. CASE TakeJob(w) \/ RecvBegins(w) \/ RecvReads(w) \/ RecvFails(w) \/ Answer(w)
    BY <2>1, DistinctFrame DEF TakeJob, RecvBegins, RecvReads, RecvFails, Answer, JobDone, socketVars,
       changeVars, reportVars
  <2>2. ~BrokenPipe(w) /\ ~AnswerFaults(w)
    BY <1>2 DEF BrokenPipe, AnswerFaults, Kill, Killed
  <2>3. QED
    BY <1>2, <2>1, <2>2 DEF WorkerStep
<1>3. CASE EndpointClose(Main, "exited")
  <2>1. /\ \A f \in Fds : sockOf'[f] = IF f \in connected THEN Nobody ELSE sockOf[f]
        /\ \A c \in shut' : c \in shut \/ \E f \in connected : Open(f) /\ c = sockOf[f]
        /\ backlog' = <<>> /\ UNCHANGED peer
    BY <1>3 DEF EndpointClose, DisconnectAllClients, CloseAll, changeVars, reportVars
  <2>2. pc[Acceptor] = "ended" /\ connected \subseteq Fds
    BY <1>3 DEF EndpointClose, Staffed, EndpointTypes, changeVars, reportVars
  <2>3. \A f \in Fds : Open(f)' => Open(f) /\ sockOf'[f] = sockOf[f]
    BY <2>1 DEF Open
  <2>4. \A c \in shut' : peer'[c] # "away"
    BY <2>1, <2>2 DEF Distinct
  <2>5. \A f, g \in Fds : Open(f)' /\ sockOf'[f] = sockOf'[g] => f = g
    <3>1. \A f, g \in Fds : Open(f)' /\ sockOf'[f] = sockOf'[g] => Open(g)'
      BY DEF Open
    <3>2. QED
      BY <2>3, <3>1 DEF Distinct
  <2>6. \A f \in Fds : Open(f)' => peer'[sockOf'[f]] # "away"
    BY <2>1, <2>3 DEF Distinct
  <2>7. \A i \in DOMAIN backlog' : FALSE
    BY <2>1
  <2>8. \A f \in Fds : Open(f)' => sockOf'[f] \notin shut'
    <3>1. SUFFICES ASSUME NEW f \in Fds, Open(f)', sockOf'[f] \in shut' PROVE FALSE
      OBVIOUS
    <3>2. Open(f) /\ sockOf[f] \in shut' /\ f \notin connected
      BY <2>1, <2>3, <3>1 DEF Open
    <3>3. sockOf[f] \notin shut
      BY <2>2, <3>2 DEF Distinct
    <3>4. PICK g \in connected : Open(g) /\ sockOf[f] = sockOf[g]
      BY <2>1, <3>2, <3>3
    <3>5. g = f
      BY <2>2, <3>2, <3>4 DEF Distinct
    <3>6. QED
      BY <3>2, <3>4, <3>5
  <2>9. Distinct'
    BY <2>4, <2>5, <2>6, <2>7, <2>8 DEF Distinct
  <2>10. QED
    BY <2>9
<1>4. CASE Stop \/ JoinPool \/ JoinThread(Acceptor, "join_acceptor", "join_selector")
           \/ JoinThread(Selector, "join_selector", "w_join")
  BY <1>4, DistinctFrame DEF Stop, JoinPool, JoinThread, socketVars, changeVars, reportVars
<1>5. QED
  BY <1>1, <1>2, <1>3, <1>4, ClientDistinct, AcceptorDistinct DEF Next, MainStep

------------------------------------------------------------------------------
(* The stack.                                                              *)

(* Clients do not come back, and what was reported stays so.               *)
LEMMA PeersMoveOn ==
    ASSUME Typed, Next
    PROVE  /\ ~repeated' => ~repeated
           /\ reported \subseteq reported'
           /\ \A c \in Conns : HungUp(c) => HungUp(c)'
<1>1. CASE UNCHANGED <<peer, reportVars>>
  BY <1>1 DEF HungUp, reportVars
<1>2. ASSUME NEW c \in Conns, ClientStep(c)
      PROVE  UNCHANGED reportVars /\ \A d \in Conns : HungUp(d) => HungUp(d)'
  BY <1>2 DEF ClientStep, Connect, Send, HangUp, Reset, Wake, HungUp, Typed, SocketTypes
<1>3. AcceptorStep => UNCHANGED <<peer, reportVars>>
  BY DEF AcceptorStep, AcceptWait, AcceptTimeout, Accept, AcceptDrops, AcceptNone, Register, Add,
         CheckAccept, HupLock, Pop, HupUnlock, Deregister, Delete, ShutDownClient, CloseClient, socketVars,
         changeVars, reportVars
<1>4. ASSUME SelectorStep
      PROVE  UNCHANGED peer /\ (~repeated' => ~repeated) /\ reported \subseteq reported'
  <2>1. CASE EventReady(Selector, "reported")
    <3>1. UNCHANGED peer /\ \E f \in edges : EpollReport(f)
      BY <2>1 DEF EventReady, changeVars
    <3>2. PICK f \in edges : EpollReport(f)
      BY <3>1
    <3>3. reported \subseteq reported'
      BY <3>2 DEF EpollReport
    <3>4. ~repeated' => ~repeated
      BY <3>2 DEF EpollReport
    <3>5. QED
      BY <3>1, <3>3, <3>4
  <2>2. CASE UNCHANGED <<peer, reportVars>>
    BY <2>2 DEF reportVars
  <2>3. QED
    BY <1>4, <2>1, <2>2 DEF SelectorStep, EventVanishes, EventTimeout, Enqueue, CheckEvent, socketVars, changeVars
<1>5. ASSUME NEW w \in Workers, WorkerStep(w) PROVE UNCHANGED <<peer, reportVars>>
  BY <1>5 DEF WorkerStep, TakeJob, RecvBegins, RecvReads, RecvFails, Answer, BrokenPipe, AnswerFaults,
     socketVars, changeVars, reportVars
<1>6. Stop \/ MainStep => UNCHANGED <<peer, reportVars>>
  BY DEF Stop, MainStep, JoinThread, JoinPool, EndpointClose, socketVars, changeVars, reportVars
<1>7. QED
  BY <1>1, <1>2, <1>3, <1>4, <1>5, <1>6 DEF Next, HungUp, reportVars

LEMMA PushFacts ==
    ASSUME NEW S, NEW s \in Seq(S), NEW v \in S, NEW t, t = StackPush(s, v)
    PROVE  /\ t \in Seq(S)
           /\ \A i \in DOMAIN t : i # 1 => i - 1 \in DOMAIN s /\ t[i] = s[i - 1]
           /\ 1 \in DOMAIN t /\ t[1] = v
           /\ \A i \in DOMAIN s : i + 1 \in DOMAIN t /\ t[i + 1] = s[i]
<1> DEFINE one == <<v>>
<1>1. one \in Seq(S) /\ Len(one) = 1 /\ one[1] = v
  OBVIOUS
<1>2. Len(s) \in Nat /\ DOMAIN s = 1..Len(s)
  BY LenProperties
<1>3. t = one \o s
  BY DEF StackPush
<1> HIDE DEF one
<1>a. /\ one \o s \in Seq(S)
      /\ Len(one \o s) = Len(one) + Len(s)
      /\ \A i \in 1..Len(one) + Len(s) :
            (one \o s)[i] = IF i <= Len(one) THEN one[i] ELSE s[i - Len(one)]
  BY <1>1, ConcatProperties, Zenon
<1>b. /\ t \in Seq(S)
      /\ Len(t) = Len(one) + Len(s)
      /\ \A i \in 1..Len(one) + Len(s) :
            t[i] = IF i <= Len(one) THEN one[i] ELSE s[i - Len(one)]
  BY <1>a, <1>3, Zenon
<1>4. t \in Seq(S) /\ Len(t) = 1 + Len(s)
  BY <1>1, <1>b, Zenon
<1>5. \A i \in 1..(1 + Len(s)) : t[i] = IF i <= 1 THEN v ELSE s[i - 1]
  <2>1. \A i \in 1..(1 + Len(s)) : t[i] = IF i <= 1 THEN one[i] ELSE s[i - 1]
    BY <1>1, <1>b, Zenon
  <2>2. \A i \in 1..(1 + Len(s)) : i <= 1 => one[i] = v
    <3>1. \A i \in 1..(1 + Len(s)) : i <= 1 => i = 1
      BY <1>2
    <3>2. QED
      BY <1>1, <3>1, Zenon
  <2>3. QED
    BY <2>1, <2>2, Zenon
<1>6. DOMAIN t = 1..(1 + Len(s))
  BY <1>4, LenProperties
<1>7. QED
  BY <1>2, <1>4, <1>5, <1>6

LEMMA EntriesType ==
    ASSUME Typed
    PROVE  Entries \in Seq(Fds) /\ \A i \in DOMAIN Entries : Entries[i] \in Fds
<1>1. Entries \in Seq(Fds)
  BY PushFacts DEF Entries, Typed, EndpointTypes, Held
<1>2. QED
  BY <1>1

(* The stack is as before, its clients are still there, and so is the one  *)
(* that is being disconnected.                                             *)
LEMMA CurrentFrame ==
    ASSUME Typed, Current, Next,
           Entries' = Entries,
           ~repeated /\ ~repeated' =>
               \A i \in DOMAIN Entries :
                   /\ Entries[i] \in interest'
                   /\ sockOf'[Entries[i]] = sockOf[Entries[i]]
                   /\ sockOf[Entries[i]] \in Conns,
           ~repeated /\ ~repeated' /\ pc'[Acceptor] \in Disconnecting =>
               /\ pc[Acceptor] \in Disconnecting
               /\ closing'[Acceptor] = closing[Acceptor]
               /\ sockOf'[closing[Acceptor]] = sockOf[closing[Acceptor]]
               /\ sockOf[closing[Acceptor]] \in Conns
    PROVE  Current'
<1> SUFFICES ASSUME ~repeated' PROVE Current'
  BY DEF Current
<1>1. /\ ~repeated
      /\ reported \subseteq reported'
      /\ \A c \in Conns : HungUp(c) => HungUp(c)'
  BY PeersMoveOn
<1>2. \A i \in DOMAIN Entries : /\ (Entries[i] \in interest)'
                               /\ HungUp(sockOf[Entries[i]])'
                               /\ (sockOf[Entries[i]] \in reported)'
  <2>1. \A i \in DOMAIN Entries :
            /\ HungUp(sockOf[Entries[i]]) /\ sockOf[Entries[i]] \in Conns
            /\ sockOf[Entries[i]] \in reported
    BY <1>1 DEF Current
  <2>2. QED
    BY <1>1, <2>1 DEF HungUp
<1>3. \A i, k \in DOMAIN Entries : Entries[i] = Entries[k] => i = k
  BY <1>1 DEF Current
<1>4. ASSUME pc'[Acceptor] \in Disconnecting
      PROVE  /\ Open(closing[Acceptor])'
             /\ HungUp(sockOf[closing[Acceptor]])'
             /\ (sockOf[closing[Acceptor]] \in reported)'
             /\ \A i \in DOMAIN Entries : Entries[i] # closing'[Acceptor]
  BY <1>1, <1>4 DEF Current, Open, HungUp
<1>5. QED
  BY <1>2, <1>3, <1>4 DEF Current

LEMMA ClientCurrent ==
    ASSUME Typed, Staffed, Tracked, Distinct, Current, Next, NEW c \in Conns, ClientStep(c)
    PROVE  Current'
<1> USE ThreadFacts, FdFacts, EntriesType DEF Typed, SocketTypes
<1>1. UNCHANGED <<sockOf, interest, dqueue, event, closing, pc>>
  BY DEF ClientStep, Connect, Send, HangUp, Reset, Wake, endpointVars
<1>2. Entries' = Entries
  BY <1>1 DEF Entries
<1>3. ~repeated /\ ~repeated' => \A i \in DOMAIN Entries :
           Open(Entries[i]) /\ Entries[i] \in interest'
  BY <1>1 DEF Current, Tracked
<1>4. ~repeated /\ ~repeated' /\ pc[Acceptor] \in Disconnecting =>
           Open(closing[Acceptor]) /\ closing[Acceptor] \in Fds
  BY DEF Current, Open
<1>5. QED
  BY <1>1, <1>2, <1>3, <1>4, CurrentFrame DEF Open

LEMMA AcceptorCurrent ==
    ASSUME Typed, Staffed, Tracked, Distinct, Current, Next, AcceptorStep
    PROVE  Current'
<1> USE ThreadFacts, FdFacts, EntriesType DEF Typed, SocketTypes
<1>1. pc'[Selector] = pc[Selector] /\ UNCHANGED event
  BY DEF AcceptorStep, AcceptWait, AcceptTimeout, Accept, AcceptDrops, AcceptNone, Register, Add,
         CheckAccept, HupLock, Pop, HupUnlock, Deregister, Delete, ShutDownClient, CloseClient, Goto,
     changeVars, reportVars
<1>2. ~repeated => \A i \in DOMAIN Entries :
           /\ Open(Entries[i]) /\ sockOf[Entries[i]] \in Conns
           /\ Entries[i] \in interest
           /\ pc[Acceptor] \in {"register", "add"} => Entries[i] # newFd
           /\ pc[Acceptor] \in Disconnecting => Entries[i] # closing[Acceptor]
  BY DEF Current, Tracked, Open
<1>3. UNCHANGED dqueue => Entries' = Entries
  BY <1>1 DEF Entries
<1>4. pc[Acceptor] \in Disconnecting /\ ~repeated =>
           /\ Open(closing[Acceptor]) /\ sockOf[closing[Acceptor]] \in Conns
           /\ closing[Acceptor] \in Fds
  BY DEF Current, Open
<1>5. CASE \/ AcceptWait(Acceptor) \/ AcceptTimeout(Acceptor, "ended") \/ AcceptNone(Acceptor, "accepted")
           \/ AcceptDrops(Acceptor, "accepted") \/ Register(Acceptor) \/ CheckAccept
           \/ HupLock(Acceptor) \/ HupUnlock(Acceptor, "accept_wait")
  <2>1. UNCHANGED <<dqueue, interest, sockOf>> /\ pc'[Acceptor] \notin Disconnecting
    BY <1>5 DEF AcceptWait, AcceptTimeout, AcceptNone, AcceptDrops, Register, CheckAccept, HupLock, HupUnlock,
       Goto, socketVars, Disconnecting, changeVars, reportVars
  <2>2. QED
    BY <1>2, <1>3, <2>1, CurrentFrame
<1>6. CASE Accept(Acceptor)
  <2>1. UNCHANGED <<dqueue, interest>> /\ pc'[Acceptor] \notin Disconnecting
    BY <1>6 DEF Accept, Goto, Disconnecting, changeVars, reportVars
  <2>2. \A f \in Fds : Open(f) => sockOf'[f] = sockOf[f]
    BY <1>6, LowestFreeFacts DEF Accept, changeVars, reportVars
  <2>3. QED
    BY <1>2, <1>3, <2>1, <2>2, CurrentFrame
<1>7. CASE Add(Acceptor, "accepted")
  <2>1. UNCHANGED <<dqueue, sockOf>> /\ pc'[Acceptor] \notin Disconnecting
    BY <1>7 DEF Add, Goto, Disconnecting, changeVars, reportVars
  <2>2. interest \subseteq interest' /\ pc[Acceptor] = "add"
    BY <1>7 DEF Add, EpollAdd, changeVars, reportVars
  <2>3. QED
    BY <1>2, <1>3, <2>1, <2>2, CurrentFrame
<1>8. CASE Deregister(Acceptor)
  <2>1. UNCHANGED <<dqueue, interest, sockOf, closing>> /\ pc[Acceptor] \in Disconnecting
    BY <1>8 DEF Deregister, Goto, socketVars, Disconnecting, changeVars, reportVars
  <2>2. QED
    BY <1>2, <1>3, <1>4, <2>1, CurrentFrame
<1>9. CASE Delete(Acceptor)
  <2>1. UNCHANGED <<dqueue, sockOf, closing>> /\ pc[Acceptor] \in Disconnecting
    BY <1>9 DEF Delete, Goto, socketVars, Disconnecting, changeVars, reportVars
  <2>2. interest' = interest \ {closing[Acceptor]}
    BY <1>9 DEF Delete, EpollDel, changeVars, reportVars
  <2>3. QED
    BY <1>2, <1>3, <1>4, <2>1, <2>2, CurrentFrame
<1>10. CASE ShutDownClient(Acceptor)
  <2>1. UNCHANGED <<dqueue, interest, sockOf, closing>> /\ pc[Acceptor] = "shutdown"
    BY <1>10 DEF ShutDownClient, Goto, socketVars, changeVars, reportVars
  <2>2. QED
    BY <1>2, <1>3, <1>4, <2>1, CurrentFrame DEF Disconnecting
<1>11. CASE CloseClient(Acceptor, "pop")
  <2>1. UNCHANGED dqueue /\ pc[Acceptor] \in Disconnecting /\ pc'[Acceptor] \notin Disconnecting
    BY <1>11 DEF CloseClient, Goto, socketVars, Disconnecting, changeVars, reportVars
  <2>2. interest' = interest \ {closing[Acceptor]}
    BY <1>11 DEF CloseClient, CloseAll, EpollDel, changeVars, reportVars
  <2>3. \A f \in Fds : f # closing[Acceptor] => sockOf'[f] = sockOf[f]
    BY <1>11 DEF CloseClient, CloseAll, changeVars, reportVars
  <2>4. QED
    BY <1>2, <1>3, <2>1, <2>2, <2>3, CurrentFrame
<1>12. CASE Pop(Acceptor)
  <2> SUFFICES ASSUME ~repeated' PROVE Current'
    BY DEF Current
  <2>1. ~repeated
    BY PeersMoveOn
  <2>2. /\ dqueue # <<>> /\ dqueue' = Tail(dqueue) /\ closing'[Acceptor] = Head(dqueue)
        /\ UNCHANGED <<interest, sockOf, peer, reported>>
    BY <1>12 DEF Pop, StackIsEmpty, StackTop, StackPop, socketVars, EndpointTypes,
       changeVars, reportVars
  <2>3. PICK top \in DOMAIN Entries :
           /\ Entries[top] = Head(dqueue)
           /\ \A i \in DOMAIN Entries' :
                 \E k \in DOMAIN Entries : k # top /\ Entries'[i] = Entries[k]
           /\ \A i, k \in DOMAIN Entries' : Entries'[i] = Entries'[k] => i = k
    <3>1. /\ dqueue \in Seq(Fds) /\ dqueue' \in Seq(Fds) /\ Head(dqueue) = dqueue[1] /\ 1 \in DOMAIN dqueue
          /\ \A i \in DOMAIN dqueue' : i + 1 \in DOMAIN dqueue /\ dqueue'[i] = dqueue[i + 1] /\ i + 1 # 1
          /\ \A i, k \in DOMAIN dqueue' : i + 1 = k + 1 => i = k
      BY <2>2, HeadAndTail DEF EndpointTypes
    <3>2. CASE pc[Selector] # "enqueue"
      <4>1. Entries = dqueue /\ Entries' = dqueue'
        BY <1>1, <3>2 DEF Entries
      <4>2. \A i, k \in DOMAIN dqueue : dqueue[i] = dqueue[k] => i = k
        BY <2>1, <4>1 DEF Current
      <4>3. \A i \in DOMAIN dqueue' : i + 1 # 1 /\ dqueue'[i] = dqueue[i + 1]
        BY <3>1
      <4>4. \A i, k \in DOMAIN dqueue' : dqueue'[i] = dqueue'[k] => i = k
        BY <3>1, <4>2, <4>3
      <4>5. QED
        BY <3>1, <4>1, <4>3, <4>4
    <3>3. CASE pc[Selector] = "enqueue"
      <4>1. Entries = StackPush(dqueue, event) /\ Entries' = StackPush(dqueue', event) /\ event \in Fds
        BY <1>1, <3>3 DEF Entries, Held
      <4>2. /\ 2 \in DOMAIN Entries /\ Entries[2] = dqueue[1]
            /\ 1 \in DOMAIN Entries /\ Entries[1] = event
            /\ \A i \in DOMAIN dqueue : i + 1 \in DOMAIN Entries /\ Entries[i + 1] = dqueue[i]
        <5>1. /\ 1 \in DOMAIN Entries /\ Entries[1] = event
              /\ \A i \in DOMAIN dqueue : i + 1 \in DOMAIN Entries /\ Entries[i + 1] = dqueue[i]
          <6>1. LET s == StackPush(dqueue, event)
                IN  /\ 1 \in DOMAIN s /\ s[1] = event
                    /\ \A i \in DOMAIN dqueue : i + 1 \in DOMAIN s /\ s[i + 1] = dqueue[i]
            BY <3>1, <4>1, PushFacts
          <6>2. QED
            BY <4>1, <6>1
        <5>2. 1 + 1 \in DOMAIN Entries /\ Entries[1 + 1] = dqueue[1]
          BY <3>1, <5>1
        <5>3. QED
          BY <5>1, <5>2
      <4>3. /\ \A i \in DOMAIN Entries' : i # 1 => i - 1 \in DOMAIN dqueue' /\ Entries'[i] = dqueue'[i - 1]
            /\ Entries'[1] = event
        <5>1. \A i \in DOMAIN Entries' : i # 1 => i - 1 \in DOMAIN dqueue' /\ Entries'[i] = dqueue'[i - 1]
          BY <3>1, <4>1, PushFacts
        <5>2. Entries'[1] = event
          BY <3>1, <4>1, PushFacts
        <5>3. QED
          BY <5>1, <5>2
      <4>4. \A i, k \in DOMAIN Entries : Entries[i] = Entries[k] => i = k
        BY <2>1 DEF Current
      <4>5. \A i \in DOMAIN dqueue' : i + 2 \in DOMAIN Entries /\ dqueue'[i] = Entries[i + 2] /\ i \in Nat /\ i # 0
        <5>1. SUFFICES ASSUME NEW i \in DOMAIN dqueue'
                       PROVE  i + 2 \in DOMAIN Entries /\ dqueue'[i] = Entries[i + 2] /\ i \in Nat /\ i # 0
          BY Zenon
        <5>2. i + 1 \in DOMAIN dqueue /\ dqueue'[i] = dqueue[i + 1]
          BY <3>1, Zenon
        <5>3. i + 1 + 1 \in DOMAIN Entries /\ Entries[i + 1 + 1] = dqueue[i + 1]
          BY <4>2, <5>2, Zenon
        <5>4. i \in Nat /\ i # 0 /\ i + 1 + 1 = i + 2
          <6>1. dqueue' \in Seq(Fds)
            BY <3>1, Zenon
          <6>2. QED
            BY <6>1
        <5>5. QED
          BY <5>2, <5>3, <5>4, Zenon
      <4>6. ASSUME NEW i \in DOMAIN Entries'
            PROVE  \/ i = 1 /\ Entries'[i] = Entries[1]
                   \/ i \in Nat /\ i > 1 /\ i + 1 \in DOMAIN Entries /\ Entries'[i] = Entries[i + 1]
        <5>1. CASE i = 1
          BY <5>1, <4>2, <4>3
        <5>2. CASE i # 1
          <6>0. i - 1 \in DOMAIN dqueue' /\ Entries'[i] = dqueue'[i - 1]
            BY <4>3, <5>2
          <6>1. StackPush(dqueue', event) \in Seq(Fds)
            BY <3>1, <4>1, PushFacts
          <6>2. Entries' \in Seq(Fds)
            BY <4>1, <6>1
          <6>3. i \in Nat
            BY <6>2
          <6>4. (i - 1) + 2 = i + 1 /\ i - 1 # 0 /\ i - 1 \in Nat
            BY <6>0, <4>5, <6>3
          <6>5. QED
            BY <6>0, <6>3, <6>4, <4>5
        <5>3. QED
          BY <5>1, <5>2
      <4>7. \A i \in DOMAIN Entries' : \E k \in DOMAIN Entries : k # 2 /\ Entries'[i] = Entries[k]
        BY <4>2, <4>6
      <4>8. \A i, k \in DOMAIN Entries' : Entries'[i] = Entries'[k] => i = k
        <5>1. SUFFICES ASSUME NEW i \in DOMAIN Entries', NEW k \in DOMAIN Entries', Entries'[i] = Entries'[k]
                       PROVE  i = k
          BY Zenon
        <5>2. PICK a \in DOMAIN Entries : /\ Entries'[i] = Entries[a]
                                          /\ (i = 1 /\ a = 1) \/ (i \in Nat /\ i > 1 /\ a = i + 1)
          BY <4>2, <4>6, Zenon
        <5>3. PICK b \in DOMAIN Entries : /\ Entries'[k] = Entries[b]
                                          /\ (k = 1 /\ b = 1) \/ (k \in Nat /\ k > 1 /\ b = k + 1)
          BY <4>2, <4>6, Zenon
        <5>4. a = b
          BY <4>4, <5>1, <5>2, <5>3, Zenon
        <5>5. QED
          BY <5>2, <5>3, <5>4
      <4>9. QED
        BY <3>1, <4>2, <4>7, <4>8
    <3>4. QED
      BY <3>2, <3>3
  <2>4. /\ \A i \in DOMAIN Entries :
              /\ Entries[i] \in interest
              /\ HungUp(sockOf[Entries[i]]) /\ sockOf[Entries[i]] \in reported
        /\ \A i, k \in DOMAIN Entries : Entries[i] = Entries[k] => i = k
    BY <2>1 DEF Current
  <2>5. ASSUME NEW i \in DOMAIN Entries'
        PROVE  /\ (Entries[i] \in interest)' /\ HungUp(sockOf[Entries[i]])'
               /\ (sockOf[Entries[i]] \in reported)'
    <3>1. PICK k \in DOMAIN Entries : Entries'[i] = Entries[k]
      BY <2>3
    <3>2. QED
      BY <2>2, <2>4, <3>1 DEF HungUp
  <2>6. \A i \in DOMAIN Entries' : Entries'[i] # closing'[Acceptor]
    BY <2>2, <2>3, <2>4
  <2>7. /\ Open(closing[Acceptor])' /\ HungUp(sockOf[closing[Acceptor]])'
        /\ (sockOf[closing[Acceptor]] \in reported)'
    BY <1>2, <2>1, <2>2, <2>3, <2>4 DEF Open, HungUp
  <2>8. QED
    BY <2>3, <2>5, <2>6, <2>7 DEF Current
<1>13. QED
  BY <1>5, <1>6, <1>7, <1>8, <1>9, <1>10, <1>11, <1>12 DEF AcceptorStep

LEMMA SelectorCurrent ==
    ASSUME Typed, Staffed, Tracked, Distinct, Current, Next, SelectorStep
    PROVE  Current'
<1> USE ThreadFacts, FdFacts, EntriesType DEF Typed, SocketTypes
<1>1. pc'[Acceptor] = pc[Acceptor] /\ UNCHANGED <<interest, sockOf, peer, closing>>
  BY DEF SelectorStep, EventReady, EventVanishes, EventTimeout, Enqueue, CheckEvent, Goto, endpointVars, socketVars,
     changeVars, reportVars, EpollReport
<1>2. ~repeated => \A i \in DOMAIN Entries :
           /\ Entries[i] \in interest
           /\ sockOf[Entries[i]] \in Conns
  BY DEF Current, Tracked, Open
<1>3. ~repeated /\ pc[Acceptor] \in Disconnecting =>
           sockOf[closing[Acceptor]] \in Conns
  BY DEF Current, Open
<1>4. CASE Entries' = Entries
  BY <1>1, <1>2, <1>3, <1>4, CurrentFrame
<1>5. CASE EventReady(Selector, "reported") /\ Entries' # Entries
  <2>1. PICK f \in edges : /\ EpollReport(f) /\ event' = f
                           /\ Goto(Selector, IF RdHup(f) THEN "enqueue" ELSE "reported")
    BY <1>5 DEF EventReady
  <2>2. pc[Selector] = "event_wait" /\ UNCHANGED dqueue /\ Entries = dqueue
    BY <1>5 DEF EventReady, Entries
  <2>3. RdHup(f) /\ Entries' = StackPush(dqueue, f) /\ f \in interest /\ f \in Fds
    BY <1>5, <2>1, <2>2 DEF Entries, Goto
  <2> SUFFICES ASSUME ~repeated' PROVE Current'
    BY DEF Current
  <2>4. /\ ~repeated
        /\ sockOf[f] \notin reported /\ reported' = reported \cup {sockOf[f]}
    BY <2>1, <2>3 DEF EpollReport
  <2>5. HungUp(sockOf[f])
    <3>1. Open(f) /\ ~(pc[Acceptor] \in {"shutdown", "close"} /\ f = closing[Acceptor])
      BY <2>3 DEF Tracked
    <3>2. sockOf[f] \notin shut
      BY <2>3, <3>1 DEF Distinct
    <3>3. QED
      BY <2>3, <3>2 DEF RdHup
  <2>6. /\ dqueue \in Seq(Fds)
        /\ \A i \in DOMAIN dqueue :
              /\ dqueue[i] \in interest
              /\ HungUp(sockOf[dqueue[i]]) /\ sockOf[dqueue[i]] \in reported
        /\ \A i, k \in DOMAIN dqueue : dqueue[i] = dqueue[k] => i = k
    BY <2>2, <2>4 DEF Current, EndpointTypes
  <2>7. /\ \A i \in DOMAIN Entries' : i # 1 => i - 1 \in DOMAIN dqueue /\ Entries'[i] = dqueue[i - 1]
        /\ Entries'[1] = f
    <3>1. \A i \in DOMAIN Entries' : i # 1 => i - 1 \in DOMAIN dqueue /\ Entries'[i] = dqueue[i - 1]
      BY <2>3, <2>6, PushFacts
    <3>2. Entries'[1] = f
      BY <2>3, <2>6, PushFacts
    <3>3. QED
      BY <3>1, <3>2
  <2>8. Entries' \in Seq(Fds)
    BY <2>3, <2>6, PushFacts
  <2>9. \A i, k \in DOMAIN Entries' : Entries'[i] = Entries'[k] => i = k
    <3>1. \A i \in DOMAIN Entries' : i \in Nat
      BY <2>8
    <3>2. \A i \in DOMAIN dqueue : dqueue[i] # f
      BY <2>4, <2>6
    <3>3. ASSUME NEW i \in DOMAIN Entries', NEW k \in DOMAIN Entries',
                 Entries'[i] = Entries'[k], i # 1, k # 1
          PROVE  i = k
      <4>1. i - 1 \in DOMAIN dqueue /\ k - 1 \in DOMAIN dqueue /\ dqueue[i - 1] = dqueue[k - 1]
        BY <2>7, <3>3
      <4>2. i - 1 = k - 1
        BY <2>6, <4>1
      <4>3. QED
        BY <3>1, <4>2
    <3>4. \A i \in DOMAIN Entries' : i # 1 => Entries'[i] # Entries'[1]
      BY <2>7, <3>2
    <3>5. QED
      BY <3>3, <3>4
  <2>10. ASSUME NEW i \in DOMAIN Entries'
         PROVE  /\ (Entries[i] \in interest)' /\ HungUp(sockOf[Entries[i]])'
                /\ (sockOf[Entries[i]] \in reported)'
    <3>1. /\ Entries'[i] \in interest /\ HungUp(sockOf[Entries'[i]])
          /\ sockOf[Entries'[i]] \in reported'
      <4>1. CASE i = 1
        <5>1. Entries'[i] = f /\ f \in interest
          BY <2>3, <2>7, <4>1, Zenon
        <5>2. sockOf[f] \in reported'
          BY <2>4
        <5>3. QED
          BY <2>5, <5>1, <5>2, Zenon
      <4>2. CASE i # 1
        <5>1. i - 1 \in DOMAIN dqueue /\ Entries'[i] = dqueue[i - 1]
          BY <2>7, <4>2, Zenon
        <5>2. /\ dqueue[i - 1] \in interest /\ HungUp(sockOf[dqueue[i - 1]])
              /\ sockOf[dqueue[i - 1]] \in reported
          BY <2>6, <5>1, Zenon
        <5>3. sockOf[dqueue[i - 1]] \in reported'
          BY <2>4, <5>2
        <5>4. QED
          BY <5>1, <5>2, <5>3, Zenon
      <4>3. QED
        BY <4>1, <4>2, Zenon
    <3>2. interest' = interest /\ sockOf' = sockOf /\ peer' = peer
      BY <1>1, Zenon
    <3>3. HungUp(sockOf[Entries'[i]]) = HungUp(sockOf[Entries[i]])'
      BY <3>2, Zenon DEF HungUp
    <3>4. QED
      BY <3>1, <3>2, <3>3, Zenon
  <2>11. pc'[Acceptor] \in Disconnecting =>
              /\ Open(closing[Acceptor])' /\ HungUp(sockOf[closing[Acceptor]])'
              /\ (sockOf[closing[Acceptor]] \in reported)'
              /\ \A i \in DOMAIN Entries' : Entries'[i] # closing'[Acceptor]
    <3> SUFFICES ASSUME pc[Acceptor] \in Disconnecting
                 PROVE  /\ Open(closing[Acceptor])' /\ HungUp(sockOf[closing[Acceptor]])'
                        /\ (sockOf[closing[Acceptor]] \in reported)'
                        /\ \A i \in DOMAIN Entries' : Entries'[i] # closing'[Acceptor]
      BY <1>1
    <3>1. /\ Open(closing[Acceptor]) /\ HungUp(sockOf[closing[Acceptor]])
          /\ sockOf[closing[Acceptor]] \in reported /\ closing[Acceptor] # f
          /\ \A i \in DOMAIN dqueue : dqueue[i] # closing[Acceptor]
      BY <2>2, <2>4 DEF Current
    <3>2. closing' = closing /\ sockOf' = sockOf /\ peer' = peer
      BY <1>1, Zenon
    <3>3. Open(closing[Acceptor])' /\ HungUp(sockOf[closing[Acceptor]])'
      BY <3>1, <3>2, Zenon DEF Open, HungUp
    <3>4. (sockOf[closing[Acceptor]] \in reported)'
      BY <2>4, <3>1, <3>2
    <3>5. ASSUME NEW i \in DOMAIN Entries' PROVE Entries'[i] # closing'[Acceptor]
      <4>1. CASE i = 1
        BY <2>7, <3>1, <3>2, <4>1, Zenon
      <4>2. CASE i # 1
        <5>1. i - 1 \in DOMAIN dqueue /\ Entries'[i] = dqueue[i - 1]
          BY <2>7, <4>2, Zenon
        <5>2. QED
          BY <3>1, <3>2, <5>1, Zenon
      <4>3. QED
        BY <4>1, <4>2, Zenon
    <3>6. QED
      BY <3>3, <3>4, <3>5, Zenon
  <2>12. QED
    BY <2>9, <2>10, <2>11 DEF Current
<1>6. ~EventReady(Selector, "reported") => Entries' = Entries
  <2>1. CASE Enqueue(Selector, "reported")
    BY <2>1 DEF Enqueue, Entries, Goto
  <2>2. CASE EventVanishes(Selector)
    BY <2>2 DEF EventVanishes, Entries, endpointVars, changeVars, reportVars
  <2>3. CASE EventTimeout(Selector, "reported") \/ CheckEvent
    BY <2>3 DEF EventTimeout, CheckEvent, Entries, Goto
  <2>4. QED
    BY <2>1, <2>2, <2>3 DEF SelectorStep
<1>7. QED
  BY <1>4, <1>5, <1>6

LEMMA NextCurrent ==
    ASSUME Typed, Staffed, Tracked, Distinct, Current, Next
    PROVE  Current' \/ Killed'
<1> USE ThreadFacts, EntriesType DEF Typed, SocketTypes
<1>1. ~repeated => \A i \in DOMAIN Entries :
           Entries[i] \in interest /\ sockOf[Entries[i]] \in Conns
  BY FdFacts DEF Current, Tracked, Open
<1>2. ~repeated /\ pc[Acceptor] \in Disconnecting =>
           sockOf[closing[Acceptor]] \in Conns
  BY DEF Current, Open
<1>3. ASSUME NEW w \in Workers, WorkerStep(w), ~Killed' PROVE Current'
  <2>1. ~BrokenPipe(w) /\ ~AnswerFaults(w)
    BY <1>3 DEF BrokenPipe, AnswerFaults, Kill, Killed
  <2>2. /\ pc'[Acceptor] = pc[Acceptor] /\ pc'[Selector] = pc[Selector]
        /\ UNCHANGED <<interest, sockOf, closing, dqueue, event>>
    BY <1>3, <2>1 DEF WorkerStep, TakeJob, RecvBegins, RecvReads, RecvFails, Answer, JobDone, Goto, socketVars,
       changeVars, reportVars
  <2>3. Entries' = Entries
    BY <2>2 DEF Entries
  <2>4. QED
    BY <1>1, <1>2, <2>2, <2>3, CurrentFrame
<1>4. CASE Stop \/ JoinPool \/ JoinThread(Acceptor, "join_acceptor", "join_selector")
           \/ JoinThread(Selector, "join_selector", "w_join")
  <2>1. /\ pc'[Acceptor] = pc[Acceptor] /\ pc'[Selector] = pc[Selector]
        /\ UNCHANGED <<interest, sockOf, closing, dqueue, event>>
    BY <1>4 DEF Stop, JoinPool, JoinThread, Goto, socketVars, changeVars, reportVars
  <2>2. Entries' = Entries
    BY <2>1 DEF Entries
  <2>3. QED
    BY <1>1, <1>2, <2>1, <2>2, CurrentFrame
<1>5. CASE EndpointClose(Main, "exited")
  <2>1. pc'[Acceptor] = "ended" /\ pc'[Selector] = "ended" /\ dqueue' = <<>>
    BY <1>5 DEF EndpointClose, DisconnectAllClients, StackEmptied, Goto, Staffed,
       changeVars, reportVars
  <2>2. Entries' = <<>>
    BY <2>1 DEF Entries
  <2>3. QED
    BY <2>1, <2>2 DEF Current, Disconnecting
<1>6. QED
  BY <1>3, <1>4, <1>5, ClientCurrent, AcceptorCurrent, SelectorCurrent DEF Next, MainStep

------------------------------------------------------------------------------
(* The answers.                                                            *)

(* Whoever is being answered was so before, and its descriptor means the   *)
(* same, unless the asker has hung up.                                     *)
LEMMA AskingFrame ==
    ASSUME Typed, Asking, Next,
           \A w \in Workers : pc'[w] \in {"receiving", "answer"} =>
               /\ pc[w] \in {"receiving", "answer"}
               /\ job'[w] = job[w] /\ asker'[w] = asker[w]
               /\ \/ sockOf'[job[w]] = sockOf[job[w]]
                  \/ sockOf[job[w]] # asker[w]
                  \/ ~repeated => HungUp(asker[w])
    PROVE  Asking'
<1> SUFFICES ASSUME ~repeated', NEW w \in Workers, pc'[w] \in {"receiving", "answer"}
             PROVE  sockOf'[job'[w]] = asker'[w] \/ HungUp(asker[w])'
  BY DEF Asking
<1>1. ~repeated /\ \A c \in Conns : HungUp(c) => HungUp(c)'
  BY PeersMoveOn
<1>2. asker[w] \in Conns
  BY DEF Typed, Held
<1>3. HungUp(asker[w]) => HungUp(asker[w])'
  BY <1>1, <1>2 DEF HungUp
<1>4. sockOf[job[w]] = asker[w] \/ HungUp(asker[w])
  BY <1>1 DEF Asking
<1>5. QED
  BY <1>1, <1>3, <1>4

LEMMA NextAsking ==
    ASSUME Typed, Staffed, Tracked, Current, Asking, Next
    PROVE  Asking' \/ Killed'
<1> USE ThreadFacts, FdFacts DEF Typed, EndpointTypes, ServerTypes, Goto
<1>1. CASE \E c \in Conns : ClientStep(c)
  <2>1. UNCHANGED <<sockOf, pc, job, asker>>
    BY <1>1 DEF ClientStep, Connect, Send, HangUp, Reset, Wake, endpointVars, serverVars
  <2>2. QED
    BY <2>1, AskingFrame
<1>2. CASE AcceptorStep
  <2>1. /\ \A w \in Workers : pc'[w] = pc[w]
        /\ UNCHANGED <<job, asker>>
    BY <1>2 DEF AcceptorStep, AcceptWait, AcceptTimeout, Accept, AcceptDrops, AcceptNone, Register, Add,
       CheckAccept, HupLock, Pop, HupUnlock, Deregister, Delete, ShutDownClient, CloseClient, serverVars,
       changeVars, reportVars
  <2>2. CASE Accept(Acceptor)
    <3>1. \A f \in Fds : sockOf'[f] = sockOf[f] \/ ~Open(f)
      BY <2>2, LowestFreeFacts DEF Accept, SocketTypes, changeVars, reportVars
    <3>2. \A w \in Workers : pc[w] \in {"receiving", "answer"} => job[w] \in Fds /\ asker[w] \in Conns
      BY DEF Held
    <3>3. \A w \in Workers : pc[w] \in {"receiving", "answer"} =>
             sockOf'[job[w]] = sockOf[job[w]] \/ sockOf[job[w]] # asker[w]
      BY <3>1, <3>2 DEF Open
    <3>4. QED
      BY <2>1, <3>3, AskingFrame
  <2>3. CASE CloseClient(Acceptor, "pop")
    <3>1. closing[Acceptor] \in Fds /\ pc[Acceptor] \in Disconnecting
      BY <2>3 DEF CloseClient, Held, Disconnecting, changeVars, reportVars
    <3>2. \A f \in Fds : f # closing[Acceptor] => sockOf'[f] = sockOf[f]
      BY <2>3 DEF CloseClient, CloseAll, changeVars, reportVars
    <3>3. ~repeated => HungUp(sockOf[closing[Acceptor]])
      BY <3>1 DEF Current
    <3>4. \A w \in Workers : pc[w] \in {"receiving", "answer"} => job[w] \in Fds
      BY DEF Held
    <3>5. QED
      BY <2>1, <3>1, <3>2, <3>3, <3>4, AskingFrame
  <2>4. CASE UNCHANGED sockOf
    BY <2>1, <2>4, AskingFrame
  <2>5. AcceptorStep => Accept(Acceptor) \/ CloseClient(Acceptor, "pop") \/ UNCHANGED sockOf
    BY DEF AcceptorStep, AcceptWait, AcceptTimeout, AcceptDrops, AcceptNone, Register, Add,
       CheckAccept, HupLock, Pop, HupUnlock, Deregister, Delete, ShutDownClient, socketVars,
       changeVars, reportVars
  <2>6. QED
    BY <1>2, <2>2, <2>3, <2>4, <2>5
<1>3. CASE SelectorStep
  <2>1. /\ \A w \in Workers : pc'[w] = pc[w]
        /\ UNCHANGED <<sockOf, job, asker>>
    BY <1>3 DEF SelectorStep, EventReady, EventVanishes, EventTimeout, Enqueue, CheckEvent,
       endpointVars, socketVars, serverVars, changeVars, reportVars, EpollReport
  <2>2. QED
    BY <2>1, AskingFrame
<1>4. ASSUME NEW w \in Workers, WorkerStep(w), ~Killed' PROVE Asking'
  <2>1. /\ \A v \in Workers \ {w} : pc'[v] = pc[v] /\ job'[v] = job[v] /\ asker'[v] = asker[v]
        /\ UNCHANGED sockOf
    BY <1>4 DEF WorkerStep, TakeJob, RecvBegins, RecvReads, RecvFails, Answer, BrokenPipe, AnswerFaults, Kill, Killed, JobDone,
       socketVars, serverVars, changeVars, reportVars
  <2>2. CASE RecvBegins(w)
    <3>1. sockOf'[job'[w]] = asker'[w] /\ UNCHANGED peer
      BY <2>2 DEF RecvBegins, socketVars, changeVars, reportVars
    <3> SUFFICES ASSUME ~repeated', NEW v \in Workers, pc'[v] \in {"receiving", "answer"}
                 PROVE  sockOf'[job'[v]] = asker'[v] \/ HungUp(asker[v])'
      BY DEF Asking
    <3>2. CASE v = w
      BY <3>1, <3>2
    <3>3. CASE v # w
      <4>1. sockOf[job[v]] = asker[v] \/ HungUp(asker[v])
        BY <2>1, <3>3, PeersMoveOn DEF Asking
      <4>2. QED
        BY <2>1, <3>1, <3>3, <4>1 DEF HungUp
    <3>4. QED
      BY <3>2, <3>3
  <2>3. CASE RecvReads(w)
    BY <2>1, <2>3, AskingFrame DEF RecvReads, serverVars, changeVars, reportVars
  <2>4. CASE TakeJob(w) \/ RecvFails(w) \/ Answer(w)
    <3>1. pc'[w] \notin {"receiving", "answer"}
      BY <2>4 DEF TakeJob, RecvFails, Answer, JobDone
    <3>2. QED
      BY <2>1, <3>1, AskingFrame
  <2>5. ~BrokenPipe(w) /\ ~AnswerFaults(w)
    BY <1>4 DEF BrokenPipe, AnswerFaults, Kill, Killed
  <2>6. QED
    BY <1>4, <2>2, <2>3, <2>4, <2>5 DEF WorkerStep
<1>5. CASE Stop \/ JoinPool \/ JoinThread(Acceptor, "join_acceptor", "join_selector")
           \/ JoinThread(Selector, "join_selector", "w_join")
  <2>1. /\ \A w \in Workers : pc'[w] = pc[w]
        /\ UNCHANGED <<sockOf, job, asker>>
    BY <1>5 DEF Stop, JoinPool, JoinThread, socketVars, serverVars, changeVars, reportVars
  <2>2. QED
    BY <2>1, AskingFrame
<1>6. CASE EndpointClose(Main, "exited")
  <2>1. \A w \in Workers : pc'[w] = "idle"
    BY <1>6 DEF EndpointClose, Staffed, changeVars, reportVars
  <2>2. QED
    BY <2>1 DEF Asking
<1>7. QED
  BY <1>1, <1>2, <1>3, <1>4, <1>5, <1>6 DEF Next, MainStep

LEMMA NextOnlyTheGoneMissOut ==
    ASSUME Typed, Asking, OnlyTheGoneMissOut, Next
    PROVE  OnlyTheGoneMissOut'
<1> SUFFICES ASSUME ~repeated', NEW a \in answers'
             PROVE  a[1] = a[2] \/ HungUp(a[1])'
  BY DEF OnlyTheGoneMissOut
<1>1. ~repeated /\ \A c \in Conns : HungUp(c) => HungUp(c)'
  BY PeersMoveOn
<1>2. CASE a \in answers
  <2>1. a[1] \in Conns
    BY <1>2 DEF Typed, ServerTypes
  <2>2. a[1] = a[2] \/ HungUp(a[1])
    BY <1>1, <1>2 DEF OnlyTheGoneMissOut
  <2>3. QED
    BY <1>1, <2>1, <2>2 DEF HungUp
<1>3. ASSUME NEW w \in Workers, Answer(w), a \notin answers
      PROVE  a[1] = a[2] \/ HungUp(a[1])'
  <2>1. a = <<asker[w], sockOf[job[w]]>> /\ UNCHANGED peer /\ pc[w] = "answer"
    BY <1>3 DEF Answer, SendAnswer, socketVars, changeVars, reportVars
  <2>2. sockOf[job[w]] = asker[w] \/ HungUp(asker[w])
    BY <1>1, <2>1 DEF Asking
  <2>3. QED
    BY <2>1, <2>2 DEF HungUp
<1>4. answers' = answers \/ \E w \in Workers : Answer(w)
  <2>1. CASE \E c \in Conns : ClientStep(c)
    BY <2>1 DEF ClientStep, serverVars
  <2>2. CASE AcceptorStep
    BY <2>2 DEF AcceptorStep, CheckAccept, serverVars
  <2>3. CASE SelectorStep
    BY <2>3 DEF SelectorStep, CheckEvent, serverVars
  <2>4. ASSUME NEW w \in Workers, WorkerStep(w), ~Answer(w) PROVE answers' = answers
    BY <2>4 DEF WorkerStep, TakeJob, RecvBegins, RecvReads, RecvFails, BrokenPipe, AnswerFaults, serverVars,
       changeVars, reportVars
  <2>5. CASE Stop \/ MainStep
    BY <2>5 DEF Stop, MainStep, JoinThread, JoinPool, serverVars
  <2>6. QED
    BY <2>1, <2>2, <2>3, <2>4, <2>5 DEF Next
<1>5. QED
  BY <1>2, <1>3, <1>4

------------------------------------------------------------------------------
(* The invariant.                                                          *)

LEMMA StackIsCurrentEntries ==
    StackIsCurrent <=>
        (~repeated =>
            /\ \A i \in DOMAIN Entries : Open(Entries[i]) /\ HungUp(sockOf[Entries[i]])
            /\ \A i, k \in DOMAIN Entries : Entries[i] = Entries[k] => i = k)
  BY DEF StackIsCurrent, Entries

LEMMA CurrentIsStackIsCurrent == Typed /\ Tracked /\ Current => StackIsCurrent
<1> SUFFICES ASSUME Typed, Tracked, Current PROVE StackIsCurrent
  OBVIOUS
<1>1. ASSUME ~repeated
      PROVE  /\ \A i \in DOMAIN Entries : Open(Entries[i]) /\ HungUp(sockOf[Entries[i]])
             /\ \A i, k \in DOMAIN Entries : Entries[i] = Entries[k] => i = k
  <2>1. \A i \in DOMAIN Entries : Entries[i] \in Fds /\ Entries[i] \in interest /\ HungUp(sockOf[Entries[i]])
    BY <1>1, EntriesType DEF Current
  <2>2. \A f \in Fds : f \in interest => Open(f)
    BY DEF Tracked
  <2>3. \A i, k \in DOMAIN Entries : Entries[i] = Entries[k] => i = k
    BY <1>1 DEF Current
  <2>4. QED
    BY <2>1, <2>2, <2>3
<1>2. QED
  BY <1>1, StackIsCurrentEntries

(* A signal leaves the stack as it is; an event about to be pushed is lost.*)
LEMMA KilledStack ==
    ASSUME Typed, StackIsCurrent, Next, NEW w \in Workers, BrokenPipe(w) \/ AnswerFaults(w)
    PROVE  StackIsCurrent'
<1>1. UNCHANGED <<dqueue, event, sockOf, peer>> /\ pc'[Selector] = "killed"
  BY ThreadFacts DEF BrokenPipe, AnswerFaults, Kill, socketVars, changeVars, reportVars
<1>2. Entries' = dqueue
  BY <1>1 DEF Entries
<1>3. ASSUME ~repeated
      PROVE  /\ \A i \in DOMAIN dqueue : Open(dqueue[i]) /\ HungUp(sockOf[dqueue[i]])
             /\ \A i, k \in DOMAIN dqueue : dqueue[i] = dqueue[k] => i = k
  <2>1. CASE pc[Selector] # "enqueue"
    <3>1. Entries = dqueue
      BY <2>1 DEF Entries
    <3>2. QED
      BY <1>3, <3>1, StackIsCurrentEntries
  <2>2. CASE pc[Selector] = "enqueue"
    <3>1. Entries = StackPush(dqueue, event) /\ dqueue \in Seq(Fds) /\ event \in Fds
      BY <2>2 DEF Entries, Typed, EndpointTypes, Held
    <3>2. \A i \in DOMAIN dqueue : i + 1 \in DOMAIN Entries /\ Entries[i + 1] = dqueue[i]
      BY <3>1, PushFacts
    <3>3. \A i, k \in DOMAIN dqueue : i + 1 = k + 1 => i = k
      BY <3>1
    <3>4. \A i \in DOMAIN dqueue : Open(dqueue[i]) /\ HungUp(sockOf[dqueue[i]])
      BY <1>3, <3>2, StackIsCurrentEntries
    <3>5. \A i, k \in DOMAIN Entries : Entries[i] = Entries[k] => i = k
      BY <1>3, StackIsCurrentEntries
    <3>6. QED
      BY <3>2, <3>3, <3>4, <3>5
  <2>3. QED
    BY <2>1, <2>2
<1>4. ~repeated' => ~repeated
  BY PeersMoveOn
<1>5. StackIsCurrent' <=>
        (~repeated' =>
            /\ \A i \in DOMAIN dqueue : Open(dqueue[i])' /\ HungUp(sockOf[dqueue[i]])'
            /\ \A i, k \in DOMAIN dqueue : dqueue[i] = dqueue[k] => i = k)
  BY <1>1 DEF StackIsCurrent
<1>6. QED
  BY <1>1, <1>3, <1>4, <1>5 DEF Open, HungUp

(* A socket that is open and shut down is the one the acceptor is closing. *)
LEMMA PipeOfTheGone == Typed /\ Distinct /\ Current => OnlyTheGoneBreakThePipe
<1> SUFFICES ASSUME Typed, Distinct, Current, ~repeated,
                    NEW w \in Workers, PipeBroken(w)
             PROVE  HungUp(sockOf[job[w]])
  BY DEF OnlyTheGoneBreakThePipe
<1>1. Open(job[w]) /\ job[w] \in Fds
  BY DEF PipeBroken, Open
<1>2. CASE sockOf[job[w]] \in shut
  <2>1. pc[Acceptor] = "close" /\ closing[Acceptor] = job[w]
    BY <1>1, <1>2 DEF Distinct
  <2>2. QED
    BY <2>1 DEF Current, Disconnecting
<1>3. CASE peer[sockOf[job[w]]] = "rst"
  BY <1>3 DEF HungUp
<1>4. QED
  BY <1>2, <1>3 DEF PipeBroken

LEMMA InitInv == Init => Inv
<1> SUFFICES ASSUME Init PROVE Inv
  OBVIOUS
<1>1. Typed
  BY TypedInit DEF Init
<1>2. pc[Acceptor] = "accept_wait" /\ pc[Selector] = "event_wait" /\ pc[Main] = "up"
      /\ \A w \in Workers : pc[w] = "idle"
  BY ThreadFacts DEF Init, ServerInit
<1>3. /\ \A f \in Fds : ~Open(f)
      /\ \A f, g \in Fds : sockOf[f] = Nobody
      /\ connected = {} /\ interest = {} /\ shut = {} /\ backlog = <<>> /\ dqueue = <<>>
      /\ newFd = NoFd /\ answers = {}
  BY DEF Init, ServerInit, SocketsInit, EndpointInit, StackEmptied, Open
<1>4. Entries = <<>>
  BY <1>2, <1>3 DEF Entries
<1>5. Staffed
  BY <1>2, <1>3, FdFacts DEF Staffed
<1>6. Tracked
  BY <1>2, <1>3 DEF Tracked
<1>7. Distinct
  BY <1>3 DEF Distinct
<1>8. Current
  BY <1>2, <1>4 DEF Current, Disconnecting
<1>9. Asking
  BY <1>2 DEF Asking
<1>10. NothingLeftOpen /\ OnlyTheGoneMissOut
  BY <1>2, <1>3 DEF NothingLeftOpen, OnlyTheGoneMissOut
<1>11. OnlyTheGoneBreakThePipe
  BY <1>2 DEF OnlyTheGoneBreakThePipe
<1>12. QED
  BY <1>1, <1>5, <1>6, <1>7, <1>8, <1>9, <1>10, <1>11, CurrentIsStackIsCurrent DEF Inv, Upright

LEMMA NextInv == Inv /\ Next => Inv'
<1> SUFFICES ASSUME Inv, Next PROVE Inv'
  OBVIOUS
<1>1. Typed /\ Upright
  BY KilledIsFinal DEF Inv
<1>2. Typed'
  BY <1>1, NextTyped
<1>3. OnlyTheGoneMissOut'
  BY <1>1, NextOnlyTheGoneMissOut DEF Inv, Upright
<1>4. CASE Killed'
  <2>1. CASE \E w \in Workers : BrokenPipe(w) \/ AnswerFaults(w)
    <3>1. OnlyTheGoneBreakThePipe'
      BY <1>4, ThreadFacts DEF OnlyTheGoneBreakThePipe, Killed, Threads
    <3>2. QED
      BY <1>1, <1>2, <1>3, <1>4, <2>1, <3>1, KilledStack DEF Inv
  <2>2. CASE ~\E w \in Workers : BrokenPipe(w) \/ AnswerFaults(w)
    <3>1. ~(pc'[Main] = "killed" /\ pc'[Selector] = "killed")
      <4> USE ThreadFacts DEF Goto, Typed, Upright, Staffed
      <4>1. CASE \E c \in Conns : ClientStep(c)
        BY <1>1, <4>1 DEF ClientStep, endpointVars
      <4>2. CASE AcceptorStep
        BY <1>1, <4>2 DEF AcceptorStep, AcceptWait, AcceptTimeout, Accept, AcceptDrops, AcceptNone, Register, Add,
           CheckAccept, HupLock, Pop, HupUnlock, Deregister, Delete, ShutDownClient, CloseClient,
           changeVars, reportVars
      <4>3. CASE SelectorStep
        BY <1>1, <4>3 DEF SelectorStep, EventReady, EventVanishes, EventTimeout, Enqueue, CheckEvent, endpointVars,
           changeVars, reportVars, EpollReport
      <4>4. CASE \E w \in Workers : WorkerStep(w)
        BY <1>1, <2>2, <4>4 DEF WorkerStep, TakeJob, RecvBegins, RecvReads, RecvFails, Answer, JobDone,
           changeVars, reportVars
      <4>5. CASE Stop \/ MainStep
        BY <1>1, <4>5 DEF Stop, MainStep, JoinThread, JoinPool, EndpointClose,
           changeVars, reportVars
      <4>6. QED
        BY <4>1, <4>2, <4>3, <4>4, <4>5 DEF Next
    <3>2. QED
      BY <1>4, <3>1, ThreadFacts DEF Killed
  <2>3. QED
    BY <2>1, <2>2
<1>5. CASE ~Killed'
  <2>1. Staffed' /\ Tracked' /\ Distinct' /\ Current' /\ Asking' /\ NothingLeftOpen'
    BY <1>1, <1>5, NextStaffed, NextTracked, NextDistinct, NextCurrent, NextAsking, NextNothingLeftOpen DEF Upright
  <2>2. StackIsCurrent'
    <3>1. (Typed /\ Tracked /\ Current => StackIsCurrent)'
      BY CurrentIsStackIsCurrent, PTL
    <3>2. QED
      BY <1>2, <2>1, <3>1
  <2>3. OnlyTheGoneBreakThePipe'
    <3>1. (Typed /\ Distinct /\ Current => OnlyTheGoneBreakThePipe)'
      BY PipeOfTheGone, PTL
    <3>2. QED
      BY <1>2, <2>1, <3>1
  <2>4. QED
    BY <1>2, <1>3, <2>1, <2>2, <2>3 DEF Inv, Upright
<1>6. QED
  BY <1>4, <1>5

LEMMA StutterInv == Inv /\ UNCHANGED vars => Inv'
<1> SUFFICES ASSUME Inv, UNCHANGED vars PROVE Inv'
  OBVIOUS
<1> USE DEF vars, socketVars, endpointVars, serverVars, changeVars, reportVars
<1>1. Typed'
  BY TypedStutter DEF Inv
<1>2. Entries' = Entries
  BY DEF Entries
<1>3. StackIsCurrent' /\ OnlyTheGoneMissOut' /\ OnlyTheGoneBreakThePipe'
  BY DEF Inv, StackIsCurrent, OnlyTheGoneMissOut, OnlyTheGoneBreakThePipe, PipeBroken, Open, HungUp
<1>4. Killed => Killed'
  BY DEF Killed
<1>5. Upright => Upright'
  <2> SUFFICES ASSUME Upright PROVE Upright'
    OBVIOUS
  <2>1. Staffed'
    BY DEF Upright, Staffed
  <2>2. Tracked'
    BY DEF Upright, Tracked, Open
  <2>3. Distinct'
    BY DEF Upright, Distinct, Open
  <2>4. Current'
    BY <1>2 DEF Upright, Current, Open, HungUp
  <2>5. Asking' /\ NothingLeftOpen'
    BY DEF Upright, Asking, NothingLeftOpen, Open, HungUp
  <2>6. QED
    BY <2>1, <2>2, <2>3, <2>4, <2>5 DEF Upright
<1>6. QED
  BY <1>1, <1>3, <1>4, <1>5 DEF Inv

LEMMA InvClientsTracked == Inv => ClientsTracked
<1> SUFFICES ASSUME Inv, pc[Main] # "killed", NEW f \in Fds \ InHand
             PROVE  (Open(f) <=> f \in connected) /\ (Open(f) <=> f \in interest)
  BY DEF ClientsTracked
<1>1. Tracked
  BY ThreadFacts DEF Inv, Upright, Killed
<1>2. f # newFd
  BY DEF InHand
<1>3. pc[Acceptor] \in {"delete", "shutdown", "close"} => f # closing[Acceptor]
  BY ThreadFacts DEF InHand
<1>4. QED
  BY <1>1, <1>2, <1>3 DEF Tracked

(* In every state of the server: the types; the stack and the answers, as  *)
(* long as no hang-up has been reported again; and unless a signal has     *)
(* ended the program, the threads are where the joins of main expect them, *)
(* record and epoll set hold the open sockets, each connection is behind   *)
(* one descriptor, and endpoint_close has left none.                       *)
THEOREM UnixServerInvariant == Spec => []Inv
<1>1. Inv /\ [Next]_vars => Inv'
  BY NextInv, StutterInv
<1>2. QED
  BY <1>1, InitInv, PTL DEF Spec

(* The state of Run_unix_srv.c, of the endpoint and of the kernel has the  *)
(* values of its types; above all, what a thread passes to a system call   *)
(* was a descriptor when it got it.                                        *)
THEOREM UnixServerTypeOK == Spec => []TypeOK
<1>1. Inv => TypeOK
  BY TypedIsTypeOK DEF Inv
<1>2. QED
  BY <1>1, UnixServerInvariant, PTL

(* endpoint_accept and endpoint_disconnect_client, run by the acceptor     *)
(* while workers and clients go on, keep the record of clients and the     *)
(* epoll set equal to the open sockets, but for the one in hand.           *)
THEOREM UnixServerClientsTracked == Spec => []ClientsTracked
  BY InvClientsTracked, UnixServerInvariant, PTL

(* endpoint_close leaves no socket open and not the server's either.       *)
THEOREM UnixServerNothingLeftOpen == Spec => []NothingLeftOpen
<1>1. Inv => NothingLeftOpen
  <2>1. Killed => pc[Main] # "exited"
    BY ThreadFacts DEF Killed
  <2>2. QED
    BY <2>1 DEF Inv, Upright, NothingLeftOpen
<1>2. QED
  BY <1>1, UnixServerInvariant, PTL

(* As long as epoll_wait has not reported a hang-up again, which it may do *)
(* for a plain close too, the numbers in the disconnect queue of           *)
(* endpoint.c are not out of date: each is the open socket of a client that*)
(* has hung up, and none is there twice.                                   *)
THEOREM UnixServerStackIsCurrent == Spec => []StackIsCurrent
<1>1. Inv => StackIsCurrent
  BY DEF Inv
<1>2. QED
  BY <1>1, UnixServerInvariant, PTL

(* As long as no hang-up has been reported again, html_answer sends no page*)
(* to anybody else than the client whose request it read, unless that      *)
(* client has hung up.                                                     *)
THEOREM UnixServerOnlyTheGoneMissOut == Spec => []OnlyTheGoneMissOut
<1>1. Inv => OnlyTheGoneMissOut
  BY DEF Inv
<1>2. QED
  BY <1>1, UnixServerInvariant, PTL

(* As long as no hang-up has been reported again, the descriptor that      *)
(* html_answer sends to raises SIGPIPE only if the client behind it has at *)
(* least shut down its sending side; it may still wait for its answer.     *)
THEOREM UnixServerOnlyTheGoneBreakThePipe == Spec => []OnlyTheGoneBreakThePipe
<1>1. Inv => OnlyTheGoneBreakThePipe
  BY DEF Inv
<1>2. QED
  BY <1>1, UnixServerInvariant, PTL

------------------------------------------------------------------------------
(* The endpoint implements the abstract one.                               *)

Arrived == {c \in Conns : peer[c] # "away"}
Gone == {c \in Conns : HungUp(c)}
Served == {sockOf[f] : f \in {g \in Fds : Open(g)}}

LEMMA ServiceInit == Init => Service!Init
<1> SUFFICES ASSUME Init PROVE Service!Init
  OBVIOUS
<1>1. /\ listening = TRUE /\ backlog = <<>>
      /\ \A c \in Conns : peer[c] = "away"
      /\ \A f \in Fds : ~Open(f)
  BY DEF Init, ServerInit, SocketsInit, Open
<1>2. ~listening = FALSE /\ repeated = FALSE
  BY <1>1 DEF Init, ServerInit, SocketsInit
<1>3. Arrived = {} /\ Gone = {} /\ Served = {}
  BY <1>1 DEF Arrived, Gone, Served, HungUp
<1>4. QED
  BY <1>1, <1>2, <1>3 DEF Service!Init, Arrived, Gone, Served

(* A step that changes neither sockets nor clients is a stutter of the     *)
(* abstract endpoint.                                                      *)
LEMMA ServiceStutter ==
    UNCHANGED <<listening, backlog, sockOf, peer, repeated>> => UNCHANGED Service!vars
  BY DEF Service!vars, Open, HungUp

LEMMA ClientServes ==
    ASSUME Typed, NEW c \in Conns, ClientStep(c)
    PROVE  [Service!Next]_Service!vars
<1> USE DEF Typed, SocketTypes
<1>1. UNCHANGED <<listening, sockOf, repeated>>
  BY DEF ClientStep, Connect, Send, HangUp, Reset, Wake, reportVars
<1>2. Served' = Served
  BY <1>1 DEF Served, Open
<1>3. CASE Connect(c)
  <2>1. /\ listening /\ peer[c] = "away" /\ peer'[c] = "open"
        /\ \A d \in Conns \ {c} : peer'[d] = peer[d]
        /\ backlog' = Append(backlog, c)
    BY <1>3 DEF Connect
  <2>2. Arrived' = Arrived \cup {c} /\ c \notin Arrived /\ Gone' = Gone
    BY <2>1 DEF Arrived, Gone, HungUp
  <2>3. Service!Arrive(c)
    BY <1>1, <1>2, <2>1, <2>2 DEF Service!Arrive, Arrived, Gone, Served
  <2>4. QED
    BY <2>3 DEF Service!Next
<1>4. CASE Send(c) \/ Wake(c)
  BY <1>1, <1>4, ServiceStutter DEF Send, Wake
<1>5. CASE HangUp(c) \/ Reset(c)
  <2>1. /\ peer[c] \in {"open", "fin"} /\ peer'[c] \in {"fin", "rst"}
        /\ \A d \in Conns \ {c} : peer'[d] = peer[d]
        /\ backlog' = backlog
    BY <1>5 DEF HangUp, Reset
  <2>2. Arrived' = Arrived /\ c \in Arrived /\ Gone' = Gone \cup {c}
    BY <2>1 DEF Arrived, Gone, HungUp
  <2>3. CASE c \notin Gone
    <3>1. Service!Leave(c)
      BY <1>1, <1>2, <2>1, <2>2, <2>3 DEF Service!Leave, Arrived, Gone, Served
    <3>2. QED
      BY <3>1 DEF Service!Next
  <2>4. CASE c \in Gone
    <3>1. Gone' = Gone
      BY <2>2, <2>4
    <3>2. UNCHANGED Service!vars
      BY <1>1, <1>2, <2>1, <2>2, <3>1 DEF Service!vars, Arrived, Gone, Served
    <3>3. QED
      BY <3>2
  <2>5. QED
    BY <2>3, <2>4
<1>6. QED
  BY <1>3, <1>4, <1>5 DEF ClientStep

(* epoll_wait reports a watched client; a hang-up it reports again is one. *)
LEMMA SelectorServes ==
    ASSUME Typed, Tracked, Distinct, SelectorStep
    PROVE  [Service!Next]_Service!vars
<1>1. UNCHANGED <<listening, backlog, sockOf, peer, shut>>
  BY DEF SelectorStep, EventReady, EventVanishes, EventTimeout, Enqueue, CheckEvent,
         socketVars, changeVars
<1>2. CASE repeated' = repeated
  BY <1>1, <1>2, ServiceStutter
<1>3. CASE repeated' # repeated
  <2>1. PICK f \in edges : EpollReport(f)
    BY <1>3 DEF SelectorStep, EventReady, EventVanishes, EventTimeout, Enqueue, CheckEvent,
       socketVars, reportVars
  <2>2. RdHup(f) /\ sockOf[f] \in reported /\ repeated' = TRUE
    BY <1>3, <2>1 DEF EpollReport, Typed, SocketTypes
  <2>3. sockOf[f] \in Gone
    <3>1. Open(f) /\ f \in interest /\ f \in Fds /\ sockOf[f] \in Conns
      BY <2>2 DEF RdHup, Open, Typed, SocketTypes
    <3>2. sockOf[f] \notin shut
      BY <3>1 DEF Distinct, Tracked
    <3>3. QED
      BY <2>2, <3>1, <3>2 DEF RdHup, Gone
  <2>4. Service!Repeat
    BY <1>1, <2>2, <2>3 DEF Service!Repeat, Gone, Open, HungUp
  <2>5. QED
    BY <2>4 DEF Service!Next
<1>4. QED
  BY <1>2, <1>3

(* The three steps of the acceptor that matter; its system calls in        *)
(* between, which other threads can see, do not.                           *)
LEMMA AcceptorServes ==
    ASSUME Typed, Distinct, Current, AcceptorStep
    PROVE  [Service!Next]_Service!vars
<1> USE DEF Typed, SocketTypes
<1>1. CASE Accept(Acceptor) \/ AcceptDrops(Acceptor, "accepted")
  <2>1. backlog # <<>> /\ backlog' = Tail(backlog) /\ FreeFds # {} /\ UNCHANGED <<listening, peer, repeated>>
    BY <1>1 DEF Accept, AcceptDrops, changeVars, reportVars
  <2>2. Arrived' = Arrived /\ Gone' = Gone /\ UNCHANGED repeated
    BY <2>1 DEF Arrived, Gone, HungUp
  <2>3. CASE Accept(Acceptor)
    <3>1. LowestFree \in Fds /\ ~Open(LowestFree)
      BY <2>1, LowestFreeFacts
    <3>2. Head(backlog) \in Conns /\ Head(backlog) = backlog[1] /\ 1 \in DOMAIN backlog
      BY <2>1, HeadAndTail
    <3>3. /\ sockOf'[LowestFree] = Head(backlog)
          /\ \A f \in Fds \ {LowestFree} : sockOf'[f] = sockOf[f]
      BY <2>3, <3>1 DEF Accept, changeVars, reportVars
    <3>4. Served' = Served \cup {Head(backlog)}
      <4>1. \A f \in Fds : Open(f)' <=> Open(f) \/ f = LowestFree
        BY <3>1, <3>2, <3>3, FdFacts DEF Open
      <4>2. \A f \in Fds : Open(f) => sockOf'[f] = sockOf[f]
        BY <3>1, <3>3
      <4>3. Served' \subseteq Served \cup {Head(backlog)}
        BY <3>3, <4>1, <4>2 DEF Served
      <4>4. Served \subseteq Served' /\ Head(backlog) \in Served'
        BY <3>1, <3>3, <4>1, <4>2 DEF Served
      <4>5. QED
        BY <4>3, <4>4
    <3>5. Head(backlog) \notin Served
      BY <3>2 DEF Distinct, Served
    <3>6. Service!Serve
      BY <2>1, <2>2, <3>4, <3>5 DEF Service!Serve, Arrived, Gone, Served
    <3>7. QED
      BY <3>6 DEF Service!Next
  <2>4. CASE AcceptDrops(Acceptor, "accepted")
    <3>1. Served' = Served
      BY <2>4 DEF AcceptDrops, Served, Open, changeVars, reportVars
    <3>2. Service!Drop
      BY <2>1, <2>2, <3>1 DEF Service!Drop, Arrived, Gone, Served
    <3>3. QED
      BY <3>2 DEF Service!Next
  <2>5. QED
    BY <1>1, <2>3, <2>4
<1>2. CASE CloseClient(Acceptor, "pop")
  <2> DEFINE f == closing[Acceptor]
  <2>1. /\ pc[Acceptor] = "close" /\ CloseAll({f})
        /\ UNCHANGED <<listening, backlog, peer, repeated>>
    BY <1>2 DEF CloseClient, changeVars, reportVars
  <2>2. f \in Fds
    BY <2>1, ThreadFacts DEF Held, Disconnecting
  <2>3. sockOf'[f] = Nobody /\ \A g \in Fds \ {f} : sockOf'[g] = sockOf[g]
    BY <2>1, <2>2, CloseOne
  <2>4. CASE Open(f)
    <3>1. sockOf[f] \in Served /\ sockOf[f] \in Conns
      BY <2>2, <2>4 DEF Served, Open
    <3>2. Served' = Served \ {sockOf[f]}
      <4>1. \A g \in Fds : Open(g)' <=> Open(g) /\ g # f
        BY <2>2, <2>3 DEF Open
      <4>2. \A g \in Fds : Open(g) /\ sockOf[g] = sockOf[f] => g = f
        BY <2>2 DEF Distinct
      <4>3. Served' \subseteq Served \ {sockOf[f]}
        BY <2>3, <4>1, <4>2 DEF Served
      <4>4. Served \ {sockOf[f]} \subseteq Served'
        <5>1. SUFFICES ASSUME NEW c \in Served, c # sockOf[f] PROVE c \in Served'
          BY Zenon
        <5>2. PICK g \in Fds : Open(g) /\ c = sockOf[g]
          BY Zenon DEF Served
        <5>3. Open(g)' /\ sockOf'[g] = c
          BY <2>3, <4>1, <5>1, <5>2, Zenon
        <5>4. QED
          BY <5>3, Zenon DEF Served
      <4>5. QED
        BY <4>3, <4>4
    <3>3. ~repeated => HungUp(sockOf[f])
      BY <2>1 DEF Current, Disconnecting
    <3>4. sockOf[f] \in Gone \/ repeated
      BY <3>1, <3>3 DEF Gone
    <3>5. Arrived' = Arrived /\ Gone' = Gone /\ UNCHANGED repeated
      BY <2>1 DEF Arrived, Gone, HungUp
    <3>6. PICK d \in Conns : d = sockOf[f]
      BY <3>1
    <3>7. Service!Disconnect(d)
      BY <2>1, <3>1, <3>2, <3>4, <3>5, <3>6 DEF Service!Disconnect, Arrived, Gone, Served
    <3>8. QED
      BY <3>7 DEF Service!Next
  <2>5. CASE ~Open(f)
    <3>1. sockOf'[f] = sockOf[f]
      BY <2>2, <2>3, <2>5 DEF Open
    <3>2. sockOf' \in [Fds -> Conns \cup {Nobody}]
      BY <2>1 DEF CloseAll
    <3>3. UNCHANGED sockOf
      BY <2>3, <3>1, <3>2
    <3>4. QED
      BY <2>1, <3>3, ServiceStutter
  <2>6. QED
    BY <2>4, <2>5
<1>3. CASE UNCHANGED <<listening, backlog, sockOf, peer, repeated>>
  BY <1>3, ServiceStutter
<1>4. QED
  BY <1>1, <1>2, <1>3
     DEF AcceptorStep, AcceptWait, AcceptTimeout, AcceptNone, Register, Add, CheckAccept, HupLock, Pop, HupUnlock,
         Deregister, Delete, ShutDownClient, socketVars, changeVars, reportVars

LEMMA NextServes ==
    ASSUME Inv, Next
    PROVE  [Service!Next]_Service!vars
<1>1. Typed /\ Upright
  BY KilledIsFinal DEF Inv
<1>2. CASE \E c \in Conns : ClientStep(c)
  BY <1>1, <1>2, ClientServes
<1>3. CASE AcceptorStep
  BY <1>1, <1>3, AcceptorServes DEF Upright
<1>4. CASE EndpointClose(Main, "exited")
  <2>1. /\ listening' = FALSE /\ backlog' = <<>> /\ UNCHANGED <<peer, repeated>>
        /\ \A f \in Fds : sockOf'[f] = IF f \in connected THEN Nobody ELSE sockOf[f]
    BY <1>4 DEF EndpointClose, DisconnectAllClients, CloseAll, changeVars, reportVars
  <2>2. pc[Acceptor] = "ended"
    BY <1>1, <1>4, ThreadFacts DEF EndpointClose, Upright, Staffed, changeVars, reportVars
  <2>3. \A f \in Fds : ~Open(f)'
    BY <1>1, <2>1, <2>2 DEF Upright, Tracked, Open
  <2>4. Served' = {}
    BY <2>3 DEF Served
  <2>5. Arrived' = Arrived /\ Gone' = Gone /\ UNCHANGED repeated
    BY <2>1 DEF Arrived, Gone, HungUp
  <2>6. Service!Close
    BY <2>1, <2>4, <2>5 DEF Service!Close, Arrived, Gone, Served
  <2>7. QED
    BY <2>6 DEF Service!Next
<1>5. CASE \/ \E w \in Workers : WorkerStep(w)
           \/ Stop \/ JoinPool
           \/ JoinThread(Acceptor, "join_acceptor", "join_selector")
           \/ JoinThread(Selector, "join_selector", "w_join")
  <2>1. UNCHANGED <<listening, backlog, sockOf, peer, repeated>>
    BY <1>5 DEF WorkerStep, TakeJob, RecvBegins, RecvReads, RecvFails, Answer, BrokenPipe, AnswerFaults,
       Stop, JoinPool, JoinThread, socketVars, changeVars, reportVars
  <2>2. QED
    BY <2>1, ServiceStutter
<1>6. CASE SelectorStep
  BY <1>1, <1>6, SelectorServes DEF Upright
<1>7. QED
  BY <1>2, <1>3, <1>4, <1>5, <1>6 DEF Next, MainStep

(* endpoint_accept, endpoint_close_hungups and endpoint_close, run by      *)
(* threads that share the record, the stack, the epoll set and a table of  *)
(* descriptors that are reused, take clients once each and in order, and   *)
(* each disconnection ends one client; as long as epoll_wait has not       *)
(* reported a hang-up again, one that has hung up.                         *)
THEOREM UnixServerImplementsEndpoint == Spec => ImplementsEndpoint
<1>1. Inv /\ [Next]_vars => [Service!Next]_Service!vars
  BY NextServes, ServiceStutter DEF vars, socketVars, changeVars, reportVars
<1>2. QED
  BY <1>1, ServiceInit, UnixServerInvariant, PTL DEF Spec, ImplementsEndpoint, Service!Spec

------------------------------------------------------------------------------
(* html_answer: the inductive invariant.                                   *)

(* The buffer as recv left it; Buffered when the end of the request line   *)
(* was received.                                                           *)
Filled ==
    /\ request \in Requests
    /\ bytes_read = request.received
    /\ \E l \in Leftovers : buf = Stack(request, l)

Buffered == Filled /\ request.received >= 1

(* The whole request arrived, and has lines.                               *)
Entire == request.received = request.size /\ request.size > 4

(* How far header_end is beyond the received characters, by what they end  *)
(* with.                                                                   *)
Bounded ==
    /\ header_end \in 2..(bytes_read + 2)
    /\ buf[bytes_read - 1] = CR => header_end <= bytes_read + 1
    /\ bytes_read >= 2 /\ buf[bytes_read - 2] = CR /\ buf[bytes_read - 1] = LF => header_end <= bytes_read

(* A line begins at i.                                                     *)
Begins(i) == buf[i - 2] = CR /\ buf[i - 1] = LF

(* The scan of html_answer is at the beginning of a line.                  *)
Scanning ==
    /\ Bounded
    /\ header_end <= bytes_read => Begins(header_end)
    /\ Entire => header_end <= request.size - 4

(* It has found the end of the headers, or run past what arrived.          *)
Scanned ==
    /\ Bounded
    /\ IF Entire THEN header_end = request.size - 4 ELSE header_end >= bytes_read

(* The headers so far are those of the lines before line_start, and at the *)
(* end perhaps one of a line that was cut off.                             *)
ShownBefore(n) == {i \in Shown : i < n}
Lists(hs, n) == \A i \in ShownBefore(n) : Below(i) < Len(hs) /\ hs[Below(i) + 1] = Said(i)
NoMore(hs) == Len(hs) <= Cardinality(Shown) + (IF request.received < request.size - 2 THEN 1 ELSE 0)

Listed ==
    /\ line_start >= 2
    /\ line_start < header_end =>
          /\ line_start < bytes_read
          /\ Begins(line_start)
          /\ \/ line_end = LineEnd(buf, line_start, header_end)
             \/ line_end = LineEnd(buf, line_start, header_end + 1)
          /\ Len(headers) = Cardinality(ShownBefore(line_start))
    /\ Lists(headers, line_start)
    /\ NoMore(headers)

Chars == {buf[i] : i \in DOMAIN buf}

InRange ==
    /\ phase \in {"recv", "not_found", "scan", "split", "lines",
                  "fault", "overrun", "overflow", "sent"}
    /\ header_end \in 0..(bytes_read + 2)
    /\ line_start \in 0..(bytes_read + 5)
    /\ line_end \in 0..(bytes_read + 5)
    /\ Len(headers) <= MaxHeaders
    /\ \A i \in DOMAIN headers : Fits(headers[i])

(* With the end of the request line in the buffer, place by place.         *)
HeadedInv ==
    /\ InRange
    /\ phase = "recv" => request.received = 0 /\ header_end = 0 /\ line_start = 0 /\ line_end = 0
    /\ headers \in Seq([key : Seq(Chars), value : Seq(Chars)])
    /\ phase # "recv" => Buffered
    /\ phase = "not_found" => ~request.root
    /\ phase \in {"recv", "scan", "split"} => headers = <<>>
    /\ phase = "scan" => Scanning
    /\ phase \in {"split", "lines"} => Scanned
    /\ phase = "lines" => Listed
    /\ PageShowsRequest
    /\ FaultsOnlyOnIrregular

(* Without it the headers are taken to begin where the scan of line 50     *)
(* stopped, behind all that was received, and there are none.              *)
HeadlessInv ==
    /\ Filled /\ request.received = 0
    /\ phase \in {"not_found", "overrun", "scan", "split", "lines", "overflow", "sent"}
    /\ header_end # 0 => header_end = HeaderStart(buf)
    /\ phase \in {"scan", "split", "lines"} => header_end \in Nat /\ header_end = HeaderStart(buf)
    /\ {line_start, line_end} \subseteq {0, header_end}
    /\ phase = "lines" => line_start = header_end
    /\ headers = <<>> /\ page = <<>>

AnswerInv == HeadedInv \/ HeadlessInv

------------------------------------------------------------------------------
(* The scans of the header functions.                                      *)

(* A non-empty set of naturals has a least element.                        *)
LEMMA MinFacts ==
    ASSUME NEW S \in SUBSET Nat, S # {}
    PROVE  Min(S) \in S /\ \A x \in S : Min(S) <= x
<1>1. PICK f \in S : \A g \in S : <<g, f>> \notin OpToRel(<, Nat)
  BY WFMin, NatLessThanWellFounded
<1>2. \A g \in S : f <= g
  <2>1. \A g \in S : ~(g < f)
    BY <1>1 DEF OpToRel
  <2>2. QED
    BY <2>1
<1>3. QED
  BY <1>2 DEF Min

(* A bounded one has a greatest.                                           *)
LEMMA MaxFacts ==
    ASSUME NEW S \in SUBSET Nat, S # {}, NEW n \in Nat, \A x \in S : x <= n
    PROVE  Max(S) \in S /\ \A x \in S : x <= Max(S)
<1> DEFINE T == {n - x : x \in S}
<1>1. T \in SUBSET Nat /\ T # {}
  <2>1. \A x \in S : n - x \in Nat
    OBVIOUS
  <2>2. T \subseteq Nat
    BY <2>1
  <2>3. PICK x \in S : TRUE
    OBVIOUS
  <2>4. n - x \in T
    BY <2>3
  <2>5. QED
    BY <2>2, <2>4
<1>2. PICK x \in S : Min(T) = n - x
  BY <1>1, MinFacts
<1>3. \A y \in S : n - x <= n - y
  BY <1>1, <1>2, MinFacts
<1>4. \A y \in S : x >= y
  BY <1>3
<1>5. QED
  BY <1>4 DEF Max

(* The scans stop at the next character that is not a space.               *)
LEMMA SkipUpFacts ==
    ASSUME NEW b, NEW n \in Nat, DOMAIN b = 0..n, b[n] # Space, NEW i \in 0..n
    PROVE  /\ SkipUp(b, i) \in i..n
           /\ b[SkipUp(b, i)] # Space
           /\ \A k \in i..n : b[k] # Space => SkipUp(b, i) <= k
<1> DEFINE S == {j \in DOMAIN b : j >= i /\ b[j] # Space}
<1>1. S \in SUBSET Nat /\ n \in S
  OBVIOUS
<1>2. Min(S) \in S /\ \A x \in S : Min(S) <= x
  BY <1>1, MinFacts
<1>3. QED
  BY <1>2 DEF SkipUp

LEMMA SkipDownFacts ==
    ASSUME NEW b, NEW n \in Nat, DOMAIN b = 0..n, b[0] # Space, NEW i \in 0..n
    PROVE  /\ SkipDown(b, i) \in 0..i
           /\ b[SkipDown(b, i)] # Space
           /\ \A k \in 0..i : b[k] # Space => k <= SkipDown(b, i)
<1> DEFINE S == {j \in DOMAIN b : j <= i /\ b[j] # Space}
<1>1. S \in SUBSET Nat /\ 0 \in S /\ \A x \in S : x <= n
  OBVIOUS
<1>2. Max(S) \in S /\ \A x \in S : x <= Max(S)
  BY <1>1, MaxFacts
<1>3. QED
  BY <1>2 DEF SkipDown

(* The end of a line is the next CR, but not behind limit.                 *)
LEMMA LineEndFacts ==
    ASSUME NEW b, NEW from \in Nat, NEW limit \in Nat
    PROVE  /\ LineEnd(b, from, limit) \in Nat
           /\ from >= limit => LineEnd(b, from, limit) = from
           /\ from <= limit =>
                 /\ LineEnd(b, from, limit) \in from..limit
                 /\ LineEnd(b, from, limit) < limit => b[LineEnd(b, from, limit)] = CR
                 /\ \A k \in from..limit : b[k] = CR => LineEnd(b, from, limit) <= k
<1> DEFINE S == {limit} \cup {i \in from..limit : b[i] = CR}
<1>1. CASE from >= limit
  BY <1>1 DEF LineEnd
<1>2. CASE from < limit
  <2>1. S \in SUBSET Nat /\ S # {}
    OBVIOUS
  <2>2. Min(S) \in S /\ \A x \in S : Min(S) <= x
    BY <2>1, MinFacts
  <2>3. QED
    BY <1>2, <2>2 DEF LineEnd
<1>3. QED
  BY <1>1, <1>2

LEMMA ColonAtFacts ==
    ASSUME NEW b, NEW at \in Nat, NEW len \in Nat
    PROVE  /\ ColonAt(b, at, len) \in 0..len
           /\ ColonAt(b, at, len) < len => b[at + ColonAt(b, at, len)] = Colon
           /\ \A k \in 0..len : b[at + k] = Colon => ColonAt(b, at, len) <= k
<1> DEFINE S == {len} \cup {i \in 0..len : b[at + i] = Colon}
<1>1. S \in SUBSET Nat /\ S # {}
  OBVIOUS
<1>2. Min(S) \in S /\ \A x \in S : Min(S) <= x
  BY <1>1, MinFacts
<1>3. QED
  BY <1>2 DEF ColonAt

(* A string is a sequence of characters of the buffer, as many as it is    *)
(* asked for, or fewer.                                                    *)
LEMMA CStringTyped ==
    ASSUME NEW b, NEW from \in Nat, NEW n \in Nat,
           NEW C, \A k \in from..(from + n - 1) : b[k] \in C
    PROVE  CString(b, from, n) \in Seq(C) /\ Len(CString(b, from, n)) <= n
<1> DEFINE S == {from + n} \cup {i \in from..(from + n - 1) : b[i] = NUL}
           m == Min(S) - from
<1>1. S \in SUBSET Nat /\ S # {}
  OBVIOUS
<1>2. Min(S) \in S
  BY <1>1, MinFacts
<1>3. m \in 0..n /\ Min(S) - 1 - from + 1 = m
  BY <1>2
<1>4. CString(b, from, n) = [k \in 1..m |-> b[from + k - 1]]
  BY <1>3 DEF CString, Slice
<1>5. \A k \in 1..m : b[from + k - 1] \in C
  BY <1>3
<1>6. QED
  BY <1>3, <1>4, <1>5

(* Without a NUL among them it is all of them.                             *)
LEMMA CStringWhole ==
    ASSUME NEW b, NEW from \in Nat, NEW n \in Nat,
           \A k \in from..(from + n - 1) : b[k] # NUL
    PROVE  CString(b, from, n) = Slice(b, from, from + n - 1)
<1>1. {from + n} \cup {i \in from..(from + n - 1) : b[i] = NUL} = {from + n}
  OBVIOUS
<1>2. Min({from + n}) = from + n
  BY MinFacts, {from + n} \in SUBSET Nat
<1>3. QED
  BY <1>1, <1>2 DEF CString


LEMMA SliceLength ==
    ASSUME NEW b, NEW i \in Nat, NEW len \in Nat
    PROVE  Len(Slice(b, i, i + len - 1)) = len
<1>1. i + len - 1 - i + 1 = len
  OBVIOUS
<1>2. Slice(b, i, i + len - 1) = [k \in 1..len |-> b[i + k - 1]]
  BY <1>1 DEF Slice
<1>3. QED
  BY <1>2

------------------------------------------------------------------------------
(* One line.                                                               *)

(* The characters from i to j lie between two that are no spaces.          *)
Span(b, n, i, j) ==
    /\ n \in Nat /\ DOMAIN b = 0..n /\ b[0] # Space /\ b[n] # Space
    /\ i \in 1..n /\ j \in (i - 1)..(n - 1)
    /\ b[i - 1] # Space /\ b[j + 1] # Space

(* From one character that is no space to the next such but one, the scans *)
(* find the part that is trimmed, or cross if there are only spaces.       *)
LEMMA SpanFacts ==
    ASSUME NEW b, NEW n, NEW i, NEW j, Span(b, n, i, j),
           NEW len, len = SkipDown(b, j) - SkipUp(b, i) + 1
    PROVE  /\ SkipUp(b, i) \in i..(j + 1) /\ len \in Int
           /\ len < 0 <=> Visible(b, i, j) = {} /\ i <= j
           /\ len >= 0 => /\ SkipUp(b, i) + len - 1 <= j
                          /\ Trimmed(b, i, j) = Slice(b, SkipUp(b, i), SkipUp(b, i) + len - 1)
           /\ len < 0 => Trimmed(b, i, j) = <<>>
<1> DEFINE up == SkipUp(b, i)
           down == SkipDown(b, j)
           V == Visible(b, i, j)
<1> USE DEF Span
<1>0. i \in 0..n /\ j \in Nat
  OBVIOUS
<1>1. up \in i..n /\ b[up] # Space /\ \A k \in i..n : b[k] # Space => up <= k
  BY <1>0, SkipUpFacts
<1>2. down \in 0..j /\ b[down] # Space /\ \A k \in 0..j : b[k] # Space => k <= down
  <2>1. j \in 0..n
    OBVIOUS
  <2>2. QED
    BY <2>1, SkipDownFacts
<1>3. up <= j + 1 /\ i - 1 <= down
  BY <1>1, <1>2
<1>4. CASE V = {}
  <2>1. up = j + 1 /\ down = i - 1
    BY <1>1, <1>2, <1>3, <1>4 DEF Visible
  <2>2. len = i - 1 - j
    BY <2>1
  <2>3. Trimmed(b, i, j) = <<>>
    BY <1>4 DEF Trimmed
  <2>4. ASSUME len >= 0
        PROVE  up + len - 1 <= j /\ Slice(b, up, up + len - 1) = <<>>
    <3>1. len = 0
      BY <2>2, <2>4
    <3>2. up + len - 1 - up + 1 = 0
      BY <3>1, <2>1
    <3>3. QED
      BY <3>1, <3>2, <2>1 DEF Slice
  <2>5. QED
    BY <1>4, <2>1, <2>2, <2>3, <2>4
<1>5. CASE V # {}
  <2>1. V \in SUBSET Nat /\ \A x \in V : x <= j
    BY DEF Visible
  <2>2. Min(V) \in V /\ \A x \in V : Min(V) <= x
    BY <1>5, <2>1, MinFacts
  <2>3. Max(V) \in V /\ \A x \in V : x <= Max(V)
    BY <1>0, <1>5, <2>1, MaxFacts
  <2>4. up \in V
    BY <1>1, <2>2 DEF Visible
  <2>5. down \in V
    BY <1>2, <2>3 DEF Visible
  <2>6. up = Min(V)
    BY <1>1, <2>2, <2>4 DEF Visible
  <2>7. down = Max(V)
    BY <1>2, <2>3, <2>5 DEF Visible
  <2>8. up <= down
    BY <2>2, <2>5, <2>6
  <2>9. down = up + len - 1 /\ len >= 0
    BY <1>1, <1>2, <2>8
  <2>10. Trimmed(b, i, j) = Slice(b, up, up + len - 1)
    BY <1>5, <2>6, <2>7, <2>9 DEF Trimmed
  <2>11. QED
    BY <1>1, <1>2, <1>3, <1>5, <2>9, <2>10
<1>6. QED
  BY <1>4, <1>5

(* The lengths that http_str_to_header works with.                         *)
KeyLen(b, at, len) == SkipDown(b, at + ColonAt(b, at, len) - 1) - SkipUp(b, at) + 1
ValueLen(b, at, len) == SkipDown(b, at + len - 1) - SkipUp(b, at + ColonAt(b, at, len) + 1) + 1

LEMMA HeaderAtShape ==
    ASSUME NEW b, NEW at, NEW len
    PROVE  HeaderAt(b, at, len) =
             IF KeyLen(b, at, len) + 1 > KeyMax \/ ValueLen(b, at, len) + 1 > ValueMax
             THEN [status |-> "refused"]
             ELSE IF KeyLen(b, at, len) < 0 \/ ValueLen(b, at, len) < 0
             THEN [status |-> "fault"]
             ELSE [status |-> "parsed",
                   header |-> [key |-> CString(b, SkipUp(b, at), KeyLen(b, at, len)),
                               value |-> CString(b, SkipUp(b, at + ColonAt(b, at, len) + 1),
                                                 ValueLen(b, at, len))]]
BY DEF HeaderAt, KeyLen, ValueLen

(* Whatever the line, a header that is taken fits into its two arrays.     *)
LEMMA ParsedFits ==
    ASSUME NEW b, NEW n \in Nat, DOMAIN b = 0..n, b[0] # Space, b[n] # Space,
           NEW at \in 1..n, NEW len \in Nat, at + len + 1 <= n,
           HeaderAt(b, at, len).status = "parsed",
           NEW C, \A k \in 0..n : b[k] \in C
    PROVE  /\ HeaderAt(b, at, len).header \in [key : Seq(C), value : Seq(C)]
           /\ Fits(HeaderAt(b, at, len).header)
<1> DEFINE colon == ColonAt(b, at, len)
           h == HeaderAt(b, at, len).header
           kl == KeyLen(b, at, len)
           vl == ValueLen(b, at, len)
           ks == SkipUp(b, at)
           vs == SkipUp(b, at + colon + 1)
<1>0. at \in Nat /\ at \in 0..n
  OBVIOUS
<1>1. colon \in 0..len
  BY <1>0, ColonAtFacts
<1>2. ks \in at..n /\ ks \in Nat
  BY <1>0, SkipUpFacts
<1>3. vs \in 0..n /\ vs \in Nat
  <2>1. at + colon + 1 \in 0..n
    BY <1>1
  <2>2. QED
    BY <2>1, SkipUpFacts
<1>4. SkipDown(b, at + colon - 1) \in 0..(at + colon - 1)
  <2>1. at + colon - 1 \in 0..n
    BY <1>1
  <2>2. QED
    BY <2>1, SkipDownFacts
<1>5. SkipDown(b, at + len - 1) \in 0..(at + len - 1)
  <2>1. at + len - 1 \in 0..n
    OBVIOUS
  <2>2. QED
    BY <2>1, SkipDownFacts
<1>6. kl \in Int /\ ks + kl - 1 <= n
  BY <1>1, <1>2, <1>4 DEF KeyLen
<1>7. vl \in Int /\ vs + vl - 1 <= n
  BY <1>3, <1>5 DEF ValueLen
<1>8. kl \in Nat /\ vl \in Nat /\ kl + 1 <= KeyMax /\ vl + 1 <= ValueMax
  BY <1>6, <1>7, HeaderAtShape, MaxLengthsAssumption
<1>9. h = [key |-> CString(b, ks, kl), value |-> CString(b, vs, vl)]
  BY <1>8, <1>6, <1>7, HeaderAtShape, MaxLengthsAssumption
<1>10. CString(b, ks, kl) \in Seq(C) /\ Len(CString(b, ks, kl)) <= kl
  <2>1. \A k \in ks..(ks + kl - 1) : b[k] \in C
    BY <1>2, <1>3, <1>6, <1>7
  <2>2. QED
    BY <2>1, <1>2, <1>3, <1>8, CStringTyped
<1>11. CString(b, vs, vl) \in Seq(C) /\ Len(CString(b, vs, vl)) <= vl
  <2>1. \A k \in vs..(vs + vl - 1) : b[k] \in C
    BY <1>2, <1>3, <1>6, <1>7
  <2>2. QED
    BY <2>1, <1>2, <1>3, <1>8, CStringTyped
<1>12. Len(CString(b, ks, kl)) \in Nat /\ Len(CString(b, vs, vl)) \in Nat
  BY <1>10, <1>11
<1>13. QED
  <2>1. Len(h.key) < KeyMax /\ Len(h.value) < ValueMax
    <3>1. h.key = CString(b, ks, kl) /\ h.value = CString(b, vs, vl)
      BY <1>9
    <3> HIDE DEF h, kl, vl, ks, vs
    <3>2. QED
      BY <1>8, <1>10, <1>11, <1>12, <3>1, MaxLengthsAssumption
  <2>2. h \in [key : Seq(C), value : Seq(C)]
    BY <1>9, <1>10, <1>11
  <2>3. QED
    BY <2>1, <2>2 DEF Fits


(* A line with a colon that arrived whole: http_str_to_header takes it for *)
(* the header that is meant, refuses it if that is too long, and otherwise *)
(* fails only if the line is irregular.                                    *)
LEMMA WholeLine ==
    ASSUME NEW b, NEW n \in Nat, DOMAIN b = 0..n, b[0] # Space, b[n] # Space,
           NEW at \in 1..n, NEW e \in at..n, b[at - 1] # Space, b[e] # Space, b[e] # Colon,
           \A k \in at..(e - 1) : b[k] # NUL,
           Colons(b, at, e - 1) # {}
    PROVE  HeaderAt(b, at, e - at) =
             IF ~Fits(Meant(b, at, e - 1)) THEN [status |-> "refused"]
             ELSE IF ~Regular(b, at, e - 1) THEN [status |-> "fault"]
             ELSE [status |-> "parsed", header |-> Meant(b, at, e - 1)]
<1> DEFINE len == e - at
           c == Min(Colons(b, at, e - 1))
           ks == SkipUp(b, at)
           vs == SkipUp(b, c + 1)
           kl == SkipDown(b, c - 1) - ks + 1
           vl == SkipDown(b, e - 1) - vs + 1
           key == Trimmed(b, at, c - 1)
           value == Trimmed(b, c + 1, e - 1)
<1>1. len \in Nat /\ at \in Nat
  OBVIOUS
<1>2. c \in at..(e - 1) /\ b[c] = Colon /\ \A k \in at..(e - 1) : b[k] = Colon => c <= k
  <2>1. Colons(b, at, e - 1) \in SUBSET Nat
    BY DEF Colons
  <2>2. c \in Colons(b, at, e - 1) /\ \A k \in Colons(b, at, e - 1) : c <= k
    BY <2>1, MinFacts
  <2>3. QED
    BY <2>2 DEF Colons
<1>3. at + ColonAt(b, at, len) = c /\ ColonAt(b, at, len) \in Nat
  <2> DEFINE d == ColonAt(b, at, len)
  <2>1. d \in 0..len /\ (d < len => b[at + d] = Colon) /\ \A k \in 0..len : b[at + k] = Colon => d <= k
    BY <1>1, ColonAtFacts
  <2>2. c - at \in 0..len /\ b[at + (c - at)] = Colon
    BY <1>2
  <2>3. d <= c - at
    BY <2>1, <2>2
  <2>4. at + d \in at..(e - 1) /\ b[at + d] = Colon
    BY <1>2, <2>1, <2>3
  <2>5. c <= at + d
    BY <1>2, <2>4
  <2>6. QED
    BY <1>2, <2>1, <2>3, <2>5
<1>4. KeyLen(b, at, len) = kl /\ ValueLen(b, at, len) = vl
  <2>1. at + len - 1 = e - 1
    OBVIOUS
  <2>2. at + ColonAt(b, at, len) - 1 = c - 1 /\ at + ColonAt(b, at, len) + 1 = c + 1
    BY <1>1, <1>2, <1>3
  <2>3. QED
    BY <2>1, <2>2, Zenon DEF KeyLen, ValueLen
<1>5. b[c] # Space
  BY <1>2 DEF Colon, Space
<1>6. /\ ks \in at..c /\ kl \in Int
      /\ kl < 0 <=> Visible(b, at, c - 1) = {} /\ at <= c - 1
      /\ kl >= 0 => ks + kl - 1 <= c - 1 /\ key = Slice(b, ks, ks + kl - 1)
      /\ kl < 0 => key = <<>>
  <2>1. c - 1 \in (at - 1)..(n - 1) /\ (c - 1) + 1 = c
    BY <1>2
  <2>2. b[(c - 1) + 1] # Space /\ at \in 1..n
    BY <1>5, <2>1
  <2>3. PICK j \in (at - 1)..(n - 1) : j = c - 1 /\ j + 1 = c
    BY <2>1
  <2>4. /\ SkipUp(b, at) \in at..(j + 1) /\ kl \in Int
        /\ kl < 0 <=> Visible(b, at, j) = {} /\ at <= j
        /\ kl >= 0 => /\ SkipUp(b, at) + kl - 1 <= j
                      /\ Trimmed(b, at, j) = Slice(b, SkipUp(b, at), SkipUp(b, at) + kl - 1)
        /\ kl < 0 => Trimmed(b, at, j) = <<>>
    <3>1. kl = SkipDown(b, j) - SkipUp(b, at) + 1 /\ Span(b, n, at, j)
      BY <2>2, <2>3, Zenon DEF Span
    <3> HIDE DEF kl
    <3>2. QED
      BY <3>1, SpanFacts, Zenon
  <2>5. QED
    BY <2>3, <2>4, Zenon
<1>7. /\ vs \in (c + 1)..e /\ vl \in Int
      /\ vl < 0 <=> Visible(b, c + 1, e - 1) = {} /\ c + 1 <= e - 1
      /\ vl >= 0 => vs + vl - 1 <= e - 1 /\ value = Slice(b, vs, vs + vl - 1)
      /\ vl < 0 => value = <<>>
  <2>1. /\ c + 1 \in 1..n /\ (c + 1) - 1 = c
        /\ e - 1 \in ((c + 1) - 1)..(n - 1) /\ (e - 1) + 1 = e
    BY <1>2
  <2>2. PICK i \in 1..n : i = c + 1 /\ i - 1 = c
    BY <2>1
  <2>3. PICK j \in (i - 1)..(n - 1) : j = e - 1 /\ j + 1 = e
    BY <2>1, <2>2
  <2>4. /\ SkipUp(b, i) \in i..(j + 1) /\ vl \in Int
        /\ vl < 0 <=> Visible(b, i, j) = {} /\ i <= j
        /\ vl >= 0 => /\ SkipUp(b, i) + vl - 1 <= j
                      /\ Trimmed(b, i, j) = Slice(b, SkipUp(b, i), SkipUp(b, i) + vl - 1)
        /\ vl < 0 => Trimmed(b, i, j) = <<>>
    <3>1. vl = SkipDown(b, j) - SkipUp(b, i) + 1 /\ Span(b, n, i, j)
      BY <1>5, <2>2, <2>3, Zenon DEF Span
    <3> HIDE DEF vl
    <3>2. QED
      BY <3>1, SpanFacts, Zenon
  <2>5. QED
    BY <2>2, <2>3, <2>4, Zenon
<1>8. Meant(b, at, e - 1) = [key |-> key, value |-> value]
  BY DEF Meant
<1>9. Regular(b, at, e - 1) <=> kl >= 0 /\ vl >= 0
  <2>1. c = at \/ Visible(b, at, c - 1) # {} <=> kl >= 0
    BY <1>2, <1>6
  <2>2. c = e - 1 \/ Visible(b, c + 1, e - 1) # {} <=> vl >= 0
    BY <1>2, <1>7
  <2>3. QED
    BY <2>1, <2>2 DEF Regular
<1>10. Fits(Meant(b, at, e - 1)) <=> kl + 1 <= KeyMax /\ vl + 1 <= ValueMax
  <2>1. Len(key) < KeyMax <=> kl + 1 <= KeyMax
    <3>1. CASE kl < 0
      <4>1. key = <<>> /\ kl + 1 <= 0 /\ kl \in Int
        BY <1>6, <3>1
      <4> HIDE DEF ks, kl, key
      <4>2. QED
        BY <4>1, MaxLengthsAssumption
    <3>2. CASE kl >= 0
      <4>1. ks \in Nat /\ kl \in Nat /\ key = Slice(b, ks, ks + kl - 1)
        BY <1>6, <3>2, <1>2
      <4>2. Len(key) = kl
        <5> HIDE DEF ks, kl, key
        <5>1. Len(Slice(b, ks, ks + kl - 1)) = kl
          BY <4>1, SliceLength
        <5>2. QED
          BY <4>1, <5>1
      <4>3. QED
        <5> HIDE DEF ks, kl, key
        <5>1. QED
          BY <4>1, <4>2, MaxLengthsAssumption
    <3>3. QED
      BY <1>6, <3>1, <3>2
  <2>2. Len(value) < ValueMax <=> vl + 1 <= ValueMax
    <3>1. CASE vl < 0
      <4>1. value = <<>> /\ vl + 1 <= 0 /\ vl \in Int
        BY <1>7, <3>1
      <4> HIDE DEF vs, vl, value
      <4>2. QED
        BY <4>1, MaxLengthsAssumption
    <3>2. CASE vl >= 0
      <4>1. vs \in Nat /\ vl \in Nat /\ value = Slice(b, vs, vs + vl - 1)
        BY <1>7, <3>2, <1>2
      <4>2. Len(value) = vl
        <5> HIDE DEF vs, vl, value
        <5>1. Len(Slice(b, vs, vs + vl - 1)) = vl
          BY <4>1, SliceLength
        <5>2. QED
          BY <4>1, <5>1
      <4>3. QED
        <5> HIDE DEF vs, vl, value
        <5>1. QED
          BY <4>1, <4>2, MaxLengthsAssumption
    <3>3. QED
      BY <1>7, <3>1, <3>2
  <2>3. QED
    BY <1>8, <2>1, <2>2 DEF Fits
<1>11. kl >= 0 => CString(b, ks, kl) = key
  BY <1>2, <1>6, CStringWhole
<1>12. vl >= 0 => CString(b, vs, vl) = value
  BY <1>2, <1>7, CStringWhole
<1>13. kl + 1 > KeyMax <=> ~(kl + 1 <= KeyMax)
  BY <1>6, MaxLengthsAssumption
<1>14. vl + 1 > ValueMax <=> ~(vl + 1 <= ValueMax)
  BY <1>7, MaxLengthsAssumption
<1>15. HeaderAt(b, at, len) =
         IF kl + 1 > KeyMax \/ vl + 1 > ValueMax THEN [status |-> "refused"]
         ELSE IF kl < 0 \/ vl < 0 THEN [status |-> "fault"]
         ELSE [status |-> "parsed",
               header |-> [key |-> CString(b, ks, kl), value |-> CString(b, vs, vl)]]
  BY <1>3, <1>4, HeaderAtShape
<1>16. kl < 0 <=> ~(kl >= 0)
  BY <1>6
<1>17. vl < 0 <=> ~(vl >= 0)
  BY <1>7
<1> HIDE DEF len, c, ks, vs, kl, vl, key, value
<1>18. CASE ~Fits(Meant(b, at, e - 1))
  BY <1>10, <1>13, <1>14, <1>15, <1>18 DEF len
<1>19. CASE Fits(Meant(b, at, e - 1)) /\ ~Regular(b, at, e - 1)
  BY <1>9, <1>10, <1>13, <1>14, <1>15, <1>16, <1>17, <1>19 DEF len
<1>20. CASE Fits(Meant(b, at, e - 1)) /\ Regular(b, at, e - 1)
  BY <1>8, <1>9, <1>10, <1>11, <1>12, <1>13, <1>14, <1>15, <1>16, <1>17, <1>20 DEF len
<1>21. QED
  BY <1>18, <1>19, <1>20

(* A line without a colon is no header.                                    *)
LEMMA NoColonNoHeader ==
    ASSUME NEW b, NEW n \in Nat, DOMAIN b = 0..n, b[0] # Space, b[n] # Space,
           NEW at \in 1..n, NEW e \in at..n, e + 1 <= n, Colons(b, at, e - 1) = {}
    PROVE  HeaderAt(b, at, e - at).status \in {"refused", "fault"}
<1> DEFINE len == e - at
           vl == ValueLen(b, at, len)
<1>1. len \in Nat /\ at \in Nat /\ at + len = e
  OBVIOUS
<1>2. ColonAt(b, at, len) = len
  <2> DEFINE d == ColonAt(b, at, len)
  <2>1. d \in 0..len /\ (d < len => b[at + d] = Colon)
    BY <1>1, ColonAtFacts
  <2>2. d < len => at + d \in at..(e - 1)
    BY <2>1
  <2>3. QED
    BY <2>1, <2>2 DEF Colons
<1>3. SkipUp(b, at + len + 1) \in (e + 1)..n
  <2>1. at + len + 1 = e + 1 /\ e + 1 \in 0..n
    OBVIOUS
  <2>2. QED
    BY <2>1, SkipUpFacts
<1>4. SkipDown(b, at + len - 1) \in 0..(e - 1)
  <2>1. at + len - 1 = e - 1 /\ e - 1 \in 0..n
    OBVIOUS
  <2>2. QED
    BY <2>1, SkipDownFacts
<1>5. vl \in Int /\ vl < 0
  BY <1>2, <1>3, <1>4 DEF ValueLen
<1>6. QED
  BY <1>5, HeaderAtShape

(* A line that was cut off at q is harmless if what arrived is regular,    *)
(* although the code takes it to reach as far as e.                        *)
LEMMA CutLine ==
    ASSUME NEW b, NEW n \in Nat, DOMAIN b = 0..n, b[0] # Space, b[n] # Space,
           NEW at \in 1..n, NEW q \in at..n, NEW e \in q..n,
           b[at - 1] # Space, b[q] # Space,
           Regular(b, at, q - 1)
    PROVE  HeaderAt(b, at, e - at).status # "fault"
<1> DEFINE len == e - at
           c == Min(Colons(b, at, q - 1))
           ks == SkipUp(b, at)
           vs == SkipUp(b, c + 1)
           kl == SkipDown(b, c - 1) - ks + 1
           vl == SkipDown(b, e - 1) - vs + 1
<1>1. len \in Nat /\ at \in Nat
  OBVIOUS
<1>2. c \in at..(q - 1) /\ b[c] = Colon /\ \A k \in at..(q - 1) : b[k] = Colon => c <= k
  <2>1. Colons(b, at, q - 1) \in SUBSET Nat /\ Colons(b, at, q - 1) # {}
    BY DEF Colons, Regular
  <2>2. c \in Colons(b, at, q - 1) /\ \A k \in Colons(b, at, q - 1) : c <= k
    BY <2>1, MinFacts
  <2>3. QED
    BY <2>2 DEF Colons
<1>3. at + ColonAt(b, at, len) = c /\ ColonAt(b, at, len) \in Nat
  <2> DEFINE d == ColonAt(b, at, len)
  <2>1. d \in 0..len /\ (d < len => b[at + d] = Colon) /\ \A k \in 0..len : b[at + k] = Colon => d <= k
    BY <1>1, ColonAtFacts
  <2>2. c - at \in 0..len /\ b[at + (c - at)] = Colon
    BY <1>2
  <2>3. d <= c - at
    BY <2>1, <2>2
  <2>4. at + d \in at..(q - 1) /\ b[at + d] = Colon
    BY <1>2, <2>1, <2>3
  <2>5. c <= at + d
    BY <1>2, <2>4
  <2>6. QED
    BY <1>2, <2>1, <2>3, <2>5
<1>4. KeyLen(b, at, len) = kl /\ ValueLen(b, at, len) = vl
  <2>1. at + len - 1 = e - 1
    OBVIOUS
  <2>2. at + ColonAt(b, at, len) - 1 = c - 1 /\ at + ColonAt(b, at, len) + 1 = c + 1
    BY <1>1, <1>2, <1>3
  <2>3. QED
    BY <2>1, <2>2, Zenon DEF KeyLen, ValueLen
<1>5. b[c] # Space
  BY <1>2 DEF Colon, Space
<1>6. kl \in Int /\ kl >= 0
  <2>1. c - 1 \in (at - 1)..(n - 1) /\ (c - 1) + 1 = c
    BY <1>2
  <2>2. kl \in Int /\ (kl < 0 <=> Visible(b, at, c - 1) = {} /\ at <= c - 1)
    <3>1. Span(b, n, at, c - 1)
      BY <1>5, <2>1 DEF Span
    <3>2. QED
      BY <3>1, SpanFacts
  <2>3. c = at \/ Visible(b, at, c - 1) # {}
    BY DEF Regular
  <2>4. QED
    BY <1>2, <2>2, <2>3
<1>7. vl \in Int /\ vl >= 0
  <2>1. c + 1 \in 0..n /\ e - 1 \in 0..n
    BY <1>2
  <2>2. vs \in (c + 1)..n /\ \A k \in (c + 1)..n : b[k] # Space => vs <= k
    BY <2>1, SkipUpFacts
  <2>3. /\ SkipDown(b, e - 1) \in 0..(e - 1)
        /\ \A k \in 0..(e - 1) : b[k] # Space => k <= SkipDown(b, e - 1)
    BY <2>1, SkipDownFacts
  <2>4. CASE c = q - 1
    <3>1. vs = q
      BY <1>2, <2>2, <2>4
    <3>2. SkipDown(b, e - 1) >= q - 1
      BY <1>2, <1>5, <2>3, <2>4
    <3>3. QED
      BY <2>3, <3>1, <3>2
  <2>5. CASE Visible(b, c + 1, q - 1) # {}
    <3>1. PICK k \in (c + 1)..(q - 1) : b[k] # Space
      BY <2>5 DEF Visible
    <3>2. vs <= k /\ k <= SkipDown(b, e - 1)
      BY <1>2, <2>2, <2>3, <3>1
    <3>3. QED
      BY <1>2, <2>2, <2>3, <3>1, <3>2
  <2>6. QED
    BY <2>4, <2>5 DEF Regular
<1>8. QED
  BY <1>4, <1>6, <1>7, HeaderAtShape


------------------------------------------------------------------------------
(* The two conversions.                                                    *)

(* Trimming takes characters of the line, and begins and ends with one     *)
(* that is not a space.                                                    *)
LEMMA TrimmedFacts ==
    ASSUME NEW b, NEW i \in Nat, NEW j \in Nat, NEW C, \A k \in i..j : b[k] \in C
    PROVE  /\ Trimmed(b, i, j) \in Seq(C)
           /\ Trimmed(b, i, j) # <<>> =>
                 Trimmed(b, i, j)[1] # Space /\ Trimmed(b, i, j)[Len(Trimmed(b, i, j))] # Space
<1> DEFINE V == Visible(b, i, j)
           lo == Min(V)
           hi == Max(V)
           len == hi - lo + 1
<1>1. CASE V = {}
  BY <1>1 DEF Trimmed
<1>2. CASE V # {}
  <2>1. V \in SUBSET Nat /\ \A x \in V : x <= j
    BY DEF Visible
  <2>2. lo \in V /\ \A x \in V : lo <= x
    BY <1>2, <2>1, MinFacts
  <2>3. hi \in V
    BY <1>2, <2>1, MaxFacts
  <2>4. lo \in i..j /\ hi \in lo..j /\ b[lo] # Space /\ b[hi] # Space /\ len \in Nat \ {0}
    BY <2>2, <2>3 DEF Visible
  <2>5. Trimmed(b, i, j) = [k \in 1..len |-> b[lo + k - 1]]
    BY <1>2 DEF Trimmed, Slice
  <2> HIDE DEF lo, hi, V
  <2>6. \A k \in 1..len : b[lo + k - 1] \in C
    BY <2>4
  <2>7. Trimmed(b, i, j) \in Seq(C) /\ Len(Trimmed(b, i, j)) = len
    BY <2>4, <2>5, <2>6
  <2>8. lo + 1 - 1 = lo /\ lo + len - 1 = hi /\ 1 \in 1..len /\ len \in 1..len
    BY <2>4
  <2>9. Trimmed(b, i, j)[1] = b[lo] /\ Trimmed(b, i, j)[len] = b[hi]
    BY <2>5, <2>8
  <2>10. QED
    BY <2>4, <2>7, <2>9
<1>3. QED
  BY <1>1, <1>2

(* What is left runs from the first visible character to the last.         *)
LEMMA TrimmedIs ==
    ASSUME NEW b, NEW i \in Nat, NEW j \in Nat,
           NEW lo \in Visible(b, i, j), NEW hi \in Visible(b, i, j),
           \A k \in Visible(b, i, j) : lo <= k /\ k <= hi
    PROVE  Trimmed(b, i, j) = Slice(b, lo, hi)
<1> DEFINE V == Visible(b, i, j)
<1>1. V \in SUBSET Nat
  BY DEF Visible
<1>2. Min(V) = lo
  <2>1. Min(V) \in V /\ \A x \in V : Min(V) <= x
    BY <1>1, MinFacts
  <2>2. QED
    BY <1>1, <2>1
<1>3. Max(V) = hi
  <2>1. Max(V) \in V /\ \A x \in V : x <= Max(V)
    BY <1>1, MaxFacts
  <2>2. QED
    BY <1>1, <2>1
<1>4. QED
  BY <1>2, <1>3 DEF Trimmed

(* A line on which a header is read again: it has been written behind the  *)
(* character at 0, with its colon at kl + 1, and ends at m.                *)
Echoed(line, kl, m) ==
    /\ DOMAIN line = 0..(m + 1)
    /\ line[0] = ">" /\ line[kl + 1] = Colon /\ line[kl + 2] = Space /\ line[m + 1] = NUL
    /\ \A k \in 1..kl : line[k] # NUL /\ line[k] # Colon
    /\ \A k \in (kl + 3)..m : line[k] # NUL
    /\ kl # 0 => line[1] # Space /\ line[kl] # Space
    /\ line[kl + 3] # Space /\ line[m] # Space

(* The separator is found again, and what is on both sides of it.          *)
LEMMA ReadAgain ==
    ASSUME NEW line, NEW kl \in Nat, NEW m \in Nat, kl + 3 <= m, Echoed(line, kl, m),
           Fits([key |-> Slice(line, 1, kl), value |-> Slice(line, kl + 3, m)])
    PROVE  HeaderAt(line, 1, m) =
               [status |-> "parsed",
                header |-> [key |-> Slice(line, 1, kl), value |-> Slice(line, kl + 3, m)]]
<1> DEFINE S == Colons(line, 1, m)
           header == [key |-> Slice(line, 1, kl), value |-> Slice(line, kl + 3, m)]
<1> USE DEF Echoed
<1>1. Min(S) = kl + 1 /\ S # {}
  <2>1. S \in SUBSET Nat /\ kl + 1 \in S
    BY DEF Colons
  <2>2. \A k \in S : k >= kl + 1
    BY DEF Colons
  <2>3. Min(S) \in S /\ \A x \in S : Min(S) <= x
    BY <2>1, MinFacts
  <2> HIDE DEF S
  <2>4. Min(S) \in Nat /\ Min(S) >= kl + 1 /\ Min(S) <= kl + 1
    BY <2>1, <2>2, <2>3
  <2>5. QED
    BY <2>1, <2>4
<1>2. Trimmed(line, 1, kl) = Slice(line, 1, kl) /\ (kl = 0 \/ Visible(line, 1, kl) # {})
  <2>1. CASE kl = 0
    <3>1. Visible(line, 1, kl) = {}
      BY <2>1 DEF Visible
    <3>2. Slice(line, 1, kl) = <<>>
      BY <2>1 DEF Slice
    <3>3. QED
      BY <2>1, <3>1, <3>2 DEF Trimmed
  <2>2. CASE kl # 0
    <3>1. /\ 1 \in Visible(line, 1, kl) /\ kl \in Visible(line, 1, kl)
          /\ \A k \in Visible(line, 1, kl) : 1 <= k /\ k <= kl
      BY <2>2 DEF Visible
    <3>2. QED
      BY <3>1, TrimmedIs
  <2>3. QED
    BY <2>1, <2>2
<1>3. Trimmed(line, kl + 2, m) = Slice(line, kl + 3, m) /\ Visible(line, kl + 2, m) # {}
  <2>1. /\ kl + 3 \in Visible(line, kl + 2, m) /\ m \in Visible(line, kl + 2, m)
        /\ \A k \in Visible(line, kl + 2, m) : kl + 3 <= k /\ k <= m
    BY DEF Visible
  <2>2. kl + 2 \in Nat
    OBVIOUS
  <2>3. QED
    BY <2>1, <2>2, TrimmedIs
<1>4. Meant(line, 1, m) = header
  <2>1. Min(S) - 1 = kl /\ Min(S) + 1 = kl + 2
    BY <1>1
  <2>2. Meant(line, 1, m) = [key |-> Trimmed(line, 1, Min(S) - 1), value |-> Trimmed(line, Min(S) + 1, m)]
    BY DEF Meant
  <2>3. QED
    BY <1>2, <1>3, <2>1, <2>2
<1>5. Regular(line, 1, m)
  <2>1. Min(S) - 1 = kl /\ Min(S) + 1 = kl + 2 /\ (kl = 0 => Min(S) = 1)
    BY <1>1
  <2>2. Visible(line, Min(S) + 1, m) # {} /\ (Min(S) = 1 \/ Visible(line, 1, Min(S) - 1) # {})
    BY <1>2, <1>3, <2>1
  <2>3. QED
    BY <1>1, <2>2 DEF Regular
<1>6. \A k \in 1..m : line[k] # NUL
  <2>1. line[kl + 1] # NUL /\ line[kl + 2] # NUL
    BY DEF Colon, Space, NUL
  <2>2. SUFFICES ASSUME NEW k \in 1..m PROVE line[k] # NUL
    OBVIOUS
  <2>3. k \in 1..kl \/ k = kl + 1 \/ k = kl + 2 \/ k \in (kl + 3)..m
    OBVIOUS
  <2>4. QED
    BY <2>1, <2>3
<1>7. line[0] # Space /\ line[m + 1] # Space /\ line[m + 1] # Colon
  BY DEF Space, Colon, NUL
<1> HIDE DEF S, header
<1>8. \A e \in 1..(m + 1) : e = m + 1 => HeaderAt(line, 1, e - 1) = [status |-> "parsed", header |-> header]
  <2>1. SUFFICES ASSUME NEW e \in 1..(m + 1), e = m + 1
                 PROVE  HeaderAt(line, 1, e - 1) = [status |-> "parsed", header |-> header]
    OBVIOUS
  <2>2. e - 1 = m /\ e \in Nat /\ 1 \in 1..e /\ e \in 1..e
    BY <2>1
  <2>6. DOMAIN line = 0..e
    BY <2>1
  <2>3. /\ line[e] # Space /\ line[e] # Colon /\ line[1 - 1] # Space
        /\ \A k \in 1..(e - 1) : line[k] # NUL
    BY <1>6, <1>7, <2>2
  <2>4. /\ Colons(line, 1, e - 1) # {} /\ Regular(line, 1, e - 1)
        /\ Meant(line, 1, e - 1) = header /\ Fits(Meant(line, 1, e - 1))
    BY <1>1, <1>4, <1>5, <2>2 DEF S, header
  <2>5. e \in 1..e /\ e \in Nat /\ 1 \in 1..e /\ line[0] # Space
    BY <1>7, <2>2, Zenon
  <2>7. HeaderAt(line, 1, e - 1) =
             IF ~Fits(Meant(line, 1, e - 1)) THEN [status |-> "refused"]
             ELSE IF ~Regular(line, 1, e - 1) THEN [status |-> "fault"]
             ELSE [status |-> "parsed", header |-> Meant(line, 1, e - 1)]
    BY <2>3, <2>4, <2>5, <2>6, WholeLine
  <2>8. QED
    BY <2>4, <2>7, Zenon
<1>9. m + 1 \in 1..(m + 1) /\ m + 1 - 1 = m
  OBVIOUS
<1>10. QED
  BY <1>8, <1>9 DEF header

(* The line on which a header is read again, between the characters of the *)
(* page around it.                                                         *)
Echo(header) == <<">">> \o HeaderToStr(header) \o <<NUL>>

Echoes(text, key, value) ==
    LET kl == Len(key)
        vl == Len(value)
    IN  /\ Len(text) = kl + vl + 4
        /\ text[1] = ">" /\ text[kl + 2] = Colon /\ text[kl + 3] = Space /\ text[kl + vl + 4] = NUL
        /\ \A i \in 1..kl : text[i + 1] = key[i]
        /\ \A i \in 1..vl : text[kl + 3 + i] = value[i]

LEMMA EchoFacts ==
    ASSUME NEW C, NEW key \in Seq(C), NEW value \in Seq(C)
    PROVE  Echoes(Echo([key |-> key, value |-> value]), key, value)
<1>0. PICK kl \in Nat, vl \in Nat : kl = Len(key) /\ vl = Len(value)
  OBVIOUS
<1> DEFINE text == Echo([key |-> key, value |-> value])
<1> DEFINE D == C \cup {">", Colon, Space, NUL}
           sep == <<Colon, Space>>
           open == <<">">>
           end == <<NUL>>
           mid == key \o sep
           str == mid \o value
           front == open \o str
<1>1. /\ key \in Seq(D) /\ value \in Seq(D) /\ kl \in Nat /\ vl \in Nat
      /\ sep \in Seq(D) /\ Len(sep) = 2 /\ sep[1] = Colon /\ sep[2] = Space
      /\ open \in Seq(D) /\ Len(open) = 1 /\ open[1] = ">"
      /\ end \in Seq(D) /\ Len(end) = 1 /\ end[1] = NUL
  OBVIOUS
<1>2. text = front \o end
  BY DEF Echo, HeaderToStr
<1> HIDE DEF D, sep, open, end, text
<1>3. /\ mid \in Seq(D) /\ Len(mid) = kl + 2
      /\ \A i \in 1..(kl + 2) : mid[i] = IF i <= kl THEN key[i] ELSE sep[i - kl]
  <2>1. /\ mid \in Seq(D) /\ Len(mid) = Len(key) + Len(sep)
        /\ \A i \in 1..(Len(key) + Len(sep)) :
              mid[i] = IF i <= Len(key) THEN key[i] ELSE sep[i - Len(key)]
    <3>1. key \in Seq(D) /\ sep \in Seq(D)
      BY <1>1
    <3>2. QED
      BY <3>1, ConcatProperties
  <2>2. QED
    BY <1>0, <1>1, <2>1
<1> HIDE DEF mid
<1>4. /\ str \in Seq(D) /\ Len(str) = kl + 2 + vl
      /\ \A i \in 1..(kl + 2 + vl) : str[i] = IF i <= kl + 2 THEN mid[i] ELSE value[i - (kl + 2)]
  <2>1. /\ str \in Seq(D) /\ Len(str) = Len(mid) + Len(value)
        /\ \A i \in 1..(Len(mid) + Len(value)) :
              str[i] = IF i <= Len(mid) THEN mid[i] ELSE value[i - Len(mid)]
    <3>1. mid \in Seq(D) /\ value \in Seq(D)
      BY <1>1, <1>3
    <3>2. QED
      BY <3>1, ConcatProperties
  <2>2. QED
    BY <1>0, <1>3, <2>1
<1> HIDE DEF str
<1>5. /\ front \in Seq(D) /\ Len(front) = 1 + (kl + 2 + vl)
      /\ \A i \in 1..(1 + (kl + 2 + vl)) : front[i] = IF i <= 1 THEN open[i] ELSE str[i - 1]
  <2>1. /\ front \in Seq(D) /\ Len(front) = Len(open) + Len(str)
        /\ \A i \in 1..(Len(open) + Len(str)) :
              front[i] = IF i <= Len(open) THEN open[i] ELSE str[i - Len(open)]
    <3>1. open \in Seq(D) /\ str \in Seq(D)
      BY <1>1, <1>4
    <3>2. QED
      BY <3>1, ConcatProperties
  <2>2. QED
    BY <1>1, <1>4, <2>1
<1> HIDE DEF front
<1>6. /\ Len(text) = 1 + (kl + 2 + vl) + 1
      /\ \A i \in 1..(1 + (kl + 2 + vl) + 1) :
            text[i] = IF i <= 1 + (kl + 2 + vl) THEN front[i] ELSE end[i - (1 + (kl + 2 + vl))]
  <2>1. /\ Len(text) = Len(front) + Len(end)
        /\ \A i \in 1..(Len(front) + Len(end)) :
              text[i] = IF i <= Len(front) THEN front[i] ELSE end[i - Len(front)]
    <3>1. /\ Len(front \o end) = Len(front) + Len(end)
          /\ \A i \in 1..(Len(front) + Len(end)) :
                (front \o end)[i] = IF i <= Len(front) THEN front[i] ELSE end[i - Len(front)]
      <4>1. front \in Seq(D) /\ end \in Seq(D)
        BY <1>1, <1>5
      <4>2. QED
        BY <4>1, ConcatProperties
    <3>2. QED
      BY <1>2, <3>1
  <2>2. QED
    BY <1>1, <1>5, <2>1
<1>7. \A i \in 1..(kl + 2 + vl) : text[i + 1] = str[i]
  <2>1. SUFFICES ASSUME NEW i \in 1..(kl + 2 + vl) PROVE text[i + 1] = str[i]
    OBVIOUS
  <2>2. /\ i + 1 \in 1..(1 + (kl + 2 + vl) + 1) /\ i + 1 \in 1..(1 + (kl + 2 + vl))
        /\ i + 1 <= 1 + (kl + 2 + vl) /\ ~(i + 1 <= 1) /\ i + 1 - 1 = i
    BY <1>1
  <2>3. text[i + 1] = front[i + 1]
    BY <1>6, <2>2, Zenon
  <2>4. front[i + 1] = str[i + 1 - 1]
    BY <1>5, <2>2
  <2>5. QED
    BY <2>2, <2>3, <2>4, Zenon
<1>8. \A i \in 1..(kl + 2) : text[i + 1] = mid[i]
  <2>1. SUFFICES ASSUME NEW i \in 1..(kl + 2) PROVE text[i + 1] = mid[i]
    OBVIOUS
  <2>2. i \in 1..(kl + 2 + vl) /\ i <= kl + 2
    OBVIOUS
  <2>3. QED
    BY <1>4, <1>7, <2>2
<1>9. \A i \in 1..kl : text[i + 1] = key[i]
  <2>1. SUFFICES ASSUME NEW i \in 1..kl PROVE text[i + 1] = key[i]
    OBVIOUS
  <2>2. i \in 1..(kl + 2) /\ i <= kl
    OBVIOUS
  <2>3. QED
    BY <1>3, <1>8, <2>2
<1>10. \A i \in 1..vl : text[kl + 3 + i] = value[i]
  <2>1. SUFFICES ASSUME NEW i \in 1..vl PROVE text[kl + 3 + i] = value[i]
    OBVIOUS
  <2>2. /\ kl + 2 + i \in 1..(kl + 2 + vl) /\ kl + 2 + i + 1 = kl + 3 + i
        /\ kl + 2 + i - (kl + 2) = i /\ ~(kl + 2 + i <= kl + 2)
    BY <1>1
  <2>3. text[kl + 2 + i + 1] = str[kl + 2 + i]
    BY <1>7, <2>2
  <2>4. str[kl + 2 + i] = value[kl + 2 + i - (kl + 2)]
    BY <1>4, <2>2
  <2>5. QED
    BY <2>2, <2>3, <2>4
<1>11. text[kl + 2] = Colon /\ text[kl + 3] = Space
  <2>1. /\ kl + 1 \in 1..(kl + 2) /\ kl + 2 \in 1..(kl + 2) /\ kl + 1 - kl = 1 /\ kl + 2 - kl = 2
        /\ kl + 1 + 1 = kl + 2 /\ kl + 2 + 1 = kl + 3 /\ ~(kl + 1 <= kl) /\ ~(kl + 2 <= kl)
    BY <1>1
  <2>2. mid[kl + 1] = sep[kl + 1 - kl] /\ mid[kl + 2] = sep[kl + 2 - kl]
    BY <1>3, <2>1
  <2>3. text[kl + 1 + 1] = mid[kl + 1] /\ text[kl + 2 + 1] = mid[kl + 2]
    BY <1>8, <2>1
  <2>4. QED
    <3>1. text[kl + 2] = sep[1] /\ text[kl + 3] = sep[2]
      BY <2>1, <2>2, <2>3, Zenon
    <3>2. QED
      BY <1>1, <3>1, Zenon
<1>12. text[1] = ">" /\ text[kl + vl + 4] = NUL
  <2>1. /\ 1 \in 1..(1 + (kl + 2 + vl)) /\ kl + vl + 4 = 1 + (kl + 2 + vl) + 1
        /\ kl + vl + 4 - (1 + (kl + 2 + vl)) = 1 /\ ~(kl + vl + 4 <= 1 + (kl + 2 + vl))
        /\ kl + vl + 4 \in 1..(1 + (kl + 2 + vl) + 1) /\ 1 \in 1..(1 + (kl + 2 + vl) + 1)
        /\ 1 <= 1 + (kl + 2 + vl)
    BY <1>1
  <2>2. QED
    BY <1>1, <1>5, <1>6, <2>1
<1>13. QED
  <2>1. Len(text) = kl + vl + 4
    BY <1>1, <1>6
  <2>2. QED
    BY <1>9, <1>10, <1>11, <1>12, <1>0, <2>1 DEF text, Echoes

(* Writing a header that was read from a line and reading it again returns *)
(* it, if it has a value.                                                  *)
LEMMA HeaderReadsBack ==
    ASSUME NEW C, NEW key \in Seq(C), NEW value \in Seq(C), value # <<>>,
           \A i \in 1..Len(key) : key[i] # NUL /\ key[i] # Colon,
           \A i \in 1..Len(value) : value[i] # NUL,
           key # <<>> => key[1] # Space /\ key[Len(key)] # Space,
           value[1] # Space, value[Len(value)] # Space,
           Fits([key |-> key, value |-> value]),
           NEW text, text = Echo([key |-> key, value |-> value]),
           NEW line, line = [j \in 0..(Len(text) - 1) |-> text[j + 1]]
    PROVE  HeaderAt(line, 1, Len(text) - 2) =
               [status |-> "parsed", header |-> [key |-> key, value |-> value]]
<1>1. PICK kl \in Nat, vl \in Nat \ {0} : kl = Len(key) /\ vl = Len(value)
  OBVIOUS
<1>2. PICK m \in Nat : m = kl + vl + 2
  OBVIOUS
<1>3. /\ Len(text) = kl + vl + 4
      /\ text[1] = ">" /\ text[kl + 2] = Colon /\ text[kl + 3] = Space /\ text[kl + vl + 4] = NUL
      /\ \A i \in 1..kl : text[i + 1] = key[i]
      /\ \A i \in 1..vl : text[kl + 3 + i] = value[i]
  <2>1. Echoes(text, key, value)
    BY EchoFacts, Zenon
  <2>2. QED
    BY <1>1, <2>1, Zenon DEF Echoes
<1>4. Len(text) - 1 = m + 1 /\ Len(text) - 2 = m /\ kl + vl + 4 = m + 2
  BY <1>2, <1>3
<1>5. DOMAIN line = 0..(m + 1) /\ \A j \in 0..(m + 1) : line[j] = text[j + 1]
  BY <1>4
<1>6. line[0] = ">" /\ line[kl + 1] = Colon /\ line[kl + 2] = Space /\ line[m + 1] = NUL
  <2>1. /\ 0 \in 0..(m + 1) /\ kl + 1 \in 0..(m + 1) /\ kl + 2 \in 0..(m + 1) /\ m + 1 \in 0..(m + 1)
        /\ 0 + 1 = 1 /\ kl + 1 + 1 = kl + 2 /\ kl + 2 + 1 = kl + 3 /\ m + 1 + 1 = kl + vl + 4
    BY <1>2
  <2>2. QED
    BY <1>3, <1>5, <2>1
<1>7. \A k \in 1..kl : line[k] = key[k]
  <2>1. \A k \in 1..kl : k \in 0..(m + 1)
    BY <1>2
  <2>2. QED
    BY <1>3, <1>5, <2>1
<1>8. \A k \in 1..vl : line[kl + 2 + k] = value[k]
  <2>1. \A k \in 1..vl : kl + 2 + k \in 0..(m + 1) /\ kl + 2 + k + 1 = kl + 3 + k
    BY <1>2
  <2>2. QED
    BY <1>3, <1>5, <2>1
<1>9. \A k \in (kl + 3)..m : line[k] # NUL
  <2>1. SUFFICES ASSUME NEW k \in (kl + 3)..m PROVE line[k] # NUL
    OBVIOUS
  <2>2. k - (kl + 2) \in 1..vl /\ kl + 2 + (k - (kl + 2)) = k
    BY <1>2
  <2>3. line[kl + 2 + (k - (kl + 2))] = value[k - (kl + 2)]
    BY <1>8, <2>2, Zenon
  <2>4. value[k - (kl + 2)] # NUL
    BY <1>1, <2>2, Zenon
  <2>5. QED
    BY <2>2, <2>3, <2>4, Zenon
<1>10. /\ \A k \in 1..kl : line[k] # NUL /\ line[k] # Colon
       /\ kl # 0 => line[1] # Space /\ line[kl] # Space
  <2>1. kl # 0 => 1 \in 1..kl /\ kl \in 1..kl /\ key # <<>>
    BY <1>1
  <2>2. \A k \in 1..kl : line[k] # NUL /\ line[k] # Colon
    BY <1>1, <1>7, Zenon
  <2>3. kl # 0 => line[1] # Space /\ line[kl] # Space
    BY <1>1, <1>7, <2>1, Zenon
  <2>4. QED
    BY <2>2, <2>3, Zenon
<1>11. line[kl + 3] # Space /\ line[m] # Space /\ kl + 3 <= m
  <2>1. 1 \in 1..vl /\ vl \in 1..vl /\ kl + 2 + 1 = kl + 3 /\ kl + 2 + vl = m /\ kl + 3 <= m
    BY <1>2
  <2>2. QED
    BY <1>1, <1>8, <2>1
<1>12. Slice(line, 1, kl) = key
  <2>1. kl - 1 + 1 = kl /\ \A k \in 1..kl : 1 + k - 1 = k
    OBVIOUS
  <2>2. Slice(line, 1, kl) = [k \in 1..kl |-> line[k]]
    BY <2>1 DEF Slice
  <2>3. key = [k \in 1..kl |-> key[k]]
    BY <1>1
  <2>4. QED
    BY <1>7, <2>2, <2>3
<1>13. Slice(line, kl + 3, m) = value
  <2>1. m - (kl + 3) + 1 = vl /\ \A k \in 1..vl : kl + 3 + k - 1 = kl + 2 + k
    BY <1>2
  <2>2. Slice(line, kl + 3, m) = [k \in 1..vl |-> line[kl + 2 + k]]
    BY <2>1 DEF Slice
  <2>3. value = [k \in 1..vl |-> value[k]]
    BY <1>1
  <2>4. QED
    BY <1>8, <2>2, <2>3
<1>14. HeaderAt(line, 1, m) = [status |-> "parsed", header |-> [key |-> key, value |-> value]]
  <2>1. Fits([key |-> Slice(line, 1, kl), value |-> Slice(line, kl + 3, m)])
    BY <1>12, <1>13
  <2>2. Echoed(line, kl, m)
    BY <1>5, <1>6, <1>9, <1>10, <1>11 DEF Echoed
  <2>3. HeaderAt(line, 1, m) =
            [status |-> "parsed",
             header |-> [key |-> Slice(line, 1, kl), value |-> Slice(line, kl + 3, m)]]
    BY <1>11, <2>1, <2>2, ReadAgain
  <2>4. QED
    BY <1>12, <1>13, <2>3
<1>15. QED
  BY <1>4, <1>14


------------------------------------------------------------------------------
(* The request in the buffer.                                              *)

LEMMA BufferFacts ==
    Buffered =>
        /\ request.size \in Nat /\ request.size >= 4 /\ bytes_read \in 1..request.size
        /\ buf[0] = CR /\ buf[bytes_read] = NUL
        /\ \A i \in 0..(bytes_read - 1) : buf[i] # NUL
        /\ \A i \in 0..(bytes_read - 1) : buf[i] = CR =>
              i + 1 < request.size /\ (i + 1 < bytes_read => buf[i + 1] = LF)
        /\ \A i \in 0..(bytes_read - 3) : buf[i] = CR /\ buf[i + 2] = CR => i = request.size - 4
        /\ request.size - 4 < bytes_read => buf[request.size - 4] = CR
        /\ request.size - 2 < bytes_read => buf[request.size - 2] = CR
        /\ request.size > 4 /\ request.size = bytes_read => request.size >= 7
<1> SUFFICES ASSUME Buffered
             PROVE  /\ request.size \in Nat /\ request.size >= 4 /\ bytes_read \in 1..request.size
                    /\ buf[0] = CR /\ buf[bytes_read] = NUL
                    /\ \A i \in 0..(bytes_read - 1) : buf[i] # NUL
                    /\ \A i \in 0..(bytes_read - 1) : buf[i] = CR =>
                          i + 1 < request.size /\ (i + 1 < bytes_read => buf[i + 1] = LF)
                    /\ \A i \in 0..(bytes_read - 3) : buf[i] = CR /\ buf[i + 2] = CR => i = request.size - 4
                    /\ request.size - 4 < bytes_read => buf[request.size - 4] = CR
                    /\ request.size - 2 < bytes_read => buf[request.size - 2] = CR
                    /\ request.size > 4 /\ request.size = bytes_read => request.size >= 7
  OBVIOUS
<1>1. PICK size \in Nat : /\ size = request.size /\ size >= 4 /\ bytes_read \in 1..size
                          /\ request.text[0] = CR
  BY RequestsAssumption DEF Buffered, Filled, Proper
<1>2. /\ \A i \in 0..(size - 1) : request.text[i] # NUL
      /\ \A i \in 0..(size - 1) : request.text[i] = CR => i + 1 < size /\ request.text[i + 1] = LF
      /\ \A i \in 0..(size - 4) : request.text[i] = CR /\ request.text[i + 2] = CR <=> i = size - 4
  BY <1>1, RequestsAssumption DEF Buffered, Filled, Proper
<1>3. PICK l \in Leftovers : buf = Stack(request, l)
  BY DEF Buffered, Filled
<1>4. Len(l) \in Nat /\ Len(l) >= 4
  BY LeftoversAssumption
<1>5. \A i \in 0..(bytes_read - 1) : buf[i] = request.text[i]
  BY <1>1, <1>3, <1>4 DEF Stack, Buffered, Filled
<1>6. buf[bytes_read] = NUL
  BY <1>1, <1>3, <1>4 DEF Stack, Buffered, Filled
<1>7. buf[0] = CR
  BY <1>1, <1>5
<1>8. \A i \in 0..(bytes_read - 1) : buf[i] # NUL
  BY <1>1, <1>2, <1>5
<1>9. \A i \in 0..(bytes_read - 1) : buf[i] = CR => i + 1 < size /\ (i + 1 < bytes_read => buf[i + 1] = LF)
  <2>1. SUFFICES ASSUME NEW i \in 0..(bytes_read - 1), buf[i] = CR
                 PROVE  i + 1 < size /\ (i + 1 < bytes_read => buf[i + 1] = LF)
    OBVIOUS
  <2>2. i \in 0..(size - 1) /\ request.text[i] = CR
    BY <1>1, <1>5, <2>1
  <2>3. i + 1 < size /\ request.text[i + 1] = LF
    BY <1>2, <2>2
  <2>4. i + 1 < bytes_read => i + 1 \in 0..(bytes_read - 1)
    BY <1>1
  <2>5. QED
    BY <1>5, <2>3, <2>4
<1>10. \A i \in 0..(bytes_read - 3) : buf[i] = CR /\ buf[i + 2] = CR => i = size - 4
  <2>1. SUFFICES ASSUME NEW i \in 0..(bytes_read - 3), buf[i] = CR, buf[i + 2] = CR
                 PROVE  i = size - 4
    OBVIOUS
  <2>2. i \in 0..(bytes_read - 1) /\ i + 2 \in 0..(bytes_read - 1) /\ i + 2 \in 0..(size - 1)
    BY <1>1
  <2>3. request.text[i] = CR /\ request.text[i + 2] = CR
    BY <1>5, <2>1, <2>2
  <2>4. i + 2 + 1 < size
    BY <1>2, <2>2, <2>3
  <2>5. i \in 0..(size - 4)
    BY <1>1, <2>4
  <2>6. QED
    BY <1>2, <2>3, <2>5
<1>11. request.text[size - 4] = CR /\ request.text[size - 2] = CR
  <2>1. size - 4 \in 0..(size - 4) /\ size - 4 + 2 = size - 2
    BY <1>1
  <2>2. request.text[size - 4] = CR /\ request.text[size - 4 + 2] = CR
    BY <1>2, <2>1
  <2>3. QED
    BY <2>1, <2>2
<1>12. size - 4 < bytes_read => buf[size - 4] = CR
  <2>1. size - 4 < bytes_read => size - 4 \in 0..(bytes_read - 1)
    BY <1>1
  <2>2. QED
    BY <1>5, <1>11, <2>1
<1>13. size - 2 < bytes_read => buf[size - 2] = CR
  <2>1. size - 2 < bytes_read => size - 2 \in 0..(bytes_read - 1)
    BY <1>1
  <2>2. QED
    BY <1>5, <1>11, <2>1
<1>14. size > 4 => size >= 7
  <2>1. size # 5
    <3>1. SUFFICES ASSUME size = 5 PROVE FALSE
      OBVIOUS
    <3>2. request.text[1] = CR /\ request.text[0 + 1] = LF
      BY <1>1, <1>2, <1>11, <3>1
    <3>3. QED
      BY <3>2 DEF CR, LF
  <2>2. size # 6
    <3>1. SUFFICES ASSUME size = 6 PROVE FALSE
      OBVIOUS
    <3>2. request.text[2] = CR /\ 0 \in 0..(size - 4) /\ 0 + 2 = 2
      BY <1>11, <3>1
    <3>3. request.text[0] = CR /\ request.text[0 + 2] = CR => 0 = size - 4
      BY <1>2, <3>2
    <3>4. QED
      BY <1>1, <3>1, <3>2, <3>3
  <2>3. QED
    BY <1>1, <2>1, <2>2
<1>15. QED
  BY <1>1, <1>6, <1>7, <1>8, <1>9, <1>10, <1>12, <1>13, <1>14

(* Behind what was received there are characters enough for every scan.    *)
LEMMA Extent ==
    ASSUME Filled
    PROVE  \E n \in Nat : n >= bytes_read + 4 /\ DOMAIN buf = 0..n /\ buf[n] # Space
<1>1. PICK l \in Leftovers : buf = Stack(request, l)
  BY DEF Filled
<1>2. PICK k \in Nat : k = Len(l) /\ k >= 4 /\ l[k] # Space
  BY LeftoversAssumption
<1>3. bytes_read \in Nat /\ bytes_read = request.received
  BY RequestsAssumption DEF Filled, Proper
<1> DEFINE n == bytes_read + k
<1>4. n \in Nat /\ n >= bytes_read + 4 /\ n \in 0..n /\ ~(n < bytes_read) /\ n # bytes_read /\ n - bytes_read = k
  BY <1>2, <1>3
<1>5. buf = [i \in 0..n |-> IF i < bytes_read THEN request.text[i]
                            ELSE IF i = bytes_read THEN NUL
                            ELSE l[i - bytes_read]]
  BY <1>1, <1>2, <1>3 DEF Stack
<1>6. DOMAIN buf = 0..n /\ buf[n] = l[k]
  BY <1>4, <1>5
<1>7. QED
  BY <1>2, <1>4, <1>6

(* There the scan of html_answer for the end of the request line stops.    *)
LEMMA LineEndsNat == Filled => LineEnds(buf) \in SUBSET Nat
  BY Extent DEF LineEnds

LEMMA RequestLineEnds == Buffered => LineEnds(buf) # {} /\ HeaderStart(buf) = 2
<1> SUFFICES ASSUME Buffered PROVE LineEnds(buf) # {} /\ HeaderStart(buf) = 2
  OBVIOUS
<1>1. LineEnds(buf) \in SUBSET Nat
  BY LineEndsNat DEF Buffered
<1>2. 0 \in LineEnds(buf)
  <2>1. PICK n \in Nat : DOMAIN buf = 0..n
    BY Extent DEF Buffered
  <2>2. buf[0] = CR
    BY BufferFacts
  <2>3. QED
    BY <2>1, <2>2 DEF LineEnds
<1>3. Min(LineEnds(buf)) = 0
  BY <1>1, <1>2, MinFacts
<1>4. QED
  BY <1>2, <1>3 DEF HeaderStart

(* A step that leaves the buffer alone leaves alone what it says.          *)
LEMMA SameLines ==
    ASSUME UNCHANGED <<request, buf, bytes_read>>
    PROVE  /\ LineStarts' = LineStarts /\ Shown' = Shown
           /\ \A i : Below(i)' = Below(i) /\ Said(i)' = Said(i) /\ LastOf(i)' = LastOf(i)
           /\ \A n : ShownBefore(n)' = ShownBefore(n)
           /\ Chars' = Chars /\ (Filled => Filled') /\ (Buffered => Buffered') /\ Entire' = Entire
<1>1. LineStarts' = LineStarts
  BY DEF LineStarts
<1>2. \A i : LastOf(i)' = LastOf(i)
  BY DEF LastOf
<1>3. \A i : Said(i)' = Said(i) /\ Whole(i)' = Whole(i)
  BY <1>2 DEF Said, Whole
<1>4. Shown' = Shown
  BY <1>1, <1>2, <1>3 DEF Shown
<1>5. \A i : Below(i)' = Below(i)
  BY <1>4 DEF Below
<1>6. \A n : ShownBefore(n)' = ShownBefore(n)
  BY <1>4 DEF ShownBefore
<1>7. Chars' = Chars /\ (Filled => Filled') /\ (Buffered => Buffered') /\ Entire' = Entire
  BY DEF Chars, Filled, Buffered, Entire, Stack
<1>8. QED
  BY <1>1, <1>2, <1>3, <1>4, <1>5, <1>6, <1>7


------------------------------------------------------------------------------
(* The scan for the end of the headers.                                    *)

LEMMA ScanBegins == Buffered /\ header_end = 2 => Scanning
<1> SUFFICES ASSUME Buffered, header_end = 2 PROVE Scanning
  OBVIOUS
<1>1. bytes_read \in Nat /\ bytes_read >= 1
  BY BufferFacts
<1>2. header_end <= bytes_read => buf[0] = CR /\ buf[1] = LF
  <2>1. 0 \in 0..(bytes_read - 1) /\ 0 + 1 = 1
    BY <1>1
  <2>2. QED
    BY <1>1, <2>1, BufferFacts
<1>3. header_end - 2 = 0 /\ header_end - 1 = 1
  OBVIOUS
<1>4. Bounded
  BY <1>1 DEF Bounded
<1>5. Entire => header_end <= request.size - 4
  <2>1. Entire => request.size >= 7 /\ request.size \in Nat
    BY BufferFacts DEF Entire, Buffered, Filled
  <2>2. QED
    BY <2>1
<1>6. QED
  BY <1>2, <1>3, <1>4, <1>5 DEF Scanning, Begins

(* A line later the scan is at the beginning of a line, or has found the   *)
(* end: the empty line of a request that arrived as a whole, or else the   *)
(* end of what arrived.                                                    *)
LEMMA ScanGoesOn ==
    ASSUME Buffered, Scanning, ScanLine
    PROVE  Buffered' /\ (phase' = "scan" => Scanning') /\ (phase' = "split" => Scanned')
<1> DEFINE h == header_end
           br == bytes_read
           size == request.size
           end == LineEnd(buf, h, br)
           found == <<buf[end + 1], buf[end + 2], buf[end + 3]>> = <<LF, CR, LF>>
<1>1. /\ size \in Nat /\ size >= 4 /\ br \in 1..size /\ br \in Nat
      /\ h \in 2..(br + 2) /\ h < br /\ h \in Nat
  BY BufferFacts DEF Scanning, Bounded, ScanLine
<1>2. /\ end \in h..br
      /\ end < br => buf[end] = CR
      /\ \A k \in h..br : buf[k] = CR => end <= k
  <2>1. h \in Nat /\ br \in Nat /\ h <= br
    BY <1>1
  <2>2. QED
    BY <2>1, LineEndFacts
<1>3. buf' = buf /\ bytes_read' = bytes_read /\ request' = request
  BY DEF ScanLine
<1>4. header_end' = (IF found THEN end ELSE end + 2) /\ phase' = (IF found THEN "split" ELSE "scan")
  BY DEF ScanLine
<1>5. Entire' = Entire /\ Buffered'
  BY <1>3, SameLines
<1>6. Entire => size > 4 /\ br = size
  BY DEF Entire, Buffered, Filled
<1>7. Entire => end <= size - 4
  <2>1. Entire => h <= size - 4 /\ size - 4 \in h..br /\ buf[size - 4] = CR
    BY <1>1, <1>6, BufferFacts DEF Scanning
  <2>2. QED
    BY <1>2, <2>1
<1> HIDE DEF end
<1>8. CASE found
  <2>1. buf[end + 1] = LF /\ buf[end + 2] = CR /\ buf[end + 3] = LF
    BY <1>8
  <2>2. end < br => end = size - 4 /\ Entire
    <3>1. SUFFICES ASSUME end < br PROVE end = size - 4 /\ Entire
      OBVIOUS
    <3>2. end + 1 # br /\ end + 2 # br /\ end + 3 # br
      BY <2>1, BufferFacts DEF NUL, LF, CR
    <3>3. end \in 0..(br - 3) /\ end + 3 < br
      BY <1>1, <1>2, <3>1, <3>2
    <3>4. end = size - 4
      BY <1>2, <2>1, <3>1, <3>3, BufferFacts
    <3>5. size > 4 /\ br = size
      BY <1>1, <1>2, <3>3, <3>4
    <3>6. QED
      BY <3>4, <3>5 DEF Entire, Buffered, Filled
  <2>3. header_end' = end /\ phase' = "split"
    BY <1>4, <1>8
  <2>4. Bounded'
    BY <1>1, <1>2, <1>3, <2>3 DEF Bounded
  <2>5. IF Entire THEN end = size - 4 ELSE end >= br
    BY <1>1, <1>2, <1>6, <1>7, <2>2
  <2>6. Scanned'
    BY <1>3, <1>5, <2>3, <2>4, <2>5 DEF Scanned
  <2>7. QED
    BY <1>5, <2>3, <2>6
<1>9. CASE ~found
  <2>1. header_end' = end + 2 /\ phase' = "scan"
    BY <1>4, <1>9
  <2>2. /\ end + 2 \in 2..(br + 2)
        /\ buf[br - 1] = CR => end + 2 <= br + 1
    <3>1. br - 1 \in h..br
      BY <1>1
    <3>2. QED
      BY <1>1, <1>2, <3>1
  <2>3. br >= 2 /\ buf[br - 2] = CR /\ buf[br - 1] = LF => end + 2 <= br
    <3>1. SUFFICES ASSUME br >= 2, buf[br - 2] = CR, buf[br - 1] = LF PROVE end + 2 <= br
      OBVIOUS
    <3>2. CASE h = br - 1
      <4>1. h - 1 = br - 2 /\ buf[h - 1] = LF
        BY <1>1, <3>2 DEF Scanning, Begins
      <4>2. QED
        BY <3>1, <4>1 DEF CR, LF
    <3>3. CASE h <= br - 2
      <4>1. br - 2 \in h..br
        BY <1>1, <3>3
      <4>2. QED
        BY <1>1, <1>2, <3>1, <4>1
    <3>4. QED
      BY <1>1, <3>2, <3>3
  <2>4. Bounded'
    BY <1>3, <2>1, <2>2, <2>3 DEF Bounded
  <2>5. end + 2 <= br => buf[end] = CR /\ buf[end + 1] = LF
    <3>1. end + 2 <= br => end < br /\ end \in 0..(br - 1) /\ end + 1 < br
      BY <1>1, <1>2
    <3>2. QED
      BY <1>2, <3>1, BufferFacts
  <2>6. Entire => end + 2 <= size - 4
    <3>1. SUFFICES ASSUME Entire PROVE end + 2 <= size - 4
      OBVIOUS
    <3>2. br = size /\ end <= size - 4 /\ end \in 0..(br - 1) /\ end < br /\ end + 1 < br
      BY <1>1, <1>2, <1>6, <1>7, <3>1
    <3>3. buf[end] = CR /\ buf[end + 1] = LF
      BY <1>2, <3>2, BufferFacts
    <3>4. end # size - 4
      <4>1. SUFFICES ASSUME end = size - 4 PROVE FALSE
        OBVIOUS
      <4>2. end + 2 = size - 2 /\ size - 2 \in 0..(br - 1) /\ size - 2 + 1 = end + 3 /\ size - 2 + 1 < br
        BY <1>1, <3>2, <4>1
      <4>3. buf[size - 2] = CR
        BY <3>2, <4>2, BufferFacts
      <4>4. buf[size - 2 + 1] = LF
        BY <4>2, <4>3, BufferFacts
      <4>5. QED
        BY <1>9, <3>3, <4>2, <4>3, <4>4
    <3>5. end # size - 5
      <4>1. SUFFICES ASSUME end = size - 5 PROVE FALSE
        OBVIOUS
      <4>2. end + 1 = size - 4 /\ buf[size - 4] = CR
        BY <1>1, <3>2, <4>1, BufferFacts
      <4>3. QED
        BY <3>3, <4>2 DEF CR, LF
    <3>6. QED
      BY <1>1, <1>2, <3>2, <3>4, <3>5
  <2>7. end + 2 - 2 = end /\ end + 2 - 1 = end + 1
    BY <1>1, <1>2
  <2>8. Scanning'
    <3>1. header_end' - 2 = end /\ header_end' - 1 = end + 1
      BY <1>1, <1>2, <2>1
    <3>2. header_end' <= bytes_read' => buf'[header_end' - 2] = CR /\ buf'[header_end' - 1] = LF
      BY <1>3, <2>1, <2>5, <3>1
    <3>3. Entire' => header_end' <= request'.size - 4
      BY <1>3, <1>5, <2>1, <2>6
    <3>4. QED
      BY <2>4, <3>2, <3>3 DEF Scanning, Begins
  <2>9. QED
    BY <1>5, <2>1, <2>8
<1>10. QED
  BY <1>8, <1>9

LEMMA ScanStops ==
    ASSUME Buffered, Scanning, header_end >= bytes_read
    PROVE  Scanned
<1>1. request.size \in Nat /\ bytes_read \in 1..request.size /\ header_end \in 2..(bytes_read + 2)
  BY BufferFacts DEF Scanning, Bounded
<1>2. Entire => bytes_read = request.size /\ header_end <= request.size - 4
  BY DEF Entire, Buffered, Filled, Scanning
<1>3. ~Entire
  BY <1>1, <1>2
<1>4. QED
  BY <1>3 DEF Scanned, Scanning


------------------------------------------------------------------------------
(* The lines of the request.                                               *)

LEMMA LineFacts ==
    ASSUME Buffered, NEW i \in LineStarts
    PROVE  /\ i \in 2..(bytes_read - 1) /\ buf[i - 2] = CR /\ buf[i - 1] = LF /\ buf[i] # CR
           /\ LastOf(i) \in i..(bytes_read - 1)
           /\ LastOf(i) + 1 < bytes_read => buf[LastOf(i) + 1] = CR
           /\ \A k \in i..LastOf(i) : buf[k] # CR
<1> DEFINE S == {bytes_read} \cup {j \in i..(bytes_read - 1) : buf[j] = CR}
           m == Min(S)
<1>1. bytes_read \in Nat /\ bytes_read >= 1
  BY BufferFacts
<1>2. i \in 2..(bytes_read - 1) /\ buf[i - 2] = CR /\ buf[i - 1] = LF /\ buf[i] # CR
  BY DEF LineStarts
<1>3. S \in SUBSET Nat /\ S # {}
  BY <1>1, <1>2
<1>4. m \in S /\ \A x \in S : m <= x
  BY <1>3, MinFacts
<1> HIDE DEF m
<1>5. m \in (i + 1)..bytes_read /\ (m < bytes_read => buf[m] = CR) /\ \A k \in i..(m - 1) : buf[k] # CR
  BY <1>1, <1>2, <1>4
<1>6. LastOf(i) = m - 1
  BY DEF LastOf, m
<1>7. LastOf(i) + 1 = m /\ LastOf(i) \in i..(bytes_read - 1)
  BY <1>1, <1>2, <1>5, <1>6
<1>8. QED
  BY <1>2, <1>5, <1>6, <1>7

(* The next line begins behind this one.                                   *)
LEMMA NextLine ==
    ASSUME Buffered, NEW i \in LineStarts, NEW k \in LineStarts, i < k
    PROVE  k >= LastOf(i) + 3
<1>1. /\ i \in 2..(bytes_read - 1) /\ k \in 2..(bytes_read - 1) /\ bytes_read \in Nat
      /\ buf[i - 1] = LF /\ buf[k - 2] = CR
      /\ LastOf(i) \in i..(bytes_read - 1)
      /\ \A m \in i..LastOf(i) : buf[m] # CR
  BY LineFacts, BufferFacts
<1>2. k - 2 # i - 1
  BY <1>1 DEF CR, LF
<1>3. k - 2 \notin i..LastOf(i)
  BY <1>1
<1>4. k - 2 \in Int /\ k - 2 >= i - 1
  BY <1>1
<1>5. QED
  BY <1>1, <1>2, <1>3, <1>4

(* When all but the last line have arrived, each of them has arrived whole.*)
LEMMA AllWhole ==
    ASSUME Buffered, NEW i \in LineStarts, bytes_read >= request.size - 2
    PROVE  i < request.size - 4 /\ Whole(i)
<1> DEFINE size == request.size
<1>1. /\ size \in Nat /\ size >= 4 /\ bytes_read \in 1..size
      /\ i \in 2..(bytes_read - 1) /\ buf[i - 2] = CR /\ buf[i - 1] = LF /\ buf[i] # CR
      /\ LastOf(i) \in i..(bytes_read - 1)
      /\ \A k \in i..LastOf(i) : buf[k] # CR
  BY LineFacts, BufferFacts
<1>2. size - 4 < bytes_read /\ buf[size - 4] = CR
  BY <1>1, BufferFacts
<1>3. i # size - 4
  BY <1>1, <1>2
<1>4. i # size - 3
  <2>1. i = size - 3 => i - 1 = size - 4
    BY <1>1
  <2>2. QED
    BY <1>1, <1>2, <2>1 DEF CR, LF
<1>5. i # size - 2
  <2>1. i = size - 2 => buf[size - 2] = CR
    BY <1>1, BufferFacts
  <2>2. QED
    BY <1>1, <2>1
<1>6. i # size - 1
  <2>1. SUFFICES ASSUME i = size - 1 PROVE FALSE
    OBVIOUS
  <2>2. size - 4 \in 0..(bytes_read - 1) /\ size - 4 + 1 < bytes_read /\ size - 4 + 1 = i - 2
    BY <1>1, <2>1
  <2>3. buf[size - 4 + 1] = LF
    BY <1>2, <2>2, BufferFacts
  <2>4. QED
    BY <1>1, <2>2, <2>3 DEF CR, LF
<1>7. i < size - 4
  BY <1>1, <1>3, <1>4, <1>5, <1>6
<1>8. LastOf(i) < size - 4
  <2>1. size - 4 \notin i..LastOf(i)
    BY <1>1, <1>2
  <2>2. QED
    BY <1>1, <1>7, <2>1
<1>9. QED
  BY <1>1, <1>7, <1>8 DEF Whole

LEMMA ShownFinite ==
    ASSUME Buffered
    PROVE  /\ IsFiniteSet(Shown) /\ Cardinality(Shown) \in Nat
           /\ \A n : /\ IsFiniteSet(ShownBefore(n)) /\ Cardinality(ShownBefore(n)) \in Nat
                     /\ Cardinality(ShownBefore(n)) <= Cardinality(Shown)
<1>1. bytes_read \in Nat
  BY BufferFacts
<1>2. IsFiniteSet(2..(bytes_read - 1))
  BY <1>1, FS_Interval
<1>3. Shown \in SUBSET (2..(bytes_read - 1))
  BY DEF Shown, LineStarts
<1>4. IsFiniteSet(Shown)
  BY <1>2, <1>3, FS_Subset
<1>5. ASSUME NEW n
      PROVE  IsFiniteSet(ShownBefore(n)) /\ Cardinality(ShownBefore(n)) <= Cardinality(Shown)
  <2>1. ShownBefore(n) \in SUBSET Shown
    BY DEF ShownBefore
  <2>2. QED
    BY <1>4, <2>1, FS_Subset
<1>6. QED
  BY <1>4, <1>5, FS_CardinalityType

(* Every line that belongs on the page begins before header_end.           *)
LEMMA ShownBelowEnd ==
    ASSUME Buffered, Scanned, NEW i \in Shown
    PROVE  i < header_end
<1>1. i \in LineStarts /\ i \in 2..(bytes_read - 1) /\ bytes_read \in Nat
  BY BufferFacts DEF Shown, LineStarts
<1>2. header_end \in 2..(bytes_read + 2) /\ request.size \in Nat /\ bytes_read <= request.size
  BY BufferFacts DEF Scanned, Bounded
<1>3. CASE Entire
  <2>1. bytes_read = request.size /\ header_end = request.size - 4
    BY <1>3 DEF Entire, Buffered, Filled, Scanned
  <2>2. bytes_read >= request.size - 2
    BY <1>2, <2>1
  <2>3. QED
    BY <1>1, <2>1, <2>2, AllWhole
<1>4. CASE ~Entire
  BY <1>1, <1>2, <1>4 DEF Scanned
<1>5. QED
  BY <1>3, <1>4

(* A place where http_str_to_headers begins a line.                        *)
AtLine(s, e) ==
    /\ s \in 2..(bytes_read - 1) /\ s < header_end
    /\ Begins(s)
    /\ e = LineEnd(buf, s, header_end) \/ e = LineEnd(buf, s, header_end + 1)

LEMMA AtLineFacts ==
    ASSUME Buffered, Scanned, NEW s, NEW e, AtLine(s, e)
    PROVE  /\ s \in Nat /\ bytes_read \in Nat /\ header_end \in Nat
           /\ e \in s..(header_end + 1) /\ header_end <= bytes_read + 2
           /\ e < header_end => buf[e] = CR
           /\ \A k \in s..header_end : buf[k] = CR => e <= k
<1>1. s \in Nat /\ bytes_read \in Nat /\ header_end \in Nat /\ header_end <= bytes_read + 2 /\ s < header_end
  BY BufferFacts DEF AtLine, Scanned, Bounded
<1>2. CASE e = LineEnd(buf, s, header_end)
  <2>1. s <= header_end
    BY <1>1
  <2>2. /\ e \in s..header_end /\ (e < header_end => buf[e] = CR)
        /\ \A k \in s..header_end : buf[k] = CR => e <= k
    BY <1>1, <1>2, <2>1, LineEndFacts
  <2>3. QED
    BY <1>1, <2>2
<1>3. CASE e = LineEnd(buf, s, header_end + 1)
  <2>1. header_end + 1 \in Nat /\ s <= header_end + 1
    BY <1>1
  <2>2. /\ e \in s..(header_end + 1) /\ (e < header_end + 1 => buf[e] = CR)
        /\ \A k \in s..(header_end + 1) : buf[k] = CR => e <= k
    BY <1>1, <1>3, <2>1, LineEndFacts
  <2>3. QED
    BY <1>1, <2>2
<1>4. QED
  BY <1>2, <1>3 DEF AtLine


(* A whole line is parsed for what it says, unless the process ends.       *)
LEMMA ParseWhole ==
    ASSUME Buffered, Scanned, NEW s, NEW e, AtLine(s, e), s \in LineStarts, Whole(s),
           HeaderAt(buf, s, e - s).status # "fault" \/ Regular(buf, s, LastOf(s))
    PROVE  /\ e = LastOf(s) + 1 /\ buf[e] = CR /\ buf[e + 1] = LF /\ e + 1 < bytes_read
           /\ HeaderAt(buf, s, e - s).status # "fault"
           /\ s \in Shown <=> HeaderAt(buf, s, e - s).status = "parsed"
           /\ s \in Shown => HeaderAt(buf, s, e - s).header = Said(s)
<1> DEFINE br == bytes_read
           h == header_end
           p == LastOf(s) + 1
           parsed == HeaderAt(buf, s, e - s)
<1>1. /\ s \in Nat /\ br \in Nat /\ h \in Nat /\ s < h
      /\ e \in s..(h + 1)
      /\ e < h => buf[e] = CR
      /\ \A k \in s..h : buf[k] = CR => e <= k
  BY AtLineFacts DEF AtLine
<1>2. /\ s \in 2..(br - 1) /\ buf[s - 1] = LF
      /\ LastOf(s) \in s..(br - 1) /\ p + 1 < br /\ p \in Nat /\ p > s
      /\ \A k \in s..LastOf(s) : buf[k] # CR
  BY <1>1, LineFacts DEF Whole
<1>3. buf[p] = CR /\ buf[p + 1] = LF
  <2>1. LastOf(s) + 1 < bytes_read
    BY <1>1, <1>2
  <2>2. buf[p] = CR
    BY <2>1, LineFacts
  <2>3. p \in 0..(br - 1) /\ p + 1 < br
    BY <1>1, <1>2
  <2>4. QED
    BY <2>2, <2>3, BufferFacts
<1>4. p <= h
  <2>1. CASE Entire
    <3>1. h = request.size - 4 /\ br = request.size /\ request.size \in Nat
      BY <2>1, BufferFacts DEF Entire, Buffered, Filled, Scanned
    <3>2. buf[h] = CR
      BY <1>1, <3>1, BufferFacts
    <3>3. h \notin s..LastOf(s)
      BY <1>2, <3>2
    <3>4. QED
      BY <1>1, <1>2, <3>3
  <2>2. CASE ~Entire
    BY <1>1, <1>2, <2>2 DEF Scanned
  <2>3. QED
    BY <2>1, <2>2
<1>5. e = p
  <2>1. e <= p
    BY <1>1, <1>2, <1>3, <1>4
  <2>2. e \in s..LastOf(s) => buf[e] = CR
    BY <1>1, <1>2, <1>4
  <2>3. e \notin s..LastOf(s)
    BY <1>2, <2>2
  <2>4. QED
    BY <1>1, <1>2, <2>1, <2>3
<1>6. PICK n \in Nat : n >= br + 4 /\ DOMAIN buf = 0..n /\ buf[n] # Space
  BY Extent DEF Buffered
<1>7. /\ s \in 1..n /\ e \in s..n /\ e + 1 <= n /\ e - 1 = LastOf(s)
      /\ buf[0] # Space /\ buf[s - 1] # Space /\ buf[e] # Space /\ buf[e] # Colon
  <2>1. s \in 1..n /\ e \in s..n /\ e + 1 <= n /\ e - 1 = LastOf(s)
    BY <1>1, <1>2, <1>5, <1>6
  <2>2. buf[0] # Space
    BY BufferFacts DEF CR, Space
  <2>3. buf[s - 1] # Space
    BY <1>2 DEF LF, Space
  <2>4. buf[e] # Space /\ buf[e] # Colon
    BY <1>3, <1>5 DEF CR, Space, Colon
  <2>5. QED
    BY <2>1, <2>2, <2>3, <2>4
<1>8. \A k \in s..(e - 1) : buf[k] # NUL
  <2>1. \A k \in s..(e - 1) : k \in 0..(br - 1)
    BY <1>1, <1>2, <1>5
  <2>2. QED
    BY <2>1, BufferFacts
<1>9. CASE Colons(buf, s, LastOf(s)) = {}
  <2>1. Colons(buf, s, e - 1) = {}
    BY <1>7, <1>9
  <2>2. parsed.status \in {"refused", "fault"}
    BY <1>6, <1>7, <2>1, NoColonNoHeader
  <2>3. s \notin Shown
    BY <1>9 DEF Shown
  <2>4. ~Regular(buf, s, LastOf(s))
    BY <1>9 DEF Regular
  <2>5. QED
    BY <1>2, <1>3, <1>5, <2>2, <2>3, <2>4
<1>10. CASE Colons(buf, s, LastOf(s)) # {}
  <2>1. Colons(buf, s, e - 1) # {}
    BY <1>7, <1>10
  <2>2. parsed =
          IF ~Fits(Meant(buf, s, e - 1)) THEN [status |-> "refused"]
          ELSE IF ~Regular(buf, s, e - 1) THEN [status |-> "fault"]
          ELSE [status |-> "parsed", header |-> Meant(buf, s, e - 1)]
    BY <1>6, <1>7, <1>8, <2>1, WholeLine
  <2>3. Meant(buf, s, e - 1) = Said(s) /\ (Regular(buf, s, e - 1) <=> Regular(buf, s, LastOf(s)))
    BY <1>7 DEF Said
  <2>4. s \in Shown <=> Fits(Said(s))
    BY <1>10 DEF Shown
  <2>5. QED
    BY <1>2, <1>3, <1>5, <2>2, <2>3, <2>4
<1>11. QED
  BY <1>9, <1>10

(* A line that was cut off is the last one, and does no harm if what       *)
(* arrived of it is regular.                                               *)
LEMMA ParseCut ==
    ASSUME Buffered, Scanned, NEW s, NEW e, AtLine(s, e), s \in LineStarts, ~Whole(s)
    PROVE  /\ e + 2 >= header_end /\ request.received < request.size - 2
           /\ \A i \in LineStarts : i <= s
           /\ Regular(buf, s, LastOf(s)) => HeaderAt(buf, s, e - s).status # "fault"
<1> DEFINE br == bytes_read
           h == header_end
           q == LastOf(s) + 1
<1>1. /\ s \in Nat /\ br \in Nat /\ h \in Nat /\ s < h
      /\ e \in s..(h + 1) /\ h <= br + 2
      /\ e < h => buf[e] = CR
  BY AtLineFacts DEF AtLine
<1>2. /\ s \in 2..(br - 1) /\ buf[s - 1] = LF
      /\ LastOf(s) \in s..(br - 1) /\ q \in Nat /\ q > s
      /\ q = br \/ q = br - 1
      /\ \A k \in s..LastOf(s) : buf[k] # CR
  BY <1>1, LineFacts DEF Whole
<1>3. (q = br - 1 => buf[q] = CR) /\ (q = br => buf[q] = NUL)
  BY <1>1, <1>2, LineFacts, BufferFacts
<1>4. request.size \in Nat /\ br < request.size - 2 /\ request.received = br
  BY <1>1, BufferFacts, AllWhole DEF Buffered, Filled
<1>5. h >= br
  <2>1. ~Entire
    BY <1>4 DEF Entire
  <2>2. QED
    BY <2>1 DEF Scanned
<1>6. e >= q
  <2>1. e \notin s..LastOf(s)
    BY <1>1, <1>2, <1>5
  <2>2. QED
    BY <1>1, <1>2, <2>1
<1>7. q = br - 1 => h <= br + 1
  BY <1>1, <1>2, <1>3 DEF Scanned, Bounded
<1>8. e + 2 >= h
  BY <1>1, <1>2, <1>6, <1>7
<1>9. ASSUME NEW i \in LineStarts
      PROVE  i <= s
  <2>1. i \in 2..(br - 1)
    BY <1>1, LineFacts
  <2>2. s < i => i >= LastOf(s) + 3
    BY <1>9, NextLine
  <2>3. QED
    BY <1>1, <1>2, <2>1, <2>2
<1>10. ASSUME Regular(buf, s, LastOf(s))
       PROVE  HeaderAt(buf, s, e - s).status # "fault"
  <2>1. PICK n \in Nat : n >= br + 4 /\ DOMAIN buf = 0..n /\ buf[n] # Space
    BY Extent DEF Buffered
  <2>2. /\ s \in 1..n /\ q \in s..n /\ e \in q..n /\ q - 1 = LastOf(s)
        /\ buf[0] # Space /\ buf[s - 1] # Space /\ buf[q] # Space
    <3>1. s \in 1..n /\ q \in s..n /\ e \in q..n /\ q - 1 = LastOf(s)
      BY <1>1, <1>2, <1>6, <2>1
    <3>2. buf[0] # Space
      BY BufferFacts DEF CR, Space
    <3>3. buf[s - 1] # Space
      BY <1>2 DEF LF, Space
    <3>4. buf[q] # Space
      BY <1>2, <1>3 DEF CR, NUL, Space
    <3>5. QED
      BY <3>1, <3>2, <3>3, <3>4
  <2>3. Regular(buf, s, q - 1)
    BY <1>10, <2>2
  <2>4. QED
    BY <2>1, <2>2, <2>3, CutLine
<1>11. QED
  BY <1>4, <1>8, <1>9, <1>10

(* What begins with a CR is the empty line, taken for a header when it is  *)
(* the only line or has not arrived whole.                                 *)
LEMMA ParseEmpty ==
    ASSUME Buffered, Scanned, NEW s, NEW e, AtLine(s, e), s \notin LineStarts
    PROVE  /\ HeaderAt(buf, s, e - s).status = "fault"
           /\ request.size = 4 \/ request.received = request.size - 1
<1> DEFINE br == bytes_read
           h == header_end
           size == request.size
<1>1. /\ s \in 2..(br - 1) /\ br \in Nat /\ h \in Nat /\ s < h
      /\ buf[s - 2] = CR /\ buf[s - 1] = LF
      /\ size \in Nat /\ size >= 4 /\ br <= size /\ request.received = br
      /\ e \in s..(h + 1) /\ \A k \in s..h : buf[k] = CR => e <= k
  <2>1. s \in 2..(br - 1) /\ s < h /\ buf[s - 2] = CR /\ buf[s - 1] = LF
    BY DEF AtLine, Begins
  <2>2. /\ s \in Nat /\ br \in Nat /\ h \in Nat /\ e \in s..(h + 1)
        /\ \A k \in s..h : buf[k] = CR => e <= k
    BY AtLineFacts
  <2>3. size \in Nat /\ size >= 4 /\ br \in 1..size
    BY BufferFacts
  <2>4. request.received = br
    BY DEF Buffered, Filled
  <2>5. QED
    BY <2>1, <2>2, <2>3, <2>4
<1>2. buf[s] = CR
  BY <1>1 DEF LineStarts
<1>3. e = s
  BY <1>1, <1>2
<1>4. s = size - 2
  <2>1. s \in 0..(br - 1) /\ s + 1 < size
    BY <1>1, <1>2, BufferFacts
  <2>2. s - 2 \in 0..(br - 3) /\ s - 2 + 2 = s
    BY <1>1
  <2>3. s - 2 = size - 4
    BY <1>1, <1>2, <2>2, BufferFacts
  <2>4. QED
    BY <1>1, <2>3
<1>5. size = 4 \/ br = size - 1
  <2>1. SUFFICES ASSUME size # 4, br # size - 1 PROVE FALSE
    BY <1>1
  <2>2. br = size /\ size > 4
    BY <1>1, <1>4, <2>1
  <2>3. h = size - 4
    BY <1>1, <2>2 DEF Entire, Scanned
  <2>4. QED
    BY <1>1, <1>4, <2>3
<1>6. PICK n \in Nat : n >= br + 4 /\ DOMAIN buf = 0..n /\ buf[n] # Space
  BY Extent DEF Buffered
<1> DEFINE kl == KeyLen(buf, s, 0)
           vl == ValueLen(buf, s, 0)
<1>7. ColonAt(buf, s, 0) = 0
  <2>1. s \in Nat /\ 0 \in Nat
    BY <1>1
  <2>2. ColonAt(buf, s, 0) \in 0..0
    BY <2>1, ColonAtFacts
  <2>3. QED
    BY <2>2
<1>8. buf[0] # Space /\ buf[s] # Space /\ buf[s - 1] # Space
  BY <1>1, <1>2, BufferFacts DEF CR, LF, Space
<1>9. SkipUp(buf, s) = s
  <2>1. s \in 0..n
    BY <1>1, <1>6
  <2>2. SkipUp(buf, s) \in s..n /\ SkipUp(buf, s) <= s
    BY <1>6, <1>8, <2>1, SkipUpFacts
  <2>3. QED
    BY <2>1, <2>2
<1>10. SkipDown(buf, s - 1) = s - 1
  <2>1. s - 1 \in 0..n /\ s - 1 \in 0..(s - 1)
    BY <1>1, <1>6
  <2>2. SkipDown(buf, s - 1) \in 0..(s - 1) /\ s - 1 <= SkipDown(buf, s - 1)
    BY <1>6, <1>8, <2>1, SkipDownFacts
  <2>3. QED
    BY <2>1, <2>2
<1>11. SkipUp(buf, s + 1) \in (s + 1)..n
  <2>1. s + 1 \in 0..n
    BY <1>1, <1>6
  <2>2. QED
    BY <1>6, <2>1, SkipUpFacts
<1>12. s + 0 - 1 = s - 1 /\ s + 0 + 1 = s + 1
  BY <1>1
<1>13. kl = SkipDown(buf, s - 1) - SkipUp(buf, s) + 1
  BY <1>7, <1>12 DEF KeyLen
<1>14. vl = SkipDown(buf, s - 1) - SkipUp(buf, s + 1) + 1
  BY <1>7, <1>12 DEF ValueLen
<1>15. kl = 0
  BY <1>1, <1>9, <1>10, <1>13
<1>16. vl \in Int /\ vl < 0
  BY <1>1, <1>10, <1>11, <1>14
<1>17. ~(kl + 1 > KeyMax) /\ ~(vl + 1 > ValueMax)
  BY <1>15, <1>16, MaxLengthsAssumption
<1>18. HeaderAt(buf, s, 0).status = "fault"
  BY <1>16, <1>17, HeaderAtShape
<1>19. e - s = 0
  BY <1>1, <1>3
<1>20. QED
  BY <1>1, <1>5, <1>18, <1>19


------------------------------------------------------------------------------
(* The steps.                                                              *)

LEMMA BelowIs == \A i : Below(i) = Cardinality(ShownBefore(i))
  BY DEF Below, ShownBefore

(* The first line begins behind the CR LF of the request line.             *)
LEMMA FirstLine ==
    ASSUME Buffered, Scanned
    PROVE  /\ header_end > 2 => 2 < bytes_read /\ Begins(2)
           /\ ShownBefore(2) = {}
<1> DEFINE br == bytes_read
<1>1. br \in Nat /\ br >= 1 /\ header_end \in 2..(br + 2) /\ buf[0] = CR
  BY BufferFacts DEF Scanned, Bounded
<1>2. br > 1 => buf[0 + 1] = LF
  <2>1. 0 \in 0..(br - 1)
    BY <1>1
  <2>2. br > 1 => 0 + 1 < br
    BY <1>1
  <2>3. QED
    BY <1>1, <2>1, <2>2, BufferFacts
<1>3. br > 1 => buf[1] = LF
  BY <1>2
<1>4. header_end > 2 => br > 2
  <2>1. br = 1 => header_end <= br + 1
    <3>1. br = 1 => buf[br - 1] = CR
      BY <1>1
    <3>2. QED
      BY <3>1 DEF Scanned, Bounded
  <2>2. br = 2 => header_end <= br
    <3>1. br = 2 => br >= 2 /\ buf[br - 2] = CR /\ buf[br - 1] = LF
      BY <1>1, <1>3
    <3>2. QED
      BY <3>1 DEF Scanned, Bounded
  <2>3. QED
    BY <1>1, <2>1, <2>2
<1>5. header_end > 2 => Begins(2)
  <2>1. 2 - 2 = 0 /\ 2 - 1 = 1
    OBVIOUS
  <2>2. QED
    BY <1>1, <1>3, <1>4, <2>1 DEF Begins
<1>6. ShownBefore(2) = {}
  <2>1. \A i \in Shown : i \in 2..(br - 1)
    BY DEF Shown, LineStarts
  <2>2. \A i \in Shown : ~(i < 2)
    BY <1>1, <2>1
  <2>3. QED
    BY <2>2 DEF ShownBefore
<1>7. QED
  BY <1>4, <1>5, <1>6

LEMMA ReceiveKeeps ==
    ASSUME HeadedInv, NEW r \in Requests, NEW leftover \in Leftovers, Receive(r, leftover)
    PROVE  AnswerInv'
<1>1. /\ buf' = Stack(r, leftover) /\ bytes_read' = r.received /\ request' = r
      /\ headers' = <<>> /\ page' = <<>> /\ line_start' = 0 /\ line_end' = 0
      /\ phase' = (IF ~r.root THEN "not_found" ELSE IF LineEnds(buf') = {} THEN "overrun" ELSE "scan")
      /\ header_end' = IF phase' = "scan" THEN HeaderStart(buf') ELSE 0
  BY DEF Receive
<1>2. Filled'
  BY <1>1 DEF Filled
<1>3. r.received \in Nat
  BY RequestsAssumption DEF Proper
<1>4. CASE r.received >= 1
  <2>1. Buffered'
    BY <1>1, <1>2, <1>4 DEF Buffered
  <2>2. LineEnds(buf') # {} /\ HeaderStart(buf') = 2
    <3>1. (Buffered => LineEnds(buf) # {} /\ HeaderStart(buf) = 2)'
      BY RequestLineEnds, PTL
    <3>2. QED
      BY <2>1, <3>1 DEF LineEnds, HeaderStart
  <2>3. phase' \in {"not_found", "scan"} /\ (phase' = "not_found" => ~request'.root)
    BY <1>1, <2>2
  <2>4. InRange'
    BY <1>1, <1>3, <1>4, <2>2, <2>3, MaxHeadersAssumption DEF InRange
  <2>5. phase' = "scan" => Scanning'
    <3>1. (Buffered /\ header_end = 2 => Scanning)'
      BY ScanBegins, PTL
    <3>2. QED
      BY <1>1, <2>1, <2>2, <3>1
  <2>6. (headers \in Seq([key : Seq(Chars), value : Seq(Chars)]))'
    BY <1>1
  <2>7. PageShowsRequest' /\ FaultsOnlyOnIrregular'
    BY <2>3 DEF PageShowsRequest, FaultsOnlyOnIrregular
  <2>8. QED
    BY <1>1, <2>1, <2>3, <2>4, <2>5, <2>6, <2>7 DEF HeadedInv, AnswerInv
<1>5. CASE r.received = 0
  <2>1. phase' = "scan" => header_end' \in Nat /\ header_end' = HeaderStart(buf')
    <3>1. SUFFICES ASSUME phase' = "scan" PROVE HeaderStart(buf') \in Nat
      BY <1>1
    <3>2. LineEnds(buf') # {} /\ LineEnds(buf') \in SUBSET Nat
      <4>1. (Filled => LineEnds(buf) \in SUBSET Nat)'
        BY LineEndsNat, PTL
      <4>2. QED
        BY <1>1, <1>2, <3>1, <4>1 DEF LineEnds
    <3>3. Min(LineEnds(buf')) \in Nat
      BY <3>2, MinFacts
    <3>4. QED
      BY <3>3 DEF HeaderStart
  <2>2. phase' \in {"not_found", "overrun", "scan"} /\ (phase' # "scan" => header_end' = 0)
    BY <1>1
  <2>3. QED
    BY <1>1, <1>2, <1>5, <2>1, <2>2 DEF HeadlessInv, AnswerInv, HeaderStart, LineEnds
<1>6. QED
  BY <1>3, <1>4, <1>5

LEMMA ScanLineKeeps ==
    ASSUME HeadedInv, ScanLine
    PROVE  HeadedInv'
<1>1. /\ phase = "scan" /\ phase' \in {"scan", "split"}
      /\ UNCHANGED <<request, buf, bytes_read, line_start, line_end, headers, page>>
  BY DEF ScanLine
<1>2. Buffered' /\ (phase' = "scan" => Scanning') /\ (phase' = "split" => Scanned')
  BY <1>1, ScanGoesOn DEF HeadedInv
<1>3. bytes_read \in Nat
  BY <1>1, BufferFacts DEF HeadedInv
<1>4. InRange'
  <2>1. header_end' \in 2..(bytes_read + 2)
    BY <1>1, <1>2 DEF Scanning, Scanned, Bounded
  <2>2. header_end' \in 0..(bytes_read' + 2)
    BY <1>1, <1>3, <2>1
  <2>3. QED
    BY <1>1, <2>2 DEF HeadedInv, InRange, Fits
<1>5. Chars' = Chars
  BY <1>1 DEF Chars
<1>6. PageShowsRequest' /\ FaultsOnlyOnIrregular'
  BY <1>1 DEF PageShowsRequest, FaultsOnlyOnIrregular
<1>7. QED
  BY <1>1, <1>2, <1>4, <1>5, <1>6 DEF HeadedInv

LEMMA ScanEndsKeeps ==
    ASSUME HeadedInv, ScanEnds
    PROVE  HeadedInv'
<1>1. /\ phase = "scan" /\ phase' = "split" /\ header_end >= bytes_read
      /\ UNCHANGED <<request, buf, bytes_read, header_end, line_start, line_end, headers, page>>
  BY DEF ScanEnds
<1>2. Scanned /\ Buffered
  BY <1>1, ScanStops DEF HeadedInv
<1>3. Scanned' /\ Buffered'
  BY <1>1, <1>2, SameLines DEF Scanned, Bounded
<1>4. InRange'
  BY <1>1 DEF HeadedInv, InRange, Fits
<1>5. Chars' = Chars
  BY <1>1 DEF Chars
<1>6. PageShowsRequest' /\ FaultsOnlyOnIrregular'
  BY <1>1 DEF PageShowsRequest, FaultsOnlyOnIrregular
<1>7. QED
  BY <1>1, <1>3, <1>4, <1>5, <1>6 DEF HeadedInv

LEMMA SendNotFoundKeeps ==
    ASSUME HeadedInv, SendNotFound
    PROVE  HeadedInv'
<1>1. /\ phase = "not_found" /\ phase' = "sent" /\ ~request.root
      /\ UNCHANGED <<request, buf, bytes_read, header_end, line_start, line_end, headers, page>>
  BY DEF SendNotFound, HeadedInv
<1>2. Buffered'
  BY <1>1, SameLines DEF HeadedInv
<1>3. InRange'
  BY <1>1 DEF HeadedInv, InRange, Fits
<1>4. Chars' = Chars
  BY <1>1 DEF Chars
<1>5. PageShowsRequest' /\ FaultsOnlyOnIrregular'
  BY <1>1 DEF PageShowsRequest, FaultsOnlyOnIrregular
<1>6. QED
  BY <1>1, <1>2, <1>3, <1>4, <1>5 DEF HeadedInv

LEMMA SplitKeeps ==
    ASSUME HeadedInv, Split
    PROVE  HeadedInv'
<1>1. /\ phase = "split" /\ phase' = "lines" /\ headers = <<>>
      /\ line_start' = 2 /\ line_end' = LineEnd(buf, 2, header_end)
      /\ UNCHANGED <<request, buf, bytes_read, header_end, headers, page>>
  BY RequestLineEnds DEF Split, HeadedInv
<1>2. Scanned /\ Buffered
  BY <1>1 DEF HeadedInv
<1>3. Scanned' /\ Buffered'
  BY <1>1, <1>2, SameLines DEF Scanned, Bounded
<1>4. bytes_read \in Nat /\ header_end \in 2..(bytes_read + 2)
  BY <1>2, BufferFacts DEF Scanned, Bounded
<1>5. line_end' \in 2..(bytes_read + 2)
  <2>1. 2 \in Nat /\ header_end \in Nat /\ 2 <= header_end
    BY <1>4
  <2>2. LineEnd(buf, 2, header_end) \in 2..header_end
    BY <2>1, LineEndFacts
  <2>3. QED
    BY <1>1, <1>4, <2>2
<1>6. InRange'
  <2>1. line_start' \in 0..(bytes_read' + 5) /\ line_end' \in 0..(bytes_read' + 5)
    BY <1>1, <1>4, <1>5
  <2>2. QED
    BY <1>1, <2>1 DEF HeadedInv, InRange, Fits
<1>7. Chars' = Chars
  BY <1>1 DEF Chars
<1>8. Listed'
  <2>1. ShownBefore(2)' = {} /\ Shown' = Shown
    BY <1>1, <1>2, FirstLine, SameLines
  <2>2. ShownBefore(line_start)' = {}
    BY <1>1, <2>1 DEF ShownBefore
  <2>3. Cardinality({}) = 0
    BY FS_EmptySet
  <2>4. Len(headers') = 0
    BY <1>1
  <2>5. header_end' > 2 => 2 < bytes_read' /\ Begins(line_start)'
    BY <1>1, <1>2, FirstLine DEF Begins
  <2>6. (line_start < header_end)' => /\ (line_start < bytes_read)'
                                     /\ Begins(line_start)'
    BY <1>1, <1>4, <2>5
  <2>7. Cardinality(Shown') \in Nat
    BY <1>2, <2>1, ShownFinite
  <2>8. Len(headers') <= Cardinality(Shown') + (IF request'.received < request'.size - 2 THEN 1 ELSE 0)
    BY <2>4, <2>7
  <2>9. line_end' = LineEnd(buf', line_start', header_end')
    BY <1>1
  <2>10. (Len(headers) = Cardinality(ShownBefore(line_start)))'
    BY <2>2, <2>3, <2>4
  <2>11. line_start' >= 2
    BY <1>1
  <2>12. \A i : ~(i \in ShownBefore(line_start)')
    BY <2>2
  <2>13. QED
    BY <2>6, <2>8, <2>9, <2>10, <2>11, <2>12 DEF Listed, Lists, NoMore
<1>9. PageShowsRequest' /\ FaultsOnlyOnIrregular'
  BY <1>1 DEF PageShowsRequest, FaultsOnlyOnIrregular
<1>10. QED
  BY <1>1, <1>3, <1>6, <1>7, <1>8, <1>9 DEF HeadedInv


(* The scan for the end of the next line is in range.                      *)
LEMMA NextLineEnd ==
    ASSUME Buffered, Scanned, NEW s, NEW e, AtLine(s, e)
    PROVE  /\ e + 2 \in 2..(bytes_read + 5)
           /\ LineEnd(buf, e + 2, header_end + 1) \in 0..(bytes_read + 5)
<1>1. /\ s \in Nat /\ bytes_read \in Nat /\ header_end \in Nat
      /\ e \in s..(header_end + 1) /\ header_end <= bytes_read + 2
  BY AtLineFacts
<1>2. e + 2 \in 2..(bytes_read + 5) /\ e + 2 \in Nat /\ header_end + 1 \in Nat
  BY <1>1
<1>3. CASE e + 2 >= header_end + 1
  <2>1. LineEnd(buf, e + 2, header_end + 1) = e + 2
    BY <1>2, <1>3, LineEndFacts
  <2>2. QED
    BY <1>2, <2>1
<1>4. CASE e + 2 <= header_end + 1
  <2>1. LineEnd(buf, e + 2, header_end + 1) \in (e + 2)..(header_end + 1)
    BY <1>2, <1>4, LineEndFacts
  <2>2. QED
    BY <1>1, <1>2, <2>1
<1>5. QED
  BY <1>1, <1>3, <1>4

(* Behind a whole line the next one begins, or the headers end.            *)
LEMMA LineBehind ==
    ASSUME Buffered, Scanned, NEW e \in Nat,
           buf[e] = CR, buf[e + 1] = LF, e + 1 < bytes_read, e + 2 < header_end
    PROVE  e + 2 < bytes_read /\ Begins(e + 2)
<1>1. bytes_read \in Nat /\ header_end \in 2..(bytes_read + 2)
  BY BufferFacts DEF Scanned, Bounded
<1>2. e + 2 # bytes_read
  <2>1. SUFFICES ASSUME e + 2 = bytes_read PROVE FALSE
    OBVIOUS
  <2>2. bytes_read - 2 = e /\ bytes_read - 1 = e + 1 /\ bytes_read >= 2
    BY <1>1, <2>1
  <2>3. header_end <= bytes_read
    BY <2>2 DEF Scanned, Bounded
  <2>4. QED
    BY <1>1, <2>1, <2>3
<1>3. e + 2 < bytes_read
  BY <1>1, <1>2
<1>4. e + 2 - 2 = e /\ e + 2 - 1 = e + 1
  OBVIOUS
<1>5. QED
  BY <1>3, <1>4 DEF Begins

(* What a whole line adds to the lines that belong on the page.            *)
LEMMA WholeAdds ==
    ASSUME Buffered, NEW s \in LineStarts, NEW e, e = LastOf(s) + 1
    PROVE  /\ s \in Shown => /\ ShownBefore(e + 2) = ShownBefore(s) \cup {s}
                             /\ Cardinality(ShownBefore(e + 2)) = Cardinality(ShownBefore(s)) + 1
           /\ s \notin Shown => ShownBefore(e + 2) = ShownBefore(s)
<1>1. s \in Nat /\ LastOf(s) \in Nat /\ LastOf(s) >= s /\ e + 2 = LastOf(s) + 3
  <2>1. s \in 2..(bytes_read - 1) /\ LastOf(s) \in s..(bytes_read - 1)
    BY LineFacts
  <2>2. QED
    BY <2>1, BufferFacts
<1>2. \A i \in Shown : i \in Nat /\ (i < e + 2 <=> i < s \/ i = s)
  <2>1. SUFFICES ASSUME NEW i \in Shown PROVE i \in Nat /\ (i < e + 2 <=> i < s \/ i = s)
    OBVIOUS
  <2>2. i \in LineStarts /\ i \in Nat
    BY LineFacts, BufferFacts DEF Shown
  <2>3. s < i => i >= LastOf(s) + 3
    BY <2>2, NextLine
  <2>4. QED
    BY <1>1, <2>2, <2>3
<1>3. ShownBefore(e + 2) = {i \in Shown : i < s \/ i = s}
  BY <1>2 DEF ShownBefore
<1>4. CASE s \in Shown
  <2>1. ShownBefore(e + 2) = ShownBefore(s) \cup {s}
    BY <1>3, <1>4 DEF ShownBefore
  <2>2. s \notin ShownBefore(s)
    BY <1>1 DEF ShownBefore
  <2>3. Cardinality(ShownBefore(s) \cup {s}) = Cardinality(ShownBefore(s)) + 1
    BY <2>2, ShownFinite, FS_AddElement
  <2>4. QED
    BY <1>4, <2>1, <2>3
<1>5. CASE s \notin Shown
  BY <1>3, <1>5 DEF ShownBefore
<1>6. QED
  BY <1>4, <1>5

(* A line that stops the process is irregular, or is the empty line.       *)
LEMMA ParseFaults ==
    ASSUME Buffered, Scanned, NEW s, NEW e, AtLine(s, e), HeaderAt(buf, s, e - s).status = "fault"
    PROVE  \/ request.size = 4
           \/ request.received = request.size - 1
           \/ \E i \in LineStarts : ~Regular(buf, i, LastOf(i))
<1>1. CASE s \notin LineStarts
  BY <1>1, ParseEmpty
<1>2. CASE s \in LineStarts /\ Whole(s)
  <2>1. Regular(buf, s, LastOf(s)) => HeaderAt(buf, s, e - s).status # "fault"
    BY <1>2, ParseWhole
  <2>2. QED
    BY <1>2, <2>1
<1>3. CASE s \in LineStarts /\ ~Whole(s)
  <2>1. Regular(buf, s, LastOf(s)) => HeaderAt(buf, s, e - s).status # "fault"
    BY <1>3, ParseCut
  <2>2. QED
    BY <1>3, <2>1
<1>4. QED
  BY <1>1, <1>2, <1>3

(* The headers of the lines before the next one out of those before this   *)
(* one.                                                                    *)
Grown(parsed) == IF parsed.status = "parsed" THEN Append(headers, parsed.header) ELSE headers

LEMMA ParseLists ==
    ASSUME Buffered, Scanned, NEW s, NEW e, AtLine(s, e),
           NEW parsed, parsed = HeaderAt(buf, s, e - s), parsed.status # "fault",
           NEW C, headers \in Seq(C), parsed.status = "parsed" => parsed.header \in C,
           NEW hs, hs = Grown(parsed),
           Len(headers) = Cardinality(ShownBefore(s)),
           Lists(headers, s)
    PROVE  /\ e + 2 < header_end =>
                 /\ e + 2 < bytes_read /\ Begins(e + 2)
                 /\ Len(hs) = Cardinality(ShownBefore(e + 2))
           /\ Lists(hs, e + 2)
           /\ NoMore(hs)
<1>1. s \in LineStarts
  BY ParseEmpty
<1>2. s \in Nat /\ e \in Nat
  <2>1. s \in Nat /\ header_end \in Nat /\ e \in s..(header_end + 1)
    BY AtLineFacts
  <2>2. QED
    BY <2>1
<1>3. /\ Cardinality(Shown) \in Nat
      /\ \A n : Cardinality(ShownBefore(n)) \in Nat /\ Cardinality(ShownBefore(n)) <= Cardinality(Shown)
  BY ShownFinite
<1>4. \A i : Below(i) \in Nat
  BY <1>3, BelowIs
<1>5. ASSUME parsed.status = "parsed"
      PROVE  /\ Len(hs) = Len(headers) + 1 /\ hs[Len(headers) + 1] = parsed.header
             /\ \A k \in Nat : k < Len(headers) => hs[k + 1] = headers[k + 1]
  <2>1. hs = Append(headers, parsed.header) /\ parsed.header \in C
    BY <1>5 DEF Grown
  <2>2. /\ Len(Append(headers, parsed.header)) = Len(headers) + 1
        /\ Append(headers, parsed.header)[Len(headers) + 1] = parsed.header
        /\ \A k \in 1..Len(headers) : Append(headers, parsed.header)[k] = headers[k]
    BY <2>1, AppendProperties
  <2>3. \A k \in Nat : k < Len(headers) => k + 1 \in 1..Len(headers)
    BY <1>3
  <2>4. QED
    BY <2>1, <2>2, <2>3
<1>6. parsed.status # "parsed" => hs = headers
  BY DEF Grown
<1>7. /\ Len(hs) = Len(headers) \/ Len(hs) = Len(headers) + 1
      /\ Lists(hs, s)
  BY <1>3, <1>4, <1>5, <1>6 DEF Lists
<1>8. CASE Whole(s)
  <2>1. /\ e = LastOf(s) + 1 /\ buf[e] = CR /\ buf[e + 1] = LF /\ e + 1 < bytes_read
        /\ s \in Shown <=> parsed.status = "parsed"
        /\ s \in Shown => parsed.header = Said(s)
    BY <1>1, <1>8, ParseWhole
  <2>2. e + 2 < header_end => e + 2 < bytes_read /\ Begins(e + 2)
    BY <1>2, <2>1, LineBehind
  <2>3. CASE s \in Shown
    <3>1. /\ ShownBefore(e + 2) = ShownBefore(s) \cup {s}
          /\ Cardinality(ShownBefore(e + 2)) = Cardinality(ShownBefore(s)) + 1
      BY <1>1, <2>1, <2>3, WholeAdds
    <3>2. Len(hs) = Cardinality(ShownBefore(e + 2))
      BY <1>5, <2>1, <2>3, <3>1
    <3>3. Below(s) = Len(headers)
      BY BelowIs
    <3>4. Below(s) < Len(hs) /\ hs[Below(s) + 1] = Said(s)
      BY <1>3, <1>5, <2>1, <2>3, <3>3
    <3>5. Len(hs) <= Cardinality(Shown)
      BY <1>3, <3>2
    <3>6. NoMore(hs)
      BY <1>3, <3>2, <3>5 DEF NoMore
    <3>7. QED
      BY <1>7, <2>2, <3>1, <3>2, <3>4, <3>6 DEF Lists
  <2>4. CASE s \notin Shown
    <3>1. ShownBefore(e + 2) = ShownBefore(s)
      BY <1>1, <2>1, <2>4, WholeAdds
    <3>2. hs = headers
      BY <1>6, <2>1, <2>4
    <3>3. Len(hs) = Cardinality(ShownBefore(e + 2))
      BY <3>1, <3>2
    <3>4. NoMore(hs)
      BY <1>3, <3>3 DEF NoMore
    <3>5. QED
      BY <1>7, <2>2, <3>1, <3>3, <3>4 DEF Lists
  <2>5. QED
    BY <2>3, <2>4
<1>9. CASE ~Whole(s)
  <2>1. e + 2 >= header_end /\ request.received < request.size - 2 /\ \A i \in LineStarts : i <= s
    BY <1>1, <1>9, ParseCut
  <2>2. ~(e + 2 < header_end)
    <3>1. header_end \in Nat
      BY AtLineFacts
    <3>2. QED
      BY <1>2, <2>1, <3>1
  <2>3. \A i \in ShownBefore(e + 2) : i \in ShownBefore(s)
    <3>1. SUFFICES ASSUME NEW i \in Shown PROVE i < s
      BY DEF ShownBefore
    <3>2. i \in LineStarts /\ Whole(i)
      BY DEF Shown
    <3>3. i <= s /\ i # s /\ i \in Nat
      BY <1>9, <2>1, <3>2, LineFacts, BufferFacts
    <3>4. QED
      BY <1>2, <3>3
  <2>4. Len(hs) <= Cardinality(Shown) + 1
    BY <1>3, <1>7
  <2>5. QED
    BY <1>7, <2>1, <2>2, <2>3, <2>4 DEF Lists, NoMore
<1>10. QED
  BY <1>8, <1>9


LEMMA ParseLineKeeps ==
    ASSUME HeadedInv, ParseLine
    PROVE  HeadedInv'
<1> DEFINE s == line_start
           e == line_end
           parsed == HeaderAt(buf, s, e - s)
           Headers == [key : Seq(Chars), value : Seq(Chars)]
<1>1. /\ phase = "lines" /\ s < header_end /\ Len(headers) < MaxHeaders
      /\ phase' = (IF parsed.status = "fault" THEN "fault" ELSE "lines")
      /\ headers' = (IF parsed.status = "parsed" THEN Append(headers, parsed.header) ELSE headers)
      /\ line_start' = e + 2 /\ line_end' = LineEnd(buf, e + 2, header_end + 1)
      /\ UNCHANGED <<request, buf, bytes_read, header_end, page>>
  BY DEF ParseLine, MoreLines
<1>2. /\ Buffered /\ Scanned /\ Listed /\ headers \in Seq(Headers)
      /\ InRange
  BY <1>1 DEF HeadedInv
<1>3. AtLine(s, e)
  <2>1. bytes_read \in Nat /\ s \in 0..(bytes_read + 5) /\ s >= 2 /\ s < bytes_read
    BY <1>1, <1>2, BufferFacts DEF Listed, InRange
  <2>2. s \in 2..(bytes_read - 1)
    BY <2>1
  <2>3. QED
    BY <1>1, <1>2, <2>2 DEF Listed, AtLine
<1>4. /\ s \in Nat /\ bytes_read \in Nat /\ header_end \in Nat
      /\ e \in s..(header_end + 1) /\ header_end <= bytes_read + 2
  BY <1>2, <1>3, AtLineFacts
<1>5. parsed.status = "parsed" => parsed.header \in Headers /\ Fits(parsed.header)
  <2>1. PICK n \in Nat : n >= bytes_read + 4 /\ DOMAIN buf = 0..n /\ buf[n] # Space
    BY <1>2, Extent DEF Buffered
  <2>2. buf[0] # Space
    BY <1>2, BufferFacts DEF CR, Space
  <2>3. s \in 1..n /\ e - s \in Nat /\ s + (e - s) + 1 <= n
    <3>1. s >= 2
      BY <1>2 DEF Listed
    <3>2. QED
      BY <1>4, <2>1, <3>1
  <2>4. \A k \in 0..n : buf[k] \in Chars
    BY <2>1 DEF Chars
  <2>5. QED
    BY <2>1, <2>2, <2>3, <2>4, ParsedFits
<1>6. headers' \in Seq(Headers)
  <2>1. CASE parsed.status = "parsed"
    <3>1. headers' = Append(headers, parsed.header) /\ parsed.header \in Headers
      BY <1>1, <1>5, <2>1
    <3>2. QED
      BY <1>2, <3>1, AppendProperties
  <2>2. CASE parsed.status # "parsed"
    BY <1>1, <1>2, <2>2
  <2>3. QED
    BY <2>1, <2>2
<1>7. Len(headers') <= MaxHeaders /\ \A i \in DOMAIN headers' : Fits(headers'[i])
  <2>1. CASE parsed.status = "parsed"
    <3>1. headers' = Append(headers, parsed.header) /\ parsed.header \in Headers
      BY <1>1, <1>5, <2>1
    <3>2. /\ Len(headers') = Len(headers) + 1 /\ headers'[Len(headers) + 1] = parsed.header
          /\ \A k \in 1..Len(headers) : headers'[k] = headers[k]
          /\ Len(headers) \in Nat /\ DOMAIN headers' = 1..(Len(headers) + 1)
          /\ DOMAIN headers = 1..Len(headers)
      BY <1>2, <1>6, <3>1, AppendProperties
    <3>3. \A i \in 1..(Len(headers) + 1) : i \in 1..Len(headers) \/ i = Len(headers) + 1
      BY <3>2
    <3>4. \A i \in 1..Len(headers) : Fits(headers[i])
      BY <1>2, <3>2 DEF InRange
    <3>5. Len(headers') <= MaxHeaders
      BY <1>1, <3>2, MaxHeadersAssumption
    <3>6. \A i \in DOMAIN headers' : Fits(headers'[i])
      BY <1>5, <2>1, <3>2, <3>3, <3>4
    <3>7. QED
      BY <3>5, <3>6
  <2>2. CASE parsed.status # "parsed"
    BY <1>1, <1>2, <2>2 DEF InRange
  <2>3. QED
    BY <2>1, <2>2
<1>8. /\ line_start' \in 2..(bytes_read' + 5)
      /\ line_end' \in 0..(bytes_read' + 5)
  BY <1>1, <1>2, <1>3, NextLineEnd
<1>9. InRange'
  <2>1. line_start' \in 0..(bytes_read' + 5)
    BY <1>1, <1>4, <1>8
  <2>2. phase' \in {"lines", "fault"}
    BY <1>1
  <2>3. header_end' \in 0..(bytes_read' + 2)
    BY <1>1, <1>2 DEF InRange
  <2>4. \A i \in DOMAIN headers' : Fits(headers[i])'
    BY <1>7 DEF Fits
  <2>5. QED
    BY <1>7, <1>8, <2>1, <2>2, <2>3, <2>4 DEF InRange
<1>10. Scanned' /\ Buffered'
  BY <1>1, <1>2, SameLines DEF Scanned, Bounded
<1>11. Chars' = Chars
  BY <1>1 DEF Chars
<1>12. phase' = "lines" => Listed'
  <2>1. SUFFICES ASSUME parsed.status # "fault" PROVE Listed'
    BY <1>1
  <2>2. /\ Len(headers) = Cardinality(ShownBefore(s))
        /\ Lists(headers, s)
    BY <1>1, <1>2 DEF Listed
  <2>3. /\ e + 2 < header_end =>
              /\ e + 2 < bytes_read /\ Begins(e + 2)
              /\ Len(headers') = Cardinality(ShownBefore(e + 2))
        /\ Lists(headers', e + 2)
        /\ NoMore(headers')
    <3>1. PICK C, p, hs : C = Headers /\ p = parsed /\ hs = headers'
      OBVIOUS
    <3>2. headers \in Seq(C) /\ (p.status = "parsed" => p.header \in C) /\ p.status # "fault"
      BY <1>2, <1>5, <2>1, <3>1
    <3>3. hs = Grown(p)
      BY <1>1, <3>1 DEF Grown
    <3>4. Buffered /\ Scanned /\ AtLine(s, e) /\ p = HeaderAt(buf, s, e - s)
      BY <1>2, <1>3, <3>1
    <3>5. /\ e + 2 < header_end =>
                /\ e + 2 < bytes_read /\ Begins(e + 2)
                /\ Len(hs) = Cardinality(ShownBefore(e + 2))
          /\ Lists(hs, e + 2)
          /\ NoMore(hs)
      BY <2>2, <3>2, <3>3, <3>4, ParseLists
    <3>6. QED
      BY <3>1, <3>5
  <2>4. /\ Shown' = Shown /\ ShownBefore(line_start)' = ShownBefore(e + 2)
        /\ \A i : Below(i)' = Below(i) /\ Said(i)' = Said(i)
    <3>1. /\ Shown' = Shown /\ \A i : Below(i)' = Below(i) /\ Said(i)' = Said(i)
      BY <1>1, SameLines
    <3>2. QED
      BY <1>1, <3>1 DEF ShownBefore
  <2>5. (line_start >= 2)'
    BY <1>4, <1>8
  <2>6. (line_start < header_end => line_start < bytes_read /\ Begins(line_start))'
    BY <1>1, <2>3 DEF Begins
  <2>7. (line_start < header_end => Len(headers) = Cardinality(ShownBefore(line_start)))'
    BY <1>1, <2>3, <2>4
  <2>8. (line_end = LineEnd(buf, line_start, header_end + 1))'
    BY <1>1
  <2>9. Lists(headers, line_start)'
    BY <2>3, <2>4 DEF Lists
  <2>10. NoMore(headers)'
    BY <1>1, <2>3, <2>4 DEF NoMore
  <2>11. QED
    BY <2>5, <2>6, <2>7, <2>8, <2>9, <2>10 DEF Listed
<1>13. FaultsOnlyOnIrregular'
  <2>1. SUFFICES ASSUME parsed.status = "fault" PROVE FaultsOnlyOnIrregular'
    BY <1>1 DEF FaultsOnlyOnIrregular
  <2>2. \/ request.size = 4
        \/ request.received = request.size - 1
        \/ \E i \in LineStarts : ~Regular(buf, i, LastOf(i))
    BY <1>2, <1>3, <2>1, ParseFaults
  <2>3. LineStarts' = LineStarts /\ \A i : LastOf(i)' = LastOf(i)
    BY <1>1, SameLines
  <2>4. \A i \in LineStarts : ~Regular(buf, i, LastOf(i)) => ~Regular(buf', i, LastOf(i)')
    BY <1>1, <2>3
  <2>5. QED
    BY <1>1, <2>2, <2>3, <2>4 DEF FaultsOnlyOnIrregular
<1>14. PageShowsRequest'
  BY <1>1 DEF PageShowsRequest
<1>15. (headers \in Seq([key : Seq(Chars), value : Seq(Chars)]))'
  BY <1>6, <1>11
<1>16. phase' \in {"lines", "fault"}
  BY <1>1
<1>17. QED
  BY <1>9, <1>10, <1>12, <1>13, <1>14, <1>15, <1>16 DEF HeadedInv

LEMMA SendPageKeeps ==
    ASSUME HeadedInv, SendPage
    PROVE  HeadedInv'
<1>1. /\ phase = "lines" /\ phase' = "sent" /\ ~(line_start < header_end /\ Len(headers) < MaxHeaders)
      /\ page' = [i \in DOMAIN headers |-> HeaderToStr(headers[i])]
      /\ UNCHANGED <<request, buf, bytes_read, header_end, line_start, line_end, headers>>
  BY DEF SendPage, MoreLines
<1>2. Buffered /\ Scanned /\ Listed /\ InRange /\ headers \in Seq([key : Seq(Chars), value : Seq(Chars)])
  BY <1>1 DEF HeadedInv
<1>3. /\ Len(headers) \in Nat /\ Len(page') = Len(headers)
      /\ \A k \in Nat : k < Len(headers) => page'[k + 1] = HeaderToStr(headers[k + 1])
  <2>1. Len(headers) \in Nat /\ page' = [i \in 1..Len(headers) |-> HeaderToStr(headers[i])]
    BY <1>1, <1>2
  <2>2. \A k \in Nat : k < Len(headers) => k + 1 \in 1..Len(headers)
    BY <2>1
  <2>3. QED
    BY <2>1, <2>2
<1>4. /\ IsFiniteSet(Shown) /\ \A i : Below(i) \in Nat
  BY <1>2, ShownFinite, BelowIs
<1>5. ASSUME NEW i \in Shown, Below(i) < MaxHeaders
      PROVE  Below(i) < Len(page') /\ page'[Below(i) + 1] = HeaderToStr(Said(i))
  <2>1. i \in Nat /\ i < header_end /\ line_start \in Nat /\ header_end \in Nat
    <3>1. i \in Nat
      BY <1>2, LineFacts, BufferFacts DEF Shown
    <3>2. i < header_end
      BY <1>2, ShownBelowEnd
    <3>3. line_start \in Nat /\ header_end \in Nat
      BY <1>2 DEF InRange
    <3>4. QED
      BY <3>1, <3>2, <3>3
  <2>2. i < line_start
    <3>1. SUFFICES ASSUME ~(i < line_start) PROVE FALSE
      OBVIOUS
    <3>2. line_start < header_end /\ line_start <= i
      BY <2>1, <3>1
    <3>3. Len(headers) = Cardinality(ShownBefore(line_start)) /\ ~(Len(headers) < MaxHeaders)
      BY <1>1, <1>2, <3>2 DEF Listed
    <3>4. ShownBefore(line_start) \in SUBSET ShownBefore(i)
      <4>1. \A k \in Shown : k \in Nat
        BY <1>2, LineFacts, BufferFacts DEF Shown
      <4>2. \A k \in Shown : k < line_start => k < i
        BY <2>1, <3>2, <4>1
      <4>3. QED
        BY <4>2 DEF ShownBefore
    <3>5. Cardinality(ShownBefore(line_start)) <= Cardinality(ShownBefore(i))
      BY <1>2, <3>4, ShownFinite, FS_Subset
    <3>6. Below(i) = Cardinality(ShownBefore(i))
      BY BelowIs
    <3>7. QED
      BY <1>3, <1>4, <1>5, <3>3, <3>5, <3>6, MaxHeadersAssumption
  <2>3. Below(i) < Len(headers) /\ headers[Below(i) + 1] = Said(i)
    BY <1>2, <2>2 DEF Listed, Lists, ShownBefore
  <2>4. QED
    BY <1>3, <1>4, <2>3
<1>6. PageShowsRequest'
  <2>1. Shown' = Shown /\ \A i : Below(i)' = Below(i) /\ Said(i)' = Said(i)
    BY <1>1, SameLines
  <2>2. (\A i \in Shown : Below(i) < MaxHeaders =>
            Below(i) < Len(page) /\ page[Below(i) + 1] = HeaderToStr(Said(i)))'
    <3>1. \A h1, h2 : h1 = h2 => HeaderToStr(h1) = HeaderToStr(h2)
      OBVIOUS
    <3>2. \A i : HeaderToStr(Said(i)') = HeaderToStr(Said(i))
      BY <2>1
    <3>3. QED
      BY <1>5, <2>1, <3>2 DEF HeaderToStr
  <2>3. (Len(page) <= Cardinality(Shown) + (IF request.received < request.size - 2 THEN 1 ELSE 0))'
    BY <1>1, <1>2, <1>3, <2>1 DEF Listed, NoMore
  <2>4. QED
    BY <2>2, <2>3 DEF PageShowsRequest
<1>7. Buffered'
  BY <1>1, <1>2, SameLines
<1>8. InRange'
  BY <1>1, <1>2 DEF InRange, Fits
<1>9. Chars' = Chars
  BY <1>1 DEF Chars
<1>10. FaultsOnlyOnIrregular'
  BY <1>1 DEF FaultsOnlyOnIrregular
<1>11. QED
  BY <1>1, <1>2, <1>6, <1>7, <1>8, <1>9, <1>10 DEF HeadedInv

LEMMA PageOverflowsKeeps ==
    ASSUME HeadedInv, PageOverflows
    PROVE  HeadedInv'
<1>1. /\ phase = "lines" /\ phase' = "overflow"
      /\ UNCHANGED <<request, buf, bytes_read, header_end, line_start, line_end, headers, page>>
  BY DEF PageOverflows
<1>2. Buffered'
  BY <1>1, SameLines DEF HeadedInv
<1>3. InRange'
  BY <1>1 DEF HeadedInv, InRange, Fits, Buffered, Filled
<1>4. Chars' = Chars
  BY <1>1 DEF Chars
<1>5. PageShowsRequest' /\ FaultsOnlyOnIrregular'
  BY <1>1 DEF PageShowsRequest, FaultsOnlyOnIrregular
<1>6. QED
  BY <1>1, <1>2, <1>3, <1>4, <1>5 DEF HeadedInv

(* Without the end of the request line there is nothing to scan, to parse  *)
(* or to list.                                                             *)
LEMMA HeadlessKeeps ==
    ASSUME HeadlessInv, AnswerNext
    PROVE  HeadlessInv'
<1>1. bytes_read = 0 /\ (phase \in {"scan", "split", "lines"} => ~(header_end < bytes_read))
  BY DEF HeadlessInv, Filled
<1>2. /\ ~ScanLine /\ ~ParseLine
      /\ ~\E r \in Requests, leftover \in Leftovers : Receive(r, leftover)
  BY <1>1 DEF HeadlessInv, ScanLine, ParseLine, MoreLines, Receive
<1>3. ASSUME UNCHANGED <<request, buf, bytes_read, headers>>
      PROVE  Filled' /\ request'.received = 0 /\ headers' = <<>> /\ HeaderStart(buf') = HeaderStart(buf)
  BY <1>3, SameLines DEF HeadlessInv
<1>4. CASE SendNotFound \/ ScanEnds \/ PageOverflows
  BY <1>3, <1>4 DEF SendNotFound, ScanEnds, PageOverflows, HeadlessInv
<1>5. CASE Split
  <2>1. LineEnd(buf, header_end, header_end) = header_end /\ header_end = HeaderStart(buf)
    <3>1. header_end \in Nat /\ header_end = HeaderStart(buf)
      BY <1>5 DEF Split, HeadlessInv
    <3>2. header_end >= header_end
      BY <3>1
    <3>3. QED
      BY <3>1, <3>2, LineEndFacts
  <2>2. line_start' = header_end /\ line_end' = header_end
    BY <1>5, <2>1 DEF Split
  <2>3. QED
    BY <1>3, <1>5, <2>1, <2>2 DEF Split, HeadlessInv
<1>6. CASE SendPage
  <2>1. page' = <<>>
    BY <1>6 DEF SendPage, HeadlessInv
  <2>2. QED
    BY <1>3, <1>6, <2>1 DEF SendPage, HeadlessInv
<1>7. QED
  BY <1>2, <1>4, <1>5, <1>6 DEF AnswerNext, AnswerStep

LEMMA HeadlessImplies ==
    HeadlessInv => AnswerTypeOK /\ PageShowsRequest /\ FaultsOnlyOnIrregular /\ ReadsBack
<1> SUFFICES ASSUME HeadlessInv
             PROVE  AnswerTypeOK /\ PageShowsRequest /\ FaultsOnlyOnIrregular /\ ReadsBack
  OBVIOUS
<1>1. Shown = {}
  BY DEF Shown, LineStarts, HeadlessInv, Filled
<1>2. Cardinality(Shown) = 0
  BY <1>1, FS_EmptySet
<1>3. AnswerTypeOK
  BY MaxHeadersAssumption DEF AnswerTypeOK, HeadlessInv
<1>4. PageShowsRequest
  BY <1>1, <1>2 DEF PageShowsRequest, HeadlessInv
<1>5. FaultsOnlyOnIrregular
  BY DEF FaultsOnlyOnIrregular, HeadlessInv
<1>6. ReadsBack
  BY <1>1 DEF ReadsBack
<1>7. QED
  BY <1>3, <1>4, <1>5, <1>6


(* What a line of the request says can be read again.                      *)
LEMMA SaidReadsBack ==
    ASSUME Buffered, NEW i \in Shown, Said(i).value # <<>>,
           NEW text, text = Echo(Said(i)),
           NEW line, line = [j \in 0..(Len(text) - 1) |-> text[j + 1]]
    PROVE  HeaderAt(line, 1, Len(text) - 2) = [status |-> "parsed", header |-> Said(i)]
<1> DEFINE S == Colons(buf, i, LastOf(i))
           c == Min(S)
           key == Trimmed(buf, i, c - 1)
           value == Trimmed(buf, c + 1, LastOf(i))
           C == {buf[k] : k \in i..LastOf(i)}
<1>1. /\ i \in LineStarts /\ i \in Nat /\ i >= 2 /\ LastOf(i) \in Nat /\ i <= LastOf(i)
      /\ S # {} /\ Fits(Said(i))
      /\ \A k \in i..LastOf(i) : buf[k] # NUL
  <2>1. i \in LineStarts /\ S # {} /\ Fits(Said(i))
    BY DEF Shown
  <2>2. i \in 2..(bytes_read - 1) /\ LastOf(i) \in i..(bytes_read - 1) /\ bytes_read \in Nat
    BY <2>1, LineFacts, BufferFacts
  <2>3. \A k \in i..LastOf(i) : k \in 0..(bytes_read - 1)
    BY <2>2
  <2>4. \A k \in i..LastOf(i) : buf[k] # NUL
    BY <2>3, BufferFacts
  <2>5. QED
    BY <2>1, <2>2, <2>4
<1>2. c \in i..LastOf(i) /\ \A k \in S : c <= k
  <2>1. S \in SUBSET Nat
    BY <1>1 DEF Colons
  <2>2. c \in S /\ \A k \in S : c <= k
    BY <1>1, <2>1, MinFacts
  <2>3. QED
    BY <2>2 DEF Colons
<1>3. Said(i) = [key |-> key, value |-> value]
  BY DEF Said, Meant
<1> HIDE DEF c
<1>4. /\ key \in Seq(C \ {Colon})
      /\ key # <<>> => key[1] # Space /\ key[Len(key)] # Space
  <2>1. c - 1 \in Nat
    BY <1>1, <1>2
  <2>2. \A k \in i..(c - 1) : k \in i..LastOf(i) /\ k \notin S
    BY <1>1, <1>2
  <2>3. \A k \in i..(c - 1) : buf[k] \in C \ {Colon}
    BY <2>2 DEF Colons
  <2>4. QED
    BY <1>1, <2>1, <2>3, TrimmedFacts
<1>5. /\ value \in Seq(C)
      /\ value[1] # Space /\ value[Len(value)] # Space
  <2>1. c + 1 \in Nat
    BY <1>1, <1>2
  <2>2. \A k \in (c + 1)..LastOf(i) : k \in i..LastOf(i)
    BY <1>1, <1>2
  <2>3. \A k \in (c + 1)..LastOf(i) : buf[k] \in C
    BY <2>2
  <2>4. value # <<>>
    BY <1>3
  <2>5. QED
    BY <1>1, <2>1, <2>3, <2>4, TrimmedFacts
<1> HIDE DEF key, value
<1>6. NUL \notin C
  BY <1>1
<1> HIDE DEF C
<1>7. key \in Seq(C)
  BY <1>4
<1>8. \A k \in 1..Len(key) : key[k] # NUL /\ key[k] # Colon
  <2>1. \A k \in 1..Len(key) : key[k] \in C \ {Colon}
    BY <1>4
  <2>2. QED
    BY <1>6, <2>1
<1>9. \A k \in 1..Len(value) : value[k] # NUL
  <2>1. \A k \in 1..Len(value) : value[k] \in C
    BY <1>5
  <2>2. QED
    BY <1>6, <2>1
<1>10. value # <<>> /\ Fits([key |-> key, value |-> value]) /\ text = Echo([key |-> key, value |-> value])
  BY <1>1, <1>3
<1>11. HeaderAt(line, 1, Len(text) - 2) =
           [status |-> "parsed", header |-> [key |-> key, value |-> value]]
  BY <1>4, <1>5, <1>7, <1>8, <1>9, <1>10, HeaderReadsBack
<1>12. QED
  BY <1>3, <1>11

------------------------------------------------------------------------------
(* The inductive invariant, and what it implies.                           *)

LEMMA AnswerBegins == AnswerInit => AnswerInv
<1> SUFFICES ASSUME AnswerInit PROVE AnswerInv
  OBVIOUS
<1>1. phase = "recv" /\ headers = <<>> /\ header_end = 0 /\ line_start = 0 /\ line_end = 0 /\ bytes_read = 0
      /\ request.received = 0
  BY DEF AnswerInit
<1>2. InRange
  BY <1>1, MaxHeadersAssumption DEF InRange
<1>3. headers \in Seq([key : Seq(Chars), value : Seq(Chars)])
  BY <1>1
<1>4. QED
  BY <1>1, <1>2, <1>3 DEF HeadedInv, AnswerInv, PageShowsRequest, FaultsOnlyOnIrregular

LEMMA HeadedKeeps ==
    ASSUME HeadedInv, [AnswerNext]_answerVars
    PROVE  AnswerInv'
<1>1. CASE \E r \in Requests, leftover \in Leftovers : Receive(r, leftover)
  BY <1>1, ReceiveKeeps DEF AnswerInv
<1>2. CASE SendNotFound
  BY <1>2, SendNotFoundKeeps DEF AnswerInv
<1>3. CASE ScanLine
  BY <1>3, ScanLineKeeps DEF AnswerInv
<1>4. CASE ScanEnds
  BY <1>4, ScanEndsKeeps DEF AnswerInv
<1>5. CASE Split
  BY <1>5, SplitKeeps DEF AnswerInv
<1>6. CASE ParseLine
  BY <1>6, ParseLineKeeps DEF AnswerInv
<1>7. CASE SendPage
  BY <1>7, SendPageKeeps DEF AnswerInv
<1>8. CASE UNCHANGED answerVars
  <2>1. UNCHANGED <<phase, request, buf, bytes_read, header_end, line_start, line_end, headers, page>>
    BY <1>8 DEF answerVars
  <2>2. Buffered => Buffered'
    BY <2>1, SameLines
  <2>3. InRange'
    BY <2>1 DEF HeadedInv, InRange, Fits
  <2>4. (Scanning => Scanning') /\ (Scanned => Scanned')
    BY <2>1, SameLines DEF Scanning, Scanned, Bounded, Begins
  <2>5. Listed => Listed'
    <3>1. Lists(headers, line_start) => Lists(headers, line_start)'
      <4>1. /\ ShownBefore(line_start)' = ShownBefore(line_start)
            /\ \A i : Below(i)' = Below(i) /\ Said(i)' = Said(i)
        BY <2>1, SameLines DEF ShownBefore
      <4>2. QED
        BY <2>1, <4>1 DEF Lists
    <3>2. NoMore(headers) => NoMore(headers)'
      BY <2>1, SameLines DEF NoMore
    <3>3. ShownBefore(line_start)' = ShownBefore(line_start)
      BY <2>1, SameLines DEF ShownBefore
    <3>4. Begins(line_start) => Begins(line_start)'
      BY <2>1 DEF Begins
    <3>5. QED
      BY <2>1, <3>1, <3>2, <3>3, <3>4 DEF Listed
  <2>6. Chars' = Chars
    BY <2>1 DEF Chars
  <2>7. PageShowsRequest'
    <3>1. Shown' = Shown /\ \A i : Below(i)' = Below(i) /\ Said(i)' = Said(i)
      BY <2>1, SameLines
    <3>2. \A i : HeaderToStr(Said(i)') = HeaderToStr(Said(i))
      BY <3>1
    <3>3. QED
      BY <2>1, <3>1, <3>2 DEF HeadedInv, PageShowsRequest, HeaderToStr
  <2>8. FaultsOnlyOnIrregular'
    BY <2>1 DEF HeadedInv, FaultsOnlyOnIrregular, LastOf, LineStarts
  <2>9. QED
    BY <2>1, <2>2, <2>3, <2>4, <2>5, <2>6, <2>7, <2>8 DEF HeadedInv, AnswerInv
<1>9. CASE PageOverflows
  BY <1>9, PageOverflowsKeeps DEF AnswerInv
<1>10. QED
  BY <1>1, <1>2, <1>3, <1>4, <1>5, <1>6, <1>7, <1>8, <1>9 DEF AnswerNext, AnswerStep, AnswerInv

LEMMA AnswerKeeps == AnswerInv /\ [AnswerNext]_answerVars => AnswerInv'
<1>1. HeadlessInv /\ UNCHANGED answerVars => HeadlessInv'
  BY SameLines DEF HeadlessInv, answerVars, HeaderStart, LineEnds
<1>2. QED
  BY <1>1, HeadedKeeps, HeadlessKeeps DEF AnswerInv

(* Whatever arrives of a proper request, html_answer keeps AnswerInv.      *)
THEOREM AnswerInvariant == AnswerSpec => []AnswerInv
<1>1. QED
  BY AnswerBegins, AnswerKeeps, PTL DEF AnswerSpec

(* If the CR that ends the request line was received, the scans of         *)
(* html_answer and http_str_to_headers stay within three characters of what*)
(* was.  If not, the first one goes as far as the next CR on the stack, and*)
(* the later ones no further.  Every header fits its arrays.               *)
THEOREM AnswerTypeCorrect == AnswerSpec => []AnswerTypeOK
<1>1. AnswerInv => AnswerTypeOK
  <2>1. HeadedInv => AnswerTypeOK
    <3>1. Buffered => request.received > 0
      BY RequestsAssumption DEF Buffered, Filled, Proper
    <3>2. QED
      BY <3>1 DEF HeadedInv, InRange, AnswerTypeOK
  <2>2. QED
    BY <2>1, HeadlessImplies DEF AnswerInv
<1>2. QED
  BY <1>1, AnswerInvariant, PTL

(* The page html_answer sends shows every line that arrived whole, trimmed *)
(* and in order, and at most one item more.                                *)
THEOREM PageIsRight == AnswerSpec => []PageShowsRequest
<1>1. AnswerInv => PageShowsRequest
  BY HeadlessImplies DEF HeadedInv, AnswerInv
<1>2. QED
  BY <1>1, AnswerInvariant, PTL

(* http_str_to_header ends the process only over an irregular line, or over*)
(* the empty one.  (html_answer has other ways to: the scan of line 50     *)
(* without a CR on the stack, and a page that outgrows its buffer.)        *)
THEOREM FaultsOnlyOverIrregularLines == AnswerSpec => []FaultsOnlyOnIrregular
<1>1. AnswerInv => FaultsOnlyOnIrregular
  BY HeadlessImplies DEF HeadedInv, AnswerInv
<1>2. QED
  BY <1>1, AnswerInvariant, PTL

(* http_header_to_str and http_str_to_header are inverse to each other on  *)
(* every item of the page that has a value.                                *)
THEOREM PageReadsBack == AnswerSpec => []ReadsBack
<1>1. HeadedInv => ReadsBack
  <2>1. SUFFICES ASSUME HeadedInv, phase = "sent", request.root,
                        NEW i \in Shown, Below(i) < MaxHeaders, Said(i).value # <<>>,
                        NEW text, text = <<">">> \o page[Below(i) + 1] \o <<NUL>>,
                        NEW line, line = [j \in 0..(Len(text) - 1) |-> text[j + 1]]
                 PROVE  HeaderAt(line, 1, Len(text) - 2) = [status |-> "parsed", header |-> Said(i)]
    BY DEF ReadsBack
  <2>2. Buffered /\ page[Below(i) + 1] = HeaderToStr(Said(i))
    BY <2>1 DEF HeadedInv, PageShowsRequest
  <2>3. text = Echo(Said(i))
    BY <2>1, <2>2 DEF Echo
  <2>4. QED
    BY <2>1, <2>2, <2>3, SaidReadsBack
<1>2. AnswerInv => ReadsBack
  BY <1>1, HeadlessImplies DEF AnswerInv
<1>3. QED
  BY <1>2, AnswerInvariant, PTL


------------------------------------------------------------------------------
(* The loops end.                                                          *)

(* How many steps there are to take, at most.                              *)
StepsLeft ==
    IF request.received = 0
    THEN CASE phase = "scan" -> 3
           [] phase = "split" -> 2
           [] phase \in {"lines", "not_found"} -> 1
           [] OTHER -> 0
    ELSE
    CASE phase = "scan" -> (bytes_read + 8) + (bytes_read + 3 - header_end)
      [] phase = "split" -> bytes_read + 8
      [] phase = "lines" -> bytes_read + 6 - line_start + 1
      [] phase = "not_found" -> 1
      [] OTHER -> 0

LEMMA StepsLeftIs ==
  request.received # 0 =>
    /\ phase = "scan" => StepsLeft = (bytes_read + 8) + (bytes_read + 3 - header_end)
    /\ phase = "split" => StepsLeft = bytes_read + 8
    /\ phase = "lines" => StepsLeft = bytes_read + 6 - line_start + 1
    /\ phase = "not_found" => StepsLeft = 1
    /\ phase \in {"sent", "fault", "overflow"} => StepsLeft = 0
  BY DEF StepsLeft

LEMMA HeadlessShrinks ==
    ASSUME HeadlessInv, AnswerStep
    PROVE  StepsLeft \in Nat /\ StepsLeft' \in Nat /\ StepsLeft' < StepsLeft
<1>1. ~ScanLine /\ ~ParseLine
  BY DEF HeadlessInv, Filled, ScanLine, ParseLine, MoreLines
<1>2. request'.received = 0 /\ request.received = 0
  BY <1>1 DEF HeadlessInv, AnswerStep, SendNotFound, ScanEnds, Split, SendPage, PageOverflows
<1>3. \/ phase = "scan" /\ phase' = "split"
      \/ phase = "split" /\ phase' = "lines"
      \/ phase \in {"lines", "not_found"} /\ phase' \in {"sent", "overflow"}
  BY <1>1 DEF AnswerStep, SendNotFound, ScanEnds, Split, SendPage, PageOverflows
<1>4. QED
  BY <1>2, <1>3 DEF StepsLeft

LEMMA HeadedShrinks ==
    ASSUME HeadedInv, AnswerInv', AnswerStep
    PROVE  StepsLeft \in Nat /\ StepsLeft' \in Nat /\ StepsLeft' < StepsLeft
<1>1. UNCHANGED <<request, bytes_read>> /\ phase # "recv"
  BY DEF AnswerStep, SendNotFound, ScanLine, ScanEnds, Split, ParseLine, SendPage, PageOverflows
<1>0. request.received >= 1 /\ request.received # 0 /\ request'.received # 0 /\ HeadedInv'
  BY <1>1, BufferFacts DEF HeadedInv, Buffered, Filled, AnswerInv, HeadlessInv
<1>2. /\ bytes_read \in Nat
      /\ header_end \in 0..(bytes_read + 2) /\ header_end' \in 0..(bytes_read + 2)
      /\ line_start \in 0..(bytes_read + 5) /\ line_start' \in 0..(bytes_read + 5)
      /\ line_end \in 0..(bytes_read + 5)
  <2>1. bytes_read \in Nat
    BY <1>1, BufferFacts DEF HeadedInv
  <2>2. QED
    BY <1>0, <1>1, <2>1 DEF HeadedInv, InRange
<1>3. PICK b \in Nat, h \in Nat, k \in Nat, s \in Nat, t \in Nat :
         /\ b = bytes_read /\ h = header_end /\ k = header_end' /\ s = line_start /\ t = line_start'
         /\ h <= b + 2 /\ k <= b + 2 /\ s <= b + 5 /\ t <= b + 5
  BY <1>2
<1>4. /\ phase = "scan" => StepsLeft = (b + 8) + (b + 3 - h)
      /\ phase = "split" => StepsLeft = b + 8
      /\ phase = "lines" => StepsLeft = b + 6 - s + 1
      /\ phase = "not_found" => StepsLeft = 1
  BY <1>0, <1>3, StepsLeftIs
<1>5. /\ phase' = "scan" => StepsLeft' = (b + 8) + (b + 3 - k)
      /\ phase' = "split" => StepsLeft' = b + 8
      /\ phase' = "lines" => StepsLeft' = b + 6 - t + 1
      /\ phase' \in {"sent", "fault", "overflow"} => StepsLeft' = 0
  <2>1. (request.received # 0 =>
         /\ phase = "scan" => StepsLeft = (bytes_read + 8) + (bytes_read + 3 - header_end)
         /\ phase = "split" => StepsLeft = bytes_read + 8
         /\ phase = "lines" => StepsLeft = bytes_read + 6 - line_start + 1
         /\ phase \in {"sent", "fault", "overflow"} => StepsLeft = 0)'
    BY StepsLeftIs, PTL
  <2>2. bytes_read' = b /\ header_end' = k /\ line_start' = t
    BY <1>1, <1>3
  <2>3. QED
    BY <1>0, <2>1, <2>2
<1>6. /\ (b + 8) + (b + 3 - h) \in Nat /\ (b + 8) + (b + 3 - k) \in Nat
      /\ b + 6 - s + 1 \in Nat /\ b + 6 - t + 1 \in Nat /\ b + 8 \in Nat
      /\ k > h => (b + 8) + (b + 3 - k) < (b + 8) + (b + 3 - h)
      /\ t > s => b + 6 - t + 1 < b + 6 - s + 1
      /\ b + 8 < (b + 8) + (b + 3 - h) /\ b + 6 - t + 1 < b + 8 /\ 0 < b + 6 - s + 1
  <2>0. h <= b + 2 /\ k <= b + 2 /\ s <= b + 5 /\ t <= b + 5
    BY <1>3
  <2>1. (b + 8) + (b + 3 - h) \in Nat /\ b + 8 \in Nat /\ b + 8 < (b + 8) + (b + 3 - h)
    BY <2>0
  <2>2. (b + 8) + (b + 3 - k) \in Nat
    BY <2>0
  <2>3. b + 6 - s + 1 \in Nat /\ 0 < b + 6 - s + 1
    BY <2>0
  <2>4. b + 6 - t + 1 \in Nat /\ b + 6 - t + 1 < b + 8
    BY <2>0
  <2>5. k > h => (b + 8) + (b + 3 - k) < (b + 8) + (b + 3 - h)
    BY <2>0
  <2>6. t > s => b + 6 - t + 1 < b + 6 - s + 1
    BY <2>0
  <2>7. QED
    BY <2>1, <2>2, <2>3, <2>4, <2>5, <2>6
<1>7. CASE SendNotFound
  BY <1>4, <1>5, <1>7 DEF SendNotFound
<1>8. CASE ScanLine
  <2>1. phase = "scan" /\ phase' \in {"scan", "split"} /\ header_end < bytes_read
    BY <1>8 DEF ScanLine
  <2>2. CASE phase' = "scan"
    <3>1. h <= b
      BY <1>3, <2>1
    <3>2. PICK e : e = LineEnd(buf, h, b)
      OBVIOUS
    <3>3. e \in h..b
      BY <3>1, <3>2, LineEndFacts
    <3>4. k = e + 2
      BY <1>3, <1>8, <2>2, <3>2 DEF ScanLine
    <3>5. k > h
      BY <3>3, <3>4
    <3>6. QED
      BY <1>4, <1>5, <1>6, <2>1, <2>2, <3>5
  <2>3. CASE phase' = "split"
    BY <1>4, <1>5, <1>6, <2>1, <2>3
  <2>4. QED
    BY <2>1, <2>2, <2>3
<1>9. CASE ScanEnds
  <2>1. phase = "scan" /\ phase' = "split"
    BY <1>9 DEF ScanEnds
  <2>2. QED
    BY <1>4, <1>5, <1>6, <2>1
<1>10. CASE Split
  <2>1. phase = "split" /\ phase' = "lines"
    BY <1>10 DEF Split
  <2>2. QED
    BY <1>4, <1>5, <1>6, <2>1
<1>11. CASE ParseLine
  <2>1. phase = "lines" /\ phase' \in {"lines", "fault"} /\ line_start < header_end /\ line_start' = line_end + 2
    BY <1>11 DEF ParseLine, MoreLines
  <2>2. PICK e \in Nat : e = line_end
    BY <1>2
  <2>3. e = LineEnd(buf, s, h) \/ e = LineEnd(buf, s, h + 1)
    BY <1>3, <2>1, <2>2 DEF HeadedInv, Listed
  <2>4. s < h /\ s <= h /\ s <= h + 1 /\ h + 1 \in Nat
    BY <1>3, <2>1
  <2>5. LineEnd(buf, s, h) \in s..h /\ LineEnd(buf, s, h + 1) \in s..(h + 1)
    BY <2>4, LineEndFacts
  <2>6. e >= s
    BY <2>3, <2>5
  <2>7. t > s
    BY <1>3, <2>1, <2>2, <2>6
  <2>8. QED
    BY <1>4, <1>5, <1>6, <2>1, <2>7
<1>12. CASE SendPage \/ PageOverflows
  <2>1. phase = "lines" /\ phase' \in {"sent", "overflow"}
    BY <1>12 DEF SendPage, PageOverflows
  <2>2. QED
    BY <1>4, <1>5, <1>6, <2>1
<1>13. QED
  BY <1>7, <1>8, <1>9, <1>10, <1>11, <1>12 DEF AnswerStep

LEMMA StepsLeftShrinks ==
    ASSUME AnswerInv, AnswerInv', AnswerStep
    PROVE  StepsLeft \in Nat /\ StepsLeft' \in Nat /\ StepsLeft' < StepsLeft
  BY HeadedShrinks, HeadlessShrinks DEF AnswerInv

(* The loops of html_answer behind the request line and those of           *)
(* http_str_to_headers end on every request, after a number of rounds      *)
(* linear in what was received: each step of the thread leaves fewer to    *)
(* take.                                                                   *)
THEOREM AnswerComesToAnEnd ==
    AnswerSpec => [][AnswerStep => StepsLeft \in Nat /\ StepsLeft' \in Nat /\ StepsLeft' < StepsLeft]_answerVars
<1>1. AnswerInv /\ AnswerInv' /\ [AnswerNext]_answerVars =>
        [AnswerStep => StepsLeft \in Nat /\ StepsLeft' \in Nat /\ StepsLeft' < StepsLeft]_answerVars
  BY StepsLeftShrinks
<1>2. QED
  BY <1>1, AnswerInvariant, PTL DEF AnswerSpec
=================================================================================
