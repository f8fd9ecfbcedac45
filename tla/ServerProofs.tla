------------------------------ MODULE ServerProofs ------------------------------
(***************************************************************************)
(* What the proofs about both server programs share: the types of their    *)
(* state, and of what their threads hold, for every number of clients,     *)
(* descriptors and workers, action by action.                              *)
(***************************************************************************)
EXTENDS Server, WellFoundedInduction, SequenceTheorems, TLAPS

------------------------------------------------------------------------------
(* Types.                                                                  *)

SocketTypes ==
    /\ listening \in BOOLEAN
    /\ backlog \in Seq(Conns)
    /\ sockOf \in [Fds -> Conns \cup {Nobody}]
    /\ shut \subseteq Conns
    /\ interest \subseteq Fds
    /\ edges \subseteq interest
    /\ peer \in [Conns -> {"away", "open", "fin", "rst"}]
    /\ unread \in [Conns -> BOOLEAN]
    /\ sends \in 0..MaxSends
    /\ wakes \in [Conns -> 0..2]
    /\ reported \subseteq Conns
    /\ repeated \in BOOLEAN

EndpointTypes ==
    /\ connected \subseteq Fds
    /\ dqueue \in Seq(Fds)
    /\ queueLock \in {NoThread, Acceptor}
    /\ newFd \in Fds \cup {NoFd}
    /\ event \in Fds \cup {NoFd}
    /\ closing \in [Threads -> Fds \cup {NoFd}]

ServerTypes ==
    /\ stop \in BOOLEAN
    /\ posted \in Seq(Fds)
    /\ job \in [Workers -> Fds \cup {NoFd}]
    /\ asker \in [Workers -> Conns \cup {Nobody}]
    /\ answers \subseteq Conns \X Conns

(* What a thread holds at the places where it uses it.                     *)
Disconnecting == {"deregister", "delete", "shutdown", "close"}

Held ==
    /\ pc[Acceptor] \in {"register", "add"} => newFd \in Fds
    /\ pc[Selector] = "enqueue" => event \in Fds
    /\ \A t \in Threads : pc[t] \in Disconnecting => closing[t] \in Fds
    /\ \A w \in Workers : pc[w] \in {"recv", "receiving", "answer", "refuse"} => job[w] \in Fds
    /\ \A w \in Workers : pc[w] \in {"receiving", "answer", "refuse"} => asker[w] \in Conns

Typed ==
    /\ SocketTypes
    /\ EndpointTypes
    /\ ServerTypes
    /\ pc \in [Threads -> Places]
    /\ Held

(* A signal has ended the program.                                         *)
Killed == \A t \in Threads : pc[t] = "killed"

(* Where a thread may return to from an operation: it holds nothing there. *)
Resting == {"accept_wait", "accepted", "pop", "ended", "reported", "disconnected", "exited"}

LEMMA TypedIsTypeOK == Typed => TypeOK
  BY DEF Typed, SocketTypes, EndpointTypes, ServerTypes, TypeOK

LEMMA ThreadFacts ==
    /\ Acceptor \in Threads /\ Selector \in Threads /\ Main \in Threads
    /\ Workers \subseteq Threads
    /\ Acceptor # Selector /\ Acceptor # Main /\ Selector # Main
    /\ \A w \in Workers : w # Acceptor /\ w # Selector /\ w # Main
    /\ NoThread \notin Threads
  BY ThreadsAssumption DEF Threads

LEMMA FdFacts ==
    /\ Fds \subseteq Nat
    /\ NoFd \notin Fds
    /\ Nobody \notin Conns
  BY SocketsAssumption DEF Fds, NoFd

LEMMA LowestFreeFacts ==
    ASSUME FreeFds # {}
    PROVE  LowestFree \in Fds /\ ~Open(LowestFree)
<1>1. FreeFds \subseteq Nat
  BY FdFacts DEF FreeFds
<1>2. \E f \in FreeFds : \A g \in FreeFds : f <= g
  <2>1. PICK f \in FreeFds : \A g \in FreeFds : <<g, f>> \notin OpToRel(<, Nat)
    BY <1>1, WFMin, NatLessThanWellFounded
  <2>2. \A g \in FreeFds : ~(g < f)
    BY <1>1, <2>1 DEF OpToRel
  <2>3. QED
    BY <1>1, <2>2
<1>3. LowestFree \in FreeFds
  BY <1>2 DEF LowestFree
<1>4. QED
  BY <1>3 DEF FreeFds

LEMMA TypedInit ==
    ASSUME NEW start \in {"accept_wait", "hup_lock"}, ServerInit(start)
    PROVE  Typed
<1>1. SocketTypes
  <2>1. <<>> \in Seq(Conns)
    OBVIOUS
  <2>2. /\ sends \in 0..MaxSends /\ wakes \in [Conns -> 0..2]
        /\ reported \subseteq Conns /\ repeated \in BOOLEAN
    <3>1. sends = 0 /\ wakes = [c \in Conns |-> 0] /\ reported = {} /\ repeated = FALSE
      BY DEF ServerInit, SocketsInit
    <3>2. wakes \in [Conns -> 0..2]
      BY <3>1
    <3>3. sends \in 0..MaxSends
      BY <3>1, SocketsAssumption
    <3>4. QED
      BY <3>1, <3>2, <3>3
  <2>3. QED
    BY <2>1, <2>2, SocketsAssumption DEF ServerInit, SocketsInit, SocketTypes
<1>2. EndpointTypes
  <2>1. <<>> \in Seq(Fds)
    OBVIOUS
  <2>2. QED
    BY <2>1 DEF ServerInit, EndpointInit, EndpointTypes, StackEmptied
<1>3. ServerTypes
  <2>1. <<>> \in Seq(Fds)
    OBVIOUS
  <2>2. QED
    BY <2>1 DEF ServerInit, ServerTypes
<1>4. pc \in [Threads -> Places] /\ pc[Acceptor] = start /\ pc[Selector] = "event_wait"
      /\ pc[Main] = "up" /\ \A w \in Workers : pc[w] = "idle"
  BY ThreadFacts DEF ServerInit, Places
<1>5. Held
  BY <1>4 DEF Held, Disconnecting, Threads
<1>6. QED
  BY <1>1, <1>2, <1>3, <1>4, <1>5 DEF Typed

LEMMA TypedStutter == Typed /\ UNCHANGED vars => Typed'
<1> SUFFICES ASSUME Typed, UNCHANGED vars PROVE Typed'
  OBVIOUS
<1>1. SocketTypes' /\ EndpointTypes' /\ ServerTypes'
  BY DEF Typed, vars, socketVars, endpointVars, serverVars, SocketTypes, EndpointTypes, ServerTypes,
     changeVars, reportVars
<1>2. QED
  BY <1>1 DEF Typed, Held, vars, socketVars, endpointVars, serverVars, changeVars, reportVars

------------------------------------------------------------------------------
LEMMA ClientTyped ==
    ASSUME Typed, NEW c \in Conns, ClientStep(c)
    PROVE  Typed'
<1>1. UNCHANGED endpointVars /\ UNCHANGED serverVars
  BY DEF ClientStep
<1>2. SocketTypes'
  <2>1. CASE Connect(c)
    BY <2>1 DEF Connect, Typed, SocketTypes, reportVars
  <2>2. CASE Send(c)
    <3>1. sends' \in 0..MaxSends
      BY <2>2, SocketsAssumption DEF Send, Typed, SocketTypes
    <3>2. QED
      BY <2>2, <3>1 DEF Send, Typed, SocketTypes, reportVars
  <2>3. CASE HangUp(c)
    BY <2>3 DEF HangUp, Typed, SocketTypes, reportVars
  <2>4. CASE Reset(c)
    BY <2>4 DEF Reset, Typed, SocketTypes, reportVars
  <2>5. CASE Wake(c)
    <3>1. wakes[c] - 1 \in 0..2
      BY <2>5 DEF Wake, Settled, Typed, SocketTypes
    <3>2. wakes' \in [Conns -> 0..2]
      BY <2>5, <3>1 DEF Wake, Typed, SocketTypes
    <3>3. edges' \subseteq interest
      BY <2>5 DEF Wake, Typed, SocketTypes
    <3>4. QED
      BY <2>5, <3>2, <3>3 DEF Wake, Typed, SocketTypes, reportVars
  <2>6. QED
    BY <2>1, <2>2, <2>3, <2>4, <2>5 DEF ClientStep
<1>3. QED
  BY <1>1, <1>2 DEF Typed, EndpointTypes, ServerTypes, Held, endpointVars, serverVars

LEMMA AcceptTyped ==
    ASSUME Typed, NEW back \in Resting, UNCHANGED serverVars,
           \/ AcceptWait(Acceptor) \/ AcceptTimeout(Acceptor, back) \/ Accept(Acceptor)
           \/ AcceptDrops(Acceptor, back) \/ AcceptNone(Acceptor, back)
           \/ Register(Acceptor) \/ Add(Acceptor, back)
    PROVE  Typed'
<1>1. ServerTypes'
  BY DEF Typed, ServerTypes, serverVars
<1>2. CASE AcceptWait(Acceptor) \/ AcceptTimeout(Acceptor, back) \/ AcceptNone(Acceptor, back)
  <2>1. /\ UNCHANGED <<socketVars, connected, dqueue, queueLock, newFd, event, closing>>
        /\ \E p \in {"accept", back} : pc' = [pc EXCEPT ![Acceptor] = p]
    BY <1>2 DEF AcceptWait, AcceptTimeout, AcceptNone, Goto
  <2>2. PICK p \in Resting \cup {"accept"} : pc' = [pc EXCEPT ![Acceptor] = p]
    BY <2>1
  <2>3. SocketTypes' /\ EndpointTypes'
    BY <2>1 DEF Typed, SocketTypes, EndpointTypes, socketVars, changeVars, reportVars
  <2>4. pc' \in [Threads -> Places]
    BY <2>2, ThreadFacts DEF Typed, Resting, Places
  <2>5. /\ pc'[Acceptor] = p
        /\ \A t \in Threads : t # Acceptor => pc'[t] = pc[t]
    BY <2>2, ThreadFacts DEF Typed
  <2>6. Held'
    BY <2>1, <2>5, ThreadFacts DEF Typed, Held, Resting, Disconnecting, serverVars
  <2>7. QED
    BY <1>1, <2>3, <2>4, <2>6 DEF Typed
<1>3. CASE Accept(Acceptor)
  BY <1>1, <1>3, ThreadFacts, LowestFreeFacts DEF Accept, Goto, Typed, SocketTypes, EndpointTypes,
     socketVars, serverVars, Held, Resting, Places, Disconnecting, changeVars, reportVars
<1>4. CASE AcceptDrops(Acceptor, back)
  BY <1>1, <1>4, ThreadFacts DEF AcceptDrops, Goto, Typed, SocketTypes, EndpointTypes,
     socketVars, serverVars, Held, Resting, Places, Disconnecting, changeVars, reportVars
<1>5. CASE Register(Acceptor)
  BY <1>1, <1>5, ThreadFacts DEF Register, Goto, Typed, SocketTypes, EndpointTypes,
     socketVars, serverVars, Held, Resting, Places, Disconnecting, changeVars, reportVars
<1>6. CASE Add(Acceptor, back)
  BY <1>1, <1>6, ThreadFacts DEF Add, EpollAdd, Goto, Typed, SocketTypes, EndpointTypes, Reportable, RdHup, Open,
     socketVars, serverVars, Held, Resting, Places, Disconnecting, changeVars, reportVars
<1>7. QED
  BY <1>2, <1>3, <1>4, <1>5, <1>6

LEMMA EventTyped ==
    ASSUME Typed, NEW back \in Resting, UNCHANGED serverVars,
           \/ EventReady(Selector, back) \/ EventVanishes(Selector)
           \/ EventTimeout(Selector, back) \/ Enqueue(Selector, back)
    PROVE  Typed'
<1> USE ThreadFacts DEF Goto, Typed, SocketTypes, EndpointTypes, Held, Resting, Places,
        Disconnecting, socketVars, serverVars, changeVars, reportVars
<1>1. ServerTypes'
  BY DEF ServerTypes
<1>2. CASE EventReady(Selector, back)
  <2>1. PICK f \in edges :
            EpollReport(f) /\ event' = f
            /\ Goto(Selector, IF RdHup(f) THEN "enqueue" ELSE back)
    BY <1>2 DEF EventReady
  <2>2. RdHup(f) => sockOf[f] \in Conns
    BY DEF RdHup, Open
  <2>3. edges' \subseteq interest /\ reported' \subseteq Conns /\ repeated' \in BOOLEAN
    BY <2>1, <2>2 DEF EpollReport
  <2>4. SocketTypes'
    BY <1>2, <2>3 DEF EventReady, changeVars
  <2>5. pc' \in [Threads -> Places] /\ \A t \in Threads \ {Selector} : pc'[t] = pc[t]
    BY <2>1
  <2>6. event' \in Fds /\ UNCHANGED <<connected, dqueue, queueLock, newFd, closing>>
    BY <1>2, <2>1 DEF EventReady
  <2>7. pc'[Selector] \in {"enqueue", back}
    BY <2>1
  <2>8. QED
    BY <1>1, <2>4, <2>5, <2>6, <2>7
<1>3. CASE EventVanishes(Selector)
  BY <1>1, <1>3 DEF EventVanishes, endpointVars, changeVars, reportVars
<1>4. CASE EventTimeout(Selector, back)
  BY <1>1, <1>4 DEF EventTimeout
<1>5. CASE Enqueue(Selector, back)
  <2>1. dqueue' \in Seq(Fds)
    BY <1>5 DEF Enqueue, StackPush
  <2>2. QED
    BY <1>1, <1>5, <2>1 DEF Enqueue
<1>6. QED
  BY <1>2, <1>3, <1>4, <1>5

LEMMA HupTyped ==
    ASSUME Typed, NEW back \in Resting, UNCHANGED serverVars,
           HupLock(Acceptor) \/ Pop(Acceptor) \/ HupUnlock(Acceptor, back)
    PROVE  Typed'
<1> USE ThreadFacts DEF Goto, Typed, SocketTypes, EndpointTypes, Held, Resting, Places,
        Disconnecting, socketVars, serverVars, changeVars, reportVars
<1>1. ServerTypes'
  BY DEF ServerTypes
<1>2. CASE HupLock(Acceptor)
  BY <1>1, <1>2 DEF HupLock
<1>3. CASE Pop(Acceptor)
  <2>1. Head(dqueue) \in Fds /\ Tail(dqueue) \in Seq(Fds)
    BY <1>3 DEF Pop, StackIsEmpty
  <2>2. QED
    BY <1>1, <1>3, <2>1 DEF Pop, StackTop, StackPop
<1>4. CASE HupUnlock(Acceptor, back)
  BY <1>1, <1>4 DEF HupUnlock
<1>5. QED
  BY <1>2, <1>3, <1>4

LEMMA DisconnectTyped ==
    ASSUME Typed, NEW t \in Threads, NEW back \in Resting, UNCHANGED serverVars,
           \/ Deregister(t) \/ Delete(t) \/ ShutDownClient(t) \/ CloseClient(t, back)
    PROVE  Typed'
<1> USE ThreadFacts DEF Goto, Typed, SocketTypes, EndpointTypes, Held, Resting, Places,
        Disconnecting, socketVars, serverVars, changeVars, reportVars
<1>1. ServerTypes'
  BY DEF ServerTypes
<1>2. CASE Deregister(t)
  BY <1>1, <1>2 DEF Deregister
<1>3. CASE Delete(t)
  BY <1>1, <1>3 DEF Delete, EpollDel, changeVars, reportVars
<1>4. CASE ShutDownClient(t)
  BY <1>1, <1>4 DEF ShutDownClient, ShutDown, Open, changeVars, reportVars
<1>5. CASE CloseClient(t, back)
  BY <1>1, <1>5 DEF CloseClient, CloseAll, EpollDel, Open, changeVars, reportVars
<1>6. QED
  BY <1>2, <1>3, <1>4, <1>5

LEMMA ProgramTyped ==
    ASSUME Typed,
           \/ CheckEvent \/ Stop \/ JoinPool \/ (EndpointClose(Main, "exited") /\ UNCHANGED serverVars)
           \/ JoinThread(Acceptor, "join_acceptor", "join_selector")
           \/ JoinThread(Selector, "join_selector", "w_join")
    PROVE  Typed'
<1> USE ThreadFacts DEF Goto, Typed, SocketTypes, EndpointTypes, ServerTypes, Held, Places,
        Disconnecting, socketVars, serverVars, changeVars, reportVars
<1>1. CASE CheckEvent
  <2>1. posted' \in Seq(Fds)
    <3>1. posted' = posted \/ (event \in Fds /\ posted' = Append(posted, event))
      BY <1>1 DEF CheckEvent
    <3>2. event \in Fds => Append(posted, event) \in Seq(Fds)
      BY AppendProperties
    <3>3. QED
      BY <3>1, <3>2
  <2>2. pc' \in [Threads -> Places] /\ \A t \in Threads \ {Selector} : pc'[t] = pc[t]
    BY <1>1 DEF CheckEvent
  <2>3. pc'[Selector] \in {"ended", "event_wait"}
    BY <1>1 DEF CheckEvent
  <2>4. QED
    BY <1>1, <2>1, <2>2, <2>3 DEF CheckEvent
<1>2. CASE Stop
  BY <1>2 DEF Stop
<1>3. CASE JoinPool
  BY <1>3 DEF JoinPool
<1>4. CASE EndpointClose(Main, "exited") /\ UNCHANGED serverVars
  <2>1. <<>> \in Seq(Conns) /\ <<>> \in Seq(Fds)
    OBVIOUS
  <2>2. SocketTypes'
    <3>1. shut' \subseteq Conns
      BY <1>4 DEF EndpointClose, DisconnectAllClients, CloseAll, Open, changeVars, reportVars
    <3>2. sockOf' \in [Fds -> Conns \cup {Nobody}]
      BY <1>4 DEF EndpointClose, DisconnectAllClients, CloseAll, changeVars, reportVars
    <3>3. wakes' \in [Conns -> 0..2]
      BY <1>4 DEF EndpointClose, DisconnectAllClients, CloseAll
    <3>4. UNCHANGED <<peer, unread, sends, reported, repeated>>
      BY <1>4 DEF EndpointClose, reportVars
    <3>5. QED
      BY <1>4, <2>1, <3>1, <3>2, <3>3, <3>4 DEF EndpointClose, DisconnectAllClients, CloseAll, EpollDel,
         changeVars, reportVars
  <2>3. QED
    BY <1>4, <2>1, <2>2 DEF EndpointClose, DisconnectAllClients, StackEmptied,
       changeVars, reportVars
<1>5. CASE JoinThread(Acceptor, "join_acceptor", "join_selector")
  BY <1>5 DEF JoinThread
<1>6. CASE JoinThread(Selector, "join_selector", "w_join")
  BY <1>6 DEF JoinThread
<1>7. QED
  BY <1>1, <1>2, <1>3, <1>4, <1>5, <1>6

LEMMA WorkerTyped ==
    ASSUME Typed, NEW w \in Workers,
           TakeJob(w) \/ RecvBegins(w) \/ RecvReads(w) \/ RecvFails(w) \/ Answer(w) \/ BrokenPipe(w)
    PROVE  Typed'
<1> USE ThreadFacts DEF Goto, Typed, SocketTypes, EndpointTypes, ServerTypes, Held, Places,
        Disconnecting, socketVars, serverVars, JobDone, changeVars, reportVars
<1>1. CASE TakeJob(w)
  <2>1. Head(posted) \in Fds /\ Tail(posted) \in Seq(Fds)
    BY <1>1 DEF TakeJob
  <2>2. QED
    BY <1>1, <2>1 DEF TakeJob
<1>2. CASE RecvBegins(w)
  BY <1>2 DEF RecvBegins, Open
<1>3. CASE RecvReads(w)
  BY <1>3 DEF RecvReads, changeVars, reportVars
<1>4. CASE RecvFails(w)
  BY <1>4 DEF RecvFails
<1>5. CASE Answer(w)
  BY <1>5 DEF Answer, SendAnswer, Open
<1>6. CASE BrokenPipe(w)
  BY <1>6 DEF BrokenPipe, Kill
<1>7. QED
  BY <1>1, <1>2, <1>3, <1>4, <1>5, <1>6
=================================================================================
