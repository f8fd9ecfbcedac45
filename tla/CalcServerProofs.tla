--------------------------- MODULE CalcServerProofs ---------------------------
(***************************************************************************)
(* Proofs about the calculator server program, for any number of clients,  *)
(* descriptors and workers.                                                *)
(***************************************************************************)
EXTENDS CalcServer, ServerProofs

------------------------------------------------------------------------------
(* The inductive invariant.                                                *)

(* Where the threads may be, and in which order main joins them: those who *)
(* disconnect are the workers.                                             *)
Staffed ==
    /\ pc[Acceptor] \in {"hup_lock", "pop", "accept_wait", "accept", "register", "add", "accepted", "ended"}
    /\ pc[Selector] \in {"event_wait", "enqueue", "reported", "ended"}
    /\ \A w \in Workers : pc[w] \in {"idle", "recv", "receiving", "answer", "refuse", "disconnected"} \cup Disconnecting
    /\ pc[Main] \in {"up", "join_acceptor", "join_selector", "w_join", "endpoint_close", "exited"}
    /\ pc[Main] \in {"join_selector", "w_join", "endpoint_close", "exited"} => pc[Acceptor] = "ended"
    /\ pc[Main] \in {"w_join", "endpoint_close", "exited"} => pc[Selector] = "ended"
    /\ pc[Main] \in {"endpoint_close", "exited"} => \A w \in Workers : pc[w] = "idle"

(* The worker is past the removal from the record, and will close f.       *)
Closing(w, f) == pc[w] \in {"delete", "shutdown", "close"} /\ closing[w] = f

(* An open socket is in the record and in the epoll set, or on its way in, *)
(* or some worker will close it: whichever client it was meant for.        *)
Recorded ==
    \A f \in Fds :
        \/ ~Open(f)
        \/ \E w \in Workers : Closing(w, f)
        \/ /\ f \in connected \/ (pc[Acceptor] = "register" /\ f = newFd)
           /\ f \in interest \/ (pc[Acceptor] \in {"register", "add"} /\ f = newFd)

Upright == Staffed /\ Recorded /\ NothingLeftOpen

Inv == Typed /\ (Killed \/ Upright)

------------------------------------------------------------------------------
(* A killed process takes no step.                                         *)
LEMMA KilledIsFinal == Killed => ~Next
<1> SUFFICES ASSUME Killed, Next PROVE FALSE
  OBVIOUS
<1> USE ThreadFacts DEF Killed
<1>1. ~\E c \in Conns : ClientStep(c)
  BY DEF ClientStep, Running
<1>2. ~AcceptorStep
  BY DEF AcceptorStep, AcceptWait, AcceptTimeout, Accept, AcceptDrops, AcceptNone, Register, Add,
         CheckAccept, HupLock, HupUnlock, changeVars, reportVars
<1>3. ~SelectorStep
  BY DEF SelectorStep, EventReady, EventVanishes, EventTimeout, Enqueue, CheckEvent,
     changeVars, reportVars, EpollReport
<1>4. ~\E w \in Workers : WorkerStep(w)
  BY DEF WorkerStep, TakeJob, RecvBegins, RecvReads, RecvTooLong, RecvFails, Answer, Refuse, Deregister, Delete,
         ShutDownClient, CloseClient, Disconnected, BrokenPipe, DivideByZero,
     changeVars, reportVars
<1>5. ~Stop /\ ~MainStep
  BY DEF Stop, MainStep, JoinThread, JoinPool, EndpointClose, changeVars, reportVars
<1>6. QED
  BY <1>1, <1>2, <1>3, <1>4, <1>5 DEF Next

(* Types.                                                                  *)
LEMMA RefusalTyped ==
    ASSUME Typed, NEW w \in Workers,
           RecvTooLong(w) \/ Refuse(w) \/ Disconnected(w) \/ DivideByZero(w)
    PROVE  Typed'
<1> USE ThreadFacts DEF Goto, Typed, SocketTypes, EndpointTypes, ServerTypes, Held, Places,
        Disconnecting, socketVars, serverVars, JobDone, changeVars, reportVars
<1>1. CASE RecvTooLong(w)
  BY <1>1 DEF RecvTooLong, changeVars, reportVars
<1>2. CASE Refuse(w)
  BY <1>2 DEF Refuse, SendAnswer, Open
<1>3. CASE Disconnected(w)
  BY <1>3 DEF Disconnected
<1>4. CASE DivideByZero(w)
  BY <1>4 DEF DivideByZero, Kill
<1>5. QED
  BY <1>1, <1>2, <1>3, <1>4

LEMMA NextTyped == Typed /\ Next => Typed'
<1> SUFFICES ASSUME Typed, Next PROVE Typed'
  OBVIOUS
<1>1. CASE \E c \in Conns : ClientStep(c)
  BY <1>1, ClientTyped
<1>2. CASE AcceptorStep
  <2>1. CASE CheckAccept
    <3>1. pc' \in [Threads -> Places] /\ pc'[Acceptor] \in {"ended", "accept_wait"}
          /\ \A t \in Threads \ {Acceptor} : pc'[t] = pc[t]
      BY <2>1, ThreadFacts DEF CheckAccept, Goto, Typed, Places
    <3>2. UNCHANGED socketVars /\ UNCHANGED serverVars
          /\ UNCHANGED <<connected, dqueue, queueLock, newFd, event, closing>>
      BY <2>1 DEF CheckAccept
    <3>3. QED
      BY <3>1, <3>2, ThreadFacts DEF Typed, SocketTypes, EndpointTypes, ServerTypes, Held,
         Disconnecting, socketVars, serverVars, changeVars, reportVars
  <2>2. QED
    BY <1>2, <2>1, AcceptTyped, HupTyped, ThreadFacts DEF AcceptorStep, Resting
<1>3. CASE SelectorStep
  BY <1>3, EventTyped, ProgramTyped DEF SelectorStep, Resting
<1>4. CASE \E w \in Workers : WorkerStep(w)
  <2>1. PICK w \in Workers : WorkerStep(w)
    BY <1>4
  <2>2. CASE (Deregister(w) \/ Delete(w) \/ ShutDownClient(w) \/ CloseClient(w, "disconnected")) /\ UNCHANGED serverVars
    <3>1. w \in Threads /\ "disconnected" \in Resting
      BY ThreadFacts DEF Resting
    <3>2. QED
      BY <2>2, <3>1, DisconnectTyped
  <2>3. QED
    BY <2>1, <2>2, WorkerTyped, RefusalTyped DEF WorkerStep
<1>5. CASE Stop \/ MainStep
  BY <1>5, ProgramTyped DEF MainStep
<1>6. QED
  BY <1>1, <1>2, <1>3, <1>4, <1>5 DEF Next

(* Places.                                                                 *)
LEMMA NextStaffed ==
    ASSUME Typed, Staffed, Next
    PROVE  Staffed' \/ Killed'
<1> USE ThreadFacts DEF Typed, EndpointTypes, Staffed, Disconnecting, Goto
<1>1. CASE \E c \in Conns : ClientStep(c)
  BY <1>1 DEF ClientStep, endpointVars
<1>2. CASE AcceptorStep
  <2>1. CASE \/ AcceptWait(Acceptor) \/ AcceptTimeout(Acceptor, "ended") \/ Accept(Acceptor)
             \/ AcceptDrops(Acceptor, "accepted") \/ AcceptNone(Acceptor, "accepted")
    BY <2>1 DEF AcceptWait, AcceptTimeout, Accept, AcceptDrops, AcceptNone,
       changeVars, reportVars
  <2>2. CASE Register(Acceptor) \/ Add(Acceptor, "accepted") \/ CheckAccept
             \/ HupLock(Acceptor) \/ HupUnlock(Acceptor, "accept_wait")
    BY <2>2 DEF Register, Add, CheckAccept, HupLock, HupUnlock, changeVars, reportVars
  <2>3. QED
    BY <1>2, <2>1, <2>2 DEF AcceptorStep
<1>3. CASE SelectorStep
  BY <1>3 DEF SelectorStep, EventReady, EventVanishes, endpointVars, EventTimeout, Enqueue, CheckEvent,
     changeVars, reportVars, EpollReport
<1>4. ASSUME NEW w \in Workers, WorkerStep(w) PROVE Staffed' \/ Killed'
  <2>1. CASE BrokenPipe(w) \/ DivideByZero(w)
    BY <2>1 DEF BrokenPipe, DivideByZero, Kill, Killed
  <2>2. CASE TakeJob(w) \/ RecvBegins(w) \/ RecvReads(w) \/ RecvTooLong(w) \/ RecvFails(w) \/ Answer(w)
    BY <2>2 DEF TakeJob, RecvBegins, RecvReads, RecvTooLong, RecvFails, Answer, JobDone,
       changeVars, reportVars
  <2>3. CASE Refuse(w) \/ Deregister(w) \/ Delete(w) \/ ShutDownClient(w) \/ CloseClient(w, "disconnected")
             \/ Disconnected(w)
    BY <2>3 DEF Refuse, Deregister, Delete, ShutDownClient, CloseClient, Disconnected, JobDone,
       changeVars, reportVars
  <2>4. QED
    BY <1>4, <2>1, <2>2, <2>3 DEF WorkerStep
<1>5. CASE Stop \/ MainStep
  BY <1>5 DEF Stop, MainStep, JoinThread, JoinPool, EndpointClose, serverVars,
     changeVars, reportVars
<1>6. QED
  BY <1>1, <1>2, <1>3, <1>4, <1>5 DEF Next

------------------------------------------------------------------------------
(* Record and epoll set.                                                   *)

(* Nothing is lost from the record or the epoll set, and nobody's hands    *)
(* let go of a descriptor.                                                 *)
LEMMA RecordedFrame ==
    ASSUME Recorded, UNCHANGED <<sockOf, newFd>>,
           connected \subseteq connected', interest \subseteq interest',
           \A w \in Workers, f \in Fds : Closing(w, f) => Closing(w, f)',
           pc'[Acceptor] = pc[Acceptor] \/ pc[Acceptor] \notin {"register", "add"}
    PROVE  Recorded'
  BY DEF Recorded, Open

LEMMA AcceptorRecorded ==
    ASSUME Typed, Recorded, AcceptorStep
    PROVE  Recorded'
<1> USE ThreadFacts, FdFacts DEF Typed, SocketTypes, EndpointTypes, Goto
<1>1. \A w \in Workers, f \in Fds : Closing(w, f) => Closing(w, f)'
  <2>1. UNCHANGED closing /\ \A w \in Workers : pc'[w] = pc[w]
    BY DEF AcceptorStep, AcceptWait, AcceptTimeout, Accept, AcceptDrops, AcceptNone, Register, Add,
       CheckAccept, HupLock, HupUnlock, changeVars, reportVars
  <2>2. QED
    BY <2>1 DEF Closing
<1>2. CASE \/ AcceptWait(Acceptor) \/ AcceptTimeout(Acceptor, "ended") \/ AcceptDrops(Acceptor, "accepted")
           \/ AcceptNone(Acceptor, "accepted") \/ CheckAccept \/ HupLock(Acceptor)
           \/ HupUnlock(Acceptor, "accept_wait")
  BY <1>1, <1>2, RecordedFrame
     DEF AcceptWait, AcceptTimeout, AcceptDrops, AcceptNone, CheckAccept, HupLock, HupUnlock, socketVars,
        changeVars, reportVars
<1>3. CASE Accept(Acceptor)
  <2>1. /\ newFd' \in Fds /\ \A f \in Fds \ {newFd'} : sockOf'[f] = sockOf[f]
        /\ pc[Acceptor] = "accept" /\ pc'[Acceptor] = "register"
        /\ UNCHANGED <<connected, interest>>
    BY <1>3, LowestFreeFacts DEF Accept, changeVars, reportVars
  <2>2. QED
    BY <1>1, <2>1 DEF Recorded, Open
<1>4. CASE Register(Acceptor)
  <2>1. /\ pc[Acceptor] = "register" /\ pc'[Acceptor] = "add"
        /\ connected' = connected \cup {newFd} /\ UNCHANGED <<sockOf, interest, newFd>>
    BY <1>4 DEF Register, socketVars, changeVars, reportVars
  <2>2. QED
    BY <1>1, <2>1 DEF Recorded, Open
<1>5. CASE Add(Acceptor, "accepted")
  <2>1. /\ pc[Acceptor] = "add"
        /\ Open(newFd) => newFd \in interest'
        /\ interest \subseteq interest' /\ UNCHANGED <<sockOf, connected>>
    BY <1>5 DEF Add, EpollAdd, changeVars, reportVars
  <2>2. QED
    BY <1>1, <2>1 DEF Recorded, Open
<1>6. QED
  BY <1>2, <1>3, <1>4, <1>5 DEF AcceptorStep

(* A worker takes the one descriptor out of both that it closes after.     *)
LEMMA WorkerRecorded ==
    ASSUME Typed, Recorded, NEW w \in Workers, WorkerStep(w), ~Killed'
    PROVE  Recorded'
<1> USE ThreadFacts DEF Typed, SocketTypes, EndpointTypes, Goto
<1>1. pc'[Acceptor] = pc[Acceptor] /\ UNCHANGED newFd
      /\ \A v \in Workers \ {w} : pc'[v] = pc[v] /\ closing'[v] = closing[v]
  BY DEF WorkerStep, TakeJob, RecvBegins, RecvReads, RecvTooLong, RecvFails, Answer, Refuse, Deregister, Delete,
     ShutDownClient, CloseClient, Disconnected, BrokenPipe, DivideByZero, Kill, Killed, JobDone,
     changeVars, reportVars
<1>2. \A v \in Workers \ {w}, f \in Fds : Closing(v, f) => Closing(v, f)'
  BY <1>1 DEF Closing
<1>3. CASE \/ TakeJob(w) \/ RecvBegins(w) \/ RecvReads(w) \/ RecvTooLong(w) \/ RecvFails(w) \/ Answer(w)
           \/ Refuse(w) \/ Disconnected(w)
  <2>1. UNCHANGED <<sockOf, connected, interest>> /\ \A f \in Fds : ~Closing(w, f)
    BY <1>3 DEF TakeJob, RecvBegins, RecvReads, RecvTooLong, RecvFails, Answer, Refuse, Disconnected, Closing, socketVars,
       changeVars, reportVars
  <2>2. QED
    BY <1>1, <1>2, <2>1, RecordedFrame
<1>4. CASE Deregister(w) \/ Delete(w) \/ ShutDownClient(w)
  <2>1. /\ UNCHANGED <<sockOf, closing>> /\ pc'[w] \in {"delete", "shutdown", "close"}
        /\ connected \ {closing[w]} \subseteq connected'
        /\ interest \ {closing[w]} \subseteq interest'
    BY <1>4 DEF Deregister, Delete, ShutDownClient, EpollDel, socketVars, changeVars, reportVars
  <2>2. Closing(w, closing[w])'
    BY <2>1 DEF Closing
  <2>3. \A v \in Workers, f \in Fds : Closing(v, f) => Closing(v, f)'
    BY <1>2, <2>1, <2>2 DEF Closing
  <2>4. QED
    BY <1>1, <2>1, <2>2, <2>3 DEF Recorded, Open
<1>5. CASE CloseClient(w, "disconnected")
  <2>1. /\ \A f \in Fds : sockOf'[f] = IF f = closing[w] THEN Nobody ELSE sockOf[f]
        /\ UNCHANGED connected /\ interest' = interest \ {closing[w]}
    BY <1>5 DEF CloseClient, CloseAll, EpollDel, changeVars, reportVars
  <2>2. \A f \in Fds : f # closing[w] /\ Closing(w, f) => FALSE
    BY DEF Closing
  <2>3. QED
    BY <1>1, <1>2, <2>1, <2>2 DEF Recorded, Open
<1>6. ~BrokenPipe(w) /\ ~DivideByZero(w)
  BY DEF BrokenPipe, DivideByZero, Kill, Killed
<1>7. QED
  BY <1>3, <1>4, <1>5, <1>6 DEF WorkerStep

(* endpoint_close comes when no worker has a descriptor in its hands.      *)
LEMMA CloseLeavesNone ==
    ASSUME Typed, Staffed, Recorded, EndpointClose(Main, "exited")
    PROVE  ~listening' /\ \A f \in Fds : ~Open(f)'
<1>1. ~listening' /\ \A f \in Fds : sockOf'[f] = IF f \in connected THEN Nobody ELSE sockOf[f]
  BY DEF EndpointClose, DisconnectAllClients, CloseAll, changeVars, reportVars
<1>2. pc[Acceptor] = "ended" /\ \A w \in Workers, f \in Fds : ~Closing(w, f)
  BY DEF EndpointClose, Staffed, Closing, changeVars, reportVars
<1>3. QED
  BY <1>1, <1>2 DEF Recorded, Open

LEMMA NextRecorded ==
    ASSUME Typed, Staffed, Recorded, Next
    PROVE  Recorded' \/ Killed'
<1> USE ThreadFacts DEF Typed, Goto
<1>1. CASE (\E c \in Conns : ClientStep(c)) \/ SelectorStep
  <2>1. UNCHANGED <<sockOf, newFd, connected, interest, closing>> /\ pc'[Acceptor] = pc[Acceptor]
        /\ \A w \in Workers : pc'[w] = pc[w]
    BY <1>1 DEF ClientStep, Connect, Send, HangUp, Reset, Wake,
       SelectorStep, EventReady, EventVanishes, EventTimeout, Enqueue, CheckEvent, endpointVars, socketVars,
       changeVars, reportVars, EpollReport
  <2>2. QED
    BY <2>1, RecordedFrame DEF Closing
<1>2. CASE Stop \/ JoinPool \/ JoinThread(Acceptor, "join_acceptor", "join_selector")
           \/ JoinThread(Selector, "join_selector", "w_join")
  <2>1. UNCHANGED <<sockOf, newFd, connected, interest, closing>> /\ pc'[Acceptor] = pc[Acceptor]
        /\ \A w \in Workers : pc'[w] = pc[w]
    BY <1>2 DEF Stop, JoinPool, JoinThread, socketVars, changeVars, reportVars
  <2>2. QED
    BY <2>1, RecordedFrame DEF Closing
<1>3. CASE EndpointClose(Main, "exited")
  BY <1>3, CloseLeavesNone DEF Recorded
<1>4. QED
  BY <1>1, <1>2, <1>3, AcceptorRecorded, WorkerRecorded DEF Next, MainStep

(* After endpoint_close there is no step that opens anything.              *)
LEMMA NextNothingLeftOpen ==
    ASSUME Typed, Staffed, Recorded, NothingLeftOpen, Next
    PROVE  NothingLeftOpen' \/ Killed'
<1> USE ThreadFacts
<1>1. CASE EndpointClose(Main, "exited")
  BY <1>1, CloseLeavesNone DEF NothingLeftOpen
<1>2. CASE pc[Main] = "exited" /\ Next
  <2>1. ~\E c \in Conns : ClientStep(c)
    BY <1>2 DEF ClientStep, Running
  <2>2. ~AcceptorStep
    BY <1>2 DEF AcceptorStep, AcceptWait, AcceptTimeout, Accept, AcceptDrops, AcceptNone, Register, Add,
       CheckAccept, HupLock, HupUnlock, Staffed, changeVars, reportVars
  <2>3. ~SelectorStep
    BY <1>2 DEF SelectorStep, EventReady, EventVanishes, EventTimeout, Enqueue, CheckEvent, Staffed,
       changeVars, reportVars, EpollReport
  <2>4. ~\E w \in Workers : WorkerStep(w)
    BY <1>2 DEF WorkerStep, TakeJob, RecvBegins, RecvReads, RecvTooLong, RecvFails, Answer, Refuse, Deregister,
       Delete, ShutDownClient, CloseClient, Disconnected, BrokenPipe, DivideByZero, Staffed,
       changeVars, reportVars
  <2>5. ~Stop /\ ~MainStep
    BY <1>2 DEF Stop, MainStep, JoinThread, JoinPool, EndpointClose, changeVars, reportVars
  <2>6. QED
    BY <1>2, <2>1, <2>2, <2>3, <2>4, <2>5 DEF Next
<1>3. CASE pc[Main] # "exited" /\ ~EndpointClose(Main, "exited")
  <2>1. pc'[Main] # "exited"
    <3> USE DEF Goto, Typed
    <3>1. CASE \E c \in Conns : ClientStep(c)
      BY <1>3, <3>1 DEF ClientStep, endpointVars
    <3>2. CASE AcceptorStep
      BY <1>3, <3>2 DEF AcceptorStep, AcceptWait, AcceptTimeout, Accept, AcceptDrops, AcceptNone, Register, Add,
         CheckAccept, HupLock, HupUnlock, changeVars, reportVars
    <3>3. CASE SelectorStep
      BY <1>3, <3>3 DEF SelectorStep, EventReady, EventVanishes, EventTimeout, Enqueue, CheckEvent, endpointVars,
         changeVars, reportVars, EpollReport
    <3>4. CASE \E w \in Workers : WorkerStep(w)
      BY <1>3, <3>4 DEF WorkerStep, TakeJob, RecvBegins, RecvReads, RecvTooLong, RecvFails, Answer, Refuse,
         Deregister, Delete, ShutDownClient, CloseClient, Disconnected, BrokenPipe, DivideByZero, Kill, JobDone,
         changeVars, reportVars
    <3>5. CASE Stop \/ MainStep
      BY <1>3, <3>5 DEF Stop, MainStep, JoinThread, JoinPool
    <3>6. QED
      BY <3>1, <3>2, <3>3, <3>4, <3>5 DEF Next
  <2>2. QED
    BY <2>1 DEF NothingLeftOpen
<1>4. QED
  BY <1>1, <1>2, <1>3

------------------------------------------------------------------------------
(* The invariant.                                                          *)

LEMMA InitInv == Init => Inv
<1> SUFFICES ASSUME Init PROVE Inv
  OBVIOUS
<1>1. Typed
  BY TypedInit DEF Init
<1>2. pc[Acceptor] = "hup_lock" /\ pc[Selector] = "event_wait" /\ pc[Main] = "up"
      /\ \A w \in Workers : pc[w] = "idle"
  BY ThreadFacts DEF Init, ServerInit
<1>3. \A f \in Fds : ~Open(f)
  BY DEF Init, ServerInit, SocketsInit, Open
<1>4. Staffed
  BY <1>2 DEF Staffed
<1>5. Recorded /\ NothingLeftOpen
  BY <1>2, <1>3 DEF Recorded, NothingLeftOpen
<1>6. QED
  BY <1>1, <1>4, <1>5 DEF Inv, Upright

LEMMA NextInv == Inv /\ Next => Inv'
<1> SUFFICES ASSUME Inv, Next PROVE Inv'
  OBVIOUS
<1>1. Typed /\ Upright
  BY KilledIsFinal DEF Inv
<1>2. Typed'
  BY <1>1, NextTyped
<1>3. ~Killed' => Upright'
  BY <1>1, NextStaffed, NextRecorded, NextNothingLeftOpen DEF Upright
<1>4. QED
  BY <1>2, <1>3 DEF Inv

LEMMA StutterInv == Inv /\ UNCHANGED vars => Inv'
<1> SUFFICES ASSUME Inv, UNCHANGED vars PROVE Inv'
  OBVIOUS
<1>1. Typed'
  BY TypedStutter DEF Inv
<1> USE DEF vars, socketVars, endpointVars, serverVars, changeVars, reportVars
<1>2. Killed => Killed'
  BY DEF Killed
<1>3. Staffed => Staffed'
  BY DEF Staffed
<1>4. Recorded => Recorded'
  BY DEF Recorded, Closing, Open
<1>5. NothingLeftOpen => NothingLeftOpen'
  BY DEF NothingLeftOpen, Open
<1>6. QED
  BY <1>1, <1>2, <1>3, <1>4, <1>5 DEF Inv, Upright

LEMMA InvOpenIsRecorded == Inv => OpenIsRecorded
<1> SUFFICES ASSUME Inv, pc[Main] # "killed", NEW f \in Fds \ InHand, Open(f)
             PROVE  f \in connected \cap interest
  BY DEF OpenIsRecorded
<1>1. Recorded
  BY ThreadFacts DEF Inv, Upright, Killed
<1>2. f # newFd
  BY DEF InHand
<1>3. \A w \in Workers : ~Closing(w, f)
  BY ThreadFacts DEF InHand, Closing
<1>4. QED
  BY <1>1, <1>2, <1>3 DEF Recorded

(* In every state of the calculator server: the types, and unless a signal *)
(* has ended the program, the threads are where main's joins expect them,  *)
(* each open socket is recorded and watched or in a worker's hands, and    *)
(* endpoint_close has left none.                                           *)
THEOREM CalcServerInvariant == Spec => []Inv
<1>1. Inv /\ [Next]_vars => Inv'
  BY NextInv, StutterInv
<1>2. QED
  BY <1>1, InitInv, PTL DEF Spec

(* The state of Run_calc_srv.c, of the endpoint and of the kernel has the  *)
(* values of its types, with any number of workers disconnecting clients.  *)
THEOREM CalcServerTypeOK == Spec => []TypeOK
<1>1. Inv => TypeOK
  BY TypedIsTypeOK DEF Inv
<1>2. QED
  BY <1>1, CalcServerInvariant, PTL

(* However many workers run endpoint_disconnect_client on the same number, *)
(* before and after it was given to another client, an open socket in      *)
(* nobody's hands is in the record and in the epoll set.                   *)
THEOREM CalcServerOpenIsRecorded == Spec => []OpenIsRecorded
  BY InvOpenIsRecorded, CalcServerInvariant, PTL

(* endpoint_close leaves no socket open, although the record may name      *)
(* descriptors that are free.                                              *)
THEOREM CalcServerNothingLeftOpen == Spec => []NothingLeftOpen
<1>1. Inv => NothingLeftOpen
  <2>1. Killed => pc[Main] # "exited"
    BY ThreadFacts DEF Killed
  <2>2. QED
    BY <2>1 DEF Inv, Upright, NothingLeftOpen
<1>2. QED
  BY <1>1, CalcServerInvariant, PTL
=================================================================================
