----------------------------- MODULE CalcServer -----------------------------
(***************************************************************************)
(* apps/Run_calc_srv.c: the same threads, but hung-up clients are closed   *)
(* only once, before the first accept, and a worker disconnects a client   *)
(* whose request is too long.  Whether a request is too long is a choice.  *)
(***************************************************************************)
EXTENDS Server

(* accept_proc, after each endpoint_accept.                                *)
CheckAccept ==
    /\ pc[Acceptor] = "accepted"
    /\ Goto(Acceptor, IF stop THEN "ended" ELSE "accept_wait")
    /\ UNCHANGED <<socketVars, connected, dqueue, queueLock, newFd, event, closing, serverVars>>

(* There is nothing in the stack when it is emptied for the only time.     *)
AcceptorStep ==
    \/ HupLock(Acceptor) /\ UNCHANGED serverVars
    \/ HupUnlock(Acceptor, "accept_wait") /\ UNCHANGED serverVars
    \/ AcceptWait(Acceptor) /\ UNCHANGED serverVars
    \/ AcceptTimeout(Acceptor, "ended") /\ UNCHANGED serverVars
    \/ Accept(Acceptor) /\ UNCHANGED serverVars
    \/ AcceptDrops(Acceptor, "accepted") /\ UNCHANGED serverVars
    \/ AcceptNone(Acceptor, "accepted") /\ UNCHANGED serverVars
    \/ Register(Acceptor) /\ UNCHANGED serverVars
    \/ Add(Acceptor, "accepted") /\ UNCHANGED serverVars
    \/ CheckAccept

(* client_event_processor.                                                 *)
SelectorStep ==
    \/ EventReady(Selector, "reported") /\ UNCHANGED serverVars
    \/ EventVanishes(Selector) /\ UNCHANGED serverVars
    \/ EventTimeout(Selector, "reported") /\ UNCHANGED serverVars
    \/ Enqueue(Selector, "reported") /\ UNCHANGED serverVars
    \/ CheckEvent

------------------------------------------------------------------------------
(* calc_request.                                                           *)

(* recv fills the buffer; there may be more to read.                       *)
RecvTooLong(w) ==
    /\ pc[w] = "receiving"
    /\ unread[asker[w]]
    /\ \E more \in BOOLEAN : unread' = [unread EXCEPT ![asker[w]] = more]
    /\ Goto(w, "refuse")
    /\ UNCHANGED <<listening, backlog, sockOf, shut, interest, edges, peer, sends, wakes,
                   reportVars, connected, dqueue, queueLock, newFd, event, closing, serverVars>>

(* Goodbye, then endpoint_disconnect_client.                               *)
Refuse(w) ==
    /\ pc[w] = "refuse"
    /\ SendAnswer(w)
    /\ closing' = [closing EXCEPT ![w] = job[w]]
    /\ Goto(w, "deregister")
    /\ UNCHANGED <<socketVars, connected, dqueue, queueLock, newFd, event,
                   stop, posted, job, asker>>

Disconnected(w) ==
    /\ pc[w] = "disconnected"
    /\ JobDone(w)
    /\ UNCHANGED <<socketVars, connected, dqueue, queueLock, newFd, event, closing,
                   stop, posted, answers>>

(* The number after `/' may be 0: SIGFPE.                                  *)
DivideByZero(w) ==
    /\ pc[w] = "answer"
    /\ Kill
    /\ UNCHANGED <<socketVars, connected, dqueue, queueLock, newFd, event, closing, serverVars>>

WorkerStep(w) ==
    \/ TakeJob(w)
    \/ RecvBegins(w)
    \/ RecvReads(w)
    \/ RecvTooLong(w)
    \/ RecvFails(w)
    \/ Answer(w)
    \/ Refuse(w)
    \/ Deregister(w) /\ UNCHANGED serverVars
    \/ Delete(w) /\ UNCHANGED serverVars
    \/ ShutDownClient(w) /\ UNCHANGED serverVars
    \/ CloseClient(w, "disconnected") /\ UNCHANGED serverVars
    \/ Disconnected(w)
    \/ BrokenPipe(w)
    \/ DivideByZero(w)

MainStep ==
    \/ JoinThread(Acceptor, "join_acceptor", "join_selector")
    \/ JoinThread(Selector, "join_selector", "w_join")
    \/ JoinPool
    \/ EndpointClose(Main, "exited") /\ UNCHANGED serverVars

Init == ServerInit("hup_lock")

Next ==
    \/ \E c \in Conns : ClientStep(c)
    \/ AcceptorStep
    \/ SelectorStep
    \/ \E w \in Workers : WorkerStep(w)
    \/ Stop
    \/ MainStep

Spec == Init /\ [][Next]_vars

------------------------------------------------------------------------------
(* Two workers may disconnect the same number, one of them after it was    *)
(* given to another client.  Still, an open socket that no thread has in   *)
(* its hands is in the record and in the epoll set: it is served, and      *)
(* endpoint_close will find it.  (The converse fails: see ClientsTracked.) *)
OpenIsRecorded ==
    pc[Main] # "killed" =>
        \A f \in Fds \ InHand : Open(f) => f \in connected \cap interest
==============================================================================
