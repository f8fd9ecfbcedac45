------------------------------ MODULE Endpoint ------------------------------
(***************************************************************************)
(* src/unix/endpoint.c: the record of connected clients, the stack of      *)
(* clients to disconnect and its lock, and the operations, one action per  *)
(* system call or critical section.  An action takes the thread t that     *)
(* runs the operation; `back' is where t goes when the operation returns.  *)
(*                                                                         *)
(* The record's lock is only ever held around one update, so those         *)
(* sections are single steps.  The stack's lock is held across all of      *)
(* endpoint_close_hungups and is a variable.  new_fds_size and max_events  *)
(* are 1, as in every caller.                                              *)
(***************************************************************************)
EXTENDS Sockets

CONSTANT
    NoThread    \* the holder of a free lock

VARIABLES
    connected,   \* connected_clients_fds, the indices that are set
    dqueue,      \* _disconnect_queue, top first
    queueLock,   \* the thread that holds _disconnect_queue_lock
    pc,          \* where each thread is
    newFd,       \* new_client_fd of endpoint_accept
    event,       \* the descriptor endpoint_wait_event reports, NoFd for none
    closing      \* the descriptor a thread is disconnecting

endpointVars == <<connected, dqueue, queueLock, pc, newFd, event, closing>>

Goto(t, place) == pc' = [pc EXCEPT ![t] = place]

(* stack.c, with the nodes as a sequence.                                  *)
StackPush(s, val) == <<val>> \o s
StackTop(s) == Head(s)
StackPop(s) == Tail(s)
StackIsEmpty(s) == s = <<>>
StackEmptied == <<>>

(* endpoint_create.                                                        *)
EndpointInit(threads) ==
    /\ connected = {}
    /\ dqueue = StackEmptied
    /\ queueLock = NoThread
    /\ newFd = NoFd
    /\ event = NoFd
    /\ closing = [t \in threads |-> NoFd]

------------------------------------------------------------------------------
(* endpoint_accept: places "accept_wait", "accept", "register", "add".     *)

(* epoll_wait on the server socket returns its event.                      *)
AcceptWait(t) ==
    /\ pc[t] = "accept_wait"
    /\ backlog # <<>>
    /\ Goto(t, "accept")
    /\ UNCHANGED <<socketVars, connected, dqueue, queueLock, newFd, event, closing>>

(* After a timeout ep_event has not been written, and the bit the code     *)
(* tests next is whatever was on the stack: -1 is returned, or accept is   *)
(* tried.                                                                  *)
AcceptTimeout(t, failed) ==
    /\ pc[t] = "accept_wait"
    /\ backlog = <<>>
    /\ Goto(t, "accept") \/ Goto(t, failed)
    /\ UNCHANGED <<socketVars, connected, dqueue, queueLock, newFd, event, closing>>

Accept(t) ==
    /\ pc[t] = "accept"
    /\ backlog # <<>>
    /\ FreeFds # {}
    /\ newFd' = LowestFree
    /\ sockOf' = [sockOf EXCEPT ![LowestFree] = Head(backlog)]
    /\ backlog' = Tail(backlog)
    /\ Goto(t, "register")
    /\ UNCHANGED <<listening, shut, interest, edges, changeVars, reportVars,
                   connected, dqueue, queueLock, event, closing>>

(* client_address_len is not initialised.  With a negative length accept   *)
(* closes the connection it took and fails with EINVAL.                    *)
AcceptDrops(t, back) ==
    /\ pc[t] = "accept"
    /\ backlog # <<>>
    /\ FreeFds # {}
    /\ shut' = shut \cup {Head(backlog)}
    /\ wakes' = [wakes EXCEPT ![Head(backlog)] = 0]
    /\ backlog' = Tail(backlog)
    /\ Goto(t, back)
    /\ UNCHANGED <<listening, sockOf, interest, edges, peer, unread, sends, reportVars,
                   connected, dqueue, queueLock, newFd, event, closing>>

(* EAGAIN, or EMFILE.                                                      *)
AcceptNone(t, back) ==
    /\ pc[t] = "accept"
    /\ backlog = <<>> \/ FreeFds = {}
    /\ Goto(t, back)
    /\ UNCHANGED <<socketVars, connected, dqueue, queueLock, newFd, event, closing>>

Register(t) ==
    /\ pc[t] = "register"
    /\ connected' = connected \cup {newFd}
    /\ Goto(t, "add")
    /\ UNCHANGED <<socketVars, dqueue, queueLock, newFd, event, closing>>

(* Faulty variant: the client is recorded but not watched.                 *)
AddForgets(t, back) ==
    /\ pc[t] = "add"
    /\ newFd' = NoFd
    /\ Goto(t, back)
    /\ UNCHANGED <<socketVars, connected, dqueue, queueLock, event, closing>>

Add(t, back) ==
    /\ pc[t] = "add"
    /\ EpollAdd(newFd)
    /\ newFd' = NoFd
    /\ Goto(t, back)
    /\ UNCHANGED <<listening, backlog, sockOf, shut, changeVars, reportVars,
                   connected, dqueue, queueLock, event, closing>>

------------------------------------------------------------------------------
(* endpoint_wait_event: places "event_wait" and "enqueue".                 *)

(* Faulty variants: every client with an event is queued for               *)
(* disconnection; only those without data are, as with `else if'.          *)
EventReadyAlways(t, back) ==
    /\ pc[t] = "event_wait"
    /\ \E f \in edges :
          /\ EpollReport(f)
          /\ event' = f
          /\ Goto(t, "enqueue")
    /\ UNCHANGED <<listening, backlog, sockOf, shut, interest, changeVars,
                   connected, dqueue, queueLock, newFd, closing>>

EventReadyElseIf(t, back) ==
    /\ pc[t] = "event_wait"
    /\ \E f \in edges :
          /\ EpollReport(f)
          /\ event' = f
          /\ Goto(t, IF ~unread[sockOf[f]] THEN "enqueue" ELSE back)
    /\ UNCHANGED <<listening, backlog, sockOf, shut, interest, changeVars,
                   connected, dqueue, queueLock, newFd, closing>>

(* The flags are those of the moment epoll_wait looks at the socket.       *)
EventReady(t, back) ==
    /\ pc[t] = "event_wait"
    /\ \E f \in edges :
          /\ EpollReport(f)
          /\ event' = f
          /\ Goto(t, IF RdHup(f) THEN "enqueue" ELSE back)
    /\ UNCHANGED <<listening, backlog, sockOf, shut, interest, changeVars,
                   connected, dqueue, queueLock, newFd, closing>>

(* An edge whose data has been read in the meantime is not reported.       *)
EventVanishes(t) ==
    /\ pc[t] = "event_wait"
    /\ \E f \in edges : ~Reportable(f) /\ edges' = edges \ {f}
    /\ UNCHANGED <<listening, backlog, sockOf, shut, interest, changeVars, reportVars,
                   endpointVars>>

(* Faulty variant: one event more than epoll_wait reported is handled.     *)
EventTimeoutHandled(t, back) ==
    /\ pc[t] = "event_wait"
    /\ edges = {}
    /\ event' = NoFd
    /\ Goto(t, "enqueue")
    /\ UNCHANGED <<socketVars, connected, dqueue, queueLock, newFd, closing>>

EventTimeout(t, back) ==
    /\ pc[t] = "event_wait"
    /\ edges = {}
    /\ event' = NoFd
    /\ Goto(t, back)
    /\ UNCHANGED <<socketVars, connected, dqueue, queueLock, newFd, closing>>

Enqueue(t, back) ==
    /\ pc[t] = "enqueue"
    /\ queueLock = NoThread
    /\ dqueue' = StackPush(dqueue, event)
    /\ Goto(t, back)
    /\ UNCHANGED <<socketVars, connected, queueLock, newFd, event, closing>>

------------------------------------------------------------------------------
(* endpoint_close_hungups: places "hup_lock", "pop" and those of           *)
(* endpoint_disconnect_client, "deregister", "delete", "shutdown", "close".*)

HupLock(t) ==
    /\ pc[t] = "hup_lock"
    /\ queueLock = NoThread
    /\ queueLock' = t
    /\ Goto(t, "pop")
    /\ UNCHANGED <<socketVars, connected, dqueue, newFd, event, closing>>

Pop(t) ==
    /\ pc[t] = "pop"
    /\ ~StackIsEmpty(dqueue)
    /\ closing' = [closing EXCEPT ![t] = StackTop(dqueue)]
    /\ dqueue' = StackPop(dqueue)
    /\ Goto(t, "deregister")
    /\ UNCHANGED <<socketVars, connected, queueLock, newFd, event>>

HupUnlock(t, back) ==
    /\ pc[t] = "pop"
    /\ StackIsEmpty(dqueue)
    /\ queueLock' = NoThread
    /\ Goto(t, back)
    /\ UNCHANGED <<socketVars, connected, dqueue, newFd, event, closing>>

(* Faulty variant: the record of clients is not updated.                   *)
DeregisterForgets(t) ==
    /\ pc[t] = "deregister"
    /\ Goto(t, "delete")
    /\ UNCHANGED <<socketVars, connected, dqueue, queueLock, newFd, event, closing>>

Deregister(t) ==
    /\ pc[t] = "deregister"
    /\ connected' = connected \ {closing[t]}
    /\ Goto(t, "delete")
    /\ UNCHANGED <<socketVars, dqueue, queueLock, newFd, event, closing>>

Delete(t) ==
    /\ pc[t] = "delete"
    /\ EpollDel({closing[t]})
    /\ Goto(t, "shutdown")
    /\ UNCHANGED <<listening, backlog, sockOf, shut, changeVars, reportVars,
                   connected, dqueue, queueLock, newFd, event, closing>>

ShutDownClient(t) ==
    /\ pc[t] = "shutdown"
    /\ ShutDown(closing[t])
    /\ Goto(t, "close")
    /\ UNCHANGED <<listening, backlog, sockOf, interest, changeVars, reportVars,
                   connected, dqueue, queueLock, newFd, event, closing>>

CloseClient(t, back) ==
    /\ pc[t] = "close"
    /\ CloseAll({closing[t]})
    /\ closing' = [closing EXCEPT ![t] = NoFd]
    /\ Goto(t, back)
    /\ UNCHANGED <<listening, backlog, peer, unread, sends, reportVars,
                   connected, dqueue, queueLock, newFd, event>>

------------------------------------------------------------------------------
(* Faulty variant: only the clients in the stack are disconnected.         *)
DisconnectHungUpOnly ==
    /\ CloseAll({dqueue[i] : i \in DOMAIN dqueue})
    /\ connected' = {}
    /\ dqueue' = StackEmptied

(* endpoint_disconnect_all_clients: every recorded client, then the stack  *)
(* is emptied.                                                             *)
DisconnectAllClients ==
    /\ CloseAll(connected)
    /\ connected' = {}
    /\ dqueue' = StackEmptied

(* endpoint_close.  Its caller has joined the other threads, so that nobody*)
(* sees its steps.  Clients still in the backlog are refused.              *)
EndpointClose(t, back) ==
    /\ pc[t] = "endpoint_close"
    /\ listening' = FALSE
    /\ backlog' = <<>>
    /\ DisconnectAllClients
    /\ Goto(t, back)
    /\ UNCHANGED <<peer, unread, sends, reportVars, queueLock, newFd, event, closing>>
==============================================================================
