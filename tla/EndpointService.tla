---------------------------- MODULE EndpointService ----------------------------
(***************************************************************************)
(* What the http server relies on when it uses endpoint.c: clients are     *)
(* accepted once each, in the order in which they came, and stay connected *)
(* until they have left; closing the endpoint is the end for all.          *)
(*                                                                         *)
(* Descriptors, the epoll set, the record and the stack do not occur here. *)
(* Once a hang-up has been reported again, which the kernel is free to do, *)
(* nothing is promised about who is disconnected: see                      *)
(* UnixServer!ClosesOnlyHungUp for what the code does then.                *)
(***************************************************************************)
EXTENDS Integers, Sequences

CONSTANT Conns

VARIABLES
    closed,      \* the endpoint has been closed
    arrived,     \* the clients that have connected, ever
    left,        \* those that have closed their end
    repeated,    \* the hang-up of one of these has been reported again
    waiting,     \* not yet accepted, oldest first
    served       \* accepted and connected

vars == <<closed, arrived, left, repeated, waiting, served>>

Init ==
    /\ closed = FALSE
    /\ arrived = {} /\ left = {} /\ repeated = FALSE
    /\ waiting = <<>> /\ served = {}

Arrive(c) ==
    /\ ~closed
    /\ c \notin arrived
    /\ arrived' = arrived \cup {c}
    /\ waiting' = Append(waiting, c)
    /\ UNCHANGED <<closed, left, repeated, served>>

Leave(c) ==
    /\ c \in arrived \ left
    /\ left' = left \cup {c}
    /\ UNCHANGED <<closed, arrived, repeated, waiting, served>>

(* endpoint_wait_event hears of a hang-up it has heard of before.          *)
Repeat ==
    /\ left # {}
    /\ repeated' = TRUE
    /\ UNCHANGED <<closed, arrived, left, waiting, served>>

(* endpoint_accept takes the oldest, or drops it.                          *)
Serve ==
    /\ waiting # <<>>
    /\ Head(waiting) \notin served
    /\ waiting' = Tail(waiting)
    /\ served' = served \cup {Head(waiting)}
    /\ UNCHANGED <<closed, arrived, left, repeated>>

Drop ==
    /\ waiting # <<>>
    /\ waiting' = Tail(waiting)
    /\ UNCHANGED <<closed, arrived, left, repeated, served>>

(* endpoint_close_hungups disconnects one client that has left.            *)
Disconnect(c) ==
    /\ c \in served
    /\ c \in left \/ repeated
    /\ served' = served \ {c}
    /\ UNCHANGED <<closed, arrived, left, repeated, waiting>>

Close ==
    /\ closed' = TRUE
    /\ waiting' = <<>> /\ served' = {}
    /\ UNCHANGED <<arrived, left, repeated>>

Next ==
    \/ \E c \in Conns : Arrive(c) \/ Leave(c) \/ Disconnect(c)
    \/ Repeat
    \/ Serve
    \/ Drop
    \/ Close

Spec == Init /\ [][Next]_vars
==============================================================================
