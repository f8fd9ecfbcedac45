------------------------------- MODULE Sockets -------------------------------
(***************************************************************************)
(* The environment of src/unix/endpoint.c, as the code uses it: the        *)
(* listening socket, the process's descriptor table, one edge-triggered    *)
(* epoll instance and the clients at the other end.  None of this is code  *)
(* of the repository; it is what Linux does when endpoint.c calls it.      *)
(*                                                                         *)
(* A change of a socket and the wakeups that turn it into edges are steps  *)
(* of their own: data raises one edge, a FIN two (the state has changed,   *)
(* there is something to read), a reset two (the state, the error).  So    *)
(* one close can be reported more than once, and by an edge that was there *)
(* before it.                                                              *)
(***************************************************************************)
EXTENDS Integers, Sequences

CONSTANTS
    Conns,      \* the connections clients make
    Nobody,     \* what a free descriptor refers to
    MaxFd,      \* the largest descriptor the process may have for a client
    MaxSends,   \* bound: the requests that clients send
    MayReset    \* whether a connection may be reset

ASSUME SocketsAssumption ==
    /\ Nobody \notin Conns
    /\ MaxFd \in Nat \ {0}
    /\ MaxSends \in Nat
    /\ MayReset \in BOOLEAN

Fds == 1..MaxFd
NoFd == 0

VARIABLES
    listening,   \* the server socket is open
    backlog,     \* connections not yet accepted, oldest first
    sockOf,      \* the connection behind each descriptor
    shut,        \* connections whose server end has been shut down or closed
    interest,    \* descriptors in the epoll set
    edges,       \* those with an event that has not been reported
    peer,        \* the client's end: "away", "open", "fin", "rst"
    unread,      \* whether a connection has data the server has not read
    sends,       \* the requests sent, for the bound
    wakes,       \* the wakeups still to come for the last change of a socket
    reported,    \* history: connections reported with EPOLLRDHUP
    repeated     \* history: one of them has been reported so again

changeVars == <<peer, unread, sends, wakes>>
reportVars == <<reported, repeated>>

socketVars ==
    <<listening, backlog, sockOf, shut, interest, edges, changeVars, reportVars>>

Open(f) == f \in Fds /\ sockOf[f] # Nobody

HungUp(c) == peer[c] \in {"fin", "rst"}

(* EPOLLRDHUP would be reported for f: either end has been shut down.      *)
RdHup(f) == Open(f) /\ (HungUp(sockOf[f]) \/ sockOf[f] \in shut)

Reportable(f) == RdHup(f) \/ (Open(f) /\ unread[sockOf[f]])

SocketsInit ==
    /\ listening = TRUE
    /\ backlog = <<>>
    /\ sockOf = [f \in Fds |-> Nobody]
    /\ shut = {}
    /\ interest = {}
    /\ edges = {}
    /\ peer = [c \in Conns |-> "away"]
    /\ unread = [c \in Conns |-> FALSE]
    /\ sends = 0
    /\ wakes = [c \in Conns |-> 0]
    /\ reported = {}
    /\ repeated = FALSE

------------------------------------------------------------------------------
(* The clients.  What they do after the server has closed is of no effect. *)
(* The kernel takes their segments one at a time, wakeups included.        *)

Settled(c) == wakes[c] = 0

Connect(c) ==
    /\ listening
    /\ peer[c] = "away"
    /\ peer' = [peer EXCEPT ![c] = "open"]
    /\ backlog' = Append(backlog, c)
    /\ UNCHANGED <<listening, sockOf, shut, interest, edges, unread, sends, wakes, reportVars>>

Send(c) ==
    /\ peer[c] = "open"
    /\ c \notin shut
    /\ Settled(c)
    /\ sends < MaxSends                          \* bound of the model
    /\ sends' = sends + 1
    /\ unread' = [unread EXCEPT ![c] = TRUE]
    /\ wakes' = [wakes EXCEPT ![c] = 1]
    /\ UNCHANGED <<listening, backlog, sockOf, shut, interest, edges, peer, reportVars>>

(* The client closes its end, or only shuts down its sending side: the     *)
(* server sees EPOLLRDHUP either way.                                      *)
HangUp(c) ==
    /\ peer[c] = "open"
    /\ c \notin shut
    /\ Settled(c)
    /\ peer' = [peer EXCEPT ![c] = "fin"]
    /\ wakes' = [wakes EXCEPT ![c] = 2]
    /\ UNCHANGED <<listening, backlog, sockOf, shut, interest, edges, unread, sends, reportVars>>

(* A reset, also of a connection whose client has closed: the usual answer *)
(* to data sent to it.                                                     *)
Reset(c) ==
    /\ MayReset
    /\ peer[c] \in {"open", "fin"}
    /\ c \notin shut
    /\ Settled(c)
    /\ peer' = [peer EXCEPT ![c] = "rst"]
    /\ wakes' = [wakes EXCEPT ![c] = 2]
    /\ UNCHANGED <<listening, backlog, sockOf, shut, interest, edges, unread, sends, reportVars>>

(* The kernel wakes those who wait for the connection: an edge, if it is   *)
(* behind a watched descriptor.                                            *)
Wake(c) ==
    /\ ~Settled(c)
    /\ wakes' = [wakes EXCEPT ![c] = @ - 1]
    /\ edges' = edges \cup {f \in interest : sockOf[f] = c}
    /\ UNCHANGED <<listening, backlog, sockOf, shut, interest, peer, unread, sends, reportVars>>

------------------------------------------------------------------------------
(* The system calls, as changes of the variables they touch.               *)

(* accept(2) gives out the lowest free descriptor.                         *)
FreeFds == {f \in Fds : ~Open(f)}
LowestFree == CHOOSE f \in FreeFds : \A g \in FreeFds : f <= g

(* EPOLL_CTL_ADD raises an edge at once if there is something to report;   *)
(* EBADF for a free descriptor.                                            *)
EpollAdd(f) ==
    /\ interest' = IF Open(f) THEN interest \cup {f} ELSE interest
    /\ edges' = IF Reportable(f) THEN edges \cup {f} ELSE edges

(* epoll_wait takes the edge of f and reports it with the flags of the     *)
(* moment.                                                                 *)
EpollReport(f) ==
    /\ Reportable(f)
    /\ edges' = edges \ {f}
    /\ reported' = IF RdHup(f) THEN reported \cup {sockOf[f]} ELSE reported
    /\ repeated' = (repeated \/ (RdHup(f) /\ sockOf[f] \in reported))

EpollDel(fds) ==
    /\ interest' = interest \ fds
    /\ edges' = edges \ fds

(* shutdown(2), an edge if the socket is still watched; EBADF for a free   *)
(* descriptor.                                                             *)
ShutDown(f) ==
    /\ shut' = IF Open(f) THEN shut \cup {sockOf[f]} ELSE shut
    /\ edges' = IF Open(f) THEN edges \cup ({f} \cap interest) ELSE edges

(* close(2) of a set of descriptors; EBADF for the free ones.  A closed    *)
(* socket leaves the epoll set, and nobody is woken for it any more.       *)
CloseAll(fds) ==
    /\ shut' = shut \cup {sockOf[f] : f \in {g \in fds : Open(g)}}
    /\ sockOf' = [f \in Fds |-> IF f \in fds THEN Nobody ELSE sockOf[f]]
    /\ wakes' = [c \in Conns |->
                     IF \E f \in fds : Open(f) /\ sockOf[f] = c THEN 0 ELSE wakes[c]]
    /\ EpollDel(fds)
==============================================================================
