----------------------------- MODULE ServerExample -----------------------------
(***************************************************************************)
(* src/apps/Server_example.c: one thread waits on an epoll instance with   *)
(* the listening socket, edge-triggered, accepts every waiting client,     *)
(* says goodbye and closes; main stops it by adding an eventfd that is     *)
(* always readable.                                                        *)
(*                                                                         *)
(* Returns of epoll_wait with a time-out or EINTR (lines 62-66) lead back  *)
(* to epoll_wait and change nothing; they are stuttering steps.            *)
(***************************************************************************)
EXTENDS Integers, Sequences

CONSTANTS
    Clients,   \* each connects once
    None

ASSUME NoneAssumption == None \notin Clients

VARIABLES
    main,       \* where main is
    side,       \* where side_proc is
    watched,    \* srv_fd is in the epoll set
    signalled,  \* signaler is in the epoll set
    backlog,    \* connections not yet accepted, oldest first
    edge,       \* srv_fd has an event that has not been reported
    addrlen,    \* client_address_len: a usable length, or a negative one
    serving,    \* the client of new_socket
    client      \* what has become of each client

vars == <<main, side, watched, signalled, backlog, edge, addrlen, serving, client>>

Alive == side # "killed"

------------------------------------------------------------------------------
(* The clients: connect(2), and a reset before the server says goodbye.    *)
Connect(c) ==
    /\ main # "done"
    /\ client[c] = "away"
    /\ client' = [client EXCEPT ![c] = "waiting"]
    /\ backlog' = Append(backlog, c)
    /\ edge' = (edge \/ watched)
    /\ UNCHANGED <<main, side, watched, signalled, addrlen, serving>>

Reset(c) ==
    /\ client[c] = "waiting"
    /\ client' = [client EXCEPT ![c] = "reset"]
    /\ UNCHANGED <<main, side, watched, signalled, backlog, edge, addrlen, serving>>

------------------------------------------------------------------------------
(* side_proc.                                                              *)

(* epoll_wait reports the listening socket; client_address_len is a fresh  *)
(* variable that nobody initialises.                                       *)
ReportClients ==
    /\ side = "wait"
    /\ edge
    /\ backlog # <<>>
    /\ edge' = FALSE
    /\ addrlen' \in {"usable", "negative"}
    /\ side' = "accept"
    /\ UNCHANGED <<main, watched, signalled, backlog, serving, client>>

(* An event is dropped if nothing is left to report.                       *)
EdgeVanishes ==
    /\ side = "wait"
    /\ edge
    /\ backlog = <<>>
    /\ edge' = FALSE
    /\ UNCHANGED <<main, side, watched, signalled, backlog, addrlen, serving, client>>

(* The signaler is level-triggered and never read: it is reported as soon  *)
(* as it is in the set, whenever the thread asks.                          *)
ReportSignal ==
    /\ side = "wait"
    /\ signalled
    /\ side' = "ended"
    /\ UNCHANGED <<main, watched, signalled, backlog, edge, addrlen, serving, client>>

AcceptClient ==
    /\ side = "accept"
    /\ backlog # <<>>
    /\ addrlen = "usable"
    /\ serving' = Head(backlog)
    /\ backlog' = Tail(backlog)
    /\ side' = "goodbye"
    /\ UNCHANGED <<main, watched, signalled, edge, addrlen, client>>

(* With a negative length accept closes the connection it took, fails, and *)
(* the loop ends.                                                          *)
AcceptDrops ==
    /\ side = "accept"
    /\ backlog # <<>>
    /\ addrlen = "negative"
    /\ client' = [client EXCEPT ![Head(backlog)] = "dropped"]
    /\ backlog' = Tail(backlog)
    /\ side' = "wait"
    /\ UNCHANGED <<main, watched, signalled, edge, addrlen, serving>>

(* EAGAIN.                                                                 *)
AcceptNone ==
    /\ side = "accept"
    /\ backlog = <<>>
    /\ side' = "wait"
    /\ UNCHANGED <<main, watched, signalled, backlog, edge, addrlen, serving, client>>

(* Faulty variants: the thread accepts one client per event; the variable  *)
(* keeps the closed descriptor.                                            *)
GoodbyeOnce ==
    /\ side = "goodbye"
    /\ client' = [client EXCEPT ![serving] = IF @ = "reset" THEN "gone" ELSE "served"]
    /\ serving' = None
    /\ side' = "wait"
    /\ UNCHANGED <<main, watched, signalled, backlog, edge, addrlen>>

GoodbyeKeeps ==
    /\ side = "goodbye"
    /\ client' = [client EXCEPT ![serving] = IF @ = "reset" THEN "gone" ELSE "served"]
    /\ side' = "accept"
    /\ UNCHANGED <<main, watched, signalled, backlog, edge, addrlen, serving>>

(* send, shutdown and close, and on to the next accept.                    *)
Goodbye ==
    /\ side = "goodbye"
    /\ client' = [client EXCEPT ![serving] = IF @ = "reset" THEN "gone" ELSE "served"]
    /\ serving' = None
    /\ side' = "accept"
    /\ UNCHANGED <<main, watched, signalled, backlog, edge, addrlen>>

(* send to a connection that was closed and reset raises SIGPIPE.          *)
BrokenPipe ==
    /\ side = "goodbye"
    /\ client[serving] = "reset"
    /\ side' = "killed"
    /\ UNCHANGED <<main, watched, signalled, backlog, edge, addrlen, serving, client>>

------------------------------------------------------------------------------
(* main.                                                                   *)

(* Clients may have come since listen: the ADD reports them.               *)
Watch ==
    /\ main = "listening"
    /\ watched' = TRUE
    /\ edge' = (backlog # <<>>)
    /\ main' = "watching"
    /\ UNCHANGED <<side, signalled, backlog, addrlen, serving, client>>

Spawn ==
    /\ main = "watching"
    /\ side' = "wait"
    /\ main' = "running"
    /\ UNCHANGED <<watched, signalled, backlog, edge, addrlen, serving, client>>

(* Faulty variant: the signaler is not added.                              *)
StopSilently ==
    /\ Alive
    /\ main = "running"
    /\ main' = "joining"
    /\ UNCHANGED <<side, watched, signalled, backlog, edge, addrlen, serving, client>>

(* The user has entered something.                                         *)
Stop ==
    /\ Alive
    /\ main = "running"
    /\ signalled' = TRUE
    /\ main' = "joining"
    /\ UNCHANGED <<side, watched, backlog, edge, addrlen, serving, client>>

(* pthread_join and the closes; the process ends.                          *)
Join ==
    /\ main = "joining"
    /\ side = "ended"
    /\ main' = "done"
    /\ watched' = FALSE
    /\ signalled' = FALSE
    /\ edge' = FALSE
    /\ UNCHANGED <<side, backlog, addrlen, serving, client>>

Init ==
    /\ main = "listening"
    /\ side = "unborn"
    /\ watched = FALSE
    /\ signalled = FALSE
    /\ backlog = <<>>
    /\ edge = FALSE
    /\ addrlen = "usable"
    /\ serving = None
    /\ client = [c \in Clients |-> "away"]

SideStep ==
    \/ ReportClients
    \/ EdgeVanishes
    \/ ReportSignal
    \/ AcceptClient
    \/ AcceptDrops
    \/ AcceptNone
    \/ Goodbye
    \/ BrokenPipe

MainStep == Watch \/ Spawn \/ Join

Next ==
    \/ SideStep
    \/ MainStep
    \/ Stop
    \/ \E c \in Clients : Connect(c) \/ Reset(c)

(* Both threads run; nobody is obliged to connect, to leave or to stop.    *)
Spec == Init /\ [][Next]_vars /\ WF_vars(SideStep) /\ WF_vars(MainStep)

------------------------------------------------------------------------------
(* The values of the variables.  The backlog holds the clients that have   *)
(* come and not been taken, each once; a descriptor is held to say goodbye *)
(* and at no other time.                                                   *)
TypeOK ==
    /\ main \in {"listening", "watching", "running", "joining", "done"}
    /\ side \in {"unborn", "wait", "accept", "goodbye", "ended", "killed"}
    /\ {watched, signalled, edge} \subseteq BOOLEAN
    /\ addrlen \in {"usable", "negative"}
    /\ client \in [Clients -> {"away", "waiting", "reset", "served", "gone", "dropped"}]
    /\ backlog \in Seq({c \in Clients : client[c] \in {"waiting", "reset"}})
    /\ \A i, j \in DOMAIN backlog : backlog[i] = backlog[j] => i = j
    /\ serving # None <=> side \in {"goodbye", "killed"}

(* The edge-triggered event is not lost: when the thread goes to sleep     *)
(* while clients wait, one of them came after the last look and its event  *)
(* is still to be reported.  The one exception is an accept that failed on *)
(* the uninitialised length: it ends the loop before the backlog is empty. *)
NobodyOverlooked ==
    side = "wait" /\ backlog # <<>> /\ addrlen = "usable" => edge

(* A client that waits is taken, unless the server is stopped or killed or *)
(* an accept failed.                                                       *)
WaitingTaken ==
    \A c \in Clients :
        client[c] = "waiting" ~> \/ client[c] # "waiting"
                                 \/ main \in {"joining", "done"}
                                 \/ ~Alive
                                 \/ addrlen = "negative"

(* Server_example.c:136, `Enter literally anything to make it stop': the   *)
(* thread notices the signaler wherever it is when main adds it, also in   *)
(* the middle of a queue of clients.                                       *)
StopEnds == main = "joining" ~> (main = "done" \/ ~Alive)
==============================================================================
