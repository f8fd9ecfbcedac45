-------------------------- MODULE ServerExampleProofs --------------------------
(***************************************************************************)
(* Proofs about the epoll example, for any number of clients.              *)
(***************************************************************************)
EXTENDS ServerExample, SequenceTheorems, TLAPS

------------------------------------------------------------------------------
(* The inductive invariant.                                                *)

Types ==
    /\ main \in {"listening", "watching", "running", "joining", "done"}
    /\ side \in {"unborn", "wait", "accept", "goodbye", "ended", "killed"}
    /\ watched \in BOOLEAN /\ signalled \in BOOLEAN /\ edge \in BOOLEAN
    /\ addrlen \in {"usable", "negative"}
    /\ client \in [Clients -> {"away", "waiting", "reset", "served", "gone", "dropped"}]
    /\ backlog \in Seq(Clients)
    /\ serving \in Clients \cup {None}

(* A client that has come is in one place: the backlog, or new_socket.     *)
Queued ==
    /\ \A i \in DOMAIN backlog : client[backlog[i]] \in {"waiting", "reset"}
    /\ \A i, j \in DOMAIN backlog : backlog[i] = backlog[j] => i = j
    /\ serving # None <=> side \in {"goodbye", "killed"}
    /\ serving # None => client[serving] \in {"waiting", "reset"}
    /\ \A i \in DOMAIN backlog : backlog[i] # serving

(* The socket is watched as long as the thread lives, and before its first *)
(* look the event stands for whoever has come.                             *)
Watching ==
    /\ side = "unborn" <=> main \in {"listening", "watching"}
    /\ main \in {"watching", "running", "joining"} => watched
    /\ main = "done" => side = "ended"
    /\ main = "watching" /\ backlog # <<>> => edge

Inv == Types /\ Queued /\ Watching /\ NobodyOverlooked

------------------------------------------------------------------------------
(* Sequences.                                                              *)

LEMMA AppendIndices ==
    ASSUME NEW S, NEW s \in Seq(S), NEW e \in S
    PROVE  /\ Append(s, e) \in Seq(S)
           /\ \A i \in DOMAIN Append(s, e) :
                 (i \in DOMAIN s /\ Append(s, e)[i] = s[i]) \/ (i = Len(s) + 1 /\ Append(s, e)[i] = e)
<1> DEFINE t == Append(s, e)
<1>1. Len(s) \in Nat /\ DOMAIN s = 1..Len(s) /\ DOMAIN t = 1..(Len(s) + 1) /\ t \in Seq(S)
  BY LenProperties, AppendProperties
<1>2. t[Len(s) + 1] = e /\ \A i \in 1..Len(s) : t[i] = s[i]
  BY AppendProperties
<1> HIDE DEF t
<1>3. \A i \in DOMAIN t : (i \in DOMAIN s /\ t[i] = s[i]) \/ (i = Len(s) + 1 /\ t[i] = e)
  BY <1>1, <1>2
<1>4. QED
  BY <1>1, <1>3 DEF t

LEMMA HeadAndTail ==
    ASSUME NEW S, NEW s \in Seq(S), s # <<>>
    PROVE  /\ Head(s) = s[1] /\ 1 \in DOMAIN s /\ s[1] \in S
           /\ Tail(s) \in Seq(S)
           /\ \A i \in DOMAIN Tail(s) : i + 1 \in DOMAIN s /\ Tail(s)[i] = s[i + 1] /\ i + 1 # 1
           /\ \A i, k \in DOMAIN Tail(s) : i + 1 = k + 1 => i = k
  OBVIOUS

LEMMA OfSubset ==
    ASSUME NEW S, NEW s \in Seq(S), NEW T, \A i \in DOMAIN s : s[i] \in T
    PROVE  s \in Seq(T)
<1>1. Len(s) \in Nat /\ DOMAIN s = 1..Len(s) /\ s = [i \in 1..Len(s) |-> s[i]]
  BY LenProperties
<1>2. QED
  BY <1>1, IsASeq

LEMMA InvTypeOK == Inv => TypeOK
<1> SUFFICES ASSUME Inv PROVE TypeOK
  OBVIOUS
<1>1. backlog \in Seq({c \in Clients : client[c] \in {"waiting", "reset"}})
  <2>1. \A i \in DOMAIN backlog : backlog[i] \in {c \in Clients : client[c] \in {"waiting", "reset"}}
    BY DEF Inv, Types, Queued
  <2>2. QED
    BY <2>1, OfSubset DEF Inv, Types
<1>2. QED
  BY <1>1 DEF Inv, Types, Queued, TypeOK

------------------------------------------------------------------------------
LEMMA InitInv == Init => Inv
<1> SUFFICES ASSUME Init PROVE Inv
  OBVIOUS
<1>1. <<>> \in Seq(Clients) /\ DOMAIN <<>> = {}
  OBVIOUS
<1>2. Types
  BY <1>1 DEF Init, Types
<1>3. Queued /\ Watching /\ NobodyOverlooked
  BY <1>1 DEF Init, Queued, Watching, NobodyOverlooked
<1>4. QED
  BY <1>2, <1>3 DEF Inv

(* A client that comes while the thread is at its loop raises an event.    *)
LEMMA ConnectInv ==
    ASSUME Inv, NEW c \in Clients, Connect(c)
    PROVE  Inv'
<1> USE NoneAssumption DEF Inv, Types
<1>1. /\ backlog' = Append(backlog, c) /\ client[c] = "away"
      /\ client'[c] = "waiting" /\ \A d \in Clients \ {c} : client'[d] = client[d]
      /\ UNCHANGED <<main, side, watched, serving>>
  BY DEF Connect
<1>2. /\ backlog' \in Seq(Clients)
      /\ \A i \in DOMAIN backlog' : \/ i \in DOMAIN backlog /\ backlog'[i] = backlog[i]
                                    \/ i = Len(backlog) + 1 /\ backlog'[i] = c
  <2>1. backlog' \in Seq(Clients)
    BY <1>1, AppendIndices
  <2>2. \A i \in DOMAIN backlog' : \/ i \in DOMAIN backlog /\ backlog'[i] = backlog[i]
                                   \/ i = Len(backlog) + 1 /\ backlog'[i] = c
    BY <1>1, AppendIndices
  <2>3. QED
    BY <2>1, <2>2
<1>3. \A i \in DOMAIN backlog : backlog[i] \in Clients \ {c}
  BY <1>1 DEF Queued
<1>4. serving # c
  BY <1>1 DEF Queued
<1>5. Types'
  BY <1>1, <1>2 DEF Connect
<1>6. Queued'
  <2>1. \A i, j \in DOMAIN backlog' : backlog'[i] = backlog'[j] => i = j
    BY <1>2, <1>3 DEF Queued
  <2>2. \A i \in DOMAIN backlog' : client'[backlog'[i]] \in {"waiting", "reset"} /\ backlog'[i] # serving
    BY <1>1, <1>2, <1>3, <1>4 DEF Queued
  <2>3. serving # None => client'[serving] \in {"waiting", "reset"}
    BY <1>1, <1>4 DEF Queued
  <2>4. QED
    BY <1>1, <2>1, <2>2, <2>3 DEF Queued
<1>7. Watching' /\ NobodyOverlooked'
  BY <1>1 DEF Connect, Watching, NobodyOverlooked
<1>8. QED
  BY <1>5, <1>6, <1>7

LEMMA ResetInv ==
    ASSUME Inv, NEW c \in Clients, Reset(c)
    PROVE  Inv'
<1> USE DEF Inv, Types, Reset
<1>1. Types'
  OBVIOUS
<1>2. Queued'
  BY NoneAssumption DEF Queued
<1>3. Watching' /\ NobodyOverlooked'
  BY DEF Watching, NobodyOverlooked
<1>4. QED
  BY <1>1, <1>2, <1>3

(* accept takes the first client of the backlog.                           *)
LEMMA TakenInv ==
    ASSUME Inv, AcceptClient \/ AcceptDrops
    PROVE  Inv'
<1> USE NoneAssumption DEF Inv, Types
<1>1. side = "accept" /\ backlog # <<>> /\ backlog' = Tail(backlog)
      /\ UNCHANGED <<main, watched, signalled, edge, addrlen>>
  BY DEF AcceptClient, AcceptDrops
<1>2. /\ Head(backlog) = backlog[1] /\ 1 \in DOMAIN backlog /\ backlog[1] \in Clients
      /\ backlog' \in Seq(Clients)
      /\ \A i \in DOMAIN backlog' : i + 1 \in DOMAIN backlog /\ backlog'[i] = backlog[i + 1] /\ i + 1 # 1
      /\ \A i, k \in DOMAIN backlog' : i + 1 = k + 1 => i = k
  BY <1>1, HeadAndTail
<1>3. /\ \A i, k \in DOMAIN backlog' : backlog'[i] = backlog'[k] => i = k
      /\ \A i \in DOMAIN backlog' :
            backlog'[i] # backlog[1] /\ client[backlog'[i]] \in {"waiting", "reset"} /\ backlog'[i] \in Clients
  <2>1. \A i, k \in DOMAIN backlog' : backlog'[i] = backlog'[k] => i = k
    BY <1>2 DEF Queued
  <2>2. \A i \in DOMAIN backlog' : backlog'[i] # backlog[1]
    BY <1>2 DEF Queued
  <2>3. \A i \in DOMAIN backlog' : client[backlog'[i]] \in {"waiting", "reset"}
    BY <1>2 DEF Queued
  <2>4. QED
    BY <1>2, <2>1, <2>2, <2>3
<1>4. serving = None
  BY <1>1 DEF Queued
<1>5. CASE AcceptClient
  <2>1. serving' = backlog[1] /\ side' = "goodbye" /\ UNCHANGED client
    BY <1>2, <1>5 DEF AcceptClient
  <2>2. Types'
    BY <1>1, <1>2, <2>1
  <2>3. Queued'
    BY <1>2, <1>3, <2>1 DEF Queued
  <2>4. Watching' /\ NobodyOverlooked'
    BY <1>1, <2>1 DEF Watching, NobodyOverlooked
  <2>5. QED
    BY <2>2, <2>3, <2>4
<1>6. CASE AcceptDrops
  <2>1. /\ client' \in [Clients -> {"away", "waiting", "reset", "served", "gone", "dropped"}]
        /\ \A c \in Clients \ {backlog[1]} : client'[c] = client[c]
        /\ side' = "wait" /\ addrlen = "negative" /\ UNCHANGED serving
    BY <1>2, <1>6 DEF AcceptDrops
  <2>2. Types'
    BY <1>1, <1>2, <2>1
  <2>3. Queued'
    BY <1>2, <1>3, <1>4, <2>1 DEF Queued
  <2>4. Watching' /\ NobodyOverlooked'
    BY <1>1, <2>1 DEF Watching, NobodyOverlooked
  <2>5. QED
    BY <2>2, <2>3, <2>4
<1>7. QED
  BY <1>5, <1>6

LEMMA GoodbyeInv ==
    ASSUME Inv, Goodbye
    PROVE  Inv'
<1> USE NoneAssumption DEF Inv, Types
<1>1. /\ serving \in Clients /\ side = "goodbye" /\ side' = "accept" /\ serving' = None
      /\ UNCHANGED <<main, watched, signalled, backlog, edge, addrlen>>
  BY DEF Goodbye, Queued
<1>2. /\ client' \in [Clients -> {"away", "waiting", "reset", "served", "gone", "dropped"}]
      /\ \A c \in Clients \ {serving} : client'[c] = client[c]
  BY <1>1 DEF Goodbye
<1>3. Queued'
  BY <1>1, <1>2 DEF Queued
<1>4. Watching' /\ NobodyOverlooked'
  BY <1>1 DEF Watching, NobodyOverlooked
<1>5. QED
  BY <1>1, <1>2, <1>3, <1>4

(* The other steps leave the clients where they are.                       *)
LEMMA LooksInv ==
    ASSUME Inv, ReportClients \/ EdgeVanishes \/ ReportSignal \/ AcceptNone \/ BrokenPipe
    PROVE  Inv'
<1> USE DEF Inv, Types, ReportClients, EdgeVanishes, ReportSignal, AcceptNone, BrokenPipe
<1>1. Types'
  OBVIOUS
<1>2. Queued'
  BY DEF Queued
<1>3. Watching' /\ NobodyOverlooked'
  BY DEF Watching, NobodyOverlooked
<1>4. QED
  BY <1>1, <1>2, <1>3

LEMMA MainInv ==
    ASSUME Inv, MainStep \/ Stop
    PROVE  Inv'
<1> USE DEF Inv, Types, MainStep, Watch, Spawn, Join, Stop
<1>1. Types'
  OBVIOUS
<1>2. Queued'
  BY DEF Queued, Watching
<1>3. Watching' /\ NobodyOverlooked'
  BY DEF Watching, NobodyOverlooked, Alive
<1>4. QED
  BY <1>1, <1>2, <1>3

LEMMA NextInv == Inv /\ [Next]_vars => Inv'
<1> SUFFICES ASSUME Inv, [Next]_vars PROVE Inv'
  OBVIOUS
<1>1. CASE UNCHANGED vars
  BY <1>1 DEF vars, Inv, Types, Queued, Watching, NobodyOverlooked
<1>2. CASE SideStep
  BY <1>2, TakenInv, GoodbyeInv, LooksInv DEF SideStep
<1>3. QED
  BY <1>1, <1>2, MainInv, ConnectInv, ResetInv DEF Next

(* In every state of Server_example.c: the backlog holds the clients that  *)
(* have come and not been taken, each once, and new_socket one more.       *)
THEOREM ServerExampleTypeOK == Spec => []TypeOK
  BY InitInv, NextInv, InvTypeOK, PTL DEF Spec

(* However many clients come at once or while side_proc accepts, it goes   *)
(* back to epoll_wait with an empty backlog or with an event to come, but  *)
(* for an accept that failed on the uninitialised length.                  *)
THEOREM ServerExampleNobodyOverlooked == Spec => []NobodyOverlooked
<1>1. Inv => NobodyOverlooked
  BY DEF Inv
<1>2. QED
  BY <1>1, InitInv, NextInv, PTL DEF Spec
================================================================================
