---------------------------- MODULE MCUnixServer ----------------------------
(* Small servers for TLC: two clients, one or two descriptors, one worker, *)
(* so that descriptors are reused.                                         *)
EXTENDS UnixServer, TLC

(* Used only in runs without liveness properties.                          *)
MCSymmetry == Permutations(Conns) \cup Permutations(Workers)

(* Bounds: a connection is reset only if no other client has come yet, and *)
(* main stops a server of two clients only if they have sent nothing.      *)
Alone == \E c \in Conns : \A d \in Conns \ {c} : peer[d] = "away"
NoReset == \A c \in Conns : peer[c] # "rst"

Bounded ==
    /\ NoReset \/ Alone
    /\ stop => sends = 0 \/ Alone
==============================================================================
