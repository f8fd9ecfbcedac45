--------------------------- MODULE MCUnixServerLive ---------------------------
(* The server under fair scheduling, for TLC: what clients do is kept      *)
(* within bounds, so that data, resets and reuse of a descriptor by a      *)
(* second client do not all come together.  No fairness obliges a client,  *)
(* and nothing is promised once main has been told to stop: the program    *)
(* itself is not restricted.                                               *)
EXTENDS UnixServer

CONSTANT Talker   \* the client that sends, and whose connection may be reset

Alone == \A c \in Conns \ {Talker} : peer[c] = "away"
NoReset == \A c \in Conns : peer[c] # "rst"

Within ==
    /\ ~stop
    /\ NoReset \/ (sends = 0 /\ Alone)
    /\ sends = 0 \/ Alone

LiveSpec == Init /\ [][Next /\ Within']_vars /\ Fairness
===============================================================================
