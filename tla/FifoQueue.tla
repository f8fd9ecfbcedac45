------------------------------ MODULE FifoQueue ------------------------------
(***************************************************************************)
(* What the callers of queue.c rely on: a first-in first-out queue of      *)
(* pointers.  `contents' is the oldest-first sequence of queued values and *)
(* `event' the last call with the value it took or returned.               *)
(*                                                                         *)
(* Truncate is the abstract effect of an explicit q_resize: the oldest     *)
(* values survive, the newest may be dropped.  A push never drops.         *)
(***************************************************************************)
EXTENDS Integers, Sequences

CONSTANTS
    Values,   \* the pointers callers push
    Null      \* what q_next returns for an empty queue

VARIABLES contents, event

vars == <<contents, event>>

Event(call, val) == [call |-> call, val |-> val]

Init ==
    /\ contents = <<>>
    /\ event = Event("create", Null)

Push(v) ==
    /\ contents' = Append(contents, v)
    /\ event' = Event("push", v)

Take ==
    /\ contents # <<>>
    /\ contents' = Tail(contents)
    /\ event' = Event("next", Head(contents))

TakeEmpty ==
    /\ contents = <<>>
    /\ event' = Event("next", Null)
    /\ UNCHANGED contents

Truncate ==
    /\ \E k \in 0..Len(contents) : contents' = SubSeq(contents, 1, k)
    /\ event' = Event("resize", Null)

Next ==
    \/ \E v \in Values : Push(v)
    \/ Take
    \/ TakeEmpty
    \/ Truncate

Spec == Init /\ [][Next]_vars
==============================================================================
