------------------------------ MODULE IndexSet ------------------------------
(***************************************************************************)
(* What the callers of boolset.c rely on: a set of indices.  `reach' is    *)
(* the end of the memory the set has so far: boolset_get answers for       *)
(* indices below it and may answer anything beyond.  `pending' holds the   *)
(* indices a boolset_foreach has still to call back for.                   *)
(***************************************************************************)
EXTENDS Integers

CONSTANT Indices    \* the indices callers use

VARIABLES members, reach, pending, event

vars == <<members, reach, pending, event>>

Event(call, index, val) == [call |-> call, index |-> index, val |-> val]

Init ==
    /\ members = {}
    /\ reach \in Nat
    /\ pending = {}
    /\ event = Event("create", 0, FALSE)

Set(index, val) ==
    /\ pending = {}
    /\ members' = IF val THEN members \cup {index} ELSE members \ {index}
    /\ reach' >= reach
    /\ index < reach'
    /\ event' = Event("set", index, val)
    /\ UNCHANGED pending

Get(index) ==
    /\ pending = {}
    /\ \E val \in BOOLEAN :
          /\ index < reach => val = (index \in members)
          /\ event' = Event("get", index, val)
    /\ UNCHANGED <<members, reach, pending>>

Foreach ==
    /\ pending = {}
    /\ pending' = members
    /\ event' = Event("foreach", 0, FALSE)
    /\ UNCHANGED <<members, reach>>

(* In increasing order; the callback may take the index out of the set.    *)
Visit ==
    \E index \in pending :
        /\ \A other \in pending : index <= other
        /\ pending' = pending \ {index}
        /\ \E keep \in BOOLEAN :
              /\ members' = IF keep THEN members ELSE members \ {index}
              /\ event' = Event("visit", index, keep)
        /\ UNCHANGED reach

Next ==
    \/ \E index \in Indices, val \in BOOLEAN : Set(index, val)
    \/ \E index \in Indices : Get(index)
    \/ Foreach
    \/ Visit

Spec == Init /\ [][Next]_vars
==============================================================================
