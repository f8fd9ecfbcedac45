------------------------------- MODULE JobPool -------------------------------
(***************************************************************************)
(* What the callers of workers.c rely on: a posted job is started once, in *)
(* the order of posting, and finishes after it started.                    *)
(*                                                                         *)
(* Nothing is promised about when a job runs, nor that it runs at all once *)
(* w_join has been called: see Workers for what the code does then.        *)
(***************************************************************************)
EXTENDS Integers, Sequences

CONSTANT Jobs

VARIABLES
    queued,    \* posted and not started, oldest first
    running,   \* started and not finished
    finished

vars == <<queued, running, finished>>

Queued == {queued[i] : i \in DOMAIN queued}

Init ==
    /\ queued = <<>>
    /\ running = {}
    /\ finished = {}

Post(j) ==
    /\ j \notin Queued \cup running \cup finished
    /\ queued' = Append(queued, j)
    /\ UNCHANGED <<running, finished>>

Start ==
    /\ queued # <<>>
    /\ queued' = Tail(queued)
    /\ running' = running \cup {Head(queued)}
    /\ UNCHANGED finished

Finish(j) ==
    /\ j \in running
    /\ running' = running \ {j}
    /\ finished' = finished \cup {j}
    /\ UNCHANGED queued

Next ==
    \/ \E j \in Jobs : Post(j)
    \/ Start
    \/ \E j \in Jobs : Finish(j)

Spec == Init /\ [][Next]_vars
==============================================================================
