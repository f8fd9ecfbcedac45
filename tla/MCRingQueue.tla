----------------------------- MODULE MCRingQueue -----------------------------
(* The ring of queue.c for TLC, and the plausible bugs it must catch.      *)
EXTENDS RingQueue

MCResizeArgs == 0..MaxCapacity
==============================================================================
