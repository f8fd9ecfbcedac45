------------------------------ MODULE MCWorkers ------------------------------
(* Small pools for TLC: two or three workers, jobs as model values.        *)
EXTENDS Workers
==============================================================================
