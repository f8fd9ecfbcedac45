----------------------------- MODULE MCThreadpool -----------------------------
(* A pool of three workers for TLC, jobs and threads as model values.      *)
EXTENDS Threadpool
==============================================================================
