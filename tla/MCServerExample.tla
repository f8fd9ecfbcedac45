---------------------------- MODULE MCServerExample ----------------------------
(* Four clients against the server of Server_example.c.                    *)
EXTENDS ServerExample
==============================================================================
