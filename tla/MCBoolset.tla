----------------------------- MODULE MCBoolset -----------------------------
(* Words of two bits, and indices up to the third word, for TLC.           *)
EXTENDS Boolset

MCIndices == 0..4
==============================================================================
