---------------------------- MODULE MCCalcServer ----------------------------
(* Small calculator servers for TLC.                                       *)
EXTENDS CalcServer, TLC

(* Used only in runs without temporal properties.                          *)
MCSymmetry == Permutations(Conns) \cup Permutations(Workers)
==============================================================================
