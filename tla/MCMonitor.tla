------------------------------ MODULE MCMonitor ------------------------------
(* Model-checking instance of Monitor: revisions 0..2 (two pairs, so that  *)
(* a pair former that kept a stale epochA would pair 0 with 2), map roots   *)
(* and mutation sets {0,1} with Apply adding modulo 2, so that a wrong      *)
(* predecessor changes the verdict.                                         *)
EXTENDS Monitor

MCApply(x, m) == (x + m) % 2
=============================================================================
