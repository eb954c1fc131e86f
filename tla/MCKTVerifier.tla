---------------------------- MODULE MCKTVerifier ----------------------------
(* Model-checking instance of KTVerifier: one user (the VRF, commitment and *)
(* sparse proof are per user, so a second user adds no interleaving), two   *)
(* data values so that a wrong profile can be told from the right one,      *)
(* revisions 0..2 and up to three signed log roots, enough for a fork.      *)
EXTENDS KTVerifier

CONSTANTS u1, d1, d2

MCUsers == {u1}
MCData == {d1, d2}
=============================================================================
