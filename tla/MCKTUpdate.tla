----------------------------- MODULE MCKTUpdate -----------------------------
(* Two writers on one entry that starts with key k1; both sign with k1. *)
EXTENDS KTUpdate

CONSTANTS w1, w2, k1, k2

MCWriters == {w1, w2}
MCKeys == {k1, k2}
MCInitKeys == {k1}
MCSigners == [w \in MCWriters |-> {k1}]
=============================================================================
