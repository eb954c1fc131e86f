------------------------------ MODULE MCKTAdmin ------------------------------
(* Instantiates KTAdmin for TLC: two concurrent handlers, two domain IDs,  *)
(* and four tree IDs, enough for both handlers to create both their trees. *)
EXTENDS KTAdmin, TLC

CONSTANTS c1, c2, dA, dB, t1, t2, t3, t4

MCCallers == {c1, c2}
MCDomainIDs == {dA, dB}
MCTreeIDs == {t1, t2, t3, t4}

(* Tree IDs are interchangeable, and so are the handlers. *)
Symm == Permutations(MCTreeIDs) \cup Permutations(MCCallers)
=============================================================================
