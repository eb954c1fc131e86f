---------------------------- MODULE MCKTHistory ----------------------------
(* Instantiates KTHistory for TLC: two profiles, three epochs, pages of    *)
(* two, and integer widths scaled down (int64 -> 5 bits, int32 -> 3 bits)  *)
(* so that both conversions wrap at values a small instance reaches.       *)
EXTENDS KTHistory

CONSTANTS d1, d2

MCData == {d1, d2}
(* Calls that stay inside the int64 range. *)
MCStarts == {-1, 0, 1}
MCEnds == 0..3
MCStartZero == {0}
(* The call that lists everything: end is the largest int64. *)
MCEndsAll == {MaxInt64}
=============================================================================
