--------------------------- MODULE MonitorAbstract ---------------------------
(***************************************************************************)
(* What the monitor promises (spec 4.10), with no goroutines and no        *)
(* channels: it judges the published epochs one at a time, in revision     *)
(* order from StartEpoch + 1 on, each against its predecessor, stores one  *)
(* verdict per revision and never changes a stored one; it never skips an *)
(* epoch, and it may halt (a failure or a cancellation), after which it    *)
(* stores nothing more.  Monitor implements it (Monitor!Abs).              *)
(***************************************************************************)
EXTENDS Naturals, FiniteSets

CONSTANTS StartEpoch, MaxEpoch, MapRoots, MutSets, Apply(_, _)

VARIABLES
  epochs,  \* the epoch the server published for every revision
  store,   \* revision -> "signed" or "errors"
  halted   \* the monitor has stopped

avars == <<epochs, store, halted>>

Revisions == StartEpoch..MaxEpoch
Epochs == [root : MapRoots, muts : MutSets, valid : BOOLEAN]

(* The verdict on revision r: its own proofs verify, and the previous     *)
(* root with r's mutations applied is r's root; then the SMR is           *)
(* countersigned, otherwise the errors are stored.                         *)
Verdict(r) ==
  IF epochs[r].valid /\ Apply(epochs[r - 1].root, epochs[r].muts) = epochs[r].root
    THEN "signed" ELSE "errors"

(* The next revision to judge: the one after the last stored. *)
NextRevision == StartEpoch + 1 + Cardinality(DOMAIN store)

Init ==
  /\ epochs \in [Revisions -> Epochs]
  /\ store = [r \in {} |-> "errors"]
  /\ halted = FALSE

Judge ==
  /\ ~halted
  /\ NextRevision <= MaxEpoch
  /\ store' = [r \in DOMAIN store \cup {NextRevision} |->
                 IF r = NextRevision THEN Verdict(r) ELSE store[r]]
  /\ UNCHANGED <<epochs, halted>>

Halt ==
  /\ ~halted
  /\ halted' = TRUE
  /\ UNCHANGED <<epochs, store>>

Next == Judge \/ Halt

(* A monitor that has not halted goes on judging the published epochs. *)
Spec == Init /\ [][Next]_avars /\ WF_avars(Judge)
=============================================================================
