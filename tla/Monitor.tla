------------------------------- MODULE Monitor -------------------------------
(***************************************************************************)
(* The monitor's processing pipeline (core/monitor/monitor.go): three      *)
(* goroutines joined by unbuffered Go channels.                            *)
(*  - the streamer (mutationclient.StreamEpochs) fetches epochs from the   *)
(*    server in revision order and sends them on `epochs`;                 *)
(*  - the pair former (EpochPairs) turns epochs 0,1,2 into pairs           *)
(*    (0,1),(1,2) on `pairs`;                                              *)
(*  - ProcessLoop's own loop verifies each pair, countersigns the SMR when *)
(*    it verifies and stores the result, then drains the two goroutines'   *)
(*    results from `errc`.                                                 *)
(* A send on an unbuffered channel is a rendezvous with a receiver, so it  *)
(* is one action of both goroutines. A select between ctx.Done() and a     *)
(* send may take either ready case. ProcessLoop's deferred cancel() and    *)
(* the caller cancelling its context both close cctx.Done().               *)
(*                                                                         *)
(* An epoch is abstracted to its map root, the mutations of its revision   *)
(* and whether its own proofs (SMR signature, log inclusion) verify; the   *)
(* map applies a mutation set by Apply.                                    *)
(***************************************************************************)
EXTENDS Naturals, FiniteSets

CONSTANTS
  StartEpoch,  \* startEpoch argument of ProcessLoop
  MaxEpoch,    \* the last revision the server has published
  MapRoots,    \* abstract sparse-map root hashes
  MutSets,     \* abstract mutation sets of one revision
  Apply(_, _), \* root hash after applying a mutation set to a root
  Nil          \* a nil epoch, pair or error

ASSUME MonitorAssumption ==
  /\ StartEpoch \in Nat
  /\ MaxEpoch \in Nat /\ StartEpoch < MaxEpoch
  /\ Nil \notin StartEpoch..MaxEpoch   \* a nil *Epoch is no epoch
  /\ MapRoots # {} /\ MutSets # {}
  /\ \A x \in MapRoots, m \in MutSets : Apply(x, m) \in MapRoots

Revisions == StartEpoch..MaxEpoch

(* What the server publishes for a revision. *)
Epochs == [root : MapRoots, muts : MutSets, valid : BOOLEAN]

(* Results a goroutine or ProcessLoop may return. *)
Errs == {Nil, "ctx", "fetch", "mutations", "sign", "store"}

(* Control points of each goroutine. *)
StreamerPC == {"fetch", "send", "senderr", "done"}
PairerPC   == {"recv", "send", "senderr", "done"}
MainPC     == {"recv", "process", "drain", "done"}

VARIABLES
  epochs,     \* server: the epoch of every published revision
  parentDone, \* the caller's ctx has been cancelled
  cctx,       \* cctx.Done() is closed (parent cancelled or cancel() called)
  sPC, sNext, sErr,            \* streamer: control, next revision, result
  epochsClosed,                \* close(epochs) has run
  pPC, epochA, pPair, pErr,    \* pair former: control, epochA, pair, result
  pairsClosed,                 \* close(pairs) has run
  mPC, mPair, errA, nRecv, mRet, \* ProcessLoop: control, pair, drained results
  store       \* monitorstorage: revision -> "signed" (Smr set) or "errors"

vars == <<epochs, parentDone, cctx, sPC, sNext, sErr, epochsClosed,
          pPC, epochA, pPair, pErr, pairsClosed,
          mPC, mPair, errA, nRecv, mRet, store>>

streamer == <<sPC, sNext, sErr, epochsClosed>>
pairer   == <<pPC, epochA, pPair, pErr, pairsClosed>>
mainLoop == <<mPC, mPair, errA, nRecv, mRet, store>>

-----------------------------------------------------------------------------
(* VerifyEpochMutations(epochA, epochB, mutations): epoch B's own proofs    *)
(* (VerifyEpoch) and then that A's root with B's mutations applied is B's   *)
(* root (verifyMutations). Revisions stand for the epochs fetched.          *)
VerifyEpoch(b) == epochs[b].valid
VerifyMutations(muts, rootA, rootB) == Apply(rootA, muts) = rootB
VerifyEpochMutations(a, b) ==
  /\ VerifyEpoch(b)
  /\ VerifyMutations(epochs[b].muts, epochs[a].root, epochs[b].root)

-----------------------------------------------------------------------------
(* Streamer: mutationclient.StreamEpochs with its goroutine wrapper. It     *)
(* fetches revision sNext; a revision not yet published is polled for until *)
(* ctx is done; an RPC error ends it. On return it closes `epochs` and then *)
(* sends its result on errc.                                                *)
StreamerReturn(err) ==
  /\ sPC' = "senderr" /\ sErr' = err /\ epochsClosed' = TRUE
  /\ UNCHANGED sNext

(* Mutant: revisions not yet published are fetched as if they were. *)
StreamFetchUnbounded ==
  /\ sPC = "fetch" /\ ~cctx /\ sNext <= MaxEpoch + 1
  /\ sPC' = "send"
  /\ UNCHANGED <<sNext, sErr, epochsClosed>>
  /\ UNCHANGED <<epochs, parentDone, cctx>> /\ UNCHANGED pairer /\ UNCHANGED mainLoop

(* GetEpoch(sNext) returns the epoch; a revision not yet published is     *)
(* polled for (no step) until ctx is done.                                  *)
StreamFetch ==
  /\ sPC = "fetch" /\ ~cctx /\ sNext <= MaxEpoch
  /\ sPC' = "send"
  /\ UNCHANGED <<sNext, sErr, epochsClosed>>
  /\ UNCHANGED <<epochs, parentDone, cctx>> /\ UNCHANGED pairer /\ UNCHANGED mainLoop

(* GetEpoch fails with an RPC error and StreamEpochs returns it. *)
StreamFetchFail ==
  /\ sPC = "fetch" /\ ~cctx
  /\ StreamerReturn("fetch")
  /\ UNCHANGED <<epochs, parentDone, cctx>> /\ UNCHANGED pairer /\ UNCHANGED mainLoop

(* Once ctx is done, GetEpoch and the poll wait return ctx's error, and the *)
(* select on out <- epoch and ctx.Done() may take the ctx case.             *)
StreamCancelled ==
  /\ sPC \in {"fetch", "send"} /\ cctx
  /\ StreamerReturn("ctx")
  /\ UNCHANGED <<epochs, parentDone, cctx>> /\ UNCHANGED pairer /\ UNCHANGED mainLoop

-----------------------------------------------------------------------------
(* Mutant: the first epoch is skipped with `continue` but never kept. *)
EpochPairsRecvNoFirst ==
  /\ pPC = "recv" /\ sPC = "send"
  /\ sPC' = "fetch" /\ sNext' = sNext + 1
  /\ IF epochA = Nil
       THEN UNCHANGED <<epochA, pPC, pPair>>
       ELSE pPair' = [a |-> epochA, b |-> sNext] /\ pPC' = "send" /\ UNCHANGED epochA
  /\ UNCHANGED <<sErr, epochsClosed, pErr, pairsClosed>>
  /\ UNCHANGED <<epochs, parentDone, cctx>> /\ UNCHANGED mainLoop

(* Pair former: EpochPairs. `for epoch := range epochs` receives epoch      *)
(* sNext from the streamer (a rendezvous, one action of both); the first is *)
(* kept as epochA, every later one forms the pair (epochA, epoch).          *)
EpochPairsRecv ==
  /\ pPC = "recv" /\ sPC = "send"
  /\ sPC' = "fetch" /\ sNext' = sNext + 1
  /\ IF epochA = Nil
       THEN epochA' = sNext /\ UNCHANGED <<pPC, pPair>>
       ELSE pPair' = [a |-> epochA, b |-> sNext] /\ pPC' = "send" /\ UNCHANGED epochA
  /\ UNCHANGED <<sErr, epochsClosed, pErr, pairsClosed>>
  /\ UNCHANGED <<epochs, parentDone, cctx>> /\ UNCHANGED mainLoop

(* The deferred close(pairs) and the send of the result on errc follow. *)
EpochPairsReturn(err) ==
  /\ pPC' = "senderr" /\ pErr' = err /\ pairsClosed' = TRUE
  /\ UNCHANGED <<epochA, pPair>>

(* The range over epochs ends when the streamer has closed the channel. *)
EpochPairsEnd ==
  /\ pPC = "recv" /\ epochsClosed
  /\ EpochPairsReturn(Nil)
  /\ UNCHANGED <<epochs, parentDone, cctx>> /\ UNCHANGED streamer /\ UNCHANGED mainLoop

(* select { case <-ctx.Done(): return ctx.Err() ... }. *)
EpochPairsCancelled ==
  /\ pPC = "send" /\ cctx
  /\ EpochPairsReturn("ctx")
  /\ UNCHANGED <<epochs, parentDone, cctx>> /\ UNCHANGED streamer /\ UNCHANGED mainLoop

-----------------------------------------------------------------------------
(* ProcessLoop.                                                            *)

(* An early return: the deferred cancel() closes cctx.Done(). *)
MainReturn(err) ==
  /\ mPC' = "done" /\ mRet' = err /\ cctx' = TRUE

(* Mutant: epochA = epoch is missing after the send. *)
RecvPairStaleA ==
  /\ mPC = "recv" /\ pPC = "send"
  /\ mPair' = pPair /\ mPC' = "process"
  /\ pPC' = "recv"
  /\ UNCHANGED <<epochA, pPair, pErr, pairsClosed, errA, nRecv, mRet, store>>
  /\ UNCHANGED <<epochs, parentDone, cctx>> /\ UNCHANGED streamer

(* `for pair := range pairs` receives the pair (case pairs <- pair of       *)
(* EpochPairs), after which the pair former sets epochA = epoch.            *)
RecvPair ==
  /\ mPC = "recv" /\ pPC = "send"
  /\ mPair' = pPair /\ mPC' = "process"
  /\ epochA' = pPair.b /\ pPC' = "recv"
  /\ UNCHANGED <<pPair, pErr, pairsClosed, errA, nRecv, mRet, store>>
  /\ UNCHANGED <<epochs, parentDone, cctx>> /\ UNCHANGED streamer

(* Mutant: the result is stored under the revision of epoch A. *)
ProcessPairKeyA ==
  /\ mPC = "process" /\ ~parentDone
  /\ LET rev == mPair.a IN
     store' = [r \in DOMAIN store \cup {rev} |->
                 IF r = rev
                   THEN IF VerifyEpochMutations(mPair.a, mPair.b) THEN "signed" ELSE "errors"
                   ELSE store[r]]
  /\ mPC' = "recv"
  /\ UNCHANGED <<mPair, errA, nRecv, mRet, cctx>>
  /\ UNCHANGED <<epochs, parentDone>> /\ UNCHANGED streamer /\ UNCHANGED pairer

(* The body of the loop for one pair: EpochMutations (an RPC on the       *)
(* caller's ctx), VerifyEpochMutations, signMapRoot when it verified, and   *)
(* store.Set of the result: signed SMR, or nil with the errors.             *)
ProcessPair ==
  /\ mPC = "process" /\ ~parentDone
  /\ LET rev == mPair.b IN
     store' = [r \in DOMAIN store \cup {rev} |->
                 IF r = rev
                   THEN IF VerifyEpochMutations(mPair.a, mPair.b) THEN "signed" ELSE "errors"
                   ELSE store[r]]
  /\ mPC' = "recv"
  /\ UNCHANGED <<mPair, errA, nRecv, mRet, cctx>>
  /\ UNCHANGED <<epochs, parentDone>> /\ UNCHANGED streamer /\ UNCHANGED pairer

(* One of the three steps fails and ProcessLoop returns its error:          *)
(* EpochMutations, signMapRoot (reached only when the pair verified), or    *)
(* store.Set.                                                               *)
ProcessPairFail ==
  /\ mPC = "process" /\ ~parentDone
  /\ \/ MainReturn("mutations")
     \/ VerifyEpochMutations(mPair.a, mPair.b) /\ MainReturn("sign")
     \/ MainReturn("store")
  /\ UNCHANGED <<mPair, errA, nRecv, store>>
  /\ UNCHANGED <<epochs, parentDone>> /\ UNCHANGED streamer /\ UNCHANGED pairer

(* Once the caller's ctx is cancelled, EpochMutations(ctx, ...) fails with  *)
(* its error and ProcessLoop returns it.                                    *)
ProcessPairCancelled ==
  /\ mPC = "process" /\ parentDone
  /\ MainReturn("mutations")
  /\ UNCHANGED <<mPair, errA, nRecv, store>>
  /\ UNCHANGED <<epochs, parentDone>> /\ UNCHANGED streamer /\ UNCHANGED pairer

(* The range over pairs ends once the pair former has closed it. *)
MainLoopEnd ==
  /\ mPC = "recv" /\ pairsClosed
  /\ mPC' = "drain"
  /\ UNCHANGED <<mPair, errA, nRecv, mRet, store>>
  /\ UNCHANGED <<epochs, parentDone, cctx>> /\ UNCHANGED streamer /\ UNCHANGED pairer

(* errA := <-errc; errB := <-errc; return errA if non-nil, else errB. The  *)
(* receive rendezvouses with whichever goroutine is sending its result.     *)
DrainResult(err) ==
  /\ IF nRecv = 0
       THEN errA' = err /\ nRecv' = 1 /\ UNCHANGED <<mPC, mRet, cctx>>
       ELSE /\ nRecv' = 2 /\ UNCHANGED errA
            /\ MainReturn(IF errA # Nil THEN errA ELSE err)
  /\ UNCHANGED <<mPair, store>>

DrainStreamer ==
  /\ mPC = "drain" /\ sPC = "senderr"
  /\ sPC' = "done"
  /\ DrainResult(sErr)
  /\ UNCHANGED <<sNext, sErr, epochsClosed>>
  /\ UNCHANGED <<epochs, parentDone>> /\ UNCHANGED pairer

DrainPairer ==
  /\ mPC = "drain" /\ pPC = "senderr"
  /\ pPC' = "done"
  /\ DrainResult(pErr)
  /\ UNCHANGED <<epochA, pPair, pErr, pairsClosed>>
  /\ UNCHANGED <<epochs, parentDone>> /\ UNCHANGED streamer

-----------------------------------------------------------------------------
(* The caller cancels the ctx it passed to ProcessLoop. *)
CancelParent ==
  /\ ~parentDone
  /\ parentDone' = TRUE /\ cctx' = TRUE
  /\ UNCHANGED <<epochs>> /\ UNCHANGED streamer /\ UNCHANGED pairer /\ UNCHANGED mainLoop

Init ==
  /\ epochs \in [Revisions -> Epochs]
  /\ parentDone = FALSE /\ cctx = FALSE
  /\ sPC = "fetch" /\ sNext = StartEpoch /\ sErr = Nil /\ epochsClosed = FALSE
  /\ pPC = "recv" /\ epochA = Nil /\ pPair = Nil /\ pErr = Nil /\ pairsClosed = FALSE
  /\ mPC = "recv" /\ mPair = Nil /\ errA = Nil /\ nRecv = 0 /\ mRet = Nil
  /\ store = [r \in {} |-> "errors"]

Next ==
  \/ StreamFetch \/ StreamFetchFail \/ StreamCancelled
  \/ EpochPairsRecv \/ EpochPairsEnd \/ EpochPairsCancelled
  \/ RecvPair \/ ProcessPair \/ ProcessPairFail \/ ProcessPairCancelled
  \/ MainLoopEnd \/ DrainStreamer \/ DrainPairer
  \/ CancelParent

(* The Go scheduler runs every runnable goroutine and every RPC returns;    *)
(* nothing forces an RPC to fail or the caller to cancel.                   *)
Fairness ==
  /\ WF_vars(StreamFetch) /\ WF_vars(StreamCancelled)
  /\ WF_vars(EpochPairsRecv) /\ WF_vars(EpochPairsEnd) /\ WF_vars(EpochPairsCancelled)
  /\ WF_vars(RecvPair) /\ WF_vars(ProcessPair) /\ WF_vars(ProcessPairCancelled)
  /\ WF_vars(MainLoopEnd)
  /\ WF_vars(DrainStreamer) /\ WF_vars(DrainPairer)

Spec == Init /\ [][Next]_vars /\ Fairness

-----------------------------------------------------------------------------
(* Properties.                                                             *)

Pairs == [a : Revisions, b : Revisions]

TypeOK ==
  /\ epochs \in [Revisions -> Epochs]
  /\ parentDone \in BOOLEAN /\ cctx \in BOOLEAN
  /\ sPC \in StreamerPC /\ sNext \in StartEpoch..(MaxEpoch + 1)
  /\ sErr \in Errs /\ epochsClosed \in BOOLEAN
  /\ pPC \in PairerPC /\ epochA \in Revisions \cup {Nil}
  /\ pPair \in Pairs \cup {Nil} /\ pErr \in Errs /\ pairsClosed \in BOOLEAN
  /\ mPC \in MainPC /\ mPair \in Pairs \cup {Nil}
  /\ errA \in Errs /\ nRecv \in 0..2 /\ mRet \in Errs
  /\ DOMAIN store \subseteq Revisions
  /\ \A r \in DOMAIN store : store[r] \in {"signed", "errors"}

(* The monitor never skips an epoch and judges each one against its       *)
(* predecessor: the revisions stored are exactly StartEpoch+1..k for some   *)
(* k, and the result stored for revision r is signed iff epoch r verifies   *)
(* and r-1 with r's mutations applied gives r's root (spec 4.10; the         *)
(* cooperation of StreamEpochs, EpochPairs and ProcessLoop).                 *)
StoreFaithful ==
  /\ \E k \in Revisions : DOMAIN store = (StartEpoch + 1)..k
  /\ \A r \in DOMAIN store :
       store[r] = IF VerifyEpochMutations(r - 1, r) THEN "signed" ELSE "errors"

(* Unless ProcessLoop returns with an error, every published epoch is       *)
(* eventually verified and stored.                                          *)
AllEpochsStored ==
  <>(mPC = "done" \/ DOMAIN store = (StartEpoch + 1)..MaxEpoch)

(* ProcessLoop returns only after both goroutines it started have exited,   *)
(* so none is left blocked (spec 5: the coordinator drains both tasks).      *)
NoGoroutineLeak ==
  [](mPC = "done" => <>(sPC = "done" /\ pPC = "done"))

-----------------------------------------------------------------------------
(* The refinement mapping: the abstract monitor has halted once            *)
(* ProcessLoop has returned; epochs and the store are the same.            *)
Abs == INSTANCE MonitorAbstract WITH halted <- (mPC = "done")

(* The three goroutines together implement the monitor of spec 4.10:     *)
(* every step of ProcessLoop, EpochPairs and StreamEpochs either stores   *)
(* the verdict on the next revision, computed from the right predecessor, *)
(* or halts, or changes nothing the spec sees, and the pipeline keeps     *)
(* storing until it halts.                                                 *)
ImplementsAbstract == Abs!Spec
=============================================================================
