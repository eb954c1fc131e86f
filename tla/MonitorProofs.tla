---------------------------- MODULE MonitorProofs ----------------------------
(***************************************************************************)
(* Proofs about the monitor pipeline (Monitor): its type invariant, that   *)
(* the store holds the verdicts on StartEpoch+1..k and nothing else, and   *)
(* that every step of the three goroutines is a step of MonitorAbstract.  *)
(***************************************************************************)
EXTENDS Monitor, FiniteSetTheorems, TLAPS

(* The revision up to which ProcessLoop has stored verdicts once it has   *)
(* handed the current pair back: the pair former's epochA, or StartEpoch  *)
(* before the first epoch arrived.                                         *)
Front == IF epochA = Nil THEN StartEpoch ELSE epochA

(* The store holds the verdicts on StartEpoch+1..k. *)
StoredUpTo(k) ==
  /\ DOMAIN store = (StartEpoch + 1)..k
  /\ \A r \in DOMAIN store :
       store[r] = IF VerifyEpochMutations(r - 1, r) THEN "signed" ELSE "errors"

(* Where the epoch stream is: the streamer sends only published epochs,   *)
(* epochA is the last epoch the pair former received, and a pair it holds *)
(* is (epochA, epochA + 1), after which the streamer fetches epochA + 2.   *)
StreamPos ==
  /\ sPC = "send" => sNext <= MaxEpoch
  /\ epochA = Nil => sNext = StartEpoch /\ pPC # "send"
  /\ epochA # Nil => epochA \in Revisions
  /\ pPC = "recv" /\ epochA # Nil => sNext = epochA + 1
  /\ pPC = "send" => /\ pPair \in Pairs
                    /\ pPair = [a |-> epochA, b |-> epochA + 1] /\ sNext = epochA + 2

(* What ProcessLoop has stored: up to the pair it holds while processing  *)
(* it, up to Front otherwise until it returns; the pair it holds is the   *)
(* pair former's last epoch and its predecessor.                           *)
StorePos ==
  /\ mPC = "process" => /\ mPair \in Pairs /\ mPair.b = mPair.a + 1
                        /\ epochA = mPair.b /\ StoredUpTo(mPair.a)
  /\ mPC \in {"recv", "drain"} => StoredUpTo(Front)
  /\ \E k \in Revisions : StoredUpTo(k)

IInv == TypeOK /\ StreamPos /\ StorePos

USE MonitorAssumption

LEMMA InitInv == Init => IInv
<1> SUFFICES ASSUME Init PROVE IInv
  OBVIOUS
<1>1. TypeOK
  <2>1. epochs \in [Revisions -> Epochs] /\ parentDone \in BOOLEAN /\ cctx \in BOOLEAN
    BY DEF Init
  <2>2. sPC \in StreamerPC /\ sNext \in StartEpoch..(MaxEpoch + 1)
    BY DEF Init, StreamerPC
  <2>3. sErr \in Errs /\ epochsClosed \in BOOLEAN /\ pErr \in Errs /\ pairsClosed \in BOOLEAN
    BY DEF Init, Errs
  <2>4. pPC \in PairerPC /\ epochA \in Revisions \cup {Nil} /\ pPair \in Pairs \cup {Nil}
    BY DEF Init, PairerPC
  <2>5. mPC \in MainPC /\ mPair \in Pairs \cup {Nil} /\ errA \in Errs /\ nRecv \in 0..2
        /\ mRet \in Errs
    BY DEF Init, MainPC, Errs
  <2>6. DOMAIN store \subseteq Revisions /\ \A r \in DOMAIN store : store[r] \in {"signed", "errors"}
    BY DEF Init
  <2>7. QED
    BY <2>1, <2>2, <2>3, <2>4, <2>5, <2>6 DEF TypeOK
<1>2. StreamPos
  BY DEF Init, StreamPos
<1>3. StoredUpTo(StartEpoch) /\ Front = StartEpoch
  BY DEF Init, StoredUpTo, Front
<1>4. StorePos
  BY <1>3 DEF Init, StorePos, Revisions
<1>5. QED
  BY <1>1, <1>2, <1>4 DEF IInv

(* A step that changes none of what StorePos reads keeps it. *)
LEMMA StorePosUnchanged ==
  ASSUME StorePos, UNCHANGED <<store, epochs, mPC, mPair, epochA>>
  PROVE  StorePos'
BY DEF StorePos, StoredUpTo, Front, VerifyEpochMutations, VerifyEpoch, VerifyMutations, Pairs

(* The same for StreamPos. *)
LEMMA StreamPosUnchanged ==
  ASSUME StreamPos, UNCHANGED <<sPC, sNext, epochA, pPC, pPair>>
  PROVE  StreamPos'
BY DEF StreamPos

(* Type correctness: each case first states what the action changes. *)
LEMMA TypeStep == IInv /\ [Next]_vars => TypeOK'
<1> SUFFICES ASSUME IInv, [Next]_vars PROVE TypeOK'
  OBVIOUS
<1> USE DEF IInv
<1>1. CASE StreamFetch \/ StreamFetchFail \/ StreamCancelled
  <2>1. sPC' \in StreamerPC /\ sErr' \in Errs /\ epochsClosed' \in BOOLEAN
    BY <1>1 DEF StreamFetch, StreamFetchFail, StreamCancelled, StreamerReturn, TypeOK,
                StreamerPC, Errs
  <2>2. UNCHANGED <<epochs, parentDone, cctx, sNext, pPC, epochA, pPair, pErr, pairsClosed,
                    mPC, mPair, errA, nRecv, mRet, store>>
    BY <1>1 DEF StreamFetch, StreamFetchFail, StreamCancelled, StreamerReturn, pairer, mainLoop
  <2>3. QED
    BY <2>1, <2>2 DEF TypeOK
<1>2. CASE EpochPairsRecv
  <2>1. /\ sPC' \in StreamerPC /\ sNext' \in StartEpoch..(MaxEpoch + 1)
        /\ pPC' \in PairerPC /\ epochA' \in Revisions \cup {Nil} /\ pPair' \in Pairs \cup {Nil}
    BY <1>2 DEF EpochPairsRecv, TypeOK, StreamPos, Revisions, Pairs, PairerPC, StreamerPC
  <2>2. UNCHANGED <<epochs, parentDone, cctx, sErr, epochsClosed, pErr, pairsClosed,
                    mPC, mPair, errA, nRecv, mRet, store>>
    BY <1>2 DEF EpochPairsRecv, mainLoop
  <2>3. QED
    BY <2>1, <2>2 DEF TypeOK
<1>3. CASE EpochPairsEnd \/ EpochPairsCancelled
  <2>1. pPC' \in PairerPC /\ pErr' \in Errs /\ pairsClosed' \in BOOLEAN
    BY <1>3 DEF EpochPairsEnd, EpochPairsCancelled, EpochPairsReturn, PairerPC, Errs
  <2>2. UNCHANGED <<epochs, parentDone, cctx, sPC, sNext, sErr, epochsClosed, epochA, pPair,
                    mPC, mPair, errA, nRecv, mRet, store>>
    BY <1>3 DEF EpochPairsEnd, EpochPairsCancelled, EpochPairsReturn, streamer, mainLoop
  <2>3. QED
    BY <2>1, <2>2 DEF TypeOK
<1>4. CASE RecvPair
  <2>1. mPC' \in MainPC /\ mPair' \in Pairs \cup {Nil} /\ pPC' \in PairerPC
        /\ epochA' \in Revisions \cup {Nil}
    BY <1>4 DEF RecvPair, TypeOK, StreamPos, Pairs, PairerPC, MainPC
  <2>2. UNCHANGED <<epochs, parentDone, cctx, sPC, sNext, sErr, epochsClosed, pPair, pErr,
                    pairsClosed, errA, nRecv, mRet, store>>
    BY <1>4 DEF RecvPair, streamer
  <2>3. QED
    BY <2>1, <2>2 DEF TypeOK
<1>5. CASE ProcessPair
  <2>1. /\ mPC' \in MainPC
        /\ DOMAIN store' \subseteq Revisions
        /\ \A r \in DOMAIN store' : store'[r] \in {"signed", "errors"}
    BY <1>5 DEF ProcessPair, TypeOK, StorePos, Pairs, MainPC
  <2>2. UNCHANGED <<epochs, parentDone, cctx, sPC, sNext, sErr, epochsClosed, pPC, epochA,
                    pPair, pErr, pairsClosed, mPair, errA, nRecv, mRet>>
    BY <1>5 DEF ProcessPair, streamer, pairer
  <2>3. QED
    BY <2>1, <2>2 DEF TypeOK
<1>6. CASE ProcessPairFail \/ ProcessPairCancelled
  <2>1. mPC' = "done" /\ mRet' \in Errs /\ cctx' = TRUE
    BY <1>6 DEF ProcessPairFail, ProcessPairCancelled, MainReturn, Errs
  <2>2. UNCHANGED <<epochs, parentDone, sPC, sNext, sErr, epochsClosed, pPC, epochA, pPair,
                    pErr, pairsClosed, mPair, errA, nRecv, store>>
    BY <1>6 DEF ProcessPairFail, ProcessPairCancelled, streamer, pairer
  <2>3. QED
    BY <2>1, <2>2 DEF TypeOK, MainPC
<1>7. CASE MainLoopEnd
  <2>1. mPC' = "drain"
    BY <1>7 DEF MainLoopEnd
  <2>2. UNCHANGED <<epochs, parentDone, cctx, sPC, sNext, sErr, epochsClosed, pPC, epochA,
                    pPair, pErr, pairsClosed, mPair, errA, nRecv, mRet, store>>
    BY <1>7 DEF MainLoopEnd, streamer, pairer
  <2>3. QED
    BY <2>1, <2>2 DEF TypeOK, MainPC
<1>8. CASE DrainStreamer \/ DrainPairer
  <2>1. /\ mPC' \in MainPC /\ errA' \in Errs /\ nRecv' \in 0..2 /\ mRet' \in Errs
        /\ cctx' \in BOOLEAN
    <3>1. CASE nRecv = 0
      BY <1>8, <3>1 DEF DrainStreamer, DrainPairer, DrainResult, TypeOK
    <3>2. CASE nRecv # 0 /\ DrainStreamer
      BY <3>2 DEF DrainStreamer, DrainResult, MainReturn, TypeOK, Errs, MainPC
    <3>3. CASE nRecv # 0 /\ DrainPairer
      BY <3>3 DEF DrainPairer, DrainResult, MainReturn, TypeOK, Errs, MainPC
    <3>4. QED
      BY <1>8, <3>1, <3>2, <3>3
  <2>2. sPC' \in StreamerPC /\ pPC' \in PairerPC
    BY <1>8 DEF DrainStreamer, DrainPairer, TypeOK, StreamerPC, PairerPC, streamer, pairer
  <2>3. UNCHANGED <<epochs, parentDone, sNext, sErr, epochsClosed, epochA, pPair, pErr,
                    pairsClosed, mPair, store>>
    BY <1>8 DEF DrainStreamer, DrainPairer, DrainResult, streamer, pairer
  <2>4. QED
    BY <2>1, <2>2, <2>3 DEF TypeOK
<1>9. CASE CancelParent
  <2>1. parentDone' = TRUE /\ cctx' = TRUE
    BY <1>9 DEF CancelParent
  <2>2. UNCHANGED <<epochs, sPC, sNext, sErr, epochsClosed, pPC, epochA, pPair, pErr,
                    pairsClosed, mPC, mPair, errA, nRecv, mRet, store>>
    BY <1>9 DEF CancelParent, streamer, pairer, mainLoop
  <2>3. QED
    BY <2>1, <2>2 DEF TypeOK
<1>10. CASE UNCHANGED vars
  BY <1>10 DEF vars, TypeOK
<1>11. QED
  BY <1>1, <1>2, <1>3, <1>4, <1>5, <1>6, <1>7, <1>8, <1>9, <1>10 DEF Next

(* A step that leaves the store and epochs alone keeps StoredUpTo(k). *)
LEMMA StoredUnchanged ==
  ASSUME NEW k, StoredUpTo(k), UNCHANGED <<store, epochs>>
  PROVE  StoredUpTo(k)'
BY DEF StoredUpTo, VerifyEpochMutations, VerifyEpoch, VerifyMutations

LEMMA StreamStep == IInv /\ [Next]_vars => StreamPos'
<1> SUFFICES ASSUME IInv, [Next]_vars PROVE StreamPos'
  OBVIOUS
<1> USE DEF IInv
<1>1. CASE StreamFetch
  BY <1>1 DEF StreamFetch, StreamPos, pairer
<1>2. CASE StreamFetchFail \/ StreamCancelled
  BY <1>2 DEF StreamFetchFail, StreamCancelled, StreamerReturn, StreamPos, pairer
<1>3. CASE EpochPairsRecv
  <2>1. CASE epochA = Nil
    BY <1>3, <2>1 DEF EpochPairsRecv, StreamPos, TypeOK, Revisions
  <2>2. CASE epochA # Nil
    BY <1>3, <2>2 DEF EpochPairsRecv, StreamPos, TypeOK, Pairs, Revisions
  <2>3. QED
    BY <2>1, <2>2
<1>4. CASE EpochPairsEnd \/ EpochPairsCancelled
  BY <1>4 DEF EpochPairsEnd, EpochPairsCancelled, EpochPairsReturn, StreamPos, streamer
<1>5. CASE RecvPair
  BY <1>5 DEF RecvPair, StreamPos, TypeOK, Pairs, Revisions, streamer
<1>6. CASE DrainStreamer
  BY <1>6 DEF DrainStreamer, StreamPos, pairer
<1>7. CASE DrainPairer
  BY <1>7 DEF DrainPairer, StreamPos, streamer
<1>8. CASE \/ ProcessPair \/ ProcessPairFail \/ ProcessPairCancelled \/ MainLoopEnd
           \/ CancelParent \/ UNCHANGED vars
  <2>1. UNCHANGED <<sPC, sNext, epochA, pPC, pPair>>
    <3>1. CASE ProcessPair \/ ProcessPairFail \/ ProcessPairCancelled
      BY <3>1 DEF ProcessPair, ProcessPairFail, ProcessPairCancelled, streamer, pairer
    <3>2. CASE MainLoopEnd \/ CancelParent
      BY <3>2 DEF MainLoopEnd, CancelParent, streamer, pairer
    <3>3. CASE UNCHANGED vars
      BY <3>3 DEF vars
    <3>4. QED
      BY <1>8, <3>1, <3>2, <3>3
  <2>2. QED
    BY <2>1, StreamPosUnchanged
<1>9. QED
  BY <1>1, <1>2, <1>3, <1>4, <1>5, <1>6, <1>7, <1>8 DEF Next

(* ProcessPair stores the verdict on a + 1 next to those on ..a. *)
LEMMA StoredExtend ==
  ASSUME NEW a \in Revisions, StoredUpTo(a), UNCHANGED epochs,
         store' = [r \in DOMAIN store \cup {a + 1} |->
                     IF r = a + 1
                       THEN IF VerifyEpochMutations(a, a + 1) THEN "signed" ELSE "errors"
                       ELSE store[r]]
  PROVE  StoredUpTo(a + 1)'
<1>1. DOMAIN store' = (StartEpoch + 1)..(a + 1)
  BY DEF StoredUpTo, Revisions
<1>2. ASSUME NEW r \in DOMAIN store'
      PROVE  store'[r] = IF VerifyEpochMutations(r - 1, r)' THEN "signed" ELSE "errors"
  <2>1. CASE r = a + 1
    BY <2>1 DEF VerifyEpochMutations, VerifyEpoch, VerifyMutations, Revisions
  <2>2. CASE r # a + 1
    BY <2>2 DEF StoredUpTo, VerifyEpochMutations, VerifyEpoch, VerifyMutations
  <2>3. QED
    BY <2>1, <2>2
<1>3. QED
  BY <1>1, <1>2 DEF StoredUpTo

LEMMA StoreStep == IInv /\ [Next]_vars => StorePos'
<1> SUFFICES ASSUME IInv, [Next]_vars PROVE StorePos'
  OBVIOUS
<1> USE DEF IInv
<1>0. PICK k \in Revisions : StoredUpTo(k)
  BY DEF StorePos
<1>1. CASE \/ StreamFetch \/ StreamFetchFail \/ StreamCancelled \/ EpochPairsEnd
           \/ EpochPairsCancelled \/ CancelParent \/ UNCHANGED vars
  <2>1. UNCHANGED <<store, epochs, mPC, mPair, epochA>>
    <3>1. CASE StreamFetch \/ StreamFetchFail \/ StreamCancelled
      BY <3>1 DEF StreamFetch, StreamFetchFail, StreamCancelled, mainLoop, pairer
    <3>2. CASE EpochPairsEnd \/ EpochPairsCancelled
      BY <3>2 DEF EpochPairsEnd, EpochPairsCancelled, EpochPairsReturn, mainLoop
    <3>3. CASE CancelParent \/ UNCHANGED vars
      BY <3>3 DEF CancelParent, vars, mainLoop, pairer
    <3>4. QED
      BY <1>1, <3>1, <3>2, <3>3
  <2>2. QED
    BY <2>1, StorePosUnchanged
<1>2. CASE EpochPairsRecv
  <2>1. UNCHANGED <<store, epochs, mPC, mPair>>
    BY <1>2 DEF EpochPairsRecv, mainLoop
  <2>2. CASE epochA # Nil
    BY <1>2, <2>1, <2>2, StorePosUnchanged DEF EpochPairsRecv
  <2>3. CASE epochA = Nil
    <3>1. mPC # "process" /\ Front' = Front
      BY <1>2, <2>1, <2>3 DEF EpochPairsRecv, StorePos, StreamPos, Front, Pairs, Revisions
    <3>2. \A j : StoredUpTo(j) => StoredUpTo(j)'
      BY <2>1, StoredUnchanged
    <3>3. QED
      BY <1>0, <2>1, <3>1, <3>2 DEF StorePos
  <2>4. QED
    BY <2>2, <2>3
<1>3. CASE RecvPair
  <2>1. UNCHANGED <<store, epochs>> /\ mPC' = "process" /\ mPair' = pPair /\ epochA' = pPair.b
        /\ mPC = "recv" /\ pPC = "send"
    BY <1>3 DEF RecvPair
  <2>2. pPair \in Pairs /\ pPair = [a |-> epochA, b |-> epochA + 1] /\ epochA # Nil
    BY <2>1 DEF StreamPos
  <2>3. StoredUpTo(epochA)
    BY <2>1, <2>2 DEF StorePos, Front
  <2>4. \A j : StoredUpTo(j) => StoredUpTo(j)'
    BY <2>1, StoredUnchanged
  <2>5. QED
    BY <1>0, <2>1, <2>2, <2>3, <2>4 DEF StorePos, Pairs
<1>4. CASE ProcessPair
  <2>1. /\ mPC = "process" /\ mPC' = "recv" /\ UNCHANGED <<epochs, mPair, epochA>>
        /\ store' = [r \in DOMAIN store \cup {mPair.b} |->
                      IF r = mPair.b
                        THEN IF VerifyEpochMutations(mPair.a, mPair.b) THEN "signed" ELSE "errors"
                        ELSE store[r]]
    BY <1>4 DEF ProcessPair, pairer
  <2>2. mPair \in Pairs /\ mPair.b = mPair.a + 1 /\ epochA = mPair.b /\ StoredUpTo(mPair.a)
    BY <2>1 DEF StorePos
  <2>3. mPair.a \in Revisions /\ mPair.b \in Revisions /\ epochA # Nil
    BY <2>2 DEF Pairs, Revisions
  <2>4. StoredUpTo(mPair.a + 1)'
    BY <2>1, <2>2, <2>3, StoredExtend
  <2>5. QED
    BY <2>1, <2>2, <2>3, <2>4 DEF StorePos, Front
<1>5. CASE ProcessPairFail \/ ProcessPairCancelled
  <2>1. UNCHANGED <<store, epochs>> /\ mPC' = "done"
    BY <1>5 DEF ProcessPairFail, ProcessPairCancelled, MainReturn, pairer
  <2>2. StoredUpTo(k)'
    BY <1>0, <2>1, StoredUnchanged
  <2>3. QED
    BY <2>1, <2>2 DEF StorePos
<1>6. CASE MainLoopEnd \/ DrainStreamer \/ DrainPairer
  <2>1. /\ UNCHANGED <<store, epochs, epochA>> /\ mPC \in {"recv", "drain"}
        /\ mPC' \in {"drain", "done"}
    BY <1>6 DEF MainLoopEnd, DrainStreamer, DrainPairer, DrainResult, MainReturn, pairer
  <2>2. StoredUpTo(Front) /\ Front' = Front
    BY <2>1 DEF StorePos, Front
  <2>3. \A j : StoredUpTo(j) => StoredUpTo(j)'
    BY <2>1, StoredUnchanged
  <2>4. QED
    BY <1>0, <2>1, <2>2, <2>3 DEF StorePos
<1>7. QED
  BY <1>1, <1>2, <1>3, <1>4, <1>5, <1>6 DEF Next

LEMMA StepInv == IInv /\ [Next]_vars => IInv'
BY TypeStep, StreamStep, StoreStep DEF IInv

LEMMA SpecIInv == Spec => []IInv
BY InitInv, StepInv, PTL DEF Spec

(* Every reachable state of the three goroutines and the store is well     *)
(* typed: control points, the next revision StreamEpochs fetches, the pair *)
(* EpochPairs holds, the results sent on errc, and the revisions stored.    *)
THEOREM MonitorTypeCorrect == Spec => []TypeOK
BY SpecIInv, PTL DEF IInv

(* The monitor never skips an epoch and judges each one against its       *)
(* predecessor: whatever the interleaving of StreamEpochs, EpochPairs and   *)
(* ProcessLoop, failures and cancellation, the store holds exactly the      *)
(* verdicts on StartEpoch+1..k for some k, each computed from (r-1, r).    *)
THEOREM MonitorStoreFaithful == Spec => []StoreFaithful
<1>1. IInv => StoreFaithful
  BY DEF IInv, StorePos, StoredUpTo, StoreFaithful
<1>2. QED
  BY <1>1, SpecIInv, PTL

-----------------------------------------------------------------------------
(* Refinement: the safety part of MonitorAbstract under the mapping       *)
(* halted <- (mPC = "done").                                               *)

(* Nothing leaves ProcessLoop's return. *)
LEMMA DoneStays == IInv /\ [Next]_vars /\ mPC = "done" => mPC' = "done"
BY DEF IInv, TypeOK, Next, vars, StreamFetch, StreamFetchFail, StreamCancelled, EpochPairsRecv,
       EpochPairsEnd, EpochPairsCancelled, RecvPair, ProcessPair, ProcessPairFail,
       ProcessPairCancelled, MainLoopEnd, DrainStreamer, DrainPairer, CancelParent, mainLoop

(* Only ProcessPair writes the store. *)
LEMMA StoreWriters == [Next]_vars /\ ~ProcessPair => UNCHANGED <<epochs, store>>
BY DEF Next, vars, StreamFetch, StreamFetchFail, StreamCancelled, EpochPairsRecv,
       EpochPairsEnd, EpochPairsCancelled, RecvPair, ProcessPairFail, ProcessPairCancelled,
       MainLoopEnd, DrainStreamer, DrainPairer, DrainResult, CancelParent, mainLoop

(* ProcessPair is the abstract Judge of the next revision. *)
LEMMA ProcessPairJudges == IInv /\ ProcessPair => Abs!Judge
<1> SUFFICES ASSUME IInv, ProcessPair PROVE Abs!Judge
  OBVIOUS
<1>1. /\ mPC = "process" /\ mPC' = "recv" /\ UNCHANGED epochs
      /\ store' = [r \in DOMAIN store \cup {mPair.b} |->
                     IF r = mPair.b
                       THEN IF VerifyEpochMutations(mPair.a, mPair.b) THEN "signed" ELSE "errors"
                       ELSE store[r]]
  BY DEF ProcessPair
<1>2. mPair \in Pairs /\ mPair.b = mPair.a + 1 /\ DOMAIN store = (StartEpoch + 1)..mPair.a
  BY <1>1 DEF IInv, StorePos, StoredUpTo
<1>3. mPair.a \in Revisions /\ mPair.b \in Revisions
  BY <1>2 DEF Pairs
<1>4. Cardinality(DOMAIN store) = mPair.a - StartEpoch
  <2>1. \A x, y \in Int : Cardinality(x..y) = IF x > y THEN 0 ELSE y - x + 1
    BY FS_Interval
  <2>2. StartEpoch + 1 \in Int /\ mPair.a \in Int /\ mPair.a >= StartEpoch
    BY <1>3 DEF Revisions
  <2>3. QED
    BY <1>2, <2>1, <2>2
<1>5. Abs!NextRevision = mPair.b
  <2>1. Abs!Cardinality(DOMAIN store) = Cardinality(DOMAIN store)
    BY DEF Abs!Cardinality, Cardinality
  <2>2. QED
    BY <1>2, <1>3, <1>4, <2>1 DEF Abs!NextRevision, Revisions
<1>6. Abs!Verdict(mPair.b) = IF VerifyEpochMutations(mPair.a, mPair.b) THEN "signed" ELSE "errors"
  BY <1>2, <1>3 DEF Abs!Verdict, VerifyEpochMutations, VerifyEpoch, VerifyMutations, Revisions
<1>7. QED
  BY <1>1, <1>3, <1>5, <1>6 DEF Abs!Judge, Revisions

(* The three goroutines implement the monitor of spec 4.10: started from  *)
(* an empty store, each step of StreamEpochs, EpochPairs and ProcessLoop    *)
(* stores the verdict on the next revision computed from the right         *)
(* predecessor, or halts for good, or changes nothing the spec sees.       *)
THEOREM MonitorRefinesAbstract == Spec => Abs!Init /\ [][Abs!Next]_Abs!avars
<1>1. Init => Abs!Init
  BY DEF Init, Abs!Init, Abs!Revisions, Abs!Epochs, Revisions, Epochs
<1>2. IInv /\ [Next]_vars => [Abs!Next]_Abs!avars
  <2> SUFFICES ASSUME IInv, [Next]_vars PROVE [Abs!Next]_Abs!avars
    OBVIOUS
  <2>1. CASE ProcessPair
    BY <2>1, ProcessPairJudges DEF Abs!Next
  <2>2. CASE ~ProcessPair
    <3>1. UNCHANGED <<epochs, store>>
      BY <2>2, StoreWriters
    <3>2. CASE mPC = "done"
      BY <3>1, <3>2, DoneStays DEF Abs!avars
    <3>3. CASE mPC # "done" /\ mPC' = "done"
      BY <3>1, <3>3 DEF Abs!Next, Abs!Halt
    <3>4. CASE mPC # "done" /\ mPC' # "done"
      BY <3>1, <3>4 DEF Abs!avars
    <3>5. QED
      BY <3>2, <3>3, <3>4
  <2>3. QED
    BY <2>1, <2>2
<1>3. QED
  BY <1>1, <1>2, SpecIInv, PTL DEF Spec

-----------------------------------------------------------------------------
(* store.Set never overwrites a verdict: every step keeps each stored      *)
(* revision with the verdict it has.                                        *)
StoreKept == \A r \in DOMAIN store : r \in DOMAIN store' /\ store'[r] = store[r]

(* Whatever the interleaving of the three goroutines, ProcessLoop stores  *)
(* each verdict once and never replaces it (monitor.go:162): the pair it   *)
(* processes always names a revision not yet stored, which holds only     *)
(* because the pair former hands over epochA correctly.                    *)
THEOREM MonitorStoreAppendOnly == Spec => [][StoreKept]_vars
<1>1. IInv /\ [Next]_vars => StoreKept
  <2> SUFFICES ASSUME IInv, [Next]_vars PROVE StoreKept
    OBVIOUS
  <2>1. CASE ProcessPair
    <3>1. store' = [r \in DOMAIN store \cup {mPair.b} |->
                      IF r = mPair.b
                        THEN IF VerifyEpochMutations(mPair.a, mPair.b) THEN "signed" ELSE "errors"
                        ELSE store[r]]
      BY <2>1 DEF ProcessPair
    <3>2. mPC = "process"
      BY <2>1 DEF ProcessPair
    <3>3. mPair \in Pairs /\ mPair.b = mPair.a + 1 /\ DOMAIN store = (StartEpoch + 1)..mPair.a
      BY <3>2 DEF IInv, StorePos, StoredUpTo
    <3>4. mPair.a \in Revisions
      BY <3>3 DEF Pairs
    <3>5. mPair.b \notin DOMAIN store
      BY <3>3, <3>4, MonitorAssumption DEF Revisions
    <3>6. QED
      BY <3>1, <3>5 DEF StoreKept
  <2>2. CASE ~ProcessPair
    BY <2>2, StoreWriters DEF StoreKept
  <2>3. QED
    BY <2>1, <2>2
<1>2. QED
  BY <1>1, SpecIInv, PTL DEF Spec

=============================================================================
