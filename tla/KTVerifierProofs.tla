--------------------------- MODULE KTVerifierProofs ---------------------------
(***************************************************************************)
(* Proofs about KTVerifier for every value of the constants: the type      *)
(* invariant, and ResultSound, the guarantee GetEntry gives its caller.    *)
(* ResultSound is not inductive alone: the step that accepts a response    *)
(* needs the types of the offered SMRs and log roots, and a step of the    *)
(* server must not falsify Logged(ret.smr) for an earlier result. The      *)
(* inductive invariant is TypeOK /\ ResultSound; the second point holds    *)
(* because the server only ever adds signed log roots.                     *)
(***************************************************************************)
EXTENDS KTVerifier, TLAPS

USE ConstantsAssumption

(* The strengthening that is inductive. *)
IInv == TypeOK /\ ResultSound

-----------------------------------------------------------------------------
(* What a response the client may receive is made of. Its log root's       *)
(* contents are those of a root the server signed whenever the root's       *)
(* signature verifies.                                                      *)
LEMMA ResponseTypes ==
  ASSUME TypeOK, NEW in \in Responses
  PROVE  /\ in.vrfOk \in BOOLEAN
         /\ in.committed \in Data \cup {None}
         /\ in.smr \in SMRs
         /\ in.logRoot.leaves \in Seq(SMRs)
         /\ in.logRoot.sig \in BOOLEAN
         /\ in.logRoot.sig => in.logRoot.leaves \in roots
<1>1. PICK s \in OfferedSMRs :
        in \in [vrfOk : BOOLEAN, leaf : Leaves \cup {Garbage, NoProof},
                committed : Data \cup {None}, smr : {s}, logRoot : OfferedLogRoots(s)]
  BY DEF Responses
<1>2. s \in SMRs
  <2>1. LoggedSMRs \subseteq SMRs
    BY DEF TypeOK, LoggedSMRs
  <2>2. QED
    BY <2>1 DEF OfferedSMRs
<1>3. ClaimedLog(s) \in Seq(SMRs)
  <2>1. s.rev + 1 \in Nat
    BY <1>2 DEF SMRs
  <2>2. QED
    BY <1>2, <2>1 DEF ClaimedLog
<1>4. in.logRoot \in OfferedLogRoots(s)
  BY <1>1
<1>5. /\ in.logRoot.leaves \in Seq(SMRs)
      /\ in.logRoot.sig \in BOOLEAN
      /\ in.logRoot.sig => in.logRoot.leaves \in roots
  <2>1. CASE in.logRoot \in [leaves : roots, sig : BOOLEAN]
    BY <2>1 DEF TypeOK
  <2>2. CASE in.logRoot = [leaves |-> ClaimedLog(s), sig |-> FALSE]
    BY <2>2, <1>3
  <2>3. QED
    BY <1>4, <2>1, <2>2 DEF OfferedLogRoots
<1>6. QED
  BY <1>1, <1>2, <1>5

(* An accepted response passed every check of VerifyGetEntryResponse. *)
LEMMA AcceptedChecks ==
  ASSUME NEW u, NEW tr, NEW in,
         VerifyGetEntryResponse(u, tr, in) = "ok"
  PROVE  /\ in.committed # None => CommitmentOK(in.leaf, in.committed)
         /\ SparseOK(u, in.leaf, in.smr)
         /\ in.smr.sig
         /\ VerifyRoot(tr, in.logRoot)
         /\ InclusionOK(in.logRoot, in.smr)
BY DEF VerifyGetEntryResponse

(* The result of a failed call has the type of GetEntry's results. *)
LEMMA FailedResultType ==
  ASSUME NEW u \in Users, NEW e \in Errors
  PROVE  Failed(u, e)
           \in [user : Users \cup {None}, err : Errors, profile : Data \cup {None},
               smr : SMRs \cup {None}, root : Seq(SMRs)]
<1>1. <<>> \in Seq(SMRs)
  OBVIOUS
<1>2. QED
  BY <1>1 DEF Failed

(* Every value VerifyGetEntryResponse returns is an error tag. *)
LEMMA VerifyResultType ==
  ASSUME NEW u, NEW tr, NEW in
  PROVE  VerifyGetEntryResponse(u, tr, in) \in Errors
BY DEF VerifyGetEntryResponse, Errors

-----------------------------------------------------------------------------
(* The type invariant: the log roots the server signs, the client's trusted *)
(* root, GetEntry's result and the accepted roots keep their types.         *)
LEMMA TypeInit == Init => TypeOK
BY DEF Init, TypeOK, SMR0, SMRs, MapContents, Leaves, NoResult, Errors

LEMMA TypeStep == TypeOK /\ [Next]_vars => TypeOK'
<1> SUFFICES ASSUME TypeOK, [Next]_vars PROVE TypeOK'
    OBVIOUS
<1>1. CASE SequenceEpoch
  <2>1. PICK r \in roots, m \in MapContents :
          /\ Len(r) <= MaxRev
          /\ roots' = roots \cup {Append(r, [rev |-> Len(r), map |-> m, sig |-> TRUE])}
    BY <1>1 DEF SequenceEpoch
  <2>2. [rev |-> Len(r), map |-> m, sig |-> TRUE] \in SMRs
    BY <2>1 DEF TypeOK, SMRs
  <2>3. Append(r, [rev |-> Len(r), map |-> m, sig |-> TRUE]) \in Seq(SMRs) \ {<<>>}
    BY <2>2 DEF TypeOK
  <2>4. UNCHANGED <<trusted, ret, seen>>
    BY <1>1 DEF SequenceEpoch
  <2>5. QED
    BY <2>1, <2>3, <2>4 DEF TypeOK
<1>2. ASSUME NEW u \in Users, GetEntry(u) PROVE TypeOK'
  <2>1. CASE /\ ret' = Failed(u, "RpcError")
             /\ UNCHANGED <<roots, trusted, seen>>
    <3>1. "RpcError" \in Errors
      BY DEF Errors
    <3>2. QED
      BY <2>1, <3>1, FailedResultType DEF TypeOK
  <2>2. CASE \E in \in Responses :
               LET err == VerifyGetEntryResponse(u, trusted, in) IN
               /\ ret' = IF err = "ok"
                           THEN [user |-> u, err |-> "ok", profile |-> in.committed,
                                 smr |-> in.smr, root |-> in.logRoot.leaves]
                           ELSE Failed(u, err)
               /\ seen' = IF err = "ok" THEN seen \cup {in.logRoot.leaves} ELSE seen
               /\ trusted' = trusted
               /\ UNCHANGED roots
    <3>1. PICK in \in Responses :
               LET err == VerifyGetEntryResponse(u, trusted, in) IN
               /\ ret' = IF err = "ok"
                           THEN [user |-> u, err |-> "ok", profile |-> in.committed,
                                 smr |-> in.smr, root |-> in.logRoot.leaves]
                           ELSE Failed(u, err)
               /\ seen' = IF err = "ok" THEN seen \cup {in.logRoot.leaves} ELSE seen
               /\ trusted' = trusted
               /\ UNCHANGED roots
      BY <2>2
    <3> DEFINE err == VerifyGetEntryResponse(u, trusted, in)
    <3>2. err \in Errors
      BY VerifyResultType
    <3>3. CASE err = "ok"
      <4>1. in.logRoot.leaves \in roots
        BY <3>3, AcceptedChecks, ResponseTypes DEF VerifyRoot
      <4>2. QED
        BY <3>1, <3>3, <4>1, ResponseTypes DEF TypeOK, Errors
    <3>4. CASE err # "ok"
      BY <3>1, <3>2, <3>4, FailedResultType DEF TypeOK
    <3>5. QED
      BY <3>3, <3>4
  <2>3. QED
    BY <1>2, <2>1, <2>2 DEF GetEntry
<1>3. CASE UNCHANGED vars
  BY <1>3 DEF vars, TypeOK
<1>4. QED
  BY <1>1, <1>2, <1>3 DEF Next

THEOREM TypeCorrect == Spec => []TypeOK
BY TypeInit, TypeStep, PTL DEF Spec

-----------------------------------------------------------------------------
(* ResultSound holds in every reachable state: whatever the network         *)
(* delivers and whatever a dishonest server signs, a profile GetEntry       *)
(* returns without error is the user's value in a map root that is signed   *)
(* and logged at its revision in a signed log root.                         *)
THEOREM ResultSoundness == Spec => []ResultSound
<1>1. Init => IInv
  BY TypeInit DEF Init, IInv, ResultSound, NoResult
<1>2. IInv /\ [Next]_vars => IInv'
  <2> SUFFICES ASSUME TypeOK, ResultSound, [Next]_vars PROVE ResultSound'
    BY TypeStep DEF IInv
  <2>1. CASE SequenceEpoch
    <3>1. roots \subseteq roots' /\ UNCHANGED ret
      BY <2>1 DEF SequenceEpoch
    <3>2. QED
      BY <3>1 DEF ResultSound, Logged
  <2>2. ASSUME NEW u \in Users, GetEntry(u) PROVE ResultSound'
    <3>1. CASE /\ ret' = Failed(u, "RpcError")
               /\ UNCHANGED <<roots, trusted, seen>>
      BY <3>1 DEF ResultSound, Failed
    <3>2. CASE \E in \in Responses :
                 LET err == VerifyGetEntryResponse(u, trusted, in) IN
                 /\ ret' = IF err = "ok"
                             THEN [user |-> u, err |-> "ok", profile |-> in.committed,
                                   smr |-> in.smr, root |-> in.logRoot.leaves]
                             ELSE Failed(u, err)
                 /\ seen' = IF err = "ok" THEN seen \cup {in.logRoot.leaves} ELSE seen
                 /\ trusted' = trusted
                 /\ UNCHANGED roots
      <4>1. PICK in \in Responses :
                 LET err == VerifyGetEntryResponse(u, trusted, in) IN
                 /\ ret' = IF err = "ok"
                             THEN [user |-> u, err |-> "ok", profile |-> in.committed,
                                   smr |-> in.smr, root |-> in.logRoot.leaves]
                             ELSE Failed(u, err)
                 /\ seen' = IF err = "ok" THEN seen \cup {in.logRoot.leaves} ELSE seen
                 /\ trusted' = trusted
                 /\ UNCHANGED roots
        BY <3>2
      <4> DEFINE err == VerifyGetEntryResponse(u, trusted, in)
      <4>2. CASE err = "ok"
        <5>1. ret' = [user |-> u, err |-> "ok", profile |-> in.committed,
                      smr |-> in.smr, root |-> in.logRoot.leaves]
          BY <4>1, <4>2
        <5>2. in.smr.sig
          BY <4>2, AcceptedChecks
        <5>3. Logged(in.smr)'
          <6>1. in.logRoot.leaves \in roots
            BY <4>2, AcceptedChecks, ResponseTypes DEF VerifyRoot
          <6>2. in.smr.rev < Len(in.logRoot.leaves)
                /\ in.logRoot.leaves[in.smr.rev + 1] = in.smr
            BY <4>2, AcceptedChecks DEF InclusionOK
          <6>3. QED
            BY <4>1, <6>1, <6>2 DEF Logged
        <5>4. in.committed # None => in.smr.map[u] = in.committed
          BY <4>2, AcceptedChecks DEF CommitmentOK, SparseOK
        <5>5. QED
          BY <5>1, <5>2, <5>3, <5>4 DEF ResultSound
      <4>3. CASE err # "ok"
        BY <4>1, <4>3 DEF ResultSound, Failed
      <4>4. QED
        BY <4>2, <4>3
    <3>3. QED
      BY <2>2, <3>1, <3>2 DEF GetEntry
  <2>3. CASE UNCHANGED vars
    BY <2>3 DEF vars, ResultSound, Logged
  <2>4. QED
    BY <2>1, <2>2, <2>3 DEF Next
<1>3. QED
  BY <1>1, <1>2, PTL DEF Spec, IInv
=============================================================================
