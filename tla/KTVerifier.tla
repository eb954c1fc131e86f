----------------------------- MODULE KTVerifier -----------------------------
(***************************************************************************)
(* The key transparency client's response verifier                         *)
(* (core/client/kt/verify.go, VerifyGetEntryResponse) and the client       *)
(* operation that uses it (core/client/grpcc, Client.GetEntry), together   *)
(* with the server side it talks to: the append-only log of signed map     *)
(* roots that the admin server initialises and the sequencer extends.      *)
(*                                                                         *)
(* Cryptography is abstracted by what each check establishes:              *)
(*  - a commitment opens only to the data it was made for;                 *)
(*  - a VRF proof either verifies and yields the user's index or fails;    *)
(*  - a sparse Merkle proof for the index verifies iff the leaf is the     *)
(*    value the signed map root holds for that user;                       *)
(*  - a signature is valid iff the key holder made it (field sig);         *)
(*  - a consistency proof between two log roots exists iff the older is a  *)
(*    prefix of the newer; an inclusion proof of leaf s at position i      *)
(*    exists iff the root's i-th leaf is s.                                *)
(* A log root is modelled by the sequence of log leaves it commits to.     *)
(* The network is adversarial: any response may be delivered, subject     *)
(* only to the signatures it carries.                                      *)
(***************************************************************************)
EXTENDS Naturals, Sequences, FiniteSets

CONSTANTS
  Users,        \* user identities looked up (domain and app are fixed)
  Data,         \* profile data values a user may commit to
  MaxRev,       \* largest map revision the server reaches
  MaxRoots,     \* bound on the number of distinct log roots signed
  ServerHonest, \* TRUE: one linear log of SMRs it signed; FALSE: forks, signs unlogged SMRs
  Empty,        \* the canonical empty entry (proof of absence)
  Garbage,      \* leaf bytes that do not decode to an Entry
  NoProof,      \* response without a leaf proof
  None          \* absent field (no Committed, nil profile, no SMR)

ASSUME ConstantsAssumption ==
  /\ Users # {} /\ IsFiniteSet(Users)
  /\ Data # {} /\ IsFiniteSet(Data)
  /\ MaxRev \in Nat
  /\ MaxRoots \in Nat \ {0}
  /\ ServerHonest \in BOOLEAN
  /\ {Empty, Garbage, NoProof, None} \cap Data = {}
  /\ Cardinality({Empty, Garbage, NoProof, None}) = 4

(* A leaf of the sparse map: the empty entry or an entry committing to data. *)
Leaves == Data \cup {Empty}

(* Map contents at one revision: every user's leaf. *)
MapContents == [Users -> Leaves]

(* Signed map roots: revision, map contents, and whether the signature     *)
(* made with the map key verifies.                                          *)
SMRs == [rev : 0..MaxRev, map : MapContents, sig : BOOLEAN]

(* The empty SMR at revision 0 that initialize puts into a fresh log. *)
SMR0 == [rev |-> 0, map |-> [u \in Users |-> Empty], sig |-> TRUE]

Errors == {"ok", "RpcError", "DecodeError", "CommitmentMismatch", "VrfInvalid",
           "NilProof", "SparseProofInvalid", "SmrSignatureInvalid",
           "LogRootInvalid", "LogInclusionInvalid"}

VARIABLES
  roots,    \* server: the set of log roots signed with the log key (sequences of SMRs)
  trusted,  \* client: c.trusted, the trusted log root (Client.trusted)
  ret,      \* client: the value the last GetEntry call returned, with the log
            \* root of the accepted response recorded for the properties
  seen      \* history: the log roots of every response the client accepted

vars == <<roots, trusted, ret, seen>>

NoResult == [user |-> None, err |-> "ok", profile |-> None, smr |-> None,
             root |-> <<>>]

(* The result of a GetEntry call of user u that failed with error e. *)
Failed(u, e) == [user |-> u, err |-> e, profile |-> None, smr |-> None,
                 root |-> <<>>]

-----------------------------------------------------------------------------
(* Server side.                                                            *)

(* IsPrefix of SequencesExt, written out so that proofs need no library. *)
Prefix(s, t) == Len(s) <= Len(t) /\ \A i \in 1..Len(s) : s[i] = t[i]

Last(s) == s[Len(s)]

(* The SMRs of a log are logged at the position of their revision. *)
LoggedSMRs == UNION {{r[i] : i \in DOMAIN r} : r \in roots}

(* The honest sequencer extends the latest log root only. *)
Latest(r) == \A r2 \in roots : Len(r2) <= Len(r)

(* Sequence one epoch: apply one mutation to the map at the head of root r,  *)
(* sign the new map root and append it to the log. A dishonest server may   *)
(* extend an older root (a fork) and put any contents in the new map.       *)
SequenceEpoch ==
  /\ Cardinality(roots) < MaxRoots
  /\ \E r \in roots, m \in MapContents :
       /\ Len(r) <= MaxRev
       /\ ServerHonest => /\ Latest(r)
                          /\ \E u \in Users, d \in Data :
                               m = [Last(r).map EXCEPT ![u] = d]
       /\ roots' = roots \cup {Append(r, [rev |-> Len(r), map |-> m, sig |-> TRUE])}
  /\ UNCHANGED <<trusted, ret, seen>>

-----------------------------------------------------------------------------
(* Responses the client may receive. The network may alter any field; only *)
(* the signatures constrain it. An SMR with a valid signature is one the    *)
(* server signed: a logged one, or, when the server is dishonest, any.      *)
OfferedSMRs ==
  IF ServerHonest THEN LoggedSMRs \cup {s \in SMRs : ~s.sig} ELSE SMRs

(* A forged log root that claims to hold smr at the position of its        *)
(* revision; its signature cannot verify.                                   *)
ClaimedLog(smr) == [i \in 1..(smr.rev + 1) |-> smr]

(* Log roots offered with smr: a root the server signed (possibly with a    *)
(* signature altered in transit) or a forged one claiming smr.              *)
OfferedLogRoots(smr) ==
  [leaves : roots, sig : BOOLEAN] \cup {[leaves |-> ClaimedLog(smr), sig |-> FALSE]}

Responses ==
  UNION {[vrfOk : BOOLEAN,
          leaf : Leaves \cup {Garbage, NoProof},
          committed : Data \cup {None},
          smr : {s},
          logRoot : OfferedLogRoots(s)] : s \in OfferedSMRs}

-----------------------------------------------------------------------------
(* The checks of VerifyGetEntryResponse.                                   *)

(* commitments.Verify(userID, appID, e.Commitment, data, nonce): the leaf   *)
(* entry commits to data. A nil or empty entry has no commitment.           *)
CommitmentOK(leaf, data) == leaf \in Data /\ leaf = data

(* merkle.VerifyMapInclusionProof(mapID, index, leaf, smr.RootHash, ...). *)
SparseOK(u, leaf, smr) == leaf = smr.map[u]

(* logVerifier.VerifyRoot(trusted, newRoot, consistency): the signature    *)
(* verifies and, unless nothing is trusted yet, trusted is a prefix.        *)
VerifyRoot(tr, newRoot) ==
  /\ newRoot.sig
  /\ Len(tr) = 0 \/ Prefix(tr, newRoot.leaves)

(* Mutant: the log inclusion proof is not checked. *)
InclusionSkipped(root, smr) == TRUE

(* logVerifier.VerifyInclusionAtIndex(root, json(smr), smr.MapRevision). *)
InclusionOK(root, smr) ==
  /\ smr.rev < Len(root.leaves)
  /\ root.leaves[smr.rev + 1] = smr

(* VerifyGetEntryResponse: the checks in the code's order; the first that  *)
(* fails is returned. Its trusted argument is rebound to the new log root   *)
(* locally only (verify.go:135), so the result is all the caller sees.      *)
VerifyGetEntryResponse(u, tr, in) ==
  IF in.leaf = Garbage THEN "DecodeError"
  ELSE IF in.committed # None /\ ~CommitmentOK(in.leaf, in.committed)
       THEN "CommitmentMismatch"
  ELSE IF ~in.vrfOk THEN "VrfInvalid"
  ELSE IF in.leaf = NoProof THEN "NilProof"
  ELSE IF ~SparseOK(u, in.leaf, in.smr) THEN "SparseProofInvalid"
  ELSE IF ~in.smr.sig THEN "SmrSignatureInvalid"
  ELSE IF ~VerifyRoot(tr, in.logRoot) THEN "LogRootInvalid"
  ELSE IF ~InclusionOK(in.logRoot, in.smr) THEN "LogInclusionInvalid"
  ELSE "ok"

(* Mutant: GetEntry returns the leaf itself when Committed is absent. *)
GetEntryLeaf(u) ==
  \/ /\ ret' = Failed(u, "RpcError")
     /\ UNCHANGED <<roots, trusted, seen>>
  \/ \E in \in Responses :
       LET err == VerifyGetEntryResponse(u, trusted, in) IN
       /\ ret' = IF err = "ok"
                   THEN [user |-> u, err |-> "ok",
                         profile |-> IF in.committed = None THEN in.leaf ELSE in.committed,
                         smr |-> in.smr, root |-> in.logRoot.leaves]
                   ELSE Failed(u, err)
       /\ seen' = IF err = "ok" THEN seen \cup {in.logRoot.leaves} ELSE seen
       /\ trusted' = trusted
       /\ UNCHANGED roots

(* Client.GetEntry(userID): fetch, verify against c.trusted, and return the *)
(* committed data (nil when Committed is absent) with the SMR.              *)
GetEntry(u) ==
  \/ /\ ret' = Failed(u, "RpcError")
     /\ UNCHANGED <<roots, trusted, seen>>
  \/ \E in \in Responses :
       LET err == VerifyGetEntryResponse(u, trusted, in) IN
       /\ ret' = IF err = "ok"
                   THEN [user |-> u, err |-> "ok", profile |-> in.committed,
                         smr |-> in.smr, root |-> in.logRoot.leaves]
                   ELSE Failed(u, err)
       /\ seen' = IF err = "ok" THEN seen \cup {in.logRoot.leaves} ELSE seen
       /\ trusted' = trusted
       /\ UNCHANGED roots

-----------------------------------------------------------------------------
(* The server's log starts with the empty map root at revision 0           *)
(* (adminserver initialize); the client trusts the zero log root.           *)
Init ==
  /\ roots = {<<SMR0>>}
  /\ trusted = <<>>
  /\ ret = NoResult
  /\ seen = {}

Next ==
  \/ SequenceEpoch
  \/ \E u \in Users : GetEntry(u)

Spec == Init /\ [][Next]_vars

-----------------------------------------------------------------------------
(* Properties.                                                             *)

TypeOK ==
  /\ roots \subseteq Seq(SMRs) \ {<<>>}
  /\ trusted \in Seq(SMRs)
  /\ ret \in [user : Users \cup {None}, err : Errors,
              profile : Data \cup {None}, smr : SMRs \cup {None},
              root : Seq(SMRs)]
  /\ seen \subseteq roots

(* An SMR is logged when some signed log root holds it at the position of  *)
(* its revision.                                                            *)
Logged(s) == \E r \in roots : s.rev < Len(r) /\ r[s.rev + 1] = s

(* What GetEntry promises its caller: when it returns without error, the   *)
(* SMR carries a valid map signature, is publicly logged at its revision in *)
(* a log root signed by the log key, and the returned profile is the data   *)
(* that this SMR's map holds for the user looked up. It must hold against   *)
(* any network and a dishonest server (verify.go:75-150, grpcc GetEntry).   *)
ResultSound ==
  ret.err = "ok" /\ ret.user # None =>
    /\ ret.smr.sig
    /\ Logged(ret.smr)
    /\ ret.profile # None => ret.smr.map[ret.user] = ret.profile

(* A proof of absence: when GetEntry returns a nil profile without error,   *)
(* the user has no entry in the returned SMR (spec: the core surfaces the   *)
(* profile of a present entry; design note on omitted Committed data).      *)
AbsenceSound ==
  ret.err = "ok" /\ ret.user # None /\ ret.profile = None =>
    ret.smr.map[ret.user] = Empty

(* The client never accepts two log roots that fork: of any two roots it   *)
(* accepted, one extends the other (spec 8, "Forked log": the second call   *)
(* fails with LogConsistencyInvalid).                                        *)
ForkFree ==
  \A r1, r2 \in seen : Prefix(r1, r2) \/ Prefix(r2, r1)

=============================================================================
