---------------------------- MODULE KTUpdateProofs ----------------------------
(***************************************************************************)
(* Proof that every update request a client sends is authorized by the    *)
(* entry it replaces, for any number of writers, keys and retries.         *)
(*                                                                         *)
(* SerializeAndSign checks the signatures against the keys of the          *)
(* mutation's previous entry, and the dry-run Mutate checks that the new   *)
(* entry's prev hash names that entry.  AuthorizingKeys reads the keys    *)
(* back through the hash, so the two agree, except when the previous      *)
(* entry authorizes no key: verifyKeys then falls back to the new entry's *)
(* own keys.  The strengthening says this never happens: a previous entry *)
(* is always nil or the leaf some GetEntry or UpdateEntry returned, and  *)
(* every entry the sequencer applies passed Mutate, which refuses an      *)
(* entry without keys (the user's initial entry has InitKeys # {}).       *)
(***************************************************************************)
EXTENDS KTUpdate, SequenceTheorems, TLAPS

USE UpdateAssumption

(* An entry that is nil or authorizes some key. *)
Keyed(e) == e = None \/ e.keys # {}

(* The applied entries all authorize a key. *)
HistKeyed == \E T : hist \in Seq(T) /\ \A x \in T : x.keys # {}

(* Every writer's mutation is a [prevEntry, entry] record whose previous  *)
(* entry is keyed.                                                          *)
MutKeyed ==
  /\ DOMAIN mut = Writers
  /\ \A w \in Writers : DOMAIN mut[w] = {"prevEntry", "entry"} /\ Keyed(mut[w].prevEntry)

IInv == SubmittedAuthorized /\ HistKeyed /\ MutKeyed

-----------------------------------------------------------------------------
(* A mutation that SerializeAndSign accepts, on top of a keyed previous   *)
(* entry, is signed by a key of the entry its prev hash names.             *)
LEMMA AcceptedAuthorized ==
  ASSUME NEW m, Keyed(m.prevEntry), SerializeAndSignErr(m) = "ok"
  PROVE  m.entry.sigs \cap AuthorizingKeys(m.entry) # {}
<1> DEFINE P == m.prevEntry
           e == m.entry
<1>1. VerifyKeys(KeysOf(P), e.keys, e.sigs) /\ MutateErr(P, e) = "ok"
  BY DEF SerializeAndSignErr
<1>2. e.prev = HashOf(P)
  BY <1>1 DEF MutateErr
<1>3. CASE P = None
  <2>1. e.prev = NilHash /\ KeysOf(P) = {}
    BY <1>2, <1>3 DEF HashOf, KeysOf
  <2>2. QED
    BY <1>1, <2>1 DEF AuthorizingKeys, VerifyKeys
<1>4. CASE P # None
  <2>1. e.prev = Hash(P) /\ Hash(P) # NilHash
    BY <1>2, <1>4 DEF HashOf, Hash, NilHash
  <2>2. AuthorizingKeys(e) = P.keys
    BY <2>1 DEF AuthorizingKeys, Named, Hash
  <2>3. KeysOf(P) = P.keys /\ P.keys # {}
    BY <1>4 DEF KeysOf, Keyed
  <2>4. QED
    BY <1>1, <2>2, <2>3 DEF VerifyKeys
<1>5. QED
  BY <1>3, <1>4

(* The current leaf is nil or keyed. *)
LEMMA LeafKeyed ==
  ASSUME HistKeyed PROVE Keyed(Leaf)
<1>1. PICK T : hist \in Seq(T) /\ \A x \in T : x.keys # {}
  BY DEF HistKeyed
<1>2. CASE hist = <<>>
  BY <1>2 DEF Leaf, Keyed
<1>3. CASE hist # <<>>
  <2>1. Len(hist) \in 1..Len(hist)
    BY <1>1, <1>3, EmptySeq
  <2>2. Last(hist) \in T
    BY <1>1, <2>1 DEF Last
  <2>3. QED
    BY <1>1, <1>3, <2>2 DEF Leaf, Keyed
<1>4. QED
  BY <1>2, <1>3

(* sign only sets the signatures: the mutation keeps its shape and its    *)
(* previous entry.                                                          *)
LEMMA SignedShape ==
  ASSUME MutKeyed, NEW w \in Writers
  PROVE  /\ DOMAIN Signed(w) = {"prevEntry", "entry"}
         /\ Signed(w).prevEntry = mut[w].prevEntry
         /\ Keyed(Signed(w).prevEntry)
BY DEF MutKeyed, Signed, Sign

(* The mutation kt.NewMutation builds points at the leaf it was given. *)
LEMMA NewMutationShape ==
  ASSUME NEW w, NEW leaf, NEW ks
  PROVE  /\ DOMAIN KtNewMutation(w, leaf, ks) = {"prevEntry", "entry"}
         /\ KtNewMutation(w, leaf, ks).prevEntry = leaf
BY DEF KtNewMutation, ReplaceAuthorizedKeys, SetCommitment, SetPrevious, NewMutation

-----------------------------------------------------------------------------
(* The user starts with no entry or with E0, which authorizes InitKeys. *)
LEMMA InitInv == Init => IInv
<1> SUFFICES ASSUME Init PROVE IInv
  OBVIOUS
<1>1. HistKeyed
  <2>1. CASE hist = <<>>
    <3>1. hist \in Seq({}) /\ \A x \in {} : x.keys # {}
      BY <2>1
    <3>2. QED
      BY <3>1 DEF HistKeyed
  <2>2. CASE hist = <<E0>>
    <3>1. hist \in Seq({E0}) /\ \A x \in {E0} : x.keys # {}
      BY <2>2 DEF E0
    <3>2. QED
      BY <3>1 DEF HistKeyed
  <2>3. QED
    BY <2>1, <2>2 DEF Init
<1>2. MutKeyed
  BY DEF Init, MutKeyed, NewMutation, Keyed
<1>3. QED
  BY <1>1, <1>2 DEF Init, IInv, SubmittedAuthorized

(* The sequencer only appends an entry that Mutate accepted, hence keyed. *)
LEMMA SequenceInv ==
  ASSUME HistKeyed, Sequence PROVE HistKeyed'
<1>1. PICK T : hist \in Seq(T) /\ \A x \in T : x.keys # {}
  BY DEF HistKeyed
<1>2. CASE MutateErr(Leaf, Head(queue)) = "ok"
  <2> DEFINE h == Head(queue)
  <2>1. h.keys # {}
    BY <1>2 DEF MutateErr
  <2>2. hist \in Seq(T \cup {h})
    BY <1>1
  <2>3. Append(hist, h) \in Seq(T \cup {h})
    BY <2>2, AppendProperties
  <2>4. \A x \in T \cup {h} : x.keys # {}
    BY <1>1, <2>1
  <2>5. QED
    BY <1>2, <2>3, <2>4 DEF Sequence, HistKeyed
<1>3. CASE MutateErr(Leaf, Head(queue)) # "ok"
  BY <1>1, <1>3 DEF Sequence, HistKeyed
<1>4. QED
  BY <1>2, <1>3

(* Every step preserves the invariant. *)
LEMMA StepInv == IInv /\ [Next]_vars => IInv'
<1> SUFFICES ASSUME IInv, [Next]_vars PROVE IInv'
  OBVIOUS
<1> USE DEF IInv
<1>1. CASE UNCHANGED vars
  BY <1>1 DEF vars, SubmittedAuthorized, HistKeyed, MutKeyed, Keyed
<1>2. ASSUME NEW w \in Writers, UpdateGetEntry(w) PROVE IInv'
  <2>1. UNCHANGED <<hist, sent>>
    BY <1>2 DEF UpdateGetEntry
  <2>2. MutKeyed'
    <3>1. CASE UNCHANGED mut
      BY <3>1 DEF MutKeyed, Keyed
    <3>2. CASE \E ks \in SUBSET Keys \ {{}} :
                 mut' = [mut EXCEPT ![w] = KtNewMutation(w, Leaf, ks)]
      <4>1. PICK ks \in SUBSET Keys \ {{}} : mut' = [mut EXCEPT ![w] = KtNewMutation(w, Leaf, ks)]
        BY <3>2
      <4>2. Keyed(Leaf)
        BY LeafKeyed
      <4>3. /\ DOMAIN KtNewMutation(w, Leaf, ks) = {"prevEntry", "entry"}
            /\ KtNewMutation(w, Leaf, ks).prevEntry = Leaf
        BY NewMutationShape
      <4>4. QED
        BY <4>1, <4>2, <4>3 DEF MutKeyed
    <3>3. QED
      BY <1>2, <3>1, <3>2 DEF UpdateGetEntry, Finish
  <2>3. QED
    BY <2>1, <2>2 DEF SubmittedAuthorized, HistKeyed
<1>3. ASSUME NEW w \in Writers, RetrySignFail(w) PROVE IInv'
  <2>1. UNCHANGED <<hist, sent>> /\ mut' = [mut EXCEPT ![w] = Signed(w)]
    BY <1>3 DEF RetrySignFail
  <2>2. MutKeyed'
    BY <2>1, SignedShape DEF MutKeyed
  <2>3. QED
    BY <2>1, <2>2 DEF SubmittedAuthorized, HistKeyed
<1>4. ASSUME NEW w \in Writers, RetryRpcFail(w) PROVE IInv'
  <2>1. /\ UNCHANGED hist /\ mut' = [mut EXCEPT ![w] = Signed(w)]
        /\ sent' = sent \cup {Signed(w).entry}
        /\ SerializeAndSignErr(Signed(w)) = "ok"
    BY <1>4 DEF RetryRpcFail
  <2>2. MutKeyed'
    BY <2>1, SignedShape DEF MutKeyed
  <2>3. Signed(w).entry.sigs \cap AuthorizingKeys(Signed(w).entry) # {}
    BY <2>1, SignedShape, AcceptedAuthorized
  <2>4. QED
    BY <2>1, <2>2, <2>3 DEF SubmittedAuthorized, HistKeyed
<1>5. ASSUME NEW w \in Writers, RetryResponse(w) PROVE IInv'
  <2>1. /\ UNCHANGED hist
        /\ mut' = [mut EXCEPT ![w] = SetPrevious(Signed(w), Leaf, FALSE)]
        /\ sent' = sent \cup {Signed(w).entry}
        /\ SerializeAndSignErr(Signed(w)) = "ok"
    BY <1>5 DEF RetryResponse
  <2>2. MutKeyed'
    <3>1. Keyed(Leaf)
      BY LeafKeyed
    <3>2. /\ DOMAIN SetPrevious(Signed(w), Leaf, FALSE) = {"prevEntry", "entry"}
          /\ SetPrevious(Signed(w), Leaf, FALSE).prevEntry = Leaf
      BY DEF SetPrevious
    <3>3. QED
      BY <2>1, <3>1, <3>2 DEF MutKeyed
  <2>3. Signed(w).entry.sigs \cap AuthorizingKeys(Signed(w).entry) # {}
    BY <2>1, SignedShape, AcceptedAuthorized
  <2>4. QED
    BY <2>1, <2>2, <2>3 DEF SubmittedAuthorized, HistKeyed
<1>6. CASE Sequence
  BY <1>6, SequenceInv DEF Sequence, SubmittedAuthorized, MutKeyed
<1>7. QED
  BY <1>1, <1>2, <1>3, <1>4, <1>5, <1>6 DEF Next

(* Key rotation is safe: every UpdateEntryRequest a writer sends, first    *)
(* try or retry after its back pointer moved, carries a signature by a key *)
(* the entry it replaces authorized (SerializeAndSign, Retry).             *)
THEOREM UpdateSubmittedAuthorized == Spec => []SubmittedAuthorized
<1>1. Spec => []IInv
  BY InitInv, StepInv, PTL DEF Spec
<1>2. QED
  BY <1>1, PTL DEF IInv

-----------------------------------------------------------------------------
(* Types, and what a successful Update has established.                     *)
(*                                                                         *)
(* SuccessApplied is not inductive alone.  Retry returns nil when the leaf *)
(* UpdateEntry proves equals the requested entry; that leaf is the last    *)
(* applied entry, so what must be known is that the request still commits  *)
(* to the writer's own data (RetryCommit), that a running writer has not   *)
(* returned yet (Pending), and that the queue and the history only hold   *)
(* entries of the model's types.                                            *)

MutFields == {"prevEntry", "entry"}
EntryFields == {"prev", "keys", "commit", "sigs"}

(* Each writer's requested entry has the four fields of an Entry. *)
EntryShape == \A w \in Writers : DOMAIN mut[w].entry = EntryFields

(* The applied entries and the queued requests commit to known data. *)
HistTyped == \E T : hist \in Seq(T) /\ \A x \in T : x.commit \in Commits
QueueTyped == \E T : queue \in Seq(T) /\ \A x \in T : x.commit \in Commits

(* A writer in Retry requests an entry that commits to its own data. *)
RetryCommit == \A w \in Writers : pc[w] = "retry" => mut[w].entry.commit = w

(* Update has not returned while it runs. *)
Pending == \A w \in Writers : pc[w] # "done" => res[w] = None

TInv == /\ TypeOK /\ EntryShape /\ HistTyped /\ QueueTyped
        /\ RetryCommit /\ Pending /\ SuccessApplied

(* sign replaces the signatures and nothing else. *)
LEMMA SignFields ==
  ASSUME NEW m, NEW sg, DOMAIN m = MutFields, DOMAIN m.entry = EntryFields
  PROVE  /\ DOMAIN Sign(m, sg) = MutFields
         /\ DOMAIN Sign(m, sg).entry = EntryFields
         /\ Sign(m, sg).prevEntry = m.prevEntry
         /\ Sign(m, sg).entry.keys = m.entry.keys
         /\ Sign(m, sg).entry.commit = m.entry.commit
         /\ Sign(m, sg).entry.sigs = sg
BY DEF Sign, MutFields, EntryFields

(* SetPrevious(old, false) moves the back pointer and keeps the keys,    *)
(* the commitment and the signatures.                                      *)
LEMMA SetPreviousFields ==
  ASSUME NEW m, NEW old, DOMAIN m = MutFields, DOMAIN m.entry = EntryFields
  PROVE  /\ DOMAIN SetPrevious(m, old, FALSE) = MutFields
         /\ DOMAIN SetPrevious(m, old, FALSE).entry = EntryFields
         /\ SetPrevious(m, old, FALSE).prevEntry = old
         /\ SetPrevious(m, old, FALSE).entry.keys = m.entry.keys
         /\ SetPrevious(m, old, FALSE).entry.commit = m.entry.commit
         /\ SetPrevious(m, old, FALSE).entry.sigs = m.entry.sigs
BY DEF SetPrevious, MutFields, EntryFields

(* kt.NewMutation requests the caller's keys and data, unsigned. *)
LEMMA NewMutationFields ==
  ASSUME NEW w, NEW leaf, NEW ks
  PROVE  /\ DOMAIN KtNewMutation(w, leaf, ks) = MutFields
         /\ DOMAIN KtNewMutation(w, leaf, ks).entry = EntryFields
         /\ KtNewMutation(w, leaf, ks).entry.keys = ks
         /\ KtNewMutation(w, leaf, ks).entry.commit = w
         /\ KtNewMutation(w, leaf, ks).entry.sigs = {}
BY DEF KtNewMutation, ReplaceAuthorizedKeys, SetCommitment, SetPrevious, NewMutation,
       MutFields, EntryFields

(* Appending keeps a sequence's elements where they were. *)
LEMMA AppendKeeps ==
  ASSUME NEW T, NEW sq \in Seq(T), NEW x
  PROVE  /\ Append(sq, x) \in Seq(T \cup {x})
         /\ \A i \in DOMAIN sq : i \in DOMAIN Append(sq, x) /\ Append(sq, x)[i] = sq[i]
         /\ Len(Append(sq, x)) \in DOMAIN Append(sq, x)
         /\ Append(sq, x)[Len(Append(sq, x))] = x
<1>1. sq \in Seq(T \cup {x})
  OBVIOUS
<1>2. QED
  BY <1>1, AppendProperties

LEMMA TInit == Init => TInv
<1> SUFFICES ASSUME Init PROVE TInv
  OBVIOUS
<1>1. HistTyped
  <2>1. CASE hist = <<>>
    <3>1. hist \in Seq({}) /\ \A x \in {} : x.commit \in Commits
      BY <2>1
    <3>2. QED
      BY <3>1 DEF HistTyped
  <2>2. CASE hist = <<E0>>
    <3>1. hist \in Seq({E0}) /\ \A x \in {E0} : x.commit \in Commits
      BY <2>2 DEF E0, Commits
    <3>2. QED
      BY <3>1 DEF HistTyped
  <2>3. QED
    BY <2>1, <2>2 DEF Init
<1>2. QueueTyped
  <2>1. queue \in Seq({}) /\ \A x \in {} : x.commit \in Commits
    BY DEF Init
  <2>2. QED
    BY <2>1 DEF QueueTyped
<1>3. TypeOK
  <2>1. \A i \in DOMAIN hist : hist[i].commit \in Commits
    BY DEF Init, E0, Commits
  <2>2. QED
    BY <2>1 DEF Init, TypeOK, NewMutation, Commits, Results
<1>4. QED
  BY <1>1, <1>2, <1>3 DEF Init, TInv, EntryShape, NewMutation, EntryFields, RetryCommit,
                         Pending, SuccessApplied

(* UpdateEntry queues at most the request, which commits to known data. *)
LEMMA ServerQueueTyped ==
  ASSUME QueueTyped, NEW e, e.commit \in Commits
  PROVE  \E T : ServerQueue(e) \in Seq(T) /\ \A x \in T : x.commit \in Commits
<1>1. PICK T : queue \in Seq(T) /\ \A x \in T : x.commit \in Commits
  BY DEF QueueTyped
<1>2. queue \in Seq(T \cup {e}) /\ Append(queue, e) \in Seq(T \cup {e})
  BY <1>1, AppendKeeps
<1>3. ServerQueue(e) \in Seq(T \cup {e}) /\ \A x \in T \cup {e} : x.commit \in Commits
  BY <1>1, <1>2 DEF ServerQueue
<1>4. QED
  BY <1>3

(* The facts about writer w that the steps of w rely on. *)
LEMMA WriterFacts ==
  ASSUME TInv, IInv, NEW w \in Writers
  PROVE  /\ DOMAIN mut = Writers
         /\ DOMAIN mut[w] = MutFields /\ DOMAIN mut[w].entry = EntryFields
         /\ mut[w].entry.keys \subseteq Keys /\ mut[w].entry.commit \in Commits
         /\ Signers[w] \subseteq Keys
BY DEF TInv, IInv, MutKeyed, MutFields, EntryShape, TypeOK

(* Finish returns err from w's Update and touches nothing else of w. *)
LEMMA FinishFacts ==
  ASSUME TInv, NEW w \in Writers, NEW err \in Results \ {"ok"}, Finish(w, err)
  PROVE  /\ pc' \in [Writers -> {"get", "retry", "done"}] /\ res' \in [Writers -> Results]
         /\ \A v \in Writers : pc'[v] # "done" => pc'[v] = pc[v] /\ res'[v] = res[v]
         /\ \A v \in Writers : res'[v] = "ok" => res[v] = "ok"
BY DEF Finish, TInv, TypeOK

(* The typing of the queue and of the history survives a step that leaves *)
(* them alone.                                                              *)
LEMMA QueueUnchanged ==
  ASSUME QueueTyped, UNCHANGED queue PROVE QueueTyped'
<1>1. PICK T : queue \in Seq(T) /\ \A x \in T : x.commit \in Commits
  BY DEF QueueTyped
<1>2. queue' \in Seq(T)
  BY <1>1
<1>3. QED
  BY <1>1, <1>2 DEF QueueTyped

LEMMA HistUnchanged ==
  ASSUME HistTyped, UNCHANGED hist PROVE HistTyped'
<1>1. PICK T : hist \in Seq(T) /\ \A x \in T : x.commit \in Commits
  BY DEF HistTyped
<1>2. hist' \in Seq(T)
  BY <1>1
<1>3. QED
  BY <1>1, <1>2 DEF HistTyped

(* A step that ends w's Update with an error, leaves the history and the  *)
(* counters alone, and gives w a mutation of the right shape and types,     *)
(* preserves TInv.                                                          *)
LEMMA FinishStep ==
  ASSUME TInv, NEW w \in Writers, NEW err \in Results \ {"ok"},
         Finish(w, err), UNCHANGED <<hist, tries>>, QueueTyped',
         \A v \in Writers \ {w} : mut'[v] = mut[v],
         DOMAIN mut'[w].entry = EntryFields, mut'[w].entry.keys \subseteq Keys,
         mut'[w].entry.commit \in Commits, mut'[w].entry.sigs \subseteq Keys
  PROVE  TInv'
<1>1. /\ \A v \in Writers \ {w} : pc'[v] = pc[v] /\ res'[v] = res[v]
      /\ pc'[w] = "done" /\ res'[w] = err
      /\ pc' \in [Writers -> {"get", "retry", "done"}] /\ res' \in [Writers -> Results]
  BY DEF Finish, TInv, TypeOK
<1>2. TypeOK'
  BY <1>1 DEF TInv, TypeOK
<1>3. EntryShape' /\ RetryCommit' /\ Pending'
  BY <1>1 DEF TInv, EntryShape, RetryCommit, Pending
<1>4. HistTyped'
  BY HistUnchanged DEF TInv
<1>5. SuccessApplied'
  <2> SUFFICES ASSUME NEW v \in Writers, res'[v] = "ok"
               PROVE  \E i \in DOMAIN hist' : hist'[i].commit = v /\ hist'[i].keys = mut'[v].entry.keys
    BY DEF SuccessApplied
  <2>1. v # w /\ res[v] = "ok" /\ mut'[v] = mut[v]
    BY <1>1
  <2>2. QED
    BY <2>1 DEF TInv, SuccessApplied
<1>6. QED
  BY <1>2, <1>3, <1>4, <1>5 DEF TInv

LEMMA TStep == TInv /\ IInv /\ [Next]_vars => TInv'
<1> SUFFICES ASSUME TInv, IInv, [Next]_vars PROVE TInv'
  OBVIOUS
<1> USE DEF TInv
<1>0. /\ DOMAIN mut = Writers
      /\ \A v \in Writers :
           /\ DOMAIN mut[v] = MutFields /\ DOMAIN mut[v].entry = EntryFields
           /\ mut[v].entry.keys \subseteq Keys /\ mut[v].entry.commit \in Commits
           /\ mut[v].entry.sigs \subseteq Keys
           /\ Signers[v] \subseteq Keys
  BY UpdateAssumption DEF IInv, MutKeyed, MutFields, EntryShape, TypeOK
<1>1. CASE UNCHANGED vars
  BY <1>1 DEF vars, TypeOK, EntryShape, HistTyped, QueueTyped, RetryCommit, Pending,
              SuccessApplied
<1>2. ASSUME NEW w \in Writers, UpdateGetEntry(w) PROVE TInv'
  <2>1. UNCHANGED <<hist, queue, tries, sent>> /\ pc[w] = "get"
    BY <1>2 DEF UpdateGetEntry
  <2>2. CASE \E err \in {"GetEntryError", "MissingKey"} : Finish(w, err) /\ UNCHANGED mut
    <3>1. PICK err \in {"GetEntryError", "MissingKey"} : Finish(w, err) /\ UNCHANGED mut
      BY <2>2
    <3>2. err \in Results \ {"ok"}
      BY DEF Results
    <3>3. QueueTyped'
      BY <2>1, QueueUnchanged
    <3>4. DOMAIN mut[w].entry = EntryFields /\ mut[w].entry.sigs \subseteq Keys
      BY <1>0 DEF TypeOK
    <3>5. QED
      BY <2>1, <3>1, <3>2, <3>3, <3>4, <1>0, FinishStep
  <2>3. CASE \E ks \in SUBSET Keys \ {{}} :
               /\ mut' = [mut EXCEPT ![w] = KtNewMutation(w, Leaf, ks)]
               /\ pc' = [pc EXCEPT ![w] = "retry"]
               /\ UNCHANGED res
    <3>1. PICK ks \in SUBSET Keys \ {{}} :
               /\ mut' = [mut EXCEPT ![w] = KtNewMutation(w, Leaf, ks)]
               /\ pc' = [pc EXCEPT ![w] = "retry"]
               /\ UNCHANGED res
      BY <2>3
    <3>2. /\ DOMAIN mut = Writers
          /\ DOMAIN mut'[w].entry = EntryFields
          /\ mut'[w].entry.keys = ks /\ mut'[w].entry.commit = w /\ mut'[w].entry.sigs = {}
          /\ \A v \in Writers \ {w} : mut'[v] = mut[v]
      BY <3>1, NewMutationFields, <1>0
    <3>3. res[w] = None /\ None # "ok"
      BY <2>1, UpdateAssumption DEF Pending
    <3>4. TypeOK'
      BY <2>1, <3>1, <3>2 DEF TypeOK, Commits
    <3>5. QED
      BY <2>1, <3>1, <3>2, <3>3, <3>4 DEF EntryShape, HistTyped, QueueTyped, RetryCommit,
                                         Pending, SuccessApplied
  <2>4. QED
    BY <1>2, <2>2, <2>3 DEF UpdateGetEntry
<1>3. ASSUME NEW w \in Writers, RetrySignFail(w) PROVE TInv'
  <2>1. /\ UNCHANGED <<hist, queue, tries, sent>> /\ pc[w] = "retry"
        /\ mut' = [mut EXCEPT ![w] = Signed(w)] /\ Finish(w, "SerializeAndSign")
    BY <1>3 DEF RetrySignFail
  <2>2. /\ DOMAIN mut = Writers
        /\ DOMAIN mut'[w].entry = EntryFields
        /\ mut'[w].entry.keys \subseteq Keys /\ mut'[w].entry.commit \in Commits
        /\ mut'[w].entry.sigs \subseteq Keys
        /\ \A v \in Writers \ {w} : mut'[v] = mut[v]
    BY <2>1, <1>0, SignFields DEF Signed
  <2>3. "SerializeAndSign" \in Results \ {"ok"}
    BY DEF Results
  <2>4. QED
    BY <2>1, <2>2, <2>3, FinishStep DEF QueueTyped
<1>4. ASSUME NEW w \in Writers, RetryRpcFail(w) PROVE TInv'
  <2>1. /\ UNCHANGED <<hist, tries>> /\ pc[w] = "retry"
        /\ mut' = [mut EXCEPT ![w] = Signed(w)] /\ Finish(w, "UpdateEntryError")
        /\ queue' \in {queue, ServerQueue(Signed(w).entry)}
    BY <1>4 DEF RetryRpcFail
  <2>2. /\ DOMAIN mut = Writers
        /\ DOMAIN mut'[w].entry = EntryFields
        /\ mut'[w].entry.keys \subseteq Keys /\ mut'[w].entry.commit \in Commits
        /\ mut'[w].entry.sigs \subseteq Keys
        /\ \A v \in Writers \ {w} : mut'[v] = mut[v]
        /\ Signed(w).entry.commit \in Commits
    BY <2>1, <1>0, SignFields DEF Signed
  <2>3. QueueTyped'
    BY <2>1, <2>2, ServerQueueTyped DEF QueueTyped
  <2>4. "UpdateEntryError" \in Results \ {"ok"}
    BY DEF Results
  <2>5. QED
    BY <2>1, <2>2, <2>3, <2>4, FinishStep
<1>5. ASSUME NEW w \in Writers, RetryResponse(w) PROVE TInv'
  <2> DEFINE m == Signed(w)
             equal == EqualsRequested(m, Leaf)
  <2>1. /\ UNCHANGED hist /\ pc[w] = "retry"
        /\ mut' = [mut EXCEPT ![w] = SetPrevious(m, Leaf, FALSE)]
        /\ queue' = ServerQueue(m.entry)
        /\ UpdateLoop(w, equal)
    BY <1>5 DEF RetryResponse
  <2>2. /\ DOMAIN mut = Writers
        /\ DOMAIN mut'[w].entry = EntryFields
        /\ mut'[w].entry.keys = m.entry.keys /\ m.entry.keys \subseteq Keys
        /\ mut'[w].entry.commit = w /\ m.entry.commit = w
        /\ mut'[w].entry.sigs \subseteq Keys
        /\ \A v \in Writers \ {w} : mut'[v] = mut[v]
    <3>1. /\ DOMAIN m = MutFields /\ DOMAIN m.entry = EntryFields
          /\ m.entry.keys = mut[w].entry.keys /\ m.entry.commit = mut[w].entry.commit
          /\ m.entry.sigs = Signers[w]
      BY <1>0, SignFields DEF Signed
    <3>2. mut[w].entry.commit = w
      BY <2>1 DEF RetryCommit
    <3>3. /\ mut'[w] = SetPrevious(m, Leaf, FALSE)
          /\ \A v \in Writers \ {w} : mut'[v] = mut[v]
      BY <2>1, <1>0
    <3>4. /\ DOMAIN SetPrevious(m, Leaf, FALSE).entry = EntryFields
          /\ SetPrevious(m, Leaf, FALSE).entry.keys = m.entry.keys
          /\ SetPrevious(m, Leaf, FALSE).entry.commit = m.entry.commit
          /\ SetPrevious(m, Leaf, FALSE).entry.sigs = m.entry.sigs
      BY <3>1, SetPreviousFields
    <3>5. QED
      BY <3>1, <3>2, <3>3, <3>4, <1>0
  <2>3. QueueTyped'
    BY <2>1, <2>2, ServerQueueTyped DEF QueueTyped, Commits
  <2>4. res[w] = None
    BY <2>1 DEF Pending
  <2>5. CASE equal /\ Finish(w, "ok") /\ UNCHANGED tries
    <3>1. Leaf # None /\ Leaf = m.entry
      BY <2>5 DEF EqualsRequested
    <3>2. PICK T : hist \in Seq(T) /\ \A x \in T : x.commit \in Commits
      BY DEF HistTyped
    <3>3. hist # <<>> /\ Leaf = hist[Len(hist)]
      BY <3>1 DEF Leaf, Last
    <3>4. Len(hist) \in DOMAIN hist
      BY <3>2, <3>3, EmptySeq
    <3>5. SuccessApplied'
      <4>1. hist'[Len(hist)].commit = w /\ hist'[Len(hist)].keys = mut'[w].entry.keys
        BY <2>1, <2>2, <3>1, <3>3
      <4>2. \A v \in Writers \ {w} : res'[v] = res[v]
        BY <2>5 DEF Finish, TypeOK
      <4> SUFFICES ASSUME NEW v \in Writers, res'[v] = "ok"
                   PROVE  \E i \in DOMAIN hist' : hist'[i].commit = v
                                                  /\ hist'[i].keys = mut'[v].entry.keys
        BY DEF SuccessApplied
      <4>3. CASE v = w
        BY <2>1, <3>4, <4>1, <4>3
      <4>4. CASE v # w
        <5>1. res[v] = "ok" /\ mut'[v] = mut[v]
          BY <2>2, <4>2, <4>4
        <5>2. PICK i \in DOMAIN hist : hist[i].commit = v /\ hist[i].keys = mut[v].entry.keys
          BY <5>1 DEF SuccessApplied
        <5>3. QED
          BY <2>1, <5>1, <5>2
      <4>5. QED
        BY <4>3, <4>4
    <3>6. QED
      BY <2>1, <2>2, <2>3, <2>5, <3>5 DEF Finish, TypeOK, Results, EntryShape, HistTyped,
                                         RetryCommit, Pending
  <2>6. CASE ~equal /\ tries[w] < RetryCount /\ tries' = [tries EXCEPT ![w] = @ + 1]
             /\ UNCHANGED <<pc, res>>
    <3>1. tries' \in [Writers -> 0..RetryCount]
      BY <2>6, UpdateAssumption DEF TypeOK
    <3>2. \A v \in Writers : mut'[v].entry.keys \subseteq Keys /\ mut'[v].entry.sigs \subseteq Keys
                             /\ mut'[v].entry.commit \in Commits
                             /\ DOMAIN mut'[v].entry = EntryFields
      BY <2>2, <1>0 DEF Commits
    <3>3. TypeOK'
      BY <2>1, <2>6, <3>1, <3>2 DEF TypeOK
    <3>4. EntryShape' /\ RetryCommit' /\ Pending'
      BY <2>1, <2>2, <2>6, <3>2 DEF EntryShape, RetryCommit, Pending
    <3>5. HistTyped'
      BY <2>1, HistUnchanged
    <3>6. SuccessApplied'
      <4> SUFFICES ASSUME NEW v \in Writers, res'[v] = "ok"
                   PROVE  \E i \in DOMAIN hist' : hist'[i].commit = v
                                                  /\ hist'[i].keys = mut'[v].entry.keys
        BY DEF SuccessApplied
      <4>1. v # w
        BY <2>4, <2>6, UpdateAssumption
      <4>2. res[v] = "ok" /\ mut'[v] = mut[v]
        BY <2>2, <2>6, <4>1
      <4>3. PICK i \in DOMAIN hist : hist[i].commit = v /\ hist[i].keys = mut[v].entry.keys
        BY <4>2 DEF SuccessApplied
      <4>4. QED
        BY <2>1, <4>2, <4>3
    <3>7. QED
      BY <2>3, <3>3, <3>4, <3>5, <3>6
  <2>7. CASE ~equal /\ Finish(w, "ErrRetry") /\ UNCHANGED tries
    <3>1. "ErrRetry" \in Results \ {"ok"}
      BY DEF Results
    <3>2. UNCHANGED <<hist, tries>> /\ Finish(w, "ErrRetry")
      BY <2>1, <2>7
    <3>3. /\ DOMAIN mut'[w].entry = EntryFields /\ mut'[w].entry.keys \subseteq Keys
          /\ mut'[w].entry.commit \in Commits /\ mut'[w].entry.sigs \subseteq Keys
          /\ \A v \in Writers \ {w} : mut'[v] = mut[v]
      BY <2>2 DEF Commits
    <3>4. QED
      BY <2>3, <3>1, <3>2, <3>3, FinishStep
  <2>8. QED
    BY <2>1, <2>5, <2>6, <2>7 DEF UpdateLoop
<1>6. CASE Sequence
  <2>1. PICK Q : queue \in Seq(Q) /\ \A x \in Q : x.commit \in Commits
    BY DEF QueueTyped
  <2>2. PICK T : hist \in Seq(T) /\ \A x \in T : x.commit \in Commits
    BY DEF HistTyped
  <2>3. /\ queue # <<>> /\ UNCHANGED <<pc, mut, tries, res, sent>>
        /\ hist' \in {hist, Append(hist, Head(queue))} /\ queue' = Tail(queue)
    BY <1>6 DEF Sequence
  <2>4. Head(queue) \in Q /\ Tail(queue) \in Seq(Q)
    BY <2>1, <2>3, HeadTailProperties
  <2>5. QueueTyped'
    BY <2>1, <2>3, <2>4 DEF QueueTyped
  <2>6. /\ hist' \in Seq(T \cup {Head(queue)})
        /\ \A i \in DOMAIN hist : i \in DOMAIN hist' /\ hist'[i] = hist[i]
    <3> DEFINE h == Head(queue)
    <3>1. hist \in Seq(T \cup {h})
      BY <2>2
    <3>2. CASE hist' = hist
      BY <3>1, <3>2
    <3>3. CASE hist' = Append(hist, h)
      BY <2>2, <3>3, AppendKeeps
    <3>4. QED
      BY <2>3, <3>2, <3>3
  <2>7. \A x \in T \cup {Head(queue)} : x.commit \in Commits
    BY <2>1, <2>2, <2>4
  <2>8. HistTyped'
    BY <2>6, <2>7 DEF HistTyped
  <2>9. \A i \in DOMAIN hist' : hist'[i].commit \in Commits
    BY <2>6, <2>7
  <2>10. SuccessApplied'
    <3> SUFFICES ASSUME NEW v \in Writers, res'[v] = "ok"
                 PROVE  \E i \in DOMAIN hist' : hist'[i].commit = v
                                                /\ hist'[i].keys = mut'[v].entry.keys
      BY DEF SuccessApplied
    <3>1. PICK i \in DOMAIN hist : hist[i].commit = v /\ hist[i].keys = mut[v].entry.keys
      BY <2>3 DEF SuccessApplied
    <3>2. QED
      BY <2>3, <2>6, <3>1
  <2>11. TypeOK' /\ EntryShape' /\ RetryCommit' /\ Pending'
    BY <2>3, <2>9 DEF TypeOK, EntryShape, RetryCommit, Pending
  <2>12. QED
    BY <2>5, <2>8, <2>10, <2>11
<1>7. QED
  BY <1>1, <1>2, <1>3, <1>4, <1>5, <1>6 DEF Next

(* TInv holds in every reachable state.  IInv is carried along: TStep     *)
(* takes the shape of each writer's mutation (MutKeyed) from it.           *)
LEMMA SpecTInv == Spec => [](TInv /\ IInv)
<1>1. Init => TInv /\ IInv
  BY TInit, InitInv
<1>2. TInv /\ IInv /\ [Next]_vars => (TInv /\ IInv)'
  BY TStep, StepInv
<1>3. QED
  BY <1>1, <1>2, PTL DEF Spec

(* Type correctness of Update: the phase, retry counter and result of      *)
(* every writer, the keys, signatures and commitment of the mutation it    *)
(* builds (NewMutation, SerializeAndSign, SetPrevious), and the commitment *)
(* of every entry the server applies stay in their sets.                  *)
THEOREM UpdateTypeCorrect == Spec => []TypeOK
BY SpecTInv, PTL DEF TInv

(* Update returns nil only after the change landed: when Retry sees that   *)
(* the leaf UpdateEntry returns equals the requested entry, an applied     *)
(* entry committing to this writer's data carries exactly the keys the     *)
(* writer asked for.                                                       *)
THEOREM UpdateSuccessApplied == Spec => []SuccessApplied
BY SpecTInv, PTL DEF TInv
=============================================================================
