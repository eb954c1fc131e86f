------------------------------ MODULE KTUpdate ------------------------------
(***************************************************************************)
(* Updating one user's entry: the mutation builder                         *)
(* (core/mutator/entry/mutation.go) driven by the client's update loop     *)
(* (core/client/grpcc, Client.Update and Client.Retry), for several        *)
(* writers that update the same entry concurrently, against an honest key  *)
(* server that checks each request (UpdateEntry) and a sequencer that      *)
(* later applies the queued mutations in order.                            *)
(*                                                                         *)
(* An entry is a record: the object hash of the entry it replaces (prev),  *)
(* its authorized keys, its commitment and the keys that signed it. The    *)
(* object hash is injective, so it is modelled as a tagged copy of the     *)
(* hashed entry, and nilHash is the hash of nil. SetCommitment draws a     *)
(* fresh nonce, so the commitment of writer w's update is w itself.         *)
(* Signatures are the set of keys that signed: sign always signs the entry *)
(* as it is at that moment.                                                 *)
(***************************************************************************)
EXTENDS Naturals, Sequences, FiniteSets

CONSTANTS
  Writers,     \* clients updating the same user's entry, one Update each
  Keys,        \* signing keys
  InitKeys,    \* authorized keys of the entry the user has at start
  Signers,     \* Signers[w]: the keys writer w signs with
  RetryCount,  \* Client.RetryCount
  None         \* nil: no previous entry, no leaf, no commitment

ASSUME UpdateAssumption ==
  /\ IsFiniteSet(Writers) /\ Writers # {}
  /\ InitKeys \subseteq Keys /\ InitKeys # {}
  /\ Signers \in [Writers -> SUBSET Keys]
  /\ RetryCount \in Nat
  /\ None # "ok"   \* a running Update (None) has not returned nil ("ok")

(* objecthash.ObjectHash of an entry; the nil entry hashes to nilHash. *)
Hash(e) == [objecthash |-> e]
NilHash == Hash(None)
HashOf(e) == IF e = None THEN NilHash ELSE Hash(e)

(* GetAuthorizedKeys and GetCommitment of a possibly nil entry. *)
KeysOf(e) == IF e = None THEN {} ELSE e.keys
CommitOf(e) == IF e = None THEN None ELSE e.commit

(* The entry the user already has when the run starts. *)
E0 == [prev |-> NilHash, keys |-> InitKeys, commit |-> "c0", sigs |-> InitKeys]

VARIABLES
  hist,   \* server: the user's entries in the order the sequencer applied them
  queue,  \* server: mutations accepted by UpdateEntry, not yet sequenced
  pc,     \* pc[w]: where writer w's Update is: "get", "retry" or "done"
  mut,    \* mut[w]: w's Mutation, [prevEntry, entry]
  tries,  \* tries[w]: the retry loop's counter i
  res,    \* res[w]: the error Update returned (None while running, "ok": nil)
  sent    \* history: every UpdateEntryRequest's entry a writer sent

vars == <<hist, queue, pc, mut, tries, res, sent>>

Last(s) == s[Len(s)]

(* The user's current leaf: nil before the first entry. *)
Leaf == IF hist = <<>> THEN None ELSE Last(hist)

-----------------------------------------------------------------------------
(* Server-side checks.                                                      *)

(* verifyKeys: at least one signature by a key of the previous entry's     *)
(* authorized set; when there is none (a first entry), of the new set.      *)
VerifyKeys(prevKeys, newKeys, sigs) ==
  sigs \cap (IF prevKeys = {} THEN newKeys ELSE prevKeys) # {}

(* entry.Mutate(old, new): the previous hash must name old (a request      *)
(* equal to old is a replay), the signatures must be authorized by old,     *)
(* and the new entry must authorize a key.                                  *)
MutateErr(old, new) ==
  IF new.prev # HashOf(old)
    THEN IF old # None /\ old = new THEN "Replay" ELSE "PreviousHashMismatch"
  ELSE IF ~VerifyKeys(KeysOf(old), new.keys, new.sigs) THEN "UnauthorizedSignature"
  ELSE IF new.keys = {} THEN "MissingKey"
  ELSE "ok"

-----------------------------------------------------------------------------
(* The mutation builder.                                                    *)

(* NewMutation: the next entry points at the nil entry. *)
NewMutation ==
  [prevEntry |-> None,
   entry |-> [prev |-> NilHash, keys |-> {}, commit |-> None, sigs |-> {}]]

(* SetPrevious(oldValue, copyPrevious): remember the old entry, point at   *)
(* its hash and, when asked, copy its authorized keys and commitment.       *)
SetPrevious(m, old, copyPrevious) ==
  [prevEntry |-> old,
   entry |-> [m.entry EXCEPT
                !.prev = HashOf(old),
                !.keys = IF copyPrevious THEN KeysOf(old) ELSE @,
                !.commit = IF copyPrevious THEN CommitOf(old) ELSE @]]

(* SetCommitment(data): a commitment under a fresh nonce. *)
SetCommitment(m, c) == [m EXCEPT !.entry.commit = c]

(* ReplaceAuthorizedKeys(pubkeys), for a non-empty pubkeys. *)
ReplaceAuthorizedKeys(m, ks) == [m EXCEPT !.entry.keys = ks]

(* sign: clear the signatures, then sign the entry with every signer. *)
Sign(m, signers) == [m EXCEPT !.entry.sigs = signers]

(* Mutant: SerializeAndSign without its authorization checks. *)
SerializeAndSignUnchecked(m) == "ok"

(* SerializeAndSign, after sign: the authorization check against the       *)
(* previous entry's keys, then the dry-run Mutate.                          *)
SerializeAndSignErr(m) ==
  IF ~VerifyKeys(KeysOf(m.prevEntry), m.entry.keys, m.entry.sigs) THEN "Unauthorized"
  ELSE IF MutateErr(m.prevEntry, m.entry) \notin {"ok"} THEN "PresignCheck"
  ELSE "ok"

(* Mutant: the response is compared with the previous entry instead. *)
EqualsPrevious(m, leaf) == leaf = m.prevEntry

(* EqualsRequested: proto.Equal(leafValue, m.entry).  m.entry is never   *)
(* nil, so a nil leaf (no entry yet) is never equal to it.                  *)
EqualsRequested(m, leaf) == leaf # None /\ leaf = m.entry

(* kt.NewMutation: a new mutation on top of the current leaf, copying it,  *)
(* then committing to the writer's data and setting its keys.              *)
KtNewMutation(w, leaf, ks) ==
  ReplaceAuthorizedKeys(SetCommitment(SetPrevious(NewMutation, leaf, TRUE), w), ks)
-----------------------------------------------------------------------------
(* The client's update loop.                                                *)

Finish(w, err) ==
  /\ pc' = [pc EXCEPT ![w] = "done"]
  /\ res' = [res EXCEPT ![w] = err]

(* Update, up to the first Retry: GetEntry, then kt.NewMutation on the     *)
(* leaf it returned, with the caller's authorizedKeys ks. An RPC failure   *)
(* or an empty key set ends the update.                                     *)
UpdateGetEntry(w) ==
  /\ pc[w] = "get"
  /\ \/ /\ Finish(w, "GetEntryError")
        /\ UNCHANGED mut
     \/ /\ Finish(w, "MissingKey")
        /\ UNCHANGED mut
     \/ \E ks \in SUBSET Keys \ {{}} :
          /\ mut' = [mut EXCEPT ![w] = KtNewMutation(w, Leaf, ks)]
          /\ pc' = [pc EXCEPT ![w] = "retry"]
          /\ UNCHANGED res
  /\ UNCHANGED <<hist, queue, tries, sent>>

(* w's mutation as sign leaves it at the start of Retry. *)
Signed(w) == Sign(mut[w], Signers[w])

(* Retry fails in SerializeAndSign; m.entry keeps its new signatures. *)
RetrySignFail(w) ==
  /\ pc[w] = "retry"
  /\ SerializeAndSignErr(Signed(w)) # "ok"
  /\ mut' = [mut EXCEPT ![w] = Signed(w)]
  /\ Finish(w, "SerializeAndSign")
  /\ UNCHANGED <<hist, queue, tries, sent>>

(* The server's UpdateEntry: a request that passes Mutate against the      *)
(* current leaf is queued; a replay of the current leaf is answered as if  *)
(* accepted; anything else is rejected. The response proves the leaf.       *)
ServerAccepts(e) == MutateErr(Leaf, e) \in {"ok", "Replay"}
ServerQueue(e) == IF MutateErr(Leaf, e) = "ok" THEN Append(queue, e) ELSE queue

(* UpdateEntry fails: the request is lost, rejected, or it was queued and  *)
(* the response is lost.                                                    *)
RetryRpcFail(w) ==
  /\ pc[w] = "retry"
  /\ SerializeAndSignErr(Signed(w)) = "ok"
  /\ sent' = sent \cup {Signed(w).entry}
  /\ \/ UNCHANGED queue
     \/ /\ ServerAccepts(Signed(w).entry)
        /\ queue' = ServerQueue(Signed(w).entry)
  /\ mut' = [mut EXCEPT ![w] = Signed(w)]
  /\ Finish(w, "UpdateEntryError")
  /\ UNCHANGED <<hist, tries>>

(* Mutant: the loop runs while i <= RetryCount. *)
UpdateLoopOffByOne(w, equal) ==
  \/ /\ equal
     /\ Finish(w, "ok")
     /\ UNCHANGED tries
  \/ /\ ~equal
     /\ tries[w] <= RetryCount
     /\ tries' = [tries EXCEPT ![w] = @ + 1]
     /\ UNCHANGED <<pc, res>>
  \/ /\ ~equal
     /\ tries[w] > RetryCount
     /\ Finish(w, "ErrRetry")
     /\ UNCHANGED tries

(* Update's loop after a Retry: nil ends it; ErrRetry retries while        *)
(* i < RetryCount and is returned once the retries are spent.              *)
UpdateLoop(w, equal) ==
  \/ /\ equal
     /\ Finish(w, "ok")
     /\ UNCHANGED tries
  \/ /\ ~equal
     /\ tries[w] < RetryCount
     /\ tries' = [tries EXCEPT ![w] = @ + 1]
     /\ UNCHANGED <<pc, res>>
  \/ /\ ~equal
     /\ tries[w] >= RetryCount
     /\ Finish(w, "ErrRetry")
     /\ UNCHANGED tries

(* UpdateEntry answers with the current leaf. Retry compares it with the   *)
(* request, moves the back pointer to it (SetPrevious(cntLeaf, false))      *)
(* and reports ErrRetry when they differ; Update retries while i <          *)
(* RetryCount and returns otherwise.                                        *)
RetryResponse(w) ==
  LET m == Signed(w)
      equal == EqualsRequested(m, Leaf)
  IN /\ pc[w] = "retry"
     /\ SerializeAndSignErr(m) = "ok"
     /\ ServerAccepts(m.entry)
     /\ sent' = sent \cup {m.entry}
     /\ queue' = ServerQueue(m.entry)
     /\ mut' = [mut EXCEPT ![w] = SetPrevious(m, Leaf, FALSE)]
     /\ UpdateLoop(w, equal)
     /\ UNCHANGED hist

(* The sequencer applies the oldest queued mutation if Mutate accepts it   *)
(* against the current leaf, and drops it otherwise.                        *)
Sequence ==
  /\ queue # <<>>
  /\ hist' = IF MutateErr(Leaf, Head(queue)) = "ok"
               THEN Append(hist, Head(queue)) ELSE hist
  /\ queue' = Tail(queue)
  /\ UNCHANGED <<pc, mut, tries, res, sent>>

-----------------------------------------------------------------------------
(* The user either has no entry yet or has E0.                              *)
Init ==
  /\ hist \in {<<>>, <<E0>>}
  /\ queue = <<>>
  /\ pc = [w \in Writers |-> "get"]
  /\ mut = [w \in Writers |-> NewMutation]
  /\ tries = [w \in Writers |-> 0]
  /\ res = [w \in Writers |-> None]
  /\ sent = {}

Next ==
  \/ \E w \in Writers :
       \/ UpdateGetEntry(w)
       \/ RetrySignFail(w)
       \/ RetryRpcFail(w)
       \/ RetryResponse(w)
  \/ Sequence

Spec == Init /\ [][Next]_vars

-----------------------------------------------------------------------------
(* Properties.                                                             *)

Commits == Writers \cup {"c0", None}
Results == {None, "ok", "GetEntryError", "MissingKey", "SerializeAndSign",
            "UpdateEntryError", "ErrRetry"}

(* Field types; the prev hash of an entry is checked by the properties.   *)
TypeOK ==
  /\ pc \in [Writers -> {"get", "retry", "done"}]
  /\ tries \in [Writers -> 0..RetryCount]
  /\ res \in [Writers -> Results]
  /\ \A w \in Writers :
       /\ mut[w].entry.keys \subseteq Keys
       /\ mut[w].entry.sigs \subseteq Keys
       /\ mut[w].entry.commit \in Commits
  /\ \A i \in DOMAIN hist : hist[i].commit \in Commits

(* The entry a prev hash names, and the keys that must authorize an entry  *)
(* with that prev: the named entry's, or the entry's own for a first entry. *)
Named(h) == h.objecthash
AuthorizingKeys(e) == IF e.prev = NilHash THEN e.keys ELSE Named(e.prev).keys

(* Key rotation: every request a client sends is signed by a key that the  *)
(* entry it replaces authorized, never only by the keys it installs, also  *)
(* when Retry has moved its back pointer to another writer's entry         *)
(* (mutation.go SerializeAndSign, grpcc Retry).                             *)
SubmittedAuthorized ==
  \A e \in sent : e.sigs \cap AuthorizingKeys(e) # {}

(* When Update returns nil, the entry the writer requested, with its       *)
(* data and keys, has been applied by the sequencer (grpcc Retry's Check).  *)
SuccessApplied ==
  \A w \in Writers :
    res[w] = "ok" =>
      \E i \in DOMAIN hist : hist[i].commit = w /\ hist[i].keys = mut[w].entry.keys
=============================================================================
