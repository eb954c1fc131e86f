# TLA+ models of the key transparency core

This directory holds TLA+ models of the Go key transparency core in `src/`.
It has TLC configurations that check the models on small instances. It also has
TLAPS proofs, for every instance, of these results:
- the verifier's main guarantee;
- the authorization of every update request, and that a successful update was applied;
- that the monitor stores one verdict per revision, in order, each against its predecessor, never rewrites one, and that it implements the safety part of its abstract specification;
- the initialization of every stored domain;
- the type correctness of the history listing, that every profile it returns is authentic whatever the network does, and that against an honest server it returns exactly the change points of the range asked for, for every call whose range fits in an int64. `PROJECT.json`
lists the components, runs, mutants, source map, findings and hazards. This
document explains them.

## 1. The system

| Part | Source | What it does |
|---|---|---|
| Response verifier | `src/core/client/kt/verify.go:75-150` (`Verifier.VerifyGetEntryResponse`) | Checks a `GetEntryResponse` in a fixed order: decode the leaf, commitment (only when `Committed` is present), VRF, nil proof, sparse Merkle proof, SMR signature, log consistency against the trusted root (`VerifyRoot`), then log inclusion of the SMR at its revision. |
| grpcc client | `verify.go:151-444` (`Client.GetEntry`, `ListHistory`, `Update`, `Retry`) | `GetEntry` fetches a response and verifies it against `c.trusted`. `Update` reads the current entry, builds a mutation (`kt.NewMutation`), then calls `Retry` up to `RetryCount+1` times. `Retry` signs, sends `UpdateEntry`, verifies the returned proof, compares the leaf with the request, moves the back pointer (`SetPrevious(cntLeaf, false)`), and reports `ErrRetry` when the leaf differs. |
| Mutation builder | `src/core/mutator/entry/mutation.go` | Builds the next entry: `NewMutation`, `SetPrevious` (hash chain, optional copy), `SetCommitment`, `ReplaceAuthorizedKeys`, `sign`, `SerializeAndSign` (authorization against the previous keys, then a dry-run `Mutate`), and `EqualsRequested` / `EqualsPrevious`. |
| Monitor | `src/core/monitor/monitor.go:102-196` | `ProcessLoop` starts two goroutines: the epoch streamer (`mutationclient.StreamEpochs`) and the pair former (`EpochPairs`). They are joined by the unbuffered channels `epochs`, `pairs` and `errc`. For each pair, ProcessLoop fetches the mutations, verifies that A's root plus B's mutations gives B's root, countersigns B's SMR if it verifies, and stores the result. At the end it drains both goroutines' results. |
| History listing | `verify.go:317-376` (`min`, `Client.ListHistory`) | Asks `ListEntryHistory` for pages of at most `min(int32(end-start+1), 16)` epochs, verifies every value, keeps a profile only when it differs from the previous one, follows `NextStart`, and returns `ErrIncomplete` when fewer than `end-start+1` epochs arrived. |
| Admin server | `src/unnamed/part_000` | `CreateDomain` generates the VRF key, creates the log and map trees from the package-level request templates, parses the intervals, calls `initialize` (which puts the empty SMR at revision 0 into the empty log), and writes the domain record. `DeleteDomain` and `UndeleteDomain` set the deleted flag. `ListDomains` and `GetDomain` only read. gRPC runs the handlers concurrently. |

How the parts interact:
- Lookups go from the client through the verifier to the server's log and map.
- Updates go from the client through the builder to the server's `UpdateEntry`, and then to the sequencer. The sequencer applies queued mutations and signs new SMRs into the log.
- The monitor reads the same epochs and re-checks each transition.

The verifier, the client and the monitor share the log of SMRs that `initialize` starts and the sequencer extends.

Code outside `src/` is modelled from `spec.md` and marked `spec_modelled` in the map:
- the key server and its sequencer;
- `mutationclient.StreamEpochs`;
- Trillian's `VerifyRoot` and `VerifyInclusionAtIndex`;
- `entry.Mutate` and `verifyKeys`;
- `kt.NewMutation`;
- `Monitor.VerifyEpoch` and `verifyMutations`.

## 2. Modules

### KTVerifier (verifier, GetEntry, the server's log)

The module has four variables:

| Variable | Meaning |
|---|---|
| `roots` | The set of log roots the log key has signed. Each root is a sequence of SMRs. |
| `trusted` | `Client.trusted`. |
| `ret` | What the last `GetEntry` returned. |
| `seen` | The log roots of every accepted response. |

Cryptography is abstracted to what each check establishes:
- A commitment opens only to its data.
- A sparse proof verifies if and only if the leaf is what the SMR's map holds for the user.
- A signature verifies if and only if the key holder made it.
- Consistency holds if and only if the trusted root is a prefix of the new root.
- Inclusion of SMR `s` holds if and only if `s` is the root's leaf at position `s.rev + 1`.

The actions are:
- `SequenceEpoch`, the server. With `ServerHonest = FALSE` the server may fork the log and may put any contents in the new map.
- `GetEntry(u)`: an RPC error, or any response the network can deliver. Only the signatures constrain the response: the network may alter every field and may forge a log root that claims any SMR.

`VerifyGetEntryResponse` is one operator with the checks in the code's order. Line 135 (`trusted = in.GetLogRoot()`) assigns the local pointer only, so the model leaves `trusted` unchanged. That is what the code does.

### Monitor (ProcessLoop and its goroutines)

Each goroutine has a program counter (`sPC`, `pPC`, `mPC`) and its locals.
- A send on an unbuffered channel is one action shared by the sender and the receiver (`EpochPairsRecv`, `RecvPair`, `DrainStreamer`, `DrainPairer`).
- A `select` on `ctx.Done()` or a send may take either ready case.
- `cctx` is closed by the deferred `cancel()` (`MainReturn`) or by the caller (`CancelParent`).
- `ProcessLoop`'s `EpochMutations` uses the caller's `ctx`, not `cctx` (line 142). `ProcessPairCancelled` models this.

An epoch is a map root, a mutation set and a validity bit. `Apply` is the map update. The store maps each revision to "signed" or "errors". `MonitorAssumption` states that `Nil` is no revision, since a nil `*Epoch` is not an epoch.

### MonitorAbstract (what the monitor promises)

This module has three variables: `epochs`, `store` and `halted`. It states spec 4.10 without goroutines:
- `Judge` stores the verdict on the next revision (`StartEpoch + 1 + |DOMAIN store|`), computed against its predecessor.
- `Halt` stops the monitor.
- `WF(Judge)` makes a monitor that has not halted go on judging.

`Monitor` instantiates it as `Abs == INSTANCE MonitorAbstract WITH halted <- (mPC = "done")`, with `epochs` and `store` mapped to themselves. `ImplementsAbstract == Abs!Spec` is checked as a property:
- every step of the three goroutines either stores exactly the next verdict, or halts, or is invisible to the abstract spec;
- the pipeline keeps storing until ProcessLoop returns.

### KTHistory (ListHistory)

The module has these variables:

| Variable | Meaning |
|---|---|
| `hist` | The user's profile at every epoch on the server. |
| `honest` | Whether pages arrive as the server sent them. |
| `reqStart`, `reqEnd` | The arguments of the call. |
| `start`, `want`, `received`, `current`, `profiles`, `res` | The locals `start`, `epochsWant`, `epochsReceived`, `currentProfile`, the returned map, and the error. |
| `values`, `next` | The values of the current page not processed yet (what is left of `range resp.GetValues()`), and the page's `NextStart`. |
| `pc` | `"idle"`, `"loop"` (top of the `for` loop), `"page"` (inside the loop over a page's values) or `"done"`. |

A value of a page is a pair of a revision and a profile:
- A genuine value is `Value(r) == [rev |-> r, profile |-> hist[r]]`.
- `Verified(v)` is what `VerifyGetEntryResponse` establishes (see KTVerifier): the profile is the server's at that revision, or nil when `Committed` was stripped.
- The map's key `*SignedMapRoot` is abstracted to the revision.

The actions are:
- `ListHistory(s, e)`: the start check and `epochsWant`.
- `FetchPage`: the request and the server's answer or rejection. An answer (`Page`) adds the page length to `epochsReceived` and starts the loop over its values.
- `VerifyFails`: the next value fails `VerifyGetEntryResponse`; `ListHistory` returns the error.
- `ProcessValue`: the next value is verified and compressed (`CompressStep`: skipped when equal to `currentProfile`, else recorded and made current).
- `EndPage`: all values are processed; the `NextStart == 0` break (then the `ErrIncomplete` test), or `start = resp.NextStart`.
- `FetchError`: a lost RPC.

The loop over a page's values takes one step per value, as the Go loop does. Nothing runs concurrently with it, so these steps interleave with nothing; they only make the intermediate states visible, which is what lets the proofs reason about the loop one value at a time.

`2^n` is the recursive function `Pow2`, so that the provers can unfold it.
- `LoopExit`: the loop condition fails, then the `ErrIncomplete` test.

The server's `ListEntryHistory` is not in this repository and is modelled from its interface (`ServerRejects`, `ServerPage`). It rejects a negative page size or a start past its latest epoch, caps the size at 16 (0 means 16), and returns the consecutive epochs with `NextStart = 0` after its last one. A dishonest network (`ForgedPages`) sends any values, tampered or replayed genuine ones (`Tamper`), at most a page of them, with any `NextStart`.

Go's fixed-width integers are kept. `Int64` and `Int32` wrap in two's complement (`Wrap`):
- `epochsWant` is `Int64(Int64(end - start) + 1)`;
- the page size is `min(Int32(Int64(end - start) + 1), PageSize)`.

The widths are constants. TLC uses 5 bits for int64 and 3 bits for int32, with `PageSize = 2` standing for 16. This keeps both wrap-arounds at values a three-epoch instance reaches:
- `ListHistory(0, MaxInt64)`, which asks for everything, wraps `epochsWant`;
- a range of four epochs wraps the page size and is rejected by the server.

### KTAdmin (admin server)

Each caller runs one handler: `CreateDomain`, `DeleteDomain` or `UndeleteDomain` on a domain ID. The shared state is:

| Variable | Meaning |
|---|---|
| `trees` | Trillian's trees: kind, size (1 once the empty map root is the log's first leaf), and the domain the `Description` names. |
| `logDesc`, `mapDesc` | `logArgs.Tree.Description` and `mapArgs.Tree.Description`. |
| `domains` | The domain storage. |

`logTreeArgs := *logArgs` copies the request but not the `Tree` it points to. So `logTreeArgs.Tree.Description = ...` writes the package-level template. The model splits that write (`SetLogDesc`, `SetMapDesc`) from the `CreateTree` that reads it. Unsynchronised, this is a Go data race; the model lets the read see whichever write came last in the interleaving.

`CreateDomain` has one action per call it makes, each with its error return:
- `Keygen`;
- `CreateLogTree`, `CreateMapTree`;
- `Durations`;
- `Initialize`. `AddLeaf` can fail before the leaf is added, or after it was added with the answer lost. `initialize`'s "log empty and map at revision 0" test always holds for the fresh trees its only caller hands it.
- `Write`. It fails when the ID exists or the storage fails.

`SetDelete` is `DeleteDomain` and `UndeleteDomain`. Trillian and the domain storage are modelled from their interfaces.

### KTUpdate (mutation builder and the update loop)

Several writers each run one `Update` on the same user's entry. The module has these variables:

| Variable | Meaning |
|---|---|
| `hist` | The server's applied entries. |
| `queue` | Mutations that `UpdateEntry` accepted and the sequencer has not yet applied. |
| `pc`, `mut`, `tries`, `res` | Per writer: where its `Update` is, its `Mutation`, the loop counter `i`, and the error it returned. |
| `sent` | Every request a writer sent. |

An entry is `[prev, keys, commit, sigs]`. The object hash is injective, so it is modelled as a tagged copy of the hashed entry. Because `SetCommitment` draws a fresh nonce, writer `w`'s commitment is `w`.

The actions are:
- `UpdateGetEntry`, with the caller's `authorizedKeys` chosen from the subsets of `Keys`.
- `RetrySignFail`, `RetryRpcFail` and `RetryResponse`. `RetryRpcFail` covers a request lost before the server, a request the server rejected, and a request the server queued whose response was lost.
- `Sequence`, the server's sequencer. It applies the head of the queue if `Mutate` accepts it and drops it otherwise.

The server is honest here. Proof verification is `KTVerifier`'s concern, so a failed verification is an RPC failure in this model.

## 3. Runs

All runs use `tlc -workers 2 -config <cfg> <MC module>`.

| Run | Expect | Checks | What it shows |
|---|---|---|---|
| verifier_sound | pass | `TypeOK`, `ResultSound` | A result without error is a signed SMR, logged at its revision in a signed log root, and the returned profile is in its map. This holds against any network and a forking server. |
| verifier_fork | violation | `ForkFree` | Two incompatible log roots are both accepted. |
| verifier_absence | violation | `AbsenceSound` | Stripping `Committed` turns a present entry into "no profile". |
| monitor_store | pass | `TypeOK`, `StoreFaithful`, `AllEpochsStored`, `ImplementsAbstract` | See below. |
| monitor_leak | violation | `NoGoroutineLeak` | After an early return both goroutines block on `errc`. |
| history_safe | pass | `TypeOK`, `HistoryFaithful`, `FailedValueAborts` | With an honest server, a successful listing is exactly the change points of the history over `[start, end]` (`ChangePoints`, the reference definition), and a range past the last epoch ends in `ErrIncomplete`. Against a tampering, replaying network, a page holding a forged value ends the call with the verification error, wherever the value sits in the page: the profiles compressed before it are never returned (`FailedValueAborts`, a property `[](ForgedPending => [](pc = "done" => res = "VerifyError"))` relating the arrival of the page to every later state). |
| history_overflow | violation | `HistorySound` | `ListHistory(0, MaxInt64)` returns an empty history without error. |
| history_replay | violation | `HistorySound` | Replayed genuine responses are accepted for the wrong epochs. |
| admin_init | pass | `TypeOK`, `DomainsInitialized` | A stored domain always names a log holding the empty map root as its first leaf, and a map, whatever the other handler does and whichever call fails. |
| admin_race | violation | `TreesDescribeDomain` | A domain's trees carry the other domain's description. |
| update_safe | pass | `TypeOK`, `SubmittedAuthorized`, `SuccessApplied` | Every request is authorized by the entry it replaces, including after a rebase onto another writer's key rotation. `Update` succeeds only if its entry was applied. |

`StoreFaithful`, `AllEpochsStored` and `ImplementsAbstract` check three things:
- The store holds exactly the revisions `StartEpoch+1..k`, and each verdict is `VerifyEpochMutations` of the right adjacent pair.
- Without failures or cancellation, every revision is stored.
- The pipeline refines `MonitorAbstract`. This adds what the invariant cannot say: a stored verdict never changes, nothing is stored after ProcessLoop returned, and revisions are stored one at a time in order.

Bounds, and why they are enough:
- **verifier**: one user, two data values, `MaxRev = 2`, `MaxRoots = 3`. With three roots there can be a fork (two roots of the same length) and a root that extends another. Revision 2 allows a stale SMR logged under a newer root. One user is enough because the users' checks are independent.
- **monitor**: revisions 0..2, which gives two pairs, so the hand-over of `epochA` between pairs happens. There are two map roots and two mutation sets with `Apply(x, m) = (x + m) % 2`, so a pair may verify or fail in both ways (`VerifyEpoch` and `verifyMutations`).
- **history**: profiles `{d1, d2}` and nil over epochs 0..2 (all 27 histories), starts `{-1, 0, 1}`, ends `0..3`, pages of 2. This gives:
  - changes, repeats and nil gaps;
  - a first page that ends mid-range, so paging continues;
  - a range past the server's last epoch, which gives `ErrIncomplete`;
  - a four-epoch range, which wraps the int32 page size;
  - a negative start.

  The overflow run calls `ListHistory(0, MaxInt64)`. The replay run lets the network deliver genuine responses only, so the counterexample cannot come from tampering.
- **admin**: two handlers, two domain IDs and four tree IDs (enough for both handlers to create both trees). Symmetry is over the tree IDs and the handlers, which neither the model nor the properties tell apart. Either handler can create a domain the other then deletes or undeletes, or both can create the same domain or different ones concurrently. Three handlers with six tree IDs pass too (341,081 distinct states), but they take almost seven minutes. `KTAdminProofs` covers any number of handlers.
- **update**: two writers and two keys. The entry starts absent or with key `k1`, and `RetryCount = 1` (two attempts). A writer may rotate to `k2` while the other's retry rebases onto it. Stale responses, lost responses and replays all occur.

Each property of a passing run has a mutant in `PROJECT.json`: a plausible bug in a mapped definition that TLC shows violates it. The mutants are:
- an inclusion check skipped;
- a stored verdict keyed by epoch A's revision;
- `currentProfile` not updated;
- a value that fails verification skipped instead of aborting the listing;
- a negative start not rejected;
- `AddLeaf`'s error dropped;
- the map tree assigned to `logTree`;
- `epochA` not advanced after a send;
- the first epoch dropped;
- the retry loop's `<` written as `<=`;
- the response compared with `EqualsPrevious`;
- `SerializeAndSign` without its authorization checks.

## 4. Findings

1. **Trusted root never advances** (`verify.go:135`). `trusted = in.GetLogRoot()` assigns the parameter, not `*trusted`, so `Client.trusted` stays the zero root. As a result, a forked log is accepted (`verifier_fork`). For the same reason, an older log root is accepted after a newer one.

   I tried the fix in a copy of the model, with `GetEntry` setting `trusted` to the accepted root as `*trusted = *in.GetLogRoot()` would. With that change, `ForkFree` holds on the same instance.
2. **Stripped `Committed` reads as absence** (`verify.go:85`, `310-311`). The spec's design note asks that present leaves not pass without commitment data (`verifier_absence`).
3. **Goroutine leak** (`monitor.go:145/157/167` with `133/136`). On an early return, nobody receives from the unbuffered `errc` (`monitor_leak`).
4. **Listing everything lists nothing** (`verify.go:333`). For `ListHistory(0, math.MaxInt64)`, `end - start + 1` overflows to `MinInt64`. The loop never runs, and an empty map is returned with no error (`history_overflow`).
5. **Epochs are never matched** (`verify.go:349`). Each value is verified alone, and its SMR revision is never compared with `start + i`. Genuine responses of other epochs are therefore accepted, whether replayed or reordered. The returned history can hide or invent changes (`history_replay`).
6. **Shared request template** (`part_000:189`, `195`). Concurrent `CreateDomain` handlers race on `logArgs.Tree.Description` and `mapArgs.Tree.Description`. A domain's trees can then describe another domain (`admin_race`).

Hazards the models reach but no run states:
- `ProcessLoop` returns whichever result arrives first on `errc` (`monitor.go:170`). After a fetch failure and a cancel, it can therefore report the pair former's ctx error rather than the streamer's fetch error, which the spec (5) says is preferred.
- `ListHistory` follows any non-zero `NextStart` (`verify.go:368`). Empty pages can keep it looping until the caller's context ends.
- A failing or duplicate `CreateDomain` leaves Trillian trees that no domain refers to (`part_000:171`, the TODO).
- A range of 2^31 epochs or more wraps the int32 page size into a rejected request (`verify.go:340`). The rejection is an error result, which no property can forbid. `HistoryFaithful` is checked and proved, and it shows that a wrapped size that the server does accept never makes a successful listing wrong (lemma `ServedSize`).

## 5. Fairness

Only the monitor has liveness properties (`AllEpochsStored`, and the `WF(Judge)` of `MonitorAbstract` inside `ImplementsAbstract`). Weak fairness is assumed for these actions:
- the streamer's successful fetch and its ctx return;
- the pair former's receive, end and ctx return;
- ProcessLoop's receive, successful processing, cancelled processing and loop end;
- both drains.

The Go scheduler runs every runnable goroutine, and an RPC that does not fail returns. Nothing in the code forces an RPC to fail or the caller to cancel, so the failure actions and `CancelParent` have no fairness. `AllEpochsStored` is stated as "stored, or ProcessLoop has returned", because a failure may legitimately end the loop.

## 6. Proofs

### KTVerifierProofs

Proved with `tlapm KTVerifierProofs.tla`, for all constants satisfying `ConstantsAssumption`: finite, non-empty users and data, `MaxRev ∈ Nat`, and distinct sentinels.

- `TypeCorrect`: `Spec => []TypeOK`. It rests on `TypeInit` and `TypeStep`, with lemmas on the response set (`ResponseTypes`), on failed results (`FailedResultType`) and on the verifier's result (`VerifyResultType`).
- `ResultSoundness`: `Spec => []ResultSound`. The inductive invariant is `TypeOK /\ ResultSound`. `ResultSound` alone is not inductive, because its preservation needs the types of the response and of `roots`.
  - `AcceptedChecks` turns an "ok" verdict into the conjunction of all checks.
  - The step case for an accepted response then argues two things. First, the SMR signature holds. Second, the log root's signature verified, so the root is one the server signed (a member of `roots`), and inclusion at `rev + 1` puts the SMR in it.
  - The sparse check gives the profile.
  - `SequenceEpoch` only adds roots, so `Logged` is preserved.

### KTUpdateProofs

`UpdateSubmittedAuthorized`: `Spec => []SubmittedAuthorized`. It holds for every set of writers and keys and every `RetryCount`, under `UpdateAssumption` (finite, non-empty writers, and `InitKeys` a non-empty subset of `Keys`).

`AcceptedAuthorized` is the heart of the argument. `SerializeAndSign` accepts a mutation only if two checks pass:
- its signatures meet the keys of `prevEntry`;
- the dry-run `Mutate` finds that the new entry's prev hash is `objecthash(prevEntry)`.

`AuthorizingKeys` reads the keys back through that hash. `NilHash` is `Hash(None)`, as `nilHash` is `ObjectHash(nil)` in `mutation.go:33`, so the hash of a real entry is never the nil hash. The two sets agree except when `prevEntry` authorizes no key: `verifyKeys` then checks the new keys instead.

So the inductive invariant adds two facts, and proves them along with `SubmittedAuthorized`:
- `MutKeyed`: every mutation's `prevEntry` is nil or authorizes a key. It is always nil or the leaf a `GetEntry` or `UpdateEntry` returned (`LeafKeyed`, `NewMutationShape`, `SignedShape`).
- `HistKeyed`: every applied entry authorizes a key. The sequencer only appends what `Mutate` accepted, and `Mutate` refuses an empty key set (`SequenceInv`).

`UpdateTypeCorrect`: `Spec => []TypeOK`, and `UpdateSuccessApplied`: `Spec => []SuccessApplied`. Both hold for every instance under `UpdateAssumption`, which also states `None # "ok"`: a running `Update` has not returned nil.

`SuccessApplied` alone is not inductive. `Retry` returns nil when the leaf that `UpdateEntry` returns equals the requested entry, and that leaf is the last applied entry. The step proof needs three more facts:
- the request still commits to the writer's own data (`RetryCommit`);
- a running writer has no result yet (`Pending`);
- the queue and the history hold only entries whose commitment is known (`QueueTyped`, `HistTyped`, each stated as a sequence over some set of such entries).

Together with `TypeOK` and `EntryShape` these form `TInv`. TLC checked `TInv` as an invariant of `update_safe` before the proof was written. `TStep` proves `TInv` preserved, with one case per action. It shares `FinishStep` across the writer's error exits, and it takes each mutation's shape from `IInv`. So `SpecTInv` proves `[](TInv /\ IInv)` together.

`EqualsRequested` models `proto.Equal`'s nil case. A nil leaf (no entry yet) never equals the request, whose entry is never nil. The proof relies on that.

### KTAdminProofs

`AdminDomainsInitialized`: `Spec => []DomainsInitialized`, and `AdminTypeCorrect`: `Spec => []TypeOK`. It holds for every set of handlers, domain IDs and tree IDs, under `AdminAssumption`.

`DomainsInitialized` alone is not inductive, because `domains.Write` stores whatever trees the handler holds. The strengthening `HandlerTrees` follows `CreateDomain`'s control points:
- after `CreateLogTree`, the handler's log tree is a log;
- after `CreateMapTree`, its map tree is a map;
- after `initialize`, the log holds its first leaf.

The other handlers cannot disturb these facts. `CreateTree` only takes an unused tree ID, `initialize` only changes a size from 0 to 1, and `SetDelete` only changes the deleted flag. The step proof has one case per action. The tree and domain updates are argued field by field.

TLC checks these invariants on the small instance. The theorems cover every instance.

### MonitorProofs

This module proves four theorems for every `StartEpoch < MaxEpoch` and every set of roots and mutation sets closed under `Apply`:
- `MonitorTypeCorrect`: `Spec => []TypeOK`;
- `MonitorStoreFaithful`: `Spec => []StoreFaithful`;
- `MonitorRefinesAbstract`: `Spec => Abs!Init /\ [][Abs!Next]_Abs!avars`, the safety part of `ImplementsAbstract`;
- `MonitorStoreAppendOnly`: `Spec => [][StoreKept]_vars`, an action property. No step removes or rewrites a stored verdict. `ProcessPair` writes `mPair.b`, and `IInv` puts that revision just past the stored ones.

`StoreFaithful` alone is not inductive. The store grows by `ProcessPair`, which stores the verdict on `mPair.b` computed from `mPair.a`, and nothing in the store says that this pair is the right one. The inductive invariant `IInv` follows an epoch through the three goroutines:
- `StreamPos` (the streamer and the pair former):
  - the streamer sends only published revisions;
  - `epochA` is the last epoch the pair former received, and the streamer fetches `epochA + 1` next;
  - a pair the pair former holds is `(epochA, epochA + 1)`, and the streamer is then at `epochA + 2`.
- `StorePos` (ProcessLoop):
  - while processing, ProcessLoop holds `(a, a + 1)` with `epochA = a + 1`, and the store holds the verdicts on `StartEpoch+1..a`;
  - when it waits for a pair or drains `errc`, the store holds them up to `Front`, which is `epochA` (or `StartEpoch` before the first epoch).

It was checked by TLC as an invariant before it was proved: 124,672 states for revisions 0..2 and 1.5 million for 1..4.

The step proof has one case per action. An action that does not touch what a conjunct reads keeps it (`StorePosUnchanged`, `StreamPosUnchanged`, `StoredUnchanged`). `StoredExtend` shows that `ProcessPair` extends `StartEpoch+1..a` to `..a+1` with the right verdict.

For the refinement:
- `ProcessPairJudges` shows that `ProcessPair` is `Abs!Judge`. `NextRevision = StartEpoch + 1 + Cardinality(StartEpoch+1..a)` is `a + 1`, by `FS_Interval` of the FiniteSetTheorems library.
- `StoreWriters` shows that every other action leaves the store alone.
- `DoneStays` shows that no action leaves `mPC = "done"`.
- So every other step is `Abs!Halt` or a stutter.

The fairness half of `ImplementsAbstract`, and `AllEpochsStored`, remain TLC's.

### KTHistoryProofs

This module proves three theorems for every epoch bound, page size and pair of integer widths allowed by `HistoryAssumption`:
- `HistoryTypeCorrect`: `Spec => []TypeOK`;
- `FailedValueAbortsHolds`: `Spec => FailedValueAborts`;
- `HistoryFaithfulHolds`: `CallsFit => (Spec => []HistoryFaithful)`.

`CallsFit` says that every call with `0 <= start <= end` has `end - start + 1` within int64. The hypothesis is needed: `history_overflow` shows that `ListHistory(0, MaxInt64)` violates the promise.

The int64 and int32 arithmetic is reasoned about through `Pow2`:
- `Pow2Def` unfolds the recursive function with `NatInductiveDef`;
- `Pow2Pos` proves every power positive, by a least counterexample (`WFMin` on `<` over `Nat`);
- `WrapRange` shows a wrapped result lies in its width;
- `WrapId` shows wrapping leaves a value already in range unchanged.

`TypeOK` is inductive as it stands (`IInv == TypeOK`). It needs the values of both kinds of page to be values of some epoch (`ServerPageType`, `ForgedPageType`), and `epochsReceived` to stay an int64 (`Int64Range`).

`FailedValueAborts` is not an invariant but a property of the form `[](P => []Q)`. It rests on the stable predicate `Aborting`: the forged value is still ahead in the page, or the call has returned `VerifyError`. `AbortingStable` shows no step leaves it. `ProcessValue` consumes only a value that passes `Verified`, so the forged one stays in the page, one position nearer its head; `EndPage` needs the page exhausted; `VerifyFails` returns the error; every other action needs `pc` to be `idle` or `loop`. The theorem follows from `AbortingStable` and the type invariant by PTL.

`HistoryFaithful` alone is not inductive either. Its strengthening `HonestInv` holds while the network is honest, and has four parts:
- `WantExact`: `epochsWant` is exactly `end - start + 1`.
- `LoopPos`: at the top of the loop, `start = reqStart + epochsReceived`. The change points of `[reqStart, start)` are recorded, and `currentProfile` is the profile at `start - 1`.
- `PagePos`: inside a page, the values left are the consecutive epochs `[Pos, Top)`. The change points before `Pos` are recorded, and `NextStart` is 0 exactly when `Top` is one past the server's last epoch.
- `IdleClean`: nothing is recorded before the call.

TLC checked `IInv` and `HonestInv` as invariants of `history_safe` (2 million states) before they were proved. The step proof has one lemma per action:
- `ServedSize` shows that the page the server serves is never longer than the range left. A page size that `int32(...)` wraps is at most `PageSize`, which is then smaller than that range. So `epochsReceived` neither overflows nor overshoots.
- `ChangePointsExtend` shows that processing the value of epoch `Pos` adds it exactly when it is a change point. `CompressStep` compares it with `currentProfile`, which is the profile before `Pos`.
- `EndPageHonest` and `LoopExitHonest` close the loop. A listing ends without error only once `[start, end]` has been received within the server's epochs. A page with `NextStart` 0 reaches the server's last epoch, so a longer range ends in `ErrIncomplete`.

What is only model-checked:
- `NoGoroutineLeak` of `Monitor` (a violation run);
- `TreesDescribeDomain` of `KTAdmin`. These are the properties of the violation runs, which TLC shows are violated;
- the liveness property `AllEpochsStored` and the `WF_avars(Judge)` conjunct of `ImplementsAbstract`, since TLAPS does not handle fairness or ENABLED here.

## 7. Not modelled

- `ListDomains`, `GetDomain` and `fetchDomain` of the admin server: they only read storage and Trillian.
- Client and monitor construction from configuration: key parsing.
- The cryptographic primitives themselves: they are abstracted as described above.
- The integration test table.
