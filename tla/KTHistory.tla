----------------------------- MODULE KTHistory -----------------------------
(***************************************************************************)
(* The history listing of the key transparency client:                     *)
(* Client.ListHistory (core/client/kt/verify.go).  The client asks the     *)
(* server for the user's entry at every epoch of [start, end], page by     *)
(* page, verifies each returned GetEntryResponse, and keeps only the       *)
(* epochs at which the committed profile changes.                          *)
(*                                                                         *)
(* The fixed-width integers of the code are kept: end - start + 1 is an    *)
(* int64 and the page size an int32.  Their widths are constants, so       *)
(* that a small instance keeps the wrap-around at a reachable value.       *)
(*                                                                         *)
(* A GetEntryResponse is abstracted to the epoch it was produced for: the  *)
(* server signs the entry of revision r, and the verifier (KTVerifier)     *)
(* accepts it.  A response whose proofs were tampered with fails           *)
(* verification; that is a failure step of its own.  The network can be   *)
(* honest (pages are the server's) or adversarial, in which case a page   *)
(* holds any genuine, verifiable responses of any epochs, in any order,   *)
(* and any NextStart.                                                     *)
(***************************************************************************)
EXTENDS Integers, Sequences

CONSTANTS
    Data,          \* the profiles a user's entry can commit to
    None,          \* no profile: the user has no entry at this epoch
    MaxEpoch,      \* the server's latest epoch
    PageSize,      \* the constant pageSize (verify.go:201), also the server's maximum
    W64,           \* the width of int64
    W32,           \* the width of int32
    Starts, Ends,  \* the arguments ListHistory is called with
    Networks,      \* which networks to consider: TRUE honest, FALSE adversarial
    Tamper         \* whether a dishonest network alters values, or only replays genuine ones

(* 2^n, as a function so that its values can be reasoned about. *)
Pow2[n \in Nat] == IF n = 0 THEN 1 ELSE 2 * Pow2[n - 1]

ASSUME HistoryAssumption ==
    /\ MaxEpoch \in Nat
    /\ W32 \in Nat \ {0} /\ W64 \in Nat \ {0} /\ W32 <= W64
    /\ PageSize \in 1..(Pow2[W32 - 1] - 1)
    /\ Starts \subseteq Int /\ Ends \subseteq Int
    /\ Networks \subseteq BOOLEAN /\ Tamper \in BOOLEAN

Profiles == Data \cup {None}
Epochs == 0..MaxEpoch

(* The two's-complement value of x in w bits: Go's wrapping arithmetic and *)
(* its int64 -> int32 conversion.                                          *)
Wrap(w, x) == ((x + Pow2[w - 1]) % Pow2[w]) - Pow2[w - 1]
Int64(x) == Wrap(W64, x)
Int32(x) == Wrap(W32, x)
MinInt64 == -Pow2[W64 - 1]
MaxInt64 == Pow2[W64 - 1] - 1

(* func min(x, y int32) int32 *)
min(x, y) == IF x < y THEN x ELSE y

VARIABLES
    honest,    \* whether pages reach the client as the server sent them
    hist,      \* hist[r]: the profile the user's entry commits to at epoch r
    pc,        \* "idle", "loop" (the for loop), "page" (the loop over a page's values) or "done"
    reqStart,  \* the arguments of the call
    reqEnd,
    start,     \* the local start, advanced to NextStart after each page
    want,      \* epochsWant
    received,  \* epochsReceived
    current,   \* currentProfile
    profiles,  \* the returned map, an SMR abstracted to its revision
    values,    \* the values of the current page not processed yet
    next,      \* the NextStart of the current page
    res        \* the error returned, "ok" for nil

vars == <<honest, hist, pc, reqStart, reqEnd, start, want, received, current, profiles, values, next, res>>

(* A value of a page: a GetEntryResponse, abstracted to the revision of   *)
(* its SMR and the profile it commits to.                                  *)
Value(r) == [rev |-> r, profile |-> hist[r]]
Values == [rev : Epochs, profile : Profiles]

-----------------------------------------------------------------------------
(* The server: ListEntryHistory.  Its code is not part of this repository; *)
(* it rejects a start beyond its latest epoch and a negative page size,    *)
(* takes 0 for its default and caps the size at its maximum, and returns  *)
(* the consecutive epochs from start on, with NextStart 0 after the last.  *)
ServerRejects(s, ps) == s < 0 \/ s > MaxEpoch \/ ps < 0

ServerPage(s, ps) ==
    LET size == IF ps = 0 \/ ps > PageSize THEN PageSize ELSE ps
        last == min(s + size - 1, MaxEpoch)
    IN  [values |-> [i \in 1..(last - s + 1) |-> Value(s + i - 1)],
         next   |-> IF last = MaxEpoch THEN 0 ELSE last + 1]

(* What an adversarial network can deliver instead: any values of any    *)
(* epochs (only genuine ones when it does not tamper), at most a page of  *)
(* them, and any NextStart.                                                *)
NetValues == IF Tamper THEN Values ELSE {Value(r) : r \in Epochs}

ForgedPages ==
    [values : UNION {[1..n -> NetValues] : n \in 0..PageSize},
     next   : {0} \cup Epochs]

(* VerifyGetEntryResponse(&c.trusted, v): the commitment, VRF, sparse     *)
(* tree, signature and log proofs bind the profile to the server's leaf   *)
(* at that revision (see KTVerifier); a tampered value fails.  A value    *)
(* without Committed skips the commitment check and reads as a nil        *)
(* profile.                                                                *)
Verified(v) == v.profile \in {hist[v.rev], None}

-----------------------------------------------------------------------------
(* The loop body over one value (verify.go:354-363): compress profiles    *)
(* that are equal through time.  acc holds currentProfile and profiles.   *)
(* Mutant: the profile is recorded but currentProfile is not updated. *)
CompressStepKeepCurrent(acc, v) ==
    IF v.profile = acc.current
    THEN acc
    ELSE [current |-> acc.current, profiles |-> acc.profiles \cup {v}]

CompressStep(acc, v) ==
    IF v.profile = acc.current
    THEN acc
    ELSE [current  |-> v.profile,
          profiles |-> acc.profiles \cup {v}]

-----------------------------------------------------------------------------
Init ==
    /\ honest \in Networks
    /\ hist \in [Epochs -> Profiles]
    /\ pc = "idle"
    /\ reqStart = 0 /\ reqEnd = 0 /\ start = 0 /\ want = 0 /\ received = 0
    /\ current = None
    /\ profiles = {}
    /\ values = <<>> /\ next = 0
    /\ res = "none"

(* Mutant: a negative start is not rejected. *)
ListHistoryNoStartCheck(s, e) ==
    /\ pc = "idle"
    /\ reqStart' = s /\ reqEnd' = e /\ start' = s
    /\ pc' = "loop" /\ res' = res
    /\ want' = Int64(Int64(e - s) + 1)
    /\ received' = 0
    /\ UNCHANGED <<honest, hist, current, profiles, values, next>>

(* The call: a negative start is rejected, otherwise epochsWant is         *)
(* end - start + 1 in int64 arithmetic.                                    *)
ListHistory(s, e) ==
    /\ pc = "idle"
    /\ reqStart' = s /\ reqEnd' = e /\ start' = s
    /\ IF s < 0
       THEN /\ pc' = "done" /\ res' = "BadStart"
            /\ UNCHANGED <<want, received>>
       ELSE /\ pc' = "loop" /\ res' = res
            /\ want' = Int64(Int64(e - s) + 1)
            /\ received' = 0
    /\ UNCHANGED <<honest, hist, current, profiles, values, next>>

(* The request of one iteration: PageSize is min(int32((end-start)+1),    *)
(* pageSize), where end-start+1 is an int64 converted to int32.           *)
RequestSize == min(Int32(Int64(Int64(reqEnd - start) + 1)), PageSize)

(* The loop ends after a page with NextStart 0 or once                    *)
(* epochsReceived >= epochsWant; then ErrIncomplete is returned if fewer  *)
(* epochs arrived than were wanted.                                        *)
Return ==
    /\ pc' = "done"
    /\ res' = IF received < want THEN "ErrIncomplete" ELSE "ok"

(* An answer arrives: received grows by the page length, and the loop    *)
(* over its values starts.                                                 *)
Page(page) ==
    /\ received' = Int64(received + Len(page.values))
    /\ values' = page.values /\ next' = page.next
    /\ pc' = "page"
    /\ UNCHANGED <<start, current, profiles, res>>

(* Mutant: a value that fails verification is skipped, the loop goes on. *)
VerifyFailsSkip ==
    /\ pc = "page"
    /\ values # <<>>
    /\ ~Verified(Head(values))
    /\ values' = Tail(values)
    /\ UNCHANGED <<honest, hist, pc, reqStart, reqEnd, start, want, received,
                   current, profiles, next, res>>

(* The next value of the page fails verification: ListHistory returns     *)
(* its error.                                                              *)
VerifyFails ==
    /\ pc = "page"
    /\ values # <<>>
    /\ ~Verified(Head(values))
    /\ pc' = "done" /\ res' = "VerifyError"
    /\ UNCHANGED <<honest, hist, reqStart, reqEnd, start, want, received,
                   current, profiles, values, next>>

(* The next value of the page is verified and compressed. *)
ProcessValue ==
    /\ pc = "page"
    /\ values # <<>>
    /\ Verified(Head(values))
    /\ LET acc == CompressStep([current |-> current, profiles |-> profiles],
                               Head(values))
       IN  current' = acc.current /\ profiles' = acc.profiles
    /\ values' = Tail(values)
    /\ UNCHANGED <<honest, hist, pc, reqStart, reqEnd, start, want, received,
                   next, res>>

(* All values of the page are processed: the loop breaks on NextStart 0,  *)
(* or continues from NextStart.                                            *)
EndPage ==
    /\ pc = "page"
    /\ values = <<>>
    /\ IF next = 0
       THEN Return /\ UNCHANGED start
       ELSE start' = next /\ pc' = "loop" /\ res' = res
    /\ UNCHANGED <<honest, hist, reqStart, reqEnd, want, received, current,
                   profiles, values, next>>

(* One request and its answer.  An honest network delivers the server's  *)
(* answer: its error for a request it rejects, else its page.             *)
FetchPage ==
    /\ pc = "loop"
    /\ received < want
    /\ IF honest
       THEN IF ServerRejects(start, RequestSize)
            THEN /\ pc' = "done" /\ res' = "RpcError"
                 /\ UNCHANGED <<start, received, current, profiles, values, next>>
            ELSE Page(ServerPage(start, RequestSize))
       ELSE \E page \in ForgedPages : Page(page)
    /\ UNCHANGED <<honest, hist, reqStart, reqEnd, want>>

(* The RPC fails on the way: the network dropped the request or the       *)
(* answer.  ListHistory returns the error.                                 *)
FetchError ==
    /\ pc = "loop"
    /\ received < want
    /\ pc' = "done" /\ res' = "RpcError"
    /\ UNCHANGED <<honest, hist, reqStart, reqEnd, start, want, received,
                   current, profiles, values, next>>

(* The loop condition fails: epochsReceived >= epochsWant.                 *)
LoopExit ==
    /\ pc = "loop"
    /\ received >= want
    /\ received' = received
    /\ Return
    /\ UNCHANGED <<honest, hist, reqStart, reqEnd, start, want, current,
                   profiles, values, next>>

Next ==
    \/ \E s \in Starts, e \in Ends : ListHistory(s, e)
    \/ FetchPage
    \/ FetchError
    \/ VerifyFails
    \/ ProcessValue
    \/ EndPage
    \/ LoopExit

Spec == Init /\ [][Next]_vars

-----------------------------------------------------------------------------
(* Type invariant. *)
TypeOK ==
    /\ honest \in BOOLEAN
    /\ hist \in [Epochs -> Profiles]
    /\ pc \in {"idle", "loop", "page", "done"}
    /\ {reqStart, reqEnd, start, want} \subseteq Int
    /\ pc \in {"loop", "page"} => start \in Nat
    /\ values \in Seq(Values) /\ next \in Nat
    /\ received \in MinInt64..MaxInt64
    /\ current \in Profiles
    /\ profiles \subseteq Values
    /\ res \in {"none", "ok", "BadStart", "RpcError", "VerifyError", "ErrIncomplete"}

(* The epochs of [s, e] at which the user's profile differs from the one  *)
(* before, where before s there is no profile: the reference definition   *)
(* of "the profiles from start to end, identical consecutive profiles     *)
(* filtered out" (the doc comment of ListHistory).                         *)
ChangePoints(s, e) ==
    {Value(r) :
        r \in {r \in s..e : hist[r] # IF r = s THEN None ELSE hist[r - 1]}}

(* Against an honest server and network, a successful                     *)
(* ListHistory(start, end) with start <= end covers epochs the server     *)
(* has, and returns exactly the epochs of [start, end] at which the       *)
(* profile changed, each with its profile; a range past the server's      *)
(* latest epoch ends in ErrIncomplete.                                     *)
HistoryFaithful ==
    honest /\ pc = "done" /\ reqStart <= reqEnd /\ res \in {"ok", "ErrIncomplete"} =>
        IF reqEnd <= MaxEpoch
        THEN res = "ok" /\ profiles = ChangePoints(reqStart, reqEnd)
        ELSE res = "ErrIncomplete"

(* What a transparency client promises whatever the network does: it may *)
(* fail, but a successful ListHistory(start, end) with start <= end never *)
(* lies, it returns exactly the changes of the server's history over      *)
(* [start, end], and only for epochs the server has.                       *)
HistorySound ==
    pc = "done" /\ res = "ok" /\ reqStart <= reqEnd =>
        /\ reqEnd <= MaxEpoch
        /\ profiles = ChangePoints(reqStart, reqEnd)

(* A value the server never committed to: its profile is neither the    *)
(* one of its revision nor nil.                                            *)
Forged(v) == v.profile \notin {hist[v.rev], None}

(* A page holding a forged value that the loop has not reached yet. *)
ForgedPending == pc = "page" /\ \E i \in 1..Len(values) : Forged(values[i])

(* A value that fails VerifyGetEntryResponse in the middle of a page      *)
(* aborts the whole listing (verify.go:349-352): once a page holding a    *)
(* forged value has arrived, whatever values come before it in the page,  *)
(* ListHistory can only end with the verification error, never return    *)
(* the profiles compressed so far nor ErrIncomplete.                       *)
FailedValueAborts ==
    [](ForgedPending => [](pc = "done" => res = "VerifyError"))

=============================================================================
