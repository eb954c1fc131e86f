--------------------------- MODULE KTHistoryProofs ---------------------------
(***************************************************************************)
(* Proofs about the history listing (KTHistory): its type invariant, with *)
(* the int64 wrap-around of epochsReceived, and that whatever the network *)
(* delivers every non-nil profile ListHistory returns is the server's.    *)
(***************************************************************************)
EXTENDS KTHistory, NaturalsInduction, WellFoundedInduction, TLAPS

-----------------------------------------------------------------------------
(* Powers of two and the two's-complement wrap-around. *)

(* Pow2 satisfies its recursive definition at every natural number. *)
LEMMA Pow2Def == \A n \in Nat : Pow2[n] = IF n = 0 THEN 1 ELSE 2 * Pow2[n - 1]
<1>1. NatInductiveDefHypothesis(Pow2, 1, LAMBDA v, n : 2 * v)
  BY DEF NatInductiveDefHypothesis, Pow2
<1>2. NatInductiveDefConclusion(Pow2, 1, LAMBDA v, n : 2 * v)
  BY <1>1, NatInductiveDef
<1>3. QED
  BY <1>2 DEF NatInductiveDefConclusion

(* A non-empty set of naturals has a least element. *)
LEMMA LeastNat ==
  ASSUME NEW T \in SUBSET Nat, T # {}
  PROVE  \E m \in T : \A k \in T : ~(k < m)
<1>1. IsWellFoundedOn(OpToRel(<, Nat), Nat)
  BY NatLessThanWellFounded
<1>2. \E m \in T : \A k \in T : ~(<<k, m>> \in OpToRel(<, Nat))
  BY <1>1, WFMin
<1>3. QED
  BY <1>2 DEF OpToRel

(* Every power of two is a positive natural. *)
LEMMA Pow2Pos == \A n \in Nat : Pow2[n] \in Nat \ {0}
<1> DEFINE T == {n \in Nat : Pow2[n] \notin Nat \ {0}}
<1>1. SUFFICES ASSUME T # {} PROVE FALSE
  OBVIOUS
<1>2. PICK m \in T : \A k \in T : ~(k < m)
  BY <1>1, LeastNat
<1>3. CASE m = 0
  BY <1>2, <1>3, Pow2Def
<1>4. CASE m # 0
  <2>1. m - 1 \in Nat /\ m - 1 \notin T
    BY <1>2, <1>4
  <2>2. Pow2[m - 1] \in Nat \ {0}
    BY <2>1
  <2>3. QED
    BY <1>2, <1>4, <2>2, Pow2Def
<1>5. QED
  BY <1>3, <1>4

(* Go's wrapping arithmetic in w bits yields a w-bit integer. *)
LEMMA WrapRange ==
  ASSUME NEW w \in Nat \ {0}, NEW x \in Int
  PROVE  Wrap(w, x) \in -Pow2[w - 1]..(Pow2[w - 1] - 1)
<1>1. Pow2[w - 1] \in Nat \ {0}
  BY Pow2Pos
<1>2. Pow2[w] = 2 * Pow2[w - 1]
  BY Pow2Def
<1>3. QED
  BY <1>1, <1>2 DEF Wrap

(* int64 results lie in the int64 range. *)
LEMMA Int64Range ==
  ASSUME NEW x \in Int
  PROVE  Int64(x) \in MinInt64..MaxInt64
BY HistoryAssumption, WrapRange DEF Int64, MinInt64, MaxInt64

(* int32 results are integers. *)
LEMMA Int32Int ==
  ASSUME NEW x \in Int
  PROVE  Int32(x) \in Int
<1>1. Wrap(W32, x) \in -Pow2[W32 - 1]..(Pow2[W32 - 1] - 1)
  BY HistoryAssumption, WrapRange
<1>2. Pow2[W32 - 1] \in Nat
  BY HistoryAssumption, Pow2Pos
<1>3. QED
  BY <1>1, <1>2 DEF Int32

-----------------------------------------------------------------------------
(* The inductive invariant: the type invariant is inductive as it stands, *)
(* once the values of both kinds of page are shown to be values of some  *)
(* epoch and epochsReceived an int64.                                      *)
IInv == TypeOK

(* The initial states satisfy the inductive invariant. *)
LEMMA InitIInv == Init => IInv
<1> SUFFICES ASSUME Init PROVE IInv
  OBVIOUS
<1>1. 0 \in MinInt64..MaxInt64
  BY HistoryAssumption, Pow2Pos DEF MinInt64, MaxInt64
<1>2. QED
  BY <1>1, HistoryAssumption DEF Init, IInv, TypeOK, Profiles

(* The values a page can carry and its NextStart, whether the server      *)
(* produced it or the network forged it.                                   *)
LEMMA ForgedPageType ==
  ASSUME TypeOK, NEW page \in ForgedPages
  PROVE  page.values \in Seq(Values) /\ page.next \in Nat
<1>1. NetValues \subseteq Values
  BY DEF NetValues, TypeOK, Value, Values, Epochs, Profiles
<1>2. PICK n \in 0..PageSize : page.values \in [1..n -> NetValues]
  BY DEF ForgedPages
<1>3. page.values \in Seq(Values)
  BY <1>1, <1>2, HistoryAssumption
<1>4. QED
  BY <1>3, HistoryAssumption DEF ForgedPages, Epochs

(* A page the server sends for a request it accepts holds values of its   *)
(* epochs and a natural NextStart.                                         *)
LEMMA ServerPageType ==
  ASSUME TypeOK
  PROVE  \A s \in Nat, ps \in Int :
           ~ServerRejects(s, ps) =>
             /\ ServerPage(s, ps).values \in Seq(Values)
             /\ ServerPage(s, ps).next \in Nat
<1> SUFFICES ASSUME NEW s \in Nat, NEW ps \in Int, ~ServerRejects(s, ps)
             PROVE  /\ ServerPage(s, ps).values \in Seq(Values)
                    /\ ServerPage(s, ps).next \in Nat
  OBVIOUS
<1> DEFINE size == IF ps = 0 \/ ps > PageSize THEN PageSize ELSE ps
           last == min(s + size - 1, MaxEpoch)
<1>1. s \in Epochs /\ size \in 1..PageSize
  BY HistoryAssumption DEF ServerRejects, Epochs
<1>2. last \in s..MaxEpoch
  BY <1>1, HistoryAssumption DEF min, Epochs
<1>3. \A i \in 1..(last - s + 1) : Value(s + i - 1) \in Values
  <2> SUFFICES ASSUME NEW i \in 1..(last - s + 1) PROVE Value(s + i - 1) \in Values
    OBVIOUS
  <2>1. s + i - 1 \in Epochs
    BY <1>2, HistoryAssumption DEF Epochs
  <2>2. hist[s + i - 1] \in Profiles
    BY <2>1 DEF TypeOK
  <2>3. QED
    BY <2>1, <2>2 DEF Value, Values
<1>4. [i \in 1..(last - s + 1) |-> Value(s + i - 1)] \in Seq(Values)
  BY <1>2, <1>3
<1>5. QED
  BY <1>2, <1>4, HistoryAssumption DEF ServerPage

(* The page size a request carries is an integer. *)
LEMMA RequestSizeInt ==
  ASSUME TypeOK
  PROVE  RequestSize \in Int
<1>1. Int64(reqEnd - start) \in Int
  BY Int64Range DEF TypeOK
<1>2. Int64(Int64(reqEnd - start) + 1) \in Int
  BY <1>1, Int64Range
<1>3. Int32(Int64(Int64(reqEnd - start) + 1)) \in Int
  BY <1>2, Int32Int
<1>4. QED
  BY <1>3, HistoryAssumption DEF RequestSize, min

(* An answer that arrives preserves the invariant. *)
LEMMA FetchPageStep ==
  ASSUME IInv, FetchPage
  PROVE  IInv'
<1>1. pc = "loop" /\ start \in Nat /\ received \in Int
  BY DEF FetchPage, IInv, TypeOK
<1>2. \A page : /\ page.values \in Seq(Values) /\ page.next \in Nat
                /\ Page(page)
                /\ UNCHANGED <<honest, hist, reqStart, reqEnd, want>>
                => IInv'
  <2> SUFFICES ASSUME NEW page, page.values \in Seq(Values), page.next \in Nat,
                      Page(page), UNCHANGED <<honest, hist, reqStart, reqEnd, want>>
               PROVE  IInv'
    OBVIOUS
  <2>1. received' \in MinInt64..MaxInt64
    BY <1>1, Int64Range DEF Page
  <2>2. /\ pc' = "page" /\ values' \in Seq(Values) /\ next' \in Nat
        /\ UNCHANGED <<start, current, profiles, res>>
    BY DEF Page
  <2>3. QED
    BY <1>1, <2>1, <2>2 DEF IInv, TypeOK
<1>3. CASE honest /\ ServerRejects(start, RequestSize)
  <2>1. /\ pc' = "done" /\ res' = "RpcError"
        /\ UNCHANGED <<honest, hist, reqStart, reqEnd, start, want, received,
                       current, profiles, values, next>>
    BY <1>3 DEF FetchPage
  <2>2. QED
    BY <2>1 DEF IInv, TypeOK
<1>4. CASE honest /\ ~ServerRejects(start, RequestSize)
  <2>1. RequestSize \in Int
    BY RequestSizeInt DEF IInv
  <2>2. /\ ServerPage(start, RequestSize).values \in Seq(Values)
        /\ ServerPage(start, RequestSize).next \in Nat
    BY <1>1, <1>4, <2>1, ServerPageType DEF IInv
  <2>3. Page(ServerPage(start, RequestSize))
        /\ UNCHANGED <<honest, hist, reqStart, reqEnd, want>>
    BY <1>4 DEF FetchPage
  <2>4. QED
    BY <1>2, <2>2, <2>3
<1>5. CASE ~honest
  <2>1. PICK page \in ForgedPages : Page(page)
    BY <1>5 DEF FetchPage
  <2>2. page.values \in Seq(Values) /\ page.next \in Nat
    BY ForgedPageType DEF IInv
  <2>3. UNCHANGED <<honest, hist, reqStart, reqEnd, want>>
    BY DEF FetchPage
  <2>4. QED
    BY <1>2, <2>1, <2>2, <2>3
<1>6. QED
  BY <1>3, <1>4, <1>5

(* Processing a value keeps the recorded profiles values of some epoch. *)
LEMMA ProcessValueStep ==
  ASSUME IInv, ProcessValue
  PROVE  IInv'
<1> DEFINE v == Head(values)
           acc == CompressStep([current |-> current, profiles |-> profiles], v)
<1>1. v \in Values /\ Tail(values) \in Seq(Values)
  BY DEF ProcessValue, IInv, TypeOK
<1>3. /\ current' = acc.current /\ profiles' = acc.profiles
      /\ values' = Tail(values)
      /\ UNCHANGED <<honest, hist, pc, reqStart, reqEnd, start, want, received,
                     next, res>>
  BY DEF ProcessValue
<1>4. CASE v.profile = current
  <2>1. acc = [current |-> current, profiles |-> profiles]
    BY <1>4 DEF CompressStep
  <2>2. QED
    BY <1>1, <1>3, <2>1 DEF IInv, TypeOK
<1>5. CASE v.profile # current
  <2>1. acc = [current |-> v.profile, profiles |-> profiles \cup {v}]
    BY <1>5 DEF CompressStep
  <2>2. current' \in Profiles /\ profiles' \subseteq Values
    BY <1>1, <1>3, <2>1 DEF IInv, TypeOK, Values
  <2>3. QED
    BY <1>1, <1>3, <2>2 DEF IInv, TypeOK
<1>6. QED
  BY <1>4, <1>5

(* Each step of ListHistory preserves the inductive invariant. *)
LEMMA StepIInv == IInv /\ [Next]_vars => IInv'
<1> SUFFICES ASSUME IInv, [Next]_vars PROVE IInv'
  OBVIOUS
<1>1. CASE \E s \in Starts, e \in Ends : ListHistory(s, e)
  <2>1. PICK s \in Starts, e \in Ends : ListHistory(s, e)
    BY <1>1
  <2>2. s \in Int /\ e \in Int
    BY HistoryAssumption
  <2>3. 0 \in MinInt64..MaxInt64
    BY HistoryAssumption, Pow2Pos DEF MinInt64, MaxInt64
  <2>4. Int64(Int64(e - s) + 1) \in Int
    BY <2>2, Int64Range
  <2>5. /\ reqStart' = s /\ reqEnd' = e /\ start' = s
        /\ \/ pc' = "done" /\ res' = "BadStart" /\ UNCHANGED <<want, received>>
           \/ /\ s >= 0 /\ pc' = "loop" /\ res' = res
              /\ want' = Int64(Int64(e - s) + 1) /\ received' = 0
        /\ UNCHANGED <<honest, hist, current, profiles, values, next>>
    BY <2>1, <2>2 DEF ListHistory
  <2>6. QED
    BY <2>2, <2>3, <2>4, <2>5 DEF IInv, TypeOK
<1>2. CASE FetchPage
  BY <1>2, FetchPageStep
<1>3. CASE FetchError \/ VerifyFails
  <2>1. /\ pc' = "done" /\ res' \in {"RpcError", "VerifyError"}
        /\ UNCHANGED <<honest, hist, reqStart, reqEnd, start, want, received,
                       current, profiles, values, next>>
    BY <1>3 DEF FetchError, VerifyFails
  <2>2. QED
    BY <2>1 DEF IInv, TypeOK
<1>4. CASE ProcessValue
  BY <1>4, ProcessValueStep
<1>5. CASE EndPage
  <2>1. /\ \/ pc' = "done" /\ res' \in {"ErrIncomplete", "ok"} /\ start' = start
           \/ pc' = "loop" /\ start' = next /\ res' = res
        /\ UNCHANGED <<honest, hist, reqStart, reqEnd, want, received, current,
                       profiles, values, next>>
    BY <1>5 DEF EndPage, Return
  <2>2. QED
    BY <2>1 DEF IInv, TypeOK
<1>6. CASE LoopExit
  <2>1. /\ pc' = "done" /\ res' \in {"ErrIncomplete", "ok"}
        /\ UNCHANGED <<honest, hist, reqStart, reqEnd, start, want, received,
                       current, profiles, values, next>>
    BY <1>6 DEF LoopExit, Return
  <2>2. QED
    BY <2>1 DEF IInv, TypeOK
<1>7. CASE UNCHANGED vars
  BY <1>7 DEF vars, IInv, TypeOK
<1>8. QED
  BY <1>1, <1>2, <1>3, <1>4, <1>5, <1>6, <1>7 DEF Next

(* The inductive invariant holds in every state of ListHistory. *)
LEMMA SpecIInv == Spec => []IInv
BY InitIInv, StepIInv, PTL DEF Spec

(* The type invariant of the history listing: whatever the arguments and  *)
(* the network, epochsReceived stays an int64 and the loop's start a      *)
(* natural.                                                                *)
THEOREM HistoryTypeCorrect == Spec => []TypeOK
BY SpecIInv, PTL DEF IInv

(* FailedValueAborts.  Once a page holding a forged value has arrived,   *)
(* the call is aborting: either the forged value is still ahead in the    *)
(* page, since ProcessValue only consumes a value that passes Verified    *)
(* and EndPage needs the page to be exhausted, or ListHistory has         *)
(* returned the verification error.                                        *)
Aborting == ForgedPending \/ (pc = "done" /\ res = "VerifyError")

(* No step leaves an aborting call. *)
LEMMA AbortingStable == IInv /\ Aborting /\ [Next]_vars => Aborting'
<1> SUFFICES ASSUME IInv, Aborting, [Next]_vars PROVE Aborting'
  OBVIOUS
<1>1. pc \in {"page", "done"}
  BY DEF Aborting, ForgedPending
<1>2. CASE pc = "done"
  <2>1. res = "VerifyError"
    BY <1>2 DEF Aborting, ForgedPending
  <2>2. UNCHANGED <<pc, res>>
    BY <1>2 DEF Next, ListHistory, FetchPage, FetchError, VerifyFails,
                ProcessValue, EndPage, LoopExit, vars
  <2>3. QED
    BY <1>2, <2>1, <2>2 DEF Aborting
<1>3. CASE pc = "page"
  <2>1. PICK i \in 1..Len(values) : Forged(values[i])
    BY <1>3 DEF Aborting, ForgedPending
  <2>2. values \in Seq(Values)
    BY DEF IInv, TypeOK
  <2>3. values # <<>>
    BY <2>1, <2>2
  <2>4. CASE VerifyFails
    BY <2>4 DEF VerifyFails, Aborting
  <2>5. CASE ProcessValue
    <3>1. ~Forged(values[1])
      BY <2>2, <2>3, <2>5 DEF ProcessValue, Verified, Forged
    <3>2. i > 1
      BY <2>1, <3>1
    <3>3. /\ values' = Tail(values) /\ pc' = "page" /\ hist' = hist
      BY <2>5 DEF ProcessValue
    <3>4. i - 1 \in 1..Len(values') /\ values'[i - 1] = values[i]
      BY <2>1, <2>2, <2>3, <3>2, <3>3
    <3>5. values'[i - 1].profile \notin {hist'[values'[i - 1].rev], None}
      BY <2>1, <3>3, <3>4 DEF Forged
    <3>6. ForgedPending'
      BY <3>3, <3>4, <3>5 DEF ForgedPending, Forged
    <3>7. QED
      BY <3>6 DEF Aborting
  <2>6. CASE UNCHANGED vars
    BY <2>6 DEF vars, Aborting, ForgedPending, Forged
  <2>7. CASE \/ \E s \in Starts, e \in Ends : ListHistory(s, e)
             \/ FetchPage \/ FetchError \/ EndPage \/ LoopExit
    BY <1>3, <2>3, <2>7 DEF ListHistory, FetchPage, FetchError, EndPage, LoopExit
  <2>8. QED
    BY <2>4, <2>5, <2>6, <2>7 DEF Next
<1>4. QED
  BY <1>1, <1>2, <1>3

(* A value that fails verification in the middle of a page aborts the     *)
(* whole listing (verify.go:349-352): whatever pages the network delivers *)
(* and whatever verified values precede the forged one, once it has      *)
(* arrived ListHistory can only end with the verification error, never    *)
(* return the profiles compressed so far.                                  *)
THEOREM FailedValueAbortsHolds == Spec => FailedValueAborts
<1>1. ForgedPending => Aborting
  BY DEF Aborting
<1>2. Aborting => (pc = "done" => res = "VerifyError")
  BY DEF Aborting, ForgedPending
<1>3. QED
  BY <1>1, <1>2, AbortingStable, SpecIInv, PTL DEF Spec, FailedValueAborts

-----------------------------------------------------------------------------
(* HistoryFaithful.  It holds only for calls whose range end - start + 1  *)
(* is an int64: ListHistory(0, MaxInt64) wraps epochsWant and returns an  *)
(* empty history (the run history_overflow).                               *)
CallsFit ==
    \A s \in Starts, e \in Ends : 0 <= s /\ s <= e => e - s + 1 <= MaxInt64

(* Wrapping leaves a value that is already a w-bit integer unchanged. *)
LEMMA WrapId ==
  ASSUME NEW w \in Nat \ {0}, NEW x \in -Pow2[w - 1]..(Pow2[w - 1] - 1)
  PROVE  Wrap(w, x) = x
<1>1. Pow2[w - 1] \in Nat \ {0}
  BY Pow2Pos
<1>2. Pow2[w] = 2 * Pow2[w - 1]
  BY Pow2Def
<1>3. QED
  BY <1>1, <1>2 DEF Wrap

(* An int64 operation on int64 values that does not overflow is exact. *)
LEMMA Int64Id ==
  ASSUME NEW x \in MinInt64..MaxInt64
  PROVE  Int64(x) = x
BY HistoryAssumption, WrapId DEF Int64, MinInt64, MaxInt64

(* No epoch of an empty range is a change point. *)
LEMMA ChangePointsEmpty ==
  ASSUME NEW a \in Int
  PROVE  ChangePoints(a, a - 1) = {}
BY DEF ChangePoints

(* The change points up to epoch p are those up to p - 1, and p itself if *)
(* its profile differs from the one before it.                             *)
LEMMA ChangePointsExtend ==
  ASSUME TypeOK
  PROVE  \A a \in Nat, p \in Epochs :
           a <= p =>
             ChangePoints(a, p) =
               ChangePoints(a, p - 1) \cup
               (IF hist[p] # (IF p = a THEN None ELSE hist[p - 1])
                THEN {Value(p)} ELSE {})
<1> SUFFICES ASSUME NEW a \in Nat, NEW p \in Epochs, a <= p
             PROVE  ChangePoints(a, p) =
                      ChangePoints(a, p - 1) \cup
                      (IF hist[p] # (IF p = a THEN None ELSE hist[p - 1])
                       THEN {Value(p)} ELSE {})
  OBVIOUS
<1>1. a..p = a..(p - 1) \cup {p}
  BY DEF Epochs
<1>2. QED
  BY <1>1 DEF ChangePoints

(* The size the server serves is at least one epoch and, when the range  *)
(* left fits in an int64, at most the epochs left: if int32((end-start)+1) *)
(* wraps, the range exceeds every int32 and so the page size.              *)
LEMMA ServedSize ==
  ASSUME TypeOK, start \in Nat, start <= reqEnd, reqEnd - start + 1 <= MaxInt64,
         ~ServerRejects(start, RequestSize)
  PROVE  LET size == IF RequestSize = 0 \/ RequestSize > PageSize
                     THEN PageSize ELSE RequestSize
         IN  size \in 1..(reqEnd - start + 1)
<1> DEFINE E == reqEnd - start + 1
           size == IF RequestSize = 0 \/ RequestSize > PageSize
                   THEN PageSize ELSE RequestSize
<1> SUFFICES size \in 1..E
  OBVIOUS
<1>1. Pow2[W64 - 1] \in Nat \ {0} /\ Pow2[W32 - 1] \in Nat \ {0}
  BY HistoryAssumption, Pow2Pos
<1>2. Int64(Int64(reqEnd - start) + 1) = E
  <2>1. Int64(reqEnd - start) = reqEnd - start
    BY <1>1, Int64Id DEF TypeOK, MinInt64, MaxInt64
  <2>2. QED
    BY <1>1, <2>1, Int64Id DEF TypeOK, MinInt64, MaxInt64
<1>3. RequestSize = min(Int32(E), PageSize)
  BY <1>2 DEF RequestSize
<1>4. RequestSize \in Int /\ RequestSize >= 0
  BY RequestSizeInt DEF ServerRejects
<1>5. CASE E <= Pow2[W32 - 1] - 1
  <2>1. Int32(E) = E
    BY <1>1, <1>5, HistoryAssumption, WrapId DEF Int32, TypeOK
  <2>2. QED
    BY <1>3, <1>4, <2>1, HistoryAssumption DEF min, TypeOK
<1>6. CASE E > Pow2[W32 - 1] - 1
  <2>1. Int32(E) \in Int
    BY Int32Int DEF TypeOK
  <2>2. PageSize < E
    BY <1>1, <1>6, HistoryAssumption DEF TypeOK
  <2>3. QED
    BY <1>3, <1>4, <2>1, <2>2, HistoryAssumption DEF min, TypeOK
<1>7. QED
  BY <1>1, <1>5, <1>6 DEF TypeOK

(* What an honest server and network guarantee while ListHistory runs.   *)
(* The profile before epoch p, None before the requested start.            *)
Prev(p) == IF p = reqStart THEN None ELSE hist[p - 1]

(* One past the last epoch received, and the epoch of the next value of *)
(* the current page.                                                       *)
Top == reqStart + received
Pos == Top - Len(values)

(* Before the call nothing is recorded. *)
IdleClean == pc = "idle" => current = None /\ profiles = {}

(* Within the call, epochsWant is exact. *)
WantExact ==
    pc \in {"loop", "page"} /\ reqStart <= reqEnd =>
        /\ 0 <= reqStart /\ reqEnd - reqStart + 1 <= MaxInt64
        /\ want = reqEnd - reqStart + 1

(* At the top of the loop the epochs [reqStart, start) have arrived and  *)
(* their change points are recorded; start is past the server's last     *)
(* epoch only on entry.                                                     *)
LoopPos ==
    pc = "loop" /\ reqStart <= reqEnd =>
        /\ start = Top
        /\ reqStart <= start /\ start <= reqEnd + 1
        /\ start = reqStart \/ start <= MaxEpoch
        /\ current = Prev(start)
        /\ profiles = ChangePoints(reqStart, start - 1)

(* Within a page the values left are the consecutive epochs [Pos, Top),  *)
(* the change points before Pos are recorded, and NextStart is 0 exactly *)
(* when the page ends at the server's last epoch.                          *)
PagePos ==
    pc = "page" /\ reqStart <= reqEnd =>
        /\ reqStart <= Pos /\ Pos <= Top /\ 0 < Top
        /\ Top <= reqEnd + 1 /\ Top <= MaxEpoch + 1
        /\ next = IF Top = MaxEpoch + 1 THEN 0 ELSE Top
        /\ values = [i \in 1..Len(values) |-> Value(Pos + i - 1)]
        /\ current = Prev(Pos)
        /\ profiles = ChangePoints(reqStart, Pos - 1)

HonestInv ==
    honest => IdleClean /\ WantExact /\ LoopPos /\ PagePos /\ HistoryFaithful

(* The initial states satisfy HonestInv. *)
LEMMA InitHonest == Init => HonestInv
BY DEF Init, HonestInv, IdleClean, WantExact, LoopPos, PagePos, HistoryFaithful

(* A step that ends ListHistory with an error keeps HonestInv. *)
LEMMA ErrorStepHonest ==
  ASSUME /\ pc # "done" /\ pc' = "done"
         /\ res' \notin {"ok", "ErrIncomplete"}
         /\ honest' = honest
  PROVE  HonestInv'
BY DEF HonestInv, IdleClean, WantExact, LoopPos, PagePos, HistoryFaithful

(* The call keeps HonestInv: epochsWant is exact for a range that fits. *)
LEMMA ListHistoryHonest ==
  ASSUME IInv, HonestInv, honest, CallsFit, NEW s \in Starts, NEW e \in Ends,
         ListHistory(s, e)
  PROVE  HonestInv'
<1>1. s \in Int /\ e \in Int
  BY HistoryAssumption
<1>2. CASE s < 0
  BY <1>2, ErrorStepHonest DEF ListHistory
<1>3. CASE s >= 0
  <2>1. /\ pc = "idle" /\ pc' = "loop" /\ res' = res
        /\ reqStart' = s /\ reqEnd' = e /\ start' = s
        /\ want' = Int64(Int64(e - s) + 1) /\ received' = 0
        /\ UNCHANGED <<honest, hist, current, profiles, values, next>>
    BY <1>1, <1>3 DEF ListHistory
  <2>2. s <= e => want' = e - s + 1 /\ e - s + 1 <= MaxInt64
    <3> SUFFICES ASSUME s <= e PROVE want' = e - s + 1 /\ e - s + 1 <= MaxInt64
      OBVIOUS
    <3>1. Pow2[W64 - 1] \in Nat \ {0}
      BY HistoryAssumption, Pow2Pos
    <3>2. e - s + 1 <= MaxInt64
      BY <1>3 DEF CallsFit
    <3>3. Int64(e - s) = e - s
      BY <1>1, <3>1, <3>2, Int64Id DEF MinInt64, MaxInt64
    <3>4. QED
      BY <1>1, <2>1, <3>1, <3>2, <3>3, Int64Id DEF MinInt64, MaxInt64
  <2>3. current = None /\ profiles = {}
    BY <2>1 DEF HonestInv, IdleClean
  <2>4. /\ ChangePoints(reqStart, start - 1)' = {}
        /\ Prev(start)' = None
        /\ Top' = s
    BY <1>1, <2>1 DEF ChangePoints, Prev, Top
  <2>5. LoopPos'
    BY <1>1, <1>3, <2>1, <2>3, <2>4 DEF LoopPos
  <2>6. QED
    BY <1>1, <1>3, <2>1, <2>2, <2>5
       DEF HonestInv, IdleClean, WantExact, PagePos, HistoryFaithful
<1>4. QED
  BY <1>1, <1>2, <1>3

(* An honest answer keeps HonestInv: the page holds the epochs             *)
(* [start, last] with last at most the end requested, so epochsReceived   *)
(* does not overflow and counts exactly the epochs received.               *)
LEMMA FetchPageHonest ==
  ASSUME IInv, HonestInv, honest, FetchPage
  PROVE  HonestInv'
<1>0. MaxEpoch \in Nat /\ Pow2[W64 - 1] \in Nat \ {0}
  BY HistoryAssumption, Pow2Pos
<1>1. pc = "loop" /\ start \in Nat /\ received < want /\ TypeOK
  BY DEF FetchPage, IInv, TypeOK
<1>2. CASE ServerRejects(start, RequestSize)
  BY <1>0, <1>1, <1>2, ErrorStepHonest DEF FetchPage
<1>3. CASE ~ServerRejects(start, RequestSize)
  <2> DEFINE size == IF RequestSize = 0 \/ RequestSize > PageSize
                     THEN PageSize ELSE RequestSize
             last == min(start + size - 1, MaxEpoch)
  <2>0. PICK vs : vs = [i \in 1..(last - start + 1) |-> Value(start + i - 1)]
    OBVIOUS
  <2>1. /\ received' = Int64(received + Len(vs))
        /\ values' = vs
        /\ next' = IF last = MaxEpoch THEN 0 ELSE last + 1
        /\ pc' = "page"
        /\ UNCHANGED <<honest, hist, reqStart, reqEnd, want, start, current,
                       profiles, res>>
    BY <1>3, <2>0 DEF FetchPage, Page, ServerPage
  <2>2. CASE ~(reqStart <= reqEnd)
    BY <1>0, <1>1, <2>1, <2>2 DEF HonestInv, IdleClean, WantExact, LoopPos, PagePos,
                      HistoryFaithful
  <2>3. CASE reqStart <= reqEnd
    <3>1. /\ 0 <= reqStart /\ reqEnd - reqStart + 1 <= MaxInt64
          /\ want = reqEnd - reqStart + 1
          /\ start = reqStart + received /\ reqStart <= start
      BY <1>0, <1>1, <2>3 DEF HonestInv, WantExact, LoopPos, Top
    <3>0. current = Prev(start) /\ profiles = ChangePoints(reqStart, start - 1)
      BY <1>1, <2>3 DEF HonestInv, LoopPos
    <3>2. start <= reqEnd /\ reqEnd - start + 1 <= MaxInt64
      BY <1>0, <1>1, <3>1 DEF TypeOK, MaxInt64
    <3>3. size \in 1..(reqEnd - start + 1)
      BY <1>0, <1>1, <1>3, <3>2, ServedSize
    <3>4. start <= MaxEpoch /\ last \in start..MaxEpoch /\ last <= reqEnd
      BY <1>0, <1>1, <1>3, <3>3, HistoryAssumption DEF ServerRejects, min, TypeOK
    <3>11. received \in Int /\ reqStart \in Int /\ start \in Int /\ last \in Int
      BY <1>0, <1>1, <3>4 DEF TypeOK, MinInt64, MaxInt64
    <3>5. Len(vs) = last - start + 1
      <4>1. last - start + 1 \in Nat /\ DOMAIN vs = 1..(last - start + 1)
        BY <1>0, <1>1, <2>0, <3>4
      <4>2. QED
        BY <4>1
    <3>6. received' = last - reqStart + 1
      <4>1. Pow2[W64 - 1] \in Nat \ {0}
        BY HistoryAssumption, Pow2Pos
      <4>2. received + Len(vs) = last - reqStart + 1
        <5>1. received \in Int /\ reqStart \in Int /\ start \in Int /\ last \in Int
          BY <1>0, <1>1, <3>4, <4>1 DEF TypeOK, MinInt64, MaxInt64
        <5>2. QED
          BY <3>1, <3>5, <5>1
      <4>3. last - reqStart + 1 \in MinInt64..MaxInt64
        BY <1>0, <1>1, <3>1, <3>4, <4>1 DEF MinInt64, MaxInt64, TypeOK
      <4>4. Int64(last - reqStart + 1) = last - reqStart + 1
        BY <1>0, <1>1, <4>3, Int64Id
      <4>5. QED
        BY <1>0, <1>1, <2>1, <4>2, <4>4
    <3>7. Top' = last + 1 /\ Pos' = start
      BY <2>1, <3>5, <3>6, <3>11 DEF Top, Pos
    <3>8. /\ Prev(Pos)' = Prev(start)
          /\ ChangePoints(reqStart, Pos - 1)' = ChangePoints(reqStart, start - 1)
          /\ values' = [i \in 1..Len(values') |-> Value(Pos + i - 1)']
      <4>1. Prev(Pos)' = Prev(start)
        BY <2>1, <3>7 DEF Prev
      <4>2. ChangePoints(reqStart, Pos - 1)' = ChangePoints(reqStart, start - 1)
        BY <2>1, <3>7 DEF ChangePoints, Value
      <4>3. values' = [i \in 1..Len(values') |-> Value(Pos + i - 1)']
        BY <2>0, <2>1, <3>5, <3>7 DEF Value
      <4>4. QED
        BY <4>1, <4>2, <4>3
    <3>9. PagePos'
      <4>1. /\ reqStart' <= Pos' /\ Pos' <= Top' /\ 0 < Top'
            /\ Top' <= reqEnd' + 1 /\ Top' <= MaxEpoch + 1
        BY <1>0, <1>1, <2>1, <3>1, <3>2, <3>4, <3>7, <3>11 DEF TypeOK
      <4>2. next' = IF Top' = MaxEpoch + 1 THEN 0 ELSE Top'
        BY <1>0, <2>1, <3>7, <3>11
      <4>3. current' = Prev(Pos)' /\ profiles' = ChangePoints(reqStart, Pos - 1)'
        BY <2>1, <3>0, <3>8
      <4>4. QED
        BY <3>8, <4>1, <4>2, <4>3 DEF PagePos
    <3>10. QED
      BY <1>0, <1>1, <2>1, <3>1, <3>9 DEF HonestInv, IdleClean, WantExact, LoopPos,
                              HistoryFaithful
  <2>4. QED
    BY <2>2, <2>3
<1>4. QED
  BY <1>2, <1>3

(* Processing the value of epoch Pos records it exactly when it is a      *)
(* change point.                                                           *)
LEMMA ProcessValueHonest ==
  ASSUME IInv, HonestInv, honest, ProcessValue
  PROVE  HonestInv'
<1>1. pc = "page" /\ values # <<>> /\ TypeOK
  BY DEF ProcessValue, IInv
<1>2. /\ values' = Tail(values)
      /\ UNCHANGED <<honest, hist, pc, reqStart, reqEnd, start, want, received,
                     next, res>>
  BY DEF ProcessValue
<1>3. CASE ~(reqStart <= reqEnd)
  BY <1>1, <1>2, <1>3 DEF HonestInv, IdleClean, WantExact, LoopPos, PagePos,
                          HistoryFaithful
<1>4. CASE reqStart <= reqEnd
  <2>1. /\ 0 <= reqStart /\ reqEnd - reqStart + 1 <= MaxInt64
        /\ want = reqEnd - reqStart + 1
        /\ reqStart <= Pos /\ Pos <= Top /\ 0 < Top
        /\ Top <= reqEnd + 1 /\ Top <= MaxEpoch + 1
        /\ next = IF Top = MaxEpoch + 1 THEN 0 ELSE Top
    BY <1>1, <1>4 DEF HonestInv, WantExact, PagePos
  <2>2. /\ values = [i \in 1..Len(values) |-> Value(Pos + i - 1)]
        /\ current = Prev(Pos)
        /\ profiles = ChangePoints(reqStart, Pos - 1)
    BY <1>1, <1>4 DEF HonestInv, PagePos
  <2>3. /\ Len(values) \in Nat \ {0}
        /\ Len(Tail(values)) = Len(values) - 1
        /\ \A i \in 1..Len(values) - 1 : Tail(values)[i] = values[i + 1]
    BY <1>1 DEF TypeOK
  <2>4. /\ received \in Int /\ reqStart \in Int /\ MaxEpoch \in Nat
        /\ Pos \in Int /\ Top \in Int
    <3>1. Pow2[W64 - 1] \in Nat \ {0}
      BY HistoryAssumption, Pow2Pos
    <3>2. QED
      BY <1>1, <2>3, <3>1, HistoryAssumption DEF TypeOK, MinInt64, MaxInt64, Top, Pos
  <2>5. Pos \in Epochs /\ Pos < Top /\ Pos \in Nat
    BY <2>1, <2>3, <2>4 DEF Top, Pos, Epochs
  <2>6. Head(values) = Value(Pos)
    BY <2>2, <2>3, <2>4
  <2>7. Top' = Top /\ Pos' = Pos + 1
    BY <1>2, <2>3, <2>4 DEF Top, Pos
  <2>8. ChangePoints(reqStart, Pos) =
          ChangePoints(reqStart, Pos - 1) \cup
          (IF hist[Pos] # Prev(Pos) THEN {Value(Pos)} ELSE {})
    BY <1>1, <2>1, <2>4, <2>5, ChangePointsExtend DEF Prev
  <2>9. /\ current' = hist[Pos]
        /\ profiles' = ChangePoints(reqStart, Pos)
    <3> DEFINE acc == CompressStep([current |-> current, profiles |-> profiles],
                                   Head(values))
    <3>1. current' = acc.current /\ profiles' = acc.profiles
      BY DEF ProcessValue
    <3>2. Head(values).profile = hist[Pos]
      BY <2>6 DEF Value
    <3>3. CASE hist[Pos] = current
      <4>1. acc = [current |-> current, profiles |-> profiles]
        BY <3>2, <3>3 DEF CompressStep
      <4>2. QED
        BY <2>2, <2>8, <3>1, <3>3, <4>1
    <3>4. CASE hist[Pos] # current
      <4>1. acc = [current |-> hist[Pos], profiles |-> profiles \cup {Value(Pos)}]
        BY <2>6, <3>2, <3>4 DEF CompressStep
      <4>2. QED
        BY <2>2, <2>8, <3>1, <3>4, <4>1
    <3>5. QED
      BY <3>3, <3>4
  <2>10. /\ Prev(Pos)' = hist[Pos]
         /\ ChangePoints(reqStart, Pos - 1)' = ChangePoints(reqStart, Pos)
    BY <1>2, <2>1, <2>4, <2>7 DEF Prev, ChangePoints, Value
  <2>11. values' = [i \in 1..Len(values') |-> Value(Pos + i - 1)']
    <3>1. values' \in Seq(Values) /\ Len(values') = Len(values) - 1
      BY <1>1, <1>2, <2>3 DEF TypeOK
    <3>2. DOMAIN values' = 1..Len(values')
      BY <3>1
    <3>3. \A i \in 1..Len(values') : values'[i] = Value(Pos + i - 1)'
      <4> SUFFICES ASSUME NEW i \in 1..Len(values')
                   PROVE  values'[i] = Value(Pos + i - 1)'
        OBVIOUS
      <4>1. values'[i] = values[i + 1] /\ i + 1 \in 1..Len(values)
        BY <1>2, <2>3, <3>1
      <4>2. values[i + 1] = Value(Pos + i)
        BY <2>2, <2>4, <4>1
      <4>3. Value(Pos + i - 1)' = Value(Pos + i)
        BY <1>2, <2>4, <2>7 DEF Value
      <4>4. QED
        BY <4>1, <4>2, <4>3
    <3>4. QED
      BY <3>1, <3>2, <3>3
  <2>12. PagePos'
    <3>1. /\ reqStart' <= Pos' /\ Pos' <= Top' /\ 0 < Top'
          /\ Top' <= reqEnd' + 1 /\ Top' <= MaxEpoch + 1
          /\ next' = IF Top' = MaxEpoch + 1 THEN 0 ELSE Top'
      BY <1>2, <2>1, <2>4, <2>5, <2>7
    <3>2. QED
      BY <2>9, <2>10, <2>11, <3>1 DEF PagePos
  <2>13. QED
    BY <1>1, <1>2, <2>1, <2>12 DEF HonestInv, IdleClean, WantExact, LoopPos,
                                   HistoryFaithful
<1>5. QED
  BY <1>3, <1>4

(* The end of a page: NextStart 0 comes with the server's last epoch, so  *)
(* the listing is complete exactly when the end requested is that epoch; *)
(* otherwise the loop resumes at the epoch after the page.                 *)
LEMMA EndPageHonest ==
  ASSUME IInv, HonestInv, honest, EndPage
  PROVE  HonestInv'
<1>1. pc = "page" /\ values = <<>> /\ TypeOK
  BY DEF EndPage, IInv
<1>2. /\ \/ next = 0 /\ Return /\ start' = start
         \/ next # 0 /\ start' = next /\ pc' = "loop" /\ res' = res
      /\ UNCHANGED <<honest, hist, reqStart, reqEnd, want, received, current,
                     profiles, values, next>>
  BY DEF EndPage
<1>3. /\ received \in Int /\ reqStart \in Int /\ reqEnd \in Int
      /\ MaxEpoch \in Nat /\ Pos = Top
  <2>1. Pow2[W64 - 1] \in Nat \ {0}
    BY HistoryAssumption, Pow2Pos
  <2>2. QED
    BY <1>1, <2>1, HistoryAssumption DEF TypeOK, MinInt64, MaxInt64, Top, Pos
<1>4. CASE ~(reqStart <= reqEnd)
  BY <1>2, <1>4 DEF Return, HonestInv, IdleClean, WantExact, LoopPos, PagePos,
                    HistoryFaithful
<1>5. CASE reqStart <= reqEnd
  <2>1. /\ want = reqEnd - reqStart + 1
        /\ 0 <= reqStart /\ reqEnd - reqStart + 1 <= MaxInt64
        /\ reqStart <= Top /\ 0 < Top
        /\ Top <= reqEnd + 1 /\ Top <= MaxEpoch + 1
        /\ next = IF Top = MaxEpoch + 1 THEN 0 ELSE Top
        /\ current = Prev(Top)
        /\ profiles = ChangePoints(reqStart, Top - 1)
    BY <1>1, <1>3, <1>5 DEF HonestInv, WantExact, PagePos
  <2>2. /\ Prev(start)' = Prev(start')
        /\ \A k \in Int : ChangePoints(reqStart, k)' = ChangePoints(reqStart, k)
    BY <1>2 DEF Prev, ChangePoints, Value
  <2>3. CASE next = 0
    <3>1. Top = MaxEpoch + 1 /\ reqEnd >= MaxEpoch
      BY <1>3, <2>1, <2>3
    <3>2. pc' = "done" /\ res' = IF received < want THEN "ErrIncomplete" ELSE "ok"
      BY <1>2, <2>3 DEF Return
    <3>3. reqEnd <= MaxEpoch => res' = "ok" /\ profiles' = ChangePoints(reqStart, reqEnd)'
      BY <1>2, <1>3, <2>1, <2>2, <3>1, <3>2 DEF Top
    <3>4. ~(reqEnd <= MaxEpoch) => res' = "ErrIncomplete"
      BY <1>3, <2>1, <3>1, <3>2 DEF Top
    <3>5. QED
      BY <1>2, <3>2, <3>3, <3>4 DEF HonestInv, IdleClean, WantExact, LoopPos,
                                    PagePos, HistoryFaithful
  <2>4. CASE next # 0
    <3>1. start' = Top /\ pc' = "loop" /\ Top <= MaxEpoch
      BY <1>2, <1>3, <2>1, <2>4
    <3>2. Top' = Top
      BY <1>2 DEF Top
    <3>3. LoopPos'
      BY <1>2, <1>3, <2>1, <2>2, <3>1, <3>2 DEF LoopPos
    <3>4. QED
      BY <1>2, <1>5, <2>1, <3>1, <3>3 DEF HonestInv, IdleClean, WantExact,
                                           PagePos, HistoryFaithful
  <2>5. QED
    BY <2>3, <2>4
<1>6. QED
  BY <1>4, <1>5

(* The loop condition fails only once every epoch of [start, end] has     *)
(* arrived, within the server's epochs: the listing is complete.          *)
LEMMA LoopExitHonest ==
  ASSUME IInv, HonestInv, honest, LoopExit
  PROVE  HonestInv'
<1>1. /\ pc = "loop" /\ received >= want /\ TypeOK
      /\ pc' = "done" /\ res' = IF received < want THEN "ErrIncomplete" ELSE "ok"
      /\ UNCHANGED <<honest, hist, reqStart, reqEnd, start, want, received,
                     current, profiles, values, next>>
  BY DEF LoopExit, Return, IInv
<1>2. CASE ~(reqStart <= reqEnd)
  BY <1>1, <1>2 DEF HonestInv, IdleClean, WantExact, LoopPos, PagePos,
                    HistoryFaithful
<1>3. CASE reqStart <= reqEnd
  <2>1. /\ want = reqEnd - reqStart + 1
        /\ start = reqStart + received
        /\ reqStart <= start /\ start <= reqEnd + 1
        /\ start = reqStart \/ start <= MaxEpoch
        /\ profiles = ChangePoints(reqStart, start - 1)
    BY <1>1, <1>3 DEF HonestInv, WantExact, LoopPos, Top
  <2>2. /\ received \in Int /\ reqStart \in Int /\ reqEnd \in Int
        /\ start \in Int /\ want \in Int /\ MaxEpoch \in Nat
    <3>1. Pow2[W64 - 1] \in Nat \ {0}
      BY HistoryAssumption, Pow2Pos
    <3>2. QED
      BY <1>1, <3>1, HistoryAssumption DEF TypeOK, MinInt64, MaxInt64
  <2>3. start = reqEnd + 1 /\ reqEnd < MaxEpoch /\ res' = "ok"
    <3>1. start = reqEnd + 1
      BY <1>1, <1>3, <2>1, <2>2
    <3>2. reqEnd < MaxEpoch
      BY <1>3, <2>1, <2>2, <3>1
    <3>3. res' = "ok"
      BY <1>1, <2>2
    <3>4. QED
      BY <3>1, <3>2, <3>3
  <2>4. profiles' = ChangePoints(reqStart, reqEnd)'
    BY <1>1, <2>1, <2>2, <2>3 DEF ChangePoints, Value
  <2>5. QED
    BY <1>1, <1>3, <2>2, <2>3, <2>4 DEF HonestInv, IdleClean, WantExact, LoopPos, PagePos,
                            HistoryFaithful
<1>4. QED
  BY <1>2, <1>3

(* Each step preserves HonestInv, for calls whose range fits in an int64. *)
LEMMA StepHonest ==
  ASSUME CallsFit, IInv, HonestInv, [Next]_vars
  PROVE  HonestInv'
<1>1. honest' = honest
  BY DEF Next, vars, ListHistory, FetchPage, FetchError, VerifyFails,
         ProcessValue, EndPage, LoopExit
<1>2. CASE ~honest
  BY <1>1, <1>2 DEF HonestInv
<1>3. CASE honest
  <2>1. CASE \E s \in Starts, e \in Ends : ListHistory(s, e)
    BY <1>3, <2>1, ListHistoryHonest
  <2>2. CASE FetchPage
    BY <1>3, <2>2, FetchPageHonest
  <2>3. CASE FetchError \/ VerifyFails
    BY <1>1, <2>3, ErrorStepHonest DEF FetchError, VerifyFails
  <2>4. CASE ProcessValue
    BY <1>3, <2>4, ProcessValueHonest
  <2>5. CASE EndPage
    BY <1>3, <2>5, EndPageHonest
  <2>6. CASE LoopExit
    BY <1>3, <2>6, LoopExitHonest
  <2>7. CASE UNCHANGED vars
    BY <2>7 DEF vars, HonestInv, IdleClean, WantExact, LoopPos, PagePos,
                HistoryFaithful, Prev, Top, Pos, ChangePoints, Value
  <2>8. QED
    BY <2>1, <2>2, <2>3, <2>4, <2>5, <2>6, <2>7 DEF Next
<1>4. QED
  BY <1>2, <1>3

(* Against an honest server and network, a successful ListHistory(start,  *)
(* end) with start <= end returns exactly the epochs of [start, end] at    *)
(* which the profile changed, and a range past the server's latest epoch  *)
(* ends in ErrIncomplete, for every call whose range end - start + 1 is   *)
(* an int64: paging by NextStart, the int32 page size and the compression *)
(* of equal consecutive profiles (verify.go:333-375) together compute the *)
(* change points.                                                          *)
THEOREM HistoryFaithfulHolds ==
  ASSUME CallsFit
  PROVE  Spec => []HistoryFaithful
<1>1. Init => IInv /\ HonestInv
  BY InitIInv, InitHonest
<1>2. IInv /\ HonestInv /\ [Next]_vars => IInv' /\ HonestInv'
  BY StepIInv, StepHonest
<1>3. IInv /\ HonestInv => HistoryFaithful
  BY DEF HonestInv, HistoryFaithful
<1>4. QED
  BY <1>1, <1>2, <1>3, PTL DEF Spec
==============================================================================
