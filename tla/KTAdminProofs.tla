---------------------------- MODULE KTAdminProofs ----------------------------
(***************************************************************************)
(* Proof that every domain the admin server stores is initialized, for    *)
(* every number of concurrent handlers, domain IDs and tree IDs.           *)
(* DomainsInitialized is not inductive alone: domains.Write stores the    *)
(* trees the handler created, and nothing in DomainsInitialized says what  *)
(* they are.  The strengthening HandlerTrees says it along CreateDomain's  *)
(* control points: once past CreateLogTree the handler's log tree is a    *)
(* log, once past CreateMapTree its map tree is a map, and once past      *)
(* initialize the log holds its first leaf.  It stays true under the other *)
(* handlers' steps because CreateTree only takes an unused tree ID, and    *)
(* initialize only ever adds the first leaf.                               *)
(***************************************************************************)
EXTENDS KTAdmin, TLAPS

USE AdminAssumption

TreeRecords == [kind : {"none", "log", "map"}, size : 0..1, desc : DomainIDs \cup {None}]

AfterLog == {"mapdesc", "maptree", "durations", "initialize", "write"}
AfterMap == {"durations", "initialize", "write"}

(* What CreateDomain has established at each of its control points. *)
HandlerTrees ==
  \A c \in Callers :
    /\ pc[c] # "idle" => arg[c] \in Requests
    /\ pc[c] \in AfterLog => logT[c] \in TreeIDs /\ trees[logT[c]].kind = "log"
    /\ pc[c] \in AfterMap => trees[mapT[c]].kind = "map"
    /\ pc[c] = "write" => trees[logT[c]].size = 1

IInv == TypeOK /\ DomainsInitialized /\ HandlerTrees

-----------------------------------------------------------------------------
(* No handler has started and storage is empty. *)
LEMMA InitInv == Init => IInv
<1> SUFFICES ASSUME Init PROVE IInv
  OBVIOUS
<1>1. NoTree \in TreeRecords
  BY DEF NoTree, TreeRecords
<1>2. TypeOK
  BY <1>1 DEF Init, TypeOK, TreeRecords
<1>3. DomainsInitialized /\ HandlerTrees
  BY DEF Init, DomainsInitialized, HandlerTrees, AfterLog, AfterMap
<1>4. QED
  BY <1>2, <1>3 DEF IInv

(* Every step of every handler preserves the invariant: a tree's kind only *)
(* changes from "none", and its size only from 0 to 1.                     *)
LEMMA StepInv == IInv /\ [Next]_vars => IInv'
<1> SUFFICES ASSUME IInv, [Next]_vars PROVE IInv'
  OBVIOUS
<1> USE DEF IInv
<1>1. CASE UNCHANGED vars
  BY <1>1 DEF vars, TypeOK, DomainsInitialized, HandlerTrees, Requests
<1>2. ASSUME NEW c \in Callers, NEW a \in Requests, Call(c, a) PROVE IInv'
  BY <1>2 DEF Call, TypeOK, DomainsInitialized, HandlerTrees, CreatePC, AfterLog, AfterMap
<1>3. ASSUME NEW c \in Callers, Keygen(c) PROVE IInv'
  BY <1>3 DEF Keygen, Goto, Return, TypeOK, DomainsInitialized, HandlerTrees,
               CreatePC, AfterLog, AfterMap
<1>4. ASSUME NEW c \in Callers, SetLogDesc(c) PROVE IInv'
  BY <1>4 DEF SetLogDesc, Goto, TypeOK, DomainsInitialized, HandlerTrees,
               CreatePC, AfterLog, AfterMap, Requests
<1>5. ASSUME NEW c \in Callers, SetMapDesc(c) PROVE IInv'
  BY <1>5 DEF SetMapDesc, Goto, TypeOK, DomainsInitialized, HandlerTrees,
               CreatePC, AfterLog, AfterMap, Requests
<1>6. ASSUME NEW c \in Callers, CreateLogTree(c) PROVE IInv'
  <2>1. CASE Return(c, "CreateTree") /\ UNCHANGED <<trees, logT, mapT>>
    BY <1>6, <2>1 DEF CreateLogTree, Return, TypeOK, DomainsInitialized,
                      HandlerTrees, CreatePC, AfterLog, AfterMap
  <2>2. CASE \E t \in Unused :
               /\ trees' = [trees EXCEPT ![t] = [kind |-> "log", size |-> 0, desc |-> logDesc]]
               /\ logT' = [logT EXCEPT ![c] = t] /\ UNCHANGED mapT
               /\ Goto(c, "mapdesc") /\ UNCHANGED ret
    <3>1. PICK t \in Unused :
               /\ trees' = [trees EXCEPT ![t] = [kind |-> "log", size |-> 0, desc |-> logDesc]]
               /\ logT' = [logT EXCEPT ![c] = t] /\ UNCHANGED mapT
               /\ Goto(c, "mapdesc") /\ UNCHANGED ret
      BY <2>2
    <3>2. /\ t \in TreeIDs /\ trees[t].kind = "none"
          /\ trees'[t] = [kind |-> "log", size |-> 0, desc |-> logDesc]
          /\ \A x \in TreeIDs \ {t} : trees'[x] = trees[x]
          /\ trees' \in [TreeIDs -> TreeRecords]
      BY <3>1 DEF Unused, TypeOK, TreeRecords
    <3>3. UNCHANGED <<logDesc, mapDesc, domains, arg>> /\ pc[c] = "logtree"
      BY <1>6 DEF CreateLogTree
    <3>4. pc' = [pc EXCEPT ![c] = "mapdesc"]
      BY <3>1 DEF Goto
    <3>5. TypeOK'
      BY <3>1, <3>2, <3>3, <3>4 DEF TypeOK, TreeRecords, CreatePC
    <3>6. DomainsInitialized'
      BY <3>2, <3>3 DEF DomainsInitialized, TypeOK
    <3>7. HandlerTrees'
      BY <3>1, <3>2, <3>3, <3>4 DEF HandlerTrees, TypeOK, AfterLog, AfterMap
    <3>8. QED
      BY <3>5, <3>6, <3>7
  <2>3. QED
    BY <1>6, <2>1, <2>2 DEF CreateLogTree, CreateTree
<1>7. ASSUME NEW c \in Callers, CreateMapTree(c) PROVE IInv'
  <2>1. CASE Return(c, "CreateTree") /\ UNCHANGED <<trees, logT, mapT>>
    BY <1>7, <2>1 DEF CreateMapTree, Return, TypeOK, DomainsInitialized,
                      HandlerTrees, CreatePC, AfterLog, AfterMap
  <2>2. CASE \E t \in Unused :
               /\ trees' = [trees EXCEPT ![t] = [kind |-> "map", size |-> 0, desc |-> mapDesc]]
               /\ mapT' = [mapT EXCEPT ![c] = t] /\ UNCHANGED logT
               /\ Goto(c, "durations") /\ UNCHANGED ret
    <3>1. PICK t \in Unused :
               /\ trees' = [trees EXCEPT ![t] = [kind |-> "map", size |-> 0, desc |-> mapDesc]]
               /\ mapT' = [mapT EXCEPT ![c] = t] /\ UNCHANGED logT
               /\ Goto(c, "durations") /\ UNCHANGED ret
      BY <2>2
    <3>2. /\ t \in TreeIDs /\ trees[t].kind = "none"
          /\ trees'[t] = [kind |-> "map", size |-> 0, desc |-> mapDesc]
          /\ \A x \in TreeIDs \ {t} : trees'[x] = trees[x]
          /\ trees' \in [TreeIDs -> TreeRecords]
      BY <3>1 DEF Unused, TypeOK, TreeRecords
    <3>3. UNCHANGED <<logDesc, mapDesc, domains, arg>> /\ pc[c] = "maptree"
      BY <1>7 DEF CreateMapTree
    <3>4. pc' = [pc EXCEPT ![c] = "durations"]
      BY <3>1 DEF Goto
    <3>5. TypeOK'
      BY <3>1, <3>2, <3>3, <3>4 DEF TypeOK, TreeRecords, CreatePC, HandlerTrees, AfterLog
    <3>6. DomainsInitialized'
      BY <3>2, <3>3 DEF DomainsInitialized, TypeOK
    <3>7. HandlerTrees'
      BY <3>1, <3>2, <3>3, <3>4 DEF HandlerTrees, TypeOK, AfterLog, AfterMap
    <3>8. QED
      BY <3>5, <3>6, <3>7
  <2>3. QED
    BY <1>7, <2>1, <2>2 DEF CreateMapTree, CreateTree
<1>8. ASSUME NEW c \in Callers, Durations(c) PROVE IInv'
  BY <1>8 DEF Durations, Goto, Return, TypeOK, DomainsInitialized, HandlerTrees,
               CreatePC, AfterLog, AfterMap
<1>9. ASSUME NEW c \in Callers, Initialize(c) PROVE IInv'
  <2> DEFINE l == logT[c]
             added == [trees EXCEPT ![l].size = 1]
  <2>1. pc[c] = "initialize" /\ UNCHANGED <<logDesc, mapDesc, domains, arg, logT, mapT>>
    BY <1>9 DEF Initialize
  <2>2. l \in TreeIDs /\ trees[l].kind = "log" /\ trees[mapT[c]].kind = "map"
    BY <2>1 DEF HandlerTrees, AfterLog, AfterMap
  <2>3. trees[l] \in TreeRecords
    BY <2>2 DEF TypeOK, TreeRecords
  <2>4. /\ added[l].kind = "log" /\ added[l].size = 1
        /\ added[l] \in TreeRecords
        /\ \A x \in TreeIDs \ {l} : added[x] = trees[x]
        /\ added \in [TreeIDs -> TreeRecords]
    <3>1. added[l] = [trees[l] EXCEPT !.size = 1]
      BY <2>2 DEF TypeOK
    <3>2. added[l].kind = "log" /\ added[l].size = 1 /\ added[l].desc = trees[l].desc
      BY <3>1, <2>2, <2>3 DEF TreeRecords
    <3>3. added[l] \in TreeRecords
      BY <3>2, <2>3 DEF TreeRecords
    <3>4. QED
      BY <3>2, <3>3, <2>2 DEF TypeOK, TreeRecords
  <2>5. \/ Return(c, "initialize") /\ UNCHANGED trees
        \/ trees' = added /\ Return(c, "initialize")
        \/ trees' = added /\ Goto(c, "write") /\ UNCHANGED ret
    BY <1>9 DEF Initialize
  <2>6. /\ trees' \in [TreeIDs -> TreeRecords]
        /\ \A x \in TreeIDs : trees'[x].kind = trees[x].kind
        /\ \A x \in TreeIDs : trees[x].size = 1 => trees'[x].size = 1
        /\ pc' \in {[pc EXCEPT ![c] = "done"], [pc EXCEPT ![c] = "write"]}
        /\ pc' = [pc EXCEPT ![c] = "write"] => trees'[l].size = 1
    <3>1. CASE Return(c, "initialize") /\ UNCHANGED trees
      BY <3>1 DEF Return, TypeOK, TreeRecords
    <3>2. CASE trees' = added /\ Return(c, "initialize")
      BY <3>2, <2>4 DEF Return
    <3>3. CASE trees' = added /\ Goto(c, "write") /\ UNCHANGED ret
      BY <3>3, <2>4 DEF Goto
    <3>4. QED
      BY <2>5, <3>1, <3>2, <3>3
  <2>7. TypeOK'
    <3>1. pc' \in [Callers -> {"idle", "setdelete", "done"} \cup CreatePC]
      BY <2>6 DEF TypeOK, CreatePC
    <3>2. mapT[c] \in TreeIDs
      BY <2>1 DEF TypeOK
    <3>3. QED
      BY <2>1, <2>2, <2>6, <3>1, <3>2 DEF TypeOK, TreeRecords
  <2>8. DomainsInitialized'
    BY <2>1, <2>6, <2>2 DEF DomainsInitialized, TypeOK
  <2>9. HandlerTrees'
    BY <2>1, <2>6, <2>2 DEF HandlerTrees, TypeOK, AfterLog, AfterMap
  <2>10. QED
    BY <2>7, <2>8, <2>9
<1>10. ASSUME NEW c \in Callers, Write(c) PROVE IInv'
  <2> DEFINE d == arg[c].domain
             rec == [log |-> logT[c], map |-> mapT[c], deleted |-> FALSE]
  <2>1. pc[c] = "write" /\ UNCHANGED <<logDesc, mapDesc, trees, arg, logT, mapT>>
    BY <1>10 DEF Write
  <2>2. /\ d \in DomainIDs
        /\ rec \in [log : TreeIDs, map : TreeIDs, deleted : BOOLEAN]
        /\ trees[rec.log].kind = "log" /\ trees[rec.log].size = 1
        /\ trees[rec.map].kind = "map"
    BY <2>1 DEF HandlerTrees, AfterLog, AfterMap, TypeOK, Requests
  <2>3. \/ domains' = [domains EXCEPT ![d] = rec] /\ Return(c, "ok")
        \/ Return(c, "Write") /\ UNCHANGED domains
    BY <1>10 DEF Write
  <2>4. /\ \A e \in DomainIDs : domains'[e] = domains[e] \/ domains'[e] = rec
        /\ domains' \in [DomainIDs -> {None} \cup [log : TreeIDs, map : TreeIDs, deleted : BOOLEAN]]
        /\ pc' = [pc EXCEPT ![c] = "done"]
    <3>1. CASE domains' = [domains EXCEPT ![d] = rec] /\ Return(c, "ok")
      BY <3>1, <2>2 DEF Return, TypeOK
    <3>2. CASE Return(c, "Write") /\ UNCHANGED domains
      BY <3>2 DEF Return, TypeOK
    <3>3. QED
      BY <2>3, <3>1, <3>2
  <2>5. QED
    BY <2>1, <2>2, <2>4 DEF TypeOK, CreatePC, DomainsInitialized, HandlerTrees,
                            AfterLog, AfterMap
<1>11. ASSUME NEW c \in Callers, SetDelete(c) PROVE IInv'
  <2> DEFINE d == arg[c].domain
  <2>1. pc[c] = "setdelete" /\ UNCHANGED <<logDesc, mapDesc, trees, arg, logT, mapT>>
    BY <1>11 DEF SetDelete
  <2>2. d \in DomainIDs
    BY <2>1 DEF HandlerTrees, TypeOK, Requests
  <2>3. \/ /\ domains[d] # None
           /\ domains' = [domains EXCEPT ![d].deleted = (arg[c].op = "DeleteDomain")]
           /\ Return(c, "ok")
        \/ Return(c, "SetDelete") /\ UNCHANGED domains
    BY <1>11 DEF SetDelete
  <2>4. /\ domains' \in [DomainIDs -> {None} \cup [log : TreeIDs, map : TreeIDs, deleted : BOOLEAN]]
        /\ \A e \in DomainIDs : domains'[e] # None =>
              /\ domains[e] # None
              /\ domains'[e].log = domains[e].log /\ domains'[e].map = domains[e].map
        /\ pc' = [pc EXCEPT ![c] = "done"]
    <3>1. CASE /\ domains[d] # None
               /\ domains' = [domains EXCEPT ![d].deleted = (arg[c].op = "DeleteDomain")]
               /\ Return(c, "ok")
      <4>1. domains[d] \in [log : TreeIDs, map : TreeIDs, deleted : BOOLEAN]
        BY <3>1, <2>2 DEF TypeOK
      <4>2. /\ domains'[d].log = domains[d].log /\ domains'[d].map = domains[d].map
            /\ domains'[d].deleted \in BOOLEAN
        BY <3>1, <4>1, <2>2 DEF TypeOK
      <4>3. domains'[d] \in [log : TreeIDs, map : TreeIDs, deleted : BOOLEAN]
        BY <4>1, <4>2, <3>1, <2>2 DEF TypeOK
      <4>4. \A e \in DomainIDs \ {d} : domains'[e] = domains[e]
        BY <3>1 DEF TypeOK
      <4>5. QED
        BY <3>1, <4>2, <4>3, <4>4, <2>2 DEF Return, TypeOK
    <3>2. CASE Return(c, "SetDelete") /\ UNCHANGED domains
      BY <3>2 DEF Return, TypeOK
    <3>3. QED
      BY <2>3, <3>1, <3>2
  <2>5. QED
    BY <2>1, <2>4 DEF TypeOK, CreatePC, DomainsInitialized, HandlerTrees,
                      AfterLog, AfterMap
<1>12. QED
  BY <1>1, <1>2, <1>3, <1>4, <1>5, <1>6, <1>7, <1>8, <1>9, <1>10, <1>11 DEF Next

(* Whatever the interleaving of the handlers and whichever of their calls *)
(* fail, every domain in storage names a log tree holding the empty map    *)
(* root as its first leaf, and a map tree (CreateDomain, initialize).      *)
THEOREM AdminDomainsInitialized == Spec => []DomainsInitialized
<1>1. Spec => []IInv
  BY InitInv, StepInv, PTL DEF Spec
<1>2. QED
  BY <1>1, PTL DEF IInv

(* Every reachable state of the admin server is well typed; in particular *)
(* a handler that reached durations, initialize or write holds both trees. *)
THEOREM AdminTypeCorrect == Spec => []TypeOK
<1>1. Spec => []IInv
  BY InitInv, StepInv, PTL DEF Spec
<1>2. QED
  BY <1>1, PTL DEF IInv
=============================================================================
