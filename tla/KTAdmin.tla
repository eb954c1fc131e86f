------------------------------- MODULE KTAdmin -------------------------------
(***************************************************************************)
(* The key transparency admin server (adminserver.Server): CreateDomain,   *)
(* its initialize, DeleteDomain and UndeleteDomain, as concurrent gRPC     *)
(* handlers over two shared services: the Trillian admin/log/map servers   *)
(* (trees) and the domain storage.  Each caller runs one handler; every    *)
(* call the handler makes to another service is a step of its own, and    *)
(* every error return is a step to "done".                                 *)
(*                                                                         *)
(* A tree is abstracted to its kind, its size (the number of leaves of a  *)
(* log; a new map is at revision 0 with its empty root) and the domain    *)
(* its Description names.  The request templates logArgs and mapArgs are  *)
(* package variables: CreateDomain copies the request but not the Tree    *)
(* message it points to, so the Description it sets is written to the     *)
(* shared Tree (logDesc, mapDesc) and read back when the request is sent. *)
(* Unsynchronised, that is a Go data race; the model lets the read see    *)
(* either write, in the order the two handlers' steps interleave.         *)
(* The domain storage is modelled from its interface: Write of an          *)
(* existing domain ID fails, SetDelete of a missing one fails.             *)
(***************************************************************************)
EXTENDS Naturals, FiniteSets

CONSTANTS
  Callers,    \* concurrent admin RPCs, one handler each
  DomainIDs,  \* the domain IDs they name
  TreeIDs,    \* the tree IDs Trillian can hand out (bounds the trees created)
  None

ASSUME AdminAssumption ==
  /\ IsFiniteSet(TreeIDs) /\ None \notin TreeIDs /\ None \notin DomainIDs

Ops == {"CreateDomain", "DeleteDomain", "UndeleteDomain"}

(* The control points of CreateDomain, in the order of the code. *)
CreatePC ==
  {"keygen", "logdesc", "logtree", "mapdesc", "maptree", "durations", "initialize", "write"}

VARIABLES
  trees,    \* Trillian: tree ID -> [kind, size, desc]; kind "none" for an unused ID
  logDesc,  \* logArgs.Tree.Description, the domain it names
  mapDesc,  \* mapArgs.Tree.Description
  domains,  \* domain storage: domain ID -> record, or None
  pc,       \* pc[c]: "idle", a point of CreatePC, or "done"
  arg,      \* arg[c]: [op, domain, valid]; valid: the intervals parse
  logT,     \* logT[c], mapT[c]: the trees CreateDomain created so far
  mapT,
  ret       \* ret[c]: "ok" or an error

vars == <<trees, logDesc, mapDesc, domains, pc, arg, logT, mapT, ret>>

NoTree == [kind |-> "none", size |-> 0, desc |-> None]

Unused == {t \in TreeIDs : trees[t].kind = "none"}

(* A return of a handler: "ok" or an error. *)
Return(c, err) ==
  /\ pc' = [pc EXCEPT ![c] = "done"]
  /\ ret' = [ret EXCEPT ![c] = err]

Goto(c, l) == pc' = [pc EXCEPT ![c] = l]

-----------------------------------------------------------------------------
Init ==
  /\ trees = [t \in TreeIDs |-> NoTree]
  /\ logDesc = None /\ mapDesc = None
  /\ domains = [d \in DomainIDs |-> None]
  /\ pc = [c \in Callers |-> "idle"]
  /\ arg = [c \in Callers |-> None]
  /\ logT = [c \in Callers |-> None]
  /\ mapT = [c \in Callers |-> None]
  /\ ret = [c \in Callers |-> None]

(* A request reaches its handler. *)
Call(c, a) ==
  /\ pc[c] = "idle"
  /\ arg' = [arg EXCEPT ![c] = a]
  /\ pc' = [pc EXCEPT ![c] = IF a.op = "CreateDomain" THEN "keygen" ELSE "setdelete"]
  /\ UNCHANGED <<trees, logDesc, mapDesc, domains, logT, mapT, ret>>

(* CreateDomain: the VRF key is generated, unwrapped and its public part   *)
(* encoded; any of the three may fail.  No existence check comes first    *)
(* (the TODO at its top).                                                  *)
Keygen(c) ==
  /\ pc[c] = "keygen"
  /\ \/ Goto(c, "logdesc") /\ UNCHANGED ret
     \/ Return(c, "keygen")
  /\ UNCHANGED <<logDesc, mapDesc, trees, domains, arg, logT, mapT>>

(* logTreeArgs := *logArgs; logTreeArgs.Tree.Description = "KT domain    *)
(* <id>'s SMH Log": the write goes to the Tree shared with every handler.  *)
SetLogDesc(c) ==
  /\ pc[c] = "logdesc"
  /\ logDesc' = arg[c].domain
  /\ Goto(c, "logtree")
  /\ UNCHANGED <<trees, mapDesc, domains, arg, logT, mapT, ret>>

SetMapDesc(c) ==
  /\ pc[c] = "mapdesc"
  /\ mapDesc' = arg[c].domain
  /\ Goto(c, "maptree")
  /\ UNCHANGED <<trees, logDesc, domains, arg, logT, mapT, ret>>

(* Mutant: the map tree is assigned to logTree as well. *)
CreateTreeLogOnly(c, kind, desc, next) ==
  \/ \E t \in Unused :
       /\ trees' = [trees EXCEPT ![t] = [kind |-> kind, size |-> 0, desc |-> desc]]
       /\ logT' = [logT EXCEPT ![c] = t] /\ UNCHANGED mapT
       /\ Goto(c, next) /\ UNCHANGED ret
  \/ Return(c, "CreateTree") /\ UNCHANGED <<trees, logT, mapT>>

(* logAdmin.CreateTree(&logTreeArgs), then mapAdmin.CreateTree: a fresh,  *)
(* empty tree with the Description the shared Tree holds now, or an error. *)
CreateTree(c, kind, desc, next) ==
  \/ \E t \in Unused :
       /\ trees' = [trees EXCEPT ![t] = [kind |-> kind, size |-> 0, desc |-> desc]]
       /\ IF kind = "log"
            THEN logT' = [logT EXCEPT ![c] = t] /\ UNCHANGED mapT
            ELSE mapT' = [mapT EXCEPT ![c] = t] /\ UNCHANGED logT
       /\ Goto(c, next) /\ UNCHANGED ret
  \/ Return(c, "CreateTree") /\ UNCHANGED <<trees, logT, mapT>>

CreateLogTree(c) ==
  /\ pc[c] = "logtree"
  /\ CreateTree(c, "log", logDesc, "mapdesc")
  /\ UNCHANGED <<logDesc, mapDesc, domains, arg>>

CreateMapTree(c) ==
  /\ pc[c] = "maptree"
  /\ CreateTree(c, "map", mapDesc, "durations")
  /\ UNCHANGED <<logDesc, mapDesc, domains, arg>>

(* ptypes.Duration(in.MinInterval) and (in.MaxInterval). *)
Durations(c) ==
  /\ pc[c] = "durations"
  /\ IF arg[c].valid THEN Goto(c, "initialize") /\ UNCHANGED ret
                     ELSE Return(c, "Duration")
  /\ UNCHANGED <<logDesc, mapDesc, trees, domains, arg, logT, mapT>>

(* Mutant: the error of logClient.AddLeaf is dropped. *)
InitializeIgnoreAddLeaf(c) ==
  /\ pc[c] = "initialize"
  /\ \/ Goto(c, "write") /\ UNCHANGED <<trees, ret>>
     \/ Return(c, "initialize") /\ UNCHANGED trees
     \/ /\ trees[logT[c]].size = 0 /\ trees[mapT[c]].size = 0
        /\ trees' = [trees EXCEPT ![logT[c]].size = 1]
        /\ Goto(c, "write") /\ UNCHANGED ret
  /\ UNCHANGED <<logDesc, mapDesc, domains, arg, logT, mapT>>

(* initialize(logTree, mapTree): newLogClient, GetLatestSignedLogRoot and  *)
(* GetSignedMapRoot may fail; if the log is empty and the map at revision  *)
(* 0, the empty map root is added as the log's first leaf (AddLeaf blocks *)
(* until it is sequenced; it fails with the leaf not added, or with it    *)
(* added and the answer lost).  CreateDomain, its only caller, hands it   *)
(* the trees it just created, so the test always holds.                    *)
Initialize(c) ==
  /\ pc[c] = "initialize"
  /\ LET empty == trees[logT[c]].size = 0 /\ trees[mapT[c]].size = 0
         added == [trees EXCEPT ![logT[c]].size = 1]
     IN  \/ Return(c, "initialize") /\ UNCHANGED trees
         \/ empty /\ trees' = added /\ Return(c, "initialize")
         \/ empty /\ trees' = added /\ Goto(c, "write") /\ UNCHANGED ret
  /\ UNCHANGED <<logDesc, mapDesc, domains, arg, logT, mapT>>

(* domains.Write of the new record; it fails when the ID exists (deleted  *)
(* or not) or the storage fails.  Then the domain is returned.             *)
Write(c) ==
  /\ pc[c] = "write"
  /\ LET d == arg[c].domain IN
     \/ /\ domains[d] = None
        /\ domains' = [domains EXCEPT ![d] =
                         [log |-> logT[c], map |-> mapT[c], deleted |-> FALSE]]
        /\ Return(c, "ok")
     \/ Return(c, "Write") /\ UNCHANGED domains
  /\ UNCHANGED <<logDesc, mapDesc, trees, arg, logT, mapT>>

(* DeleteDomain and UndeleteDomain: domains.SetDelete(id, flag). *)
SetDelete(c) ==
  /\ pc[c] = "setdelete"
  /\ LET d == arg[c].domain IN
     \/ /\ domains[d] # None
        /\ domains' = [domains EXCEPT ![d].deleted = (arg[c].op = "DeleteDomain")]
        /\ Return(c, "ok")
     \/ Return(c, "SetDelete") /\ UNCHANGED domains
  /\ UNCHANGED <<logDesc, mapDesc, trees, arg, logT, mapT>>

Requests == [op : Ops, domain : DomainIDs, valid : BOOLEAN]

Next ==
  \E c \in Callers :
    \/ \E a \in Requests : Call(c, a)
    \/ Keygen(c) \/ SetLogDesc(c) \/ CreateLogTree(c) \/ SetMapDesc(c)
    \/ CreateMapTree(c) \/ Durations(c)
    \/ Initialize(c) \/ Write(c) \/ SetDelete(c)

Spec == Init /\ [][Next]_vars

-----------------------------------------------------------------------------
(* Type invariant. *)
TypeOK ==
  /\ trees \in [TreeIDs -> [kind : {"none", "log", "map"}, size : 0..1,
                            desc : DomainIDs \cup {None}]]
  /\ {logDesc, mapDesc} \subseteq DomainIDs \cup {None}
  /\ domains \in [DomainIDs -> {None} \cup [log : TreeIDs, map : TreeIDs, deleted : BOOLEAN]]
  /\ pc \in [Callers -> {"idle", "setdelete", "done"} \cup CreatePC]
  /\ arg \in [Callers -> Requests \cup {None}]
  /\ logT \in [Callers -> TreeIDs \cup {None}]
  /\ mapT \in [Callers -> TreeIDs \cup {None}]
  /\ \A c \in Callers : pc[c] \in {"durations", "initialize", "write"} =>
       logT[c] \in TreeIDs /\ mapT[c] \in TreeIDs

(* A domain the storage holds, deleted or not, names a log tree that holds *)
(* the empty map root as its first leaf and a map tree: initialize ran to *)
(* completion before domains.Write, whatever the other handlers did.      *)
DomainsInitialized ==
  \A d \in DomainIDs : domains[d] # None =>
    /\ trees[domains[d].log].kind = "log" /\ trees[domains[d].log].size = 1
    /\ trees[domains[d].map].kind = "map"

(* The trees of a stored domain carry that domain's description: its     *)
(* log tree is "KT domain d's SMH Log" and its map tree "KT domain d's    *)
(* Map", as CreateDomain sets them for the request it serves.             *)
TreesDescribeDomain ==
  \A d \in DomainIDs : domains[d] # None =>
    trees[domains[d].log].desc = d /\ trees[domains[d].map].desc = d
=============================================================================
