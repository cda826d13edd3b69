----------------------------- MODULE ScopeStores -----------------------------
(***************************************************************************)
(* The four optimistic stores of a scope: packages/rp/branches (a graph of *)
(* branches with swipe candidates), packages/rp/state (one JSON document   *)
(* per owner, patched as a whole), packages/rp/scene and                   *)
(* packages/rp/relationship.  Every call is synchronous; what interleaves  *)
(* are callers that read, wait, and write on the revision they have read.  *)
(*                                                                         *)
(* A JSON value is a record: [t |-> "leaf", v], [t |-> "object", at: token *)
(* -> value] or [t |-> "array", items].  A pointer is a sequence of tokens *)
(* and Refused stands for every thrown error.                              *)
(***************************************************************************)
EXTENDS Naturals, FiniteSets, Sequences, SequencesExt, Functions

CONSTANTS
  None,
  Writers,
  Root, BranchIds, CandidateIds,
  Owners, Patches,          \* patches: sequences of [op, path, value]
  Scenes,                   \* [title, participants]
  Edges, Dimensions,        \* directed pairs; the values a relationship can hold
  Endings,                  \* the stores that are released or cleared, once each
  MaxRevision               \* bound: commits of a store

VARIABLES
  graph,        \* None or [revision, active, branches: id -> branch]
  documents,    \* owner -> None or [revision, value]
  scene,        \* None or [revision, scene]
  edges,        \* edge -> None or [revision, values]
  read,         \* writer -> what it has read and waits on, or None
  ended,        \* the stores that were released or cleared
  lost          \* stores where a commit replaced something its writer never read

ssVars == <<graph, documents, scene, edges, read, ended, lost>>

-----------------------------------------------------------------------------
Refused == [t |-> "refused"]
Index(token) == CASE token = "0" -> 0 [] token = "1" -> 1 [] OTHER -> None
(* arrayIndex(): within the array, one past its end for an insertion only.   *)
ArrayIndex(token, length, insertion) ==
  IF Index(token) = None \/ Index(token) >= length + (IF insertion THEN 1 ELSE 0) THEN None
  ELSE Index(token) + 1
ChildAt(node, token) ==
  IF node.t = "array" /\ ArrayIndex(token, Len(node.items), FALSE) # None
  THEN node.items[ArrayIndex(token, Len(node.items), FALSE)]
  ELSE IF node.t = "object" /\ token \in DOMAIN node.at THEN node.at[token] ELSE Refused
(* The node with another child in the place of one that exists.              *)
Put(node, token, child) ==
  IF node.t = "array"
  THEN [node EXCEPT !.items[ArrayIndex(token, Len(node.items), FALSE)] = child]
  ELSE [node EXCEPT !.at = (token :> child) @@ node.at]

ArrayApplied(node, token, op) ==
  LET index == ArrayIndex(token, Len(node.items), op.op = "add") IN
  IF token = "-" /\ op.op = "add" THEN [node EXCEPT !.items = Append(@, op.value)]
  ELSE IF index = None THEN Refused
  ELSE CASE op.op = "remove" -> [node EXCEPT !.items = RemoveAt(@, index)]
         [] op.op = "add" -> [node EXCEPT !.items = InsertAt(@, index, op.value)]
         [] OTHER -> [node EXCEPT !.items[index] = op.value]
ObjectApplied(node, token, op) ==
  IF op.op # "add" /\ token \notin DOMAIN node.at THEN Refused
  ELSE IF op.op = "remove" THEN [node EXCEPT !.at = Restrict(@, DOMAIN @ \ {token})]
  ELSE Put(node, token, op.value)
RECURSIVE Applied(_, _, _)
(* applyOperation(): the document after one operation at the end of a path.  *)
Applied(node, path, op) ==
  IF path = <<>>
  THEN CASE op.op = "remove" -> Refused
         [] op.op = "test" -> IF node = op.value THEN node ELSE Refused
         [] OTHER -> op.value
  ELSE IF Len(path) = 1
  THEN CASE op.op = "test" -> IF ChildAt(node, path[1]) = op.value THEN node ELSE Refused
         [] node.t = "array" -> ArrayApplied(node, path[1], op)
         [] node.t = "object" -> ObjectApplied(node, path[1], op)
         [] OTHER -> Refused
  ELSE LET child == ChildAt(node, path[1])
           new == IF child = Refused THEN Refused ELSE Applied(child, Tail(path), op)
       IN IF new = Refused THEN Refused ELSE Put(node, path[1], new)
(* applyPatch(): every operation on a detached clone, whose root must stay   *)
(* an object.                                                                *)
Patched(value, operations) ==
  LET new == FoldLeft(LAMBDA acc, op: IF acc = Refused THEN acc ELSE Applied(acc, op.path, op),
                      value, operations)
  IN IF new.t = "object" THEN new ELSE Refused

-----------------------------------------------------------------------------
Branch(parent, candidates, chosen) == [parent |-> parent, candidates |-> candidates, chosen |-> chosen]
BranchWhole(b) == b.chosen # None => b.chosen \in ToSet(b.candidates)

Init ==
  /\ graph = None /\ scene = None
  /\ documents = [o \in Owners |-> None] /\ edges = [e \in Edges |-> None]
  /\ read = [w \in Writers |-> None] /\ ended = {} /\ lost = {}

(* What a store shows of one key, its revision, and how a writer holds both. *)
Held(store, key) ==
  CASE store = "branches" -> graph [] store = "state" -> documents[key]
    [] store = "scene" -> scene [] OTHER -> edges[key]
RevisionOf(held) == IF held = None THEN 0 ELSE held.revision
Read(w, store, key) ==
  /\ read[w] = None /\ (store \in {"branches", "state"} => Held(store, key) # None)
  /\ read' = [read EXCEPT ![w] = [store |-> store, key |-> key, held |-> Held(store, key),
                                  base |-> RevisionOf(Held(store, key)), life |-> store \in ended]]
  /\ UNCHANGED <<graph, documents, scene, edges, ended, lost>>
(* The revision check shared by all of the stores, and the note of a commit  *)
(* that replaces something its writer has not read in this life.             *)
Current(w, store, key) == RevisionOf(Held(store, key)) = read[w].base
Writes(w, store, key) ==
  /\ read[w] # None /\ read[w].store = store /\ read[w].key = key
  /\ RevisionOf(Held(store, key)) < MaxRevision
  /\ read' = [read EXCEPT ![w] = None]
  /\ UNCHANGED ended
Noted(w, store, key) ==
  lost' = IF read[w].life = (store \in ended) /\ Held(store, key) # read[w].held THEN lost \cup {store} ELSE lost
Refuses(w, store, key) ==
  /\ ~Current(w, store, key) /\ UNCHANGED <<graph, documents, scene, edges, lost>>

Initialize(id) ==
  /\ graph = None
  /\ graph' = [revision |-> 0, active |-> id, branches |-> id :> Branch(None, <<>>, None)]
  /\ UNCHANGED <<documents, scene, edges, read, ended, lost>>
(* One edit of the graph under requireGraph(): the next branches and the     *)
(* next active branch, or a refusal that leaves the graph alone.             *)
GraphWrite(w, fits, branches, active) ==
  /\ graph # None /\ Writes(w, "branches", None)
  /\ \/ /\ Current(w, "branches", None) /\ fits
        /\ graph' = [revision |-> graph.revision + 1, active |-> active, branches |-> branches]
        /\ Noted(w, "branches", None)
     \/ /\ ~(Current(w, "branches", None) /\ fits) /\ UNCHANGED <<graph, lost>>
  /\ UNCHANGED <<documents, scene, edges>>
Fork(w, id, node) ==
  /\ graph # None
  /\ GraphWrite(w,
       id \notin DOMAIN graph.branches /\ node.parent \in DOMAIN graph.branches /\ BranchWhole(node),
       (id :> node) @@ graph.branches, id)
AddCandidate(w, id, candidate, activate) ==
  /\ graph # None
  /\ GraphWrite(w,
       id \in DOMAIN graph.branches /\ candidate \notin ToSet(graph.branches[id].candidates),
       [b \in DOMAIN graph.branches |->
          IF b # id THEN graph.branches[b]
          ELSE Branch(graph.branches[b].parent, Append(graph.branches[b].candidates, candidate),
                      IF activate THEN candidate ELSE graph.branches[b].chosen)],
       graph.active)
Activate(w, id, candidate) ==
  /\ graph # None
  /\ GraphWrite(w,
       /\ id \in DOMAIN graph.branches
       /\ candidate # None => candidate \in ToSet(graph.branches[id].candidates),
       [b \in DOMAIN graph.branches |->
          IF b = id /\ candidate # None THEN [graph.branches[b] EXCEPT !.chosen = candidate]
          ELSE graph.branches[b]],
       id)
(* A plausible slip: a branch with children can be removed.                  *)
SlipRemoveBranch(w, id) ==
  /\ graph # None
  /\ GraphWrite(w, id # graph.active /\ id \in DOMAIN graph.branches,
       Restrict(graph.branches, DOMAIN graph.branches \ {id}), graph.active)
RemoveBranch(w, id) ==
  /\ graph # None
  /\ GraphWrite(w,
       /\ id # graph.active /\ id \in DOMAIN graph.branches
       /\ \A b \in DOMAIN graph.branches : graph.branches[b].parent # id,
       Restrict(graph.branches, DOMAIN graph.branches \ {id}), graph.active)

InitializeState(o, value) ==
  /\ documents[o] = None
  /\ documents' = [documents EXCEPT ![o] = [revision |-> 0, value |-> value]]
  /\ UNCHANGED <<graph, scene, edges, read, ended, lost>>
ApplyPatch(w, o, operations) ==
  /\ Writes(w, "state", o)
  /\ LET new == IF documents[o] = None THEN Refused ELSE Patched(documents[o].value, operations) IN
     \/ /\ Current(w, "state", o) /\ new # Refused
        /\ documents' = [documents EXCEPT ![o] = [revision |-> @.revision + 1, value |-> new]]
        /\ Noted(w, "state", o)
     \/ /\ ~Current(w, "state", o) \/ new = Refused
        /\ UNCHANGED <<documents, lost>>
  /\ UNCHANGED <<graph, scene, edges>>

SceneWhole(s) == Cardinality(ToSet(s.participants)) = Len(s.participants)
ReplaceScene(w, s) ==
  /\ Writes(w, "scene", None)
  /\ \/ /\ Current(w, "scene", None) /\ SceneWhole(s)
        /\ scene' = [revision |-> RevisionOf(scene) + 1, scene |-> s] /\ Noted(w, "scene", None)
        /\ UNCHANGED <<graph, documents, edges>>
     \/ /\ ~SceneWhole(s) /\ UNCHANGED <<graph, documents, scene, edges, lost>>
     \/ Refuses(w, "scene", None)
(* clear(): the revision restarts with the next scene.                       *)
ClearScene(w) ==
  /\ "scene" \in Endings \ ended /\ read[w] # None /\ read[w].store = "scene" /\ read' = [read EXCEPT ![w] = None]
  /\ \/ /\ Current(w, "scene", None) /\ scene' = None
        /\ ended' = (IF scene = None THEN ended ELSE ended \cup {"scene"})
        /\ Noted(w, "scene", None) /\ UNCHANGED <<graph, documents, edges>>
     \/ Refuses(w, "scene", None) /\ UNCHANGED ended
ReplaceEdge(w, e, values) ==
  /\ Writes(w, "relationship", e)
  /\ \/ /\ Current(w, "relationship", e) /\ e[1] # e[2]
        /\ edges' = [edges EXCEPT ![e] = [revision |-> RevisionOf(@) + 1, values |-> values]]
        /\ Noted(w, "relationship", e) /\ UNCHANGED <<graph, documents, scene>>
     \/ /\ e[1] = e[2] /\ UNCHANGED <<graph, documents, scene, edges, lost>>
     \/ Refuses(w, "relationship", e)
(* release() of the documents and of the relationships when a scope ends.    *)
Release ==
  /\ \/ "state" \in Endings \ ended /\ ended' = ended \cup {"state"}
        /\ documents' = [o \in Owners |-> None] /\ UNCHANGED edges
     \/ "relationship" \in Endings \ ended /\ ended' = ended \cup {"relationship"}
        /\ edges' = [e \in Edges |-> None] /\ UNCHANGED documents
  /\ UNCHANGED <<graph, scene, read, lost>>

Next ==
  \/ Initialize(Root)
  \/ \E o \in Owners : InitializeState(o, [t |-> "object", at |-> <<>>])
  \/ Release
  \/ \E w \in Writers :
       \/ Read(w, "branches", None) \/ Read(w, "scene", None) \/ ClearScene(w)
       \/ \E o \in Owners : Read(w, "state", o) \/ \E p \in Patches : ApplyPatch(w, o, p)
       \/ \E s \in Scenes : ReplaceScene(w, s)
       \/ \E e \in Edges : Read(w, "relationship", e) \/ \E d \in Dimensions : ReplaceEdge(w, e, d)
       \/ \E id \in BranchIds :
            \/ RemoveBranch(w, id) \/ Activate(w, id, None)
            \/ \E p \in BranchIds, c \in CandidateIds \cup {None} :
                 \E list \in {<<>>} \cup {<<c>> : d \in {c} \ {None}} : Fork(w, id, Branch(p, list, c))
            \/ \E c \in CandidateIds :
                 \/ Activate(w, id, c)
                 \/ \E activate \in BOOLEAN : AddCandidate(w, id, c, activate)

Spec == Init /\ [][Next]_ssVars

-----------------------------------------------------------------------------
(* From every branch the parents lead to the root: there is no cycle and no  *)
(* orphan, and the active branch and the chosen candidates exist.            *)
GraphIsWhole ==
  graph # None =>
    LET ids == DOMAIN graph.branches
        up[n \in 0..Cardinality(ids)] ==
          IF n = 0 THEN {b \in ids : graph.branches[b].parent = None}
          ELSE up[n - 1] \cup {b \in ids : graph.branches[b].parent \in up[n - 1]}
    IN /\ graph.active \in ids /\ up[Cardinality(ids)] = ids
       /\ \A b \in ids : BranchWhole(graph.branches[b])

(* The stores of a scope stay whole however their callers interleave: the    *)
(* branch graph keeps its shape, a document stays an object, and no commit   *)
(* ever replaces a value that its writer had not read in the same life of    *)
(* the scope.                                                                *)
StoresAreSound ==
  /\ GraphIsWhole /\ lost = {}
  /\ \A o \in Owners : documents[o] # None => documents[o].value.t = "object"
==============================================================================
