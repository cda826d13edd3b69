---------------------------- MODULE AssetCatalog ----------------------------
(***************************************************************************)
(* packages/rp/library and packages/rp/preset: two durable catalogs, each  *)
(* one document that is replaced as a whole.  Calls wait in a chain; a job *)
(* computes the next document from the one in memory, asserts it, puts it  *)
(* into the table and only then makes it the one in memory.  A process may *)
(* stop at any point and load the table again.  A turn captures what is    *)
(* selected nearest to its scope.                                          *)
(*                                                                         *)
(* The library maps each kind and id to a content and each scope and kind  *)
(* to the sequence of selected ids (<<>> when there is no selection).  The *)
(* preset catalog maps ids to presets and scopes to the bound preset.      *)
(***************************************************************************)
EXTENDS Naturals, FiniteSets, SequencesExt

CONSTANTS
  None,
  Scopes, Parent,    \* a scope's parent, or None
  Kinds, Single,     \* kinds of assets; those of which one may be selected
  AssetIds, Contents,
  Presets,           \* id -> the presets that may be saved under it
  LibraryJobs, PresetJobs,
  MaxQueue, MaxStops

VARIABLES
  memory, durable,   \* catalog -> document
  queue,             \* catalog -> the jobs of its chain
  writing,           \* catalog -> the document being put, and whether it is in the table
  answer,            \* how the last job was answered
  stops

acVars == <<memory, durable, queue, writing, answer, stops>>
Catalogs == {"library", "presets"}
NoWrite == [doc |-> None, stored |-> FALSE]

EmptyLibrary == [assets |-> [k \in Kinds |-> [i \in AssetIds |-> None]],
                 selected |-> [x \in Scopes \X Kinds |-> <<>>]]
EmptyPresets == [presets |-> [i \in DOMAIN Presets |-> None], bound |-> [s \in Scopes |-> None]]
Init ==
  /\ memory = [library |-> EmptyLibrary, presets |-> EmptyPresets]
  /\ durable = memory
  /\ queue = [c \in Catalogs |-> <<>>] /\ writing = [c \in Catalogs |-> NoWrite]
  /\ answer = None /\ stops = 0

-----------------------------------------------------------------------------
(* The elements of a sequence that are in a set, in order (Array.filter).    *)
Kept(s, S) ==
  LET upTo[n \in 0..Len(s)] ==
        IF n = 0 THEN <<>> ELSE IF s[n] \in S THEN Append(upTo[n - 1], s[n]) ELSE upTo[n - 1]
  IN  upTo[Len(s)]

(* What a job makes of a document: a document, or the reason why not.        *)
Become(doc) == [code |-> "publish", doc |-> doc]
Refuse(code) == [code |-> code, doc |-> None]
Unchanged == Refuse("unchanged")

Has(doc, kind, id) == doc.assets[kind][id] # None
SaveBundle(doc, assets) ==
  Become([doc EXCEPT !.assets = [k \in Kinds |-> [i \in AssetIds |->
           IF \E a \in assets : a.kind = k /\ a.id = i
           THEN (CHOOSE a \in assets : a.kind = k /\ a.id = i).content ELSE doc.assets[k][i]]]])
(* Slip: the selections keep the asset that is removed.                      *)
SlipRemoveAsset(doc, kind, id) ==
  IF ~Has(doc, kind, id) THEN Unchanged ELSE Become([doc EXCEPT !.assets[kind][id] = None])
RemoveAsset(doc, kind, id) ==
  IF ~Has(doc, kind, id) THEN Unchanged
  ELSE Become([assets |-> [doc.assets EXCEPT ![kind][id] = None],
              selected |-> [x \in Scopes \X Kinds |->
                 IF x[2] = kind THEN Kept(doc.selected[x], AssetIds \ {id}) ELSE doc.selected[x]]])
ReplaceSelection(doc, scope, kind, ids) ==
  IF \/ ~IsInjective(ids)
     \/ kind \in Single /\ Len(ids) > 1
     \/ \E i \in ToSet(ids) : ~Has(doc, kind, i)
  THEN Refuse("INVALID") ELSE Become([doc EXCEPT !.selected[<<scope, kind>>] = ids])
Activate(doc, scope, kind, id) ==
  LET ids == doc.selected[<<scope, kind>>]
  IN  ReplaceSelection(doc, scope, kind,
        IF kind \in Single THEN <<id>> ELSE IF id \in ToSet(ids) THEN ids ELSE Append(ids, id))
Deactivate(doc, scope, kind, id) ==
  LET ids == doc.selected[<<scope, kind>>]
  IN  IF ids = <<>> \/ (id # None /\ id \notin ToSet(ids)) THEN Unchanged
      ELSE ReplaceSelection(doc, scope, kind, IF id = None THEN <<>> ELSE Kept(ids, AssetIds \ {id}))
LibraryWhole(doc) ==
  \A x \in Scopes \X Kinds :
    LET ids == doc.selected[x]
    IN  /\ IsInjective(ids)
        /\ x[2] \in Single => Len(ids) <= 1
        /\ \A i \in ToSet(ids) : Has(doc, x[2], i)

(* A preset: its prompt definitions, its orders of them, the selected order. *)
OrderWhole(preset, order) ==
  /\ \A i, j \in DOMAIN order : i # j => order[i].id # order[j].id
  /\ \A i \in DOMAIN order : order[i].id \in preset.definitions
PresetWhole(preset) ==
  preset.selected \in DOMAIN preset.orders /\ \A o \in DOMAIN preset.orders : OrderWhole(preset, preset.orders[o])
Prompts(preset) ==
  LET order == preset.orders[preset.selected]
      enabled == Kept(order, {e \in ToSet(order) : e.enabled})
  IN  [i \in DOMAIN enabled |-> enabled[i].id]
SavePreset(doc, id, preset) ==
  IF ~PresetWhole(preset) THEN Refuse("INVALID") ELSE Become([doc EXCEPT !.presets[id] = preset])
RemovePreset(doc, id) ==
  IF doc.presets[id] = None THEN Unchanged
  ELSE Become([presets |-> [doc.presets EXCEPT ![id] = None],
              bound |-> [s \in Scopes |-> IF doc.bound[s] = id THEN None ELSE doc.bound[s]]])
ActivatePreset(doc, scope, id) ==
  IF doc.presets[id] = None THEN Refuse("INVALID") ELSE Become([doc EXCEPT !.bound[scope] = id])
DeactivatePreset(doc, scope) ==
  IF doc.bound[scope] = None THEN Unchanged ELSE Become([doc EXCEPT !.bound[scope] = None])
PresetsWhole(doc) ==
  /\ \A i \in DOMAIN Presets : doc.presets[i] # None => PresetWhole(doc.presets[i])
  /\ \A s \in Scopes : doc.bound[s] # None => doc.presets[doc.bound[s]] # None

Outcome(doc, job) ==
  CASE job.op = "save" -> SaveBundle(doc, job.assets)
    [] job.op = "remove" -> RemoveAsset(doc, job.kind, job.id)
    [] job.op = "select" -> ReplaceSelection(doc, job.scope, job.kind, job.ids)
    [] job.op = "activate" -> Activate(doc, job.scope, job.kind, job.id)
    [] job.op = "deactivate" -> Deactivate(doc, job.scope, job.kind, job.id)
    [] job.op = "savePreset" -> SavePreset(doc, job.id, job.preset)
    [] job.op = "removePreset" -> RemovePreset(doc, job.id)
    [] job.op = "activatePreset" -> ActivatePreset(doc, job.scope, job.id)
    [] job.op = "deactivatePreset" -> DeactivatePreset(doc, job.scope)
Whole(c, doc) == IF c = "library" THEN LibraryWhole(doc) ELSE PresetsWhole(doc)

-----------------------------------------------------------------------------
Enqueue(c, job) ==
  /\ Len(queue[c]) < MaxQueue
  /\ queue' = [queue EXCEPT ![c] = Append(@, job)]
  /\ UNCHANGED <<memory, durable, writing, answer, stops>>

(* The first job of the chain: it is answered at once or begins a put.       *)
Begin(c) ==
  /\ queue[c] # <<>> /\ writing[c] = NoWrite
  /\ LET out == Outcome(memory[c], Head(queue[c]))
         code == IF out.code = "publish" /\ ~Whole(c, out.doc) THEN "STATE" ELSE out.code
     IN  IF code = "publish"
         THEN /\ writing' = [writing EXCEPT ![c] = [doc |-> out.doc, stored |-> FALSE]]
              /\ UNCHANGED <<queue, answer>>
         ELSE /\ queue' = [queue EXCEPT ![c] = Tail(@)]
              /\ answer' = code
              /\ UNCHANGED writing
  /\ UNCHANGED <<memory, durable, stops>>

Put(c) ==
  /\ writing[c].doc # None /\ ~writing[c].stored
  /\ durable' = [durable EXCEPT ![c] = writing[c].doc]
  /\ writing' = [writing EXCEPT ![c].stored = TRUE]
  /\ UNCHANGED <<memory, queue, answer, stops>>
PutFails(c) ==
  /\ writing[c].doc # None /\ ~writing[c].stored
  /\ writing' = [writing EXCEPT ![c] = NoWrite] /\ queue' = [queue EXCEPT ![c] = Tail(@)]
  /\ answer' = "STORAGE"
  /\ UNCHANGED <<memory, durable, stops>>
Publish(c) ==
  /\ writing[c].stored
  /\ memory' = [memory EXCEPT ![c] = writing[c].doc]
  /\ writing' = [writing EXCEPT ![c] = NoWrite] /\ queue' = [queue EXCEPT ![c] = Tail(@)]
  /\ answer' = "done" /\ UNCHANGED <<durable, stops>>

(* The process stops and loads what the table holds.                         *)
Restart ==
  /\ stops < MaxStops /\ stops' = stops + 1
  /\ memory' = durable
  /\ queue' = [c \in Catalogs |-> <<>>] /\ writing' = [c \in Catalogs |-> NoWrite]
  /\ answer' = None /\ UNCHANGED durable

(* capture(): the nearest scope that selects anything of a kind, even when   *)
(* a wider scope selects more.                                              *)
Ancestry(scope) ==
  LET up[n \in 0..Cardinality(Scopes)] ==
        IF n = 0 THEN <<scope>>
        ELSE IF Parent[Last(up[n - 1])] = None THEN up[n - 1]
        ELSE Append(up[n - 1], Parent[Last(up[n - 1])])
  IN  up[Cardinality(Scopes)]
Nearest(line) == IF line = <<>> THEN None ELSE Head(line)
CaptureLibrary(scope) ==
  [k \in Kinds |->
     LET doc == memory["library"]
         from == Nearest(Kept(Ancestry(scope), {s \in Scopes : doc.selected[<<s, k>>] # <<>>}))
     IN  IF from = None THEN <<>>
         ELSE [i \in DOMAIN doc.selected[<<from, k>>] |->
                 [id |-> doc.selected[<<from, k>>][i], content |-> doc.assets[k][doc.selected[<<from, k>>][i]]]]]
CapturePreset(scope) ==
  LET doc == memory["presets"]
      from == Nearest(Kept(Ancestry(scope), {s \in Scopes : doc.bound[s] # None}))
  IN  IF from = None THEN None ELSE Prompts(doc.presets[doc.bound[from]])
Next ==
  \/ \E job \in LibraryJobs : Enqueue("library", job)
  \/ \E job \in PresetJobs : Enqueue("presets", job)
  \/ \E c \in Catalogs : Begin(c) \/ Put(c) \/ PutFails(c) \/ Publish(c)
  \/ Restart
Spec == Init /\ [][Next]_acVars

-----------------------------------------------------------------------------
(* What is in memory is what the table holds, up to the one document that    *)
(* has just been put; both are whole (every selected asset and bound preset *)
(* exists), no job ever trips the catalog's own assertion, and no capture   *)
(* holds an asset that is gone.                                             *)
CatalogIsSound ==
  /\ \A c \in Catalogs :
       /\ memory[c] # durable[c] => writing[c] = [doc |-> durable[c], stored |-> TRUE]
       /\ Whole(c, memory[c]) /\ Whole(c, durable[c])
  /\ answer # "STATE"
  /\ \A s \in Scopes :
       /\ \A k \in Kinds : \A i \in DOMAIN CaptureLibrary(s)[k] : CaptureLibrary(s)[k][i].content # None
       /\ CapturePreset(s) # None => IsInjective(CapturePreset(s))
=============================================================================
