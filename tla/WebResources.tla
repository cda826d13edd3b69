---------------------------- MODULE WebResources ----------------------------
(***************************************************************************)
(* packages/rp/web: the resources of one Session in one browser page.  The *)
(* rail (client/resource-controller.ts) and the Creator (client/index.tsx) *)
(* both read and change, by HTTP, the library and the presets of the Host  *)
(* (src/index.ts).  A new request of the rail aborts the one before it,    *)
(* which the Host may have got all the same; the Creator aborts nothing.   *)
(*                                                                         *)
(* The Host keeps the version of each resource (0: it is not saved) and    *)
(* those that are bound to the Session.  A file holds new versions of some *)
(* resources of one family, or cannot be read.                             *)
(***************************************************************************)
EXTENDS Naturals, Sequences, SequencesExt, FiniteSets, Functions

CONSTANTS
  None,
  Library, Presets,       \* ids of resources
  Files,                  \* [ids, version, valid], the ids in order
  MaxVersion,
  MaxOps, MaxCreatorOps   \* bounds

VARIABLES
  host,        \* [saved, bound]
  rail,        \* what the rail shows: [phase, library, presets, imported, editor]
  op,          \* its operation: [name, todo, done, target, missed], or None
  wire,        \* requests: [from, turn, step, request, answer]
  creator,     \* what the Creator shows: [file, preview, library, presets, savedPreset, busy]
  foreign,     \* client -> families changed by anything but an operation it saw end
  crossed,     \* families of which the Creator has had two requests at a time
  turns        \* client -> operations begun

webVars == <<host, rail, op, wire, creator, foreign, crossed, turns>>
Ids == Library \cup Presets
Family(id) == IF id \in Presets THEN "presets" ELSE "library"
Of(family) == IF family = "presets" THEN Presets ELSE Library
Clients == {"rail", "creator"}
Closed == [phase |-> "closed", target |-> None, doc |-> 0]

Init ==
  /\ host = [saved |-> [i \in Ids |-> 0], bound |-> {}]
  /\ rail = [phase |-> "idle", library |-> None, presets |-> None, imported |-> None, editor |-> Closed]
  /\ op = None /\ wire = {}
  /\ creator = [file |-> None, preview |-> None, library |-> None, presets |-> None, savedPreset |-> None, busy |-> {}]
  /\ foreign = [c \in Clients |-> {}] /\ crossed = {} /\ turns = [c \in Clients |-> 0]

-----------------------------------------------------------------------------
(* The Host.  A catalog tells what is bound only to one who names a Session. *)
CatalogOf(h, family, session) ==
  [saved |-> [i \in Of(family) |-> h.saved[i]], active |-> IF session THEN {h.bound \cap Of(family)} ELSE {}]
Request(action, family, ids, version) == [action |-> action, family |-> family, ids |-> ids, version |-> version]
Bind(h, id) == [h EXCEPT !.bound = (IF id \in Presets THEN @ \ Presets ELSE @) \cup {id}]
Saved(h, r) == [h EXCEPT !.saved = [i \in Ids |-> IF i \in ToSet(r.ids) THEN r.version ELSE @[i]]]
Unbind(h, r) == [h EXCEPT !.bound = @ \ (IF r.family = "presets" THEN Presets ELSE ToSet(r.ids))]
Refused(r) ==
  \/ r.action \in {"save", "import"} /\ r.version = 0
  \/ r.action \in {"activate", "detail"} /\ host.saved[Head(r.ids)] = 0
Serve(r) ==
  IF Refused(r) THEN host
  ELSE CASE r.action \in {"save", "update"} -> Saved(host, r)
         [] r.action = "activate" -> Bind(host, Head(r.ids))
         [] r.action = "deactivate" -> Unbind(host, r)
         [] r.action = "remove" ->
              [saved |-> [host.saved EXCEPT ![Head(r.ids)] = 0], bound |-> host.bound \ ToSet(r.ids)]
         [] OTHER -> host
Answer(r, h) ==
  [ok |-> ~Refused(r), doc |-> IF r.action = "detail" THEN h.saved[Head(r.ids)] ELSE 0,
   catalog |-> CatalogOf(h, r.family, r.action \notin {"save", "remove"})]

(* The handler of a request; what it changes is news to the other client,    *)
(* and to the rail itself if it has given the request up.  An operation of   *)
(* the rail counts the families it missed so.                                *)
Current(m) == IF m.from = "rail" THEN op # None /\ m.turn = turns.rail ELSE TRUE
Arrive(m) ==
  LET h == Serve(m.request)
      strangers == {c \in Clients : h # host /\ (c # m.from \/ ~Current(m))}
  IN /\ m.answer = None /\ host' = h
     /\ wire' = (wire \ {m}) \cup {[m EXCEPT !.answer = Answer(m.request, h)]}
     /\ foreign' = [c \in Clients |-> foreign[c] \cup (IF c \in strangers THEN {m.request.family} ELSE {})]
     /\ op' = IF op # None /\ "rail" \in strangers THEN [op EXCEPT !.missed = @ \cup {m.request.family}] ELSE op
     /\ UNCHANGED <<rail, creator, crossed, turns>>
Message(from, turn, step, request) == [from |-> from, turn |-> turn, step |-> step, request |-> request, answer |-> None]

-----------------------------------------------------------------------------
(* The rail.  An operation is the requests it makes, one after the other;    *)
(* only load() makes its two at once.                                        *)
GivenUp == IF op = None \/ op.name \in {"load", "open"} THEN {} ELSE {op.todo[1].family}
Begin(name, todo, target, phase, editor) ==
  /\ turns.rail < MaxOps
  /\ turns' = [turns EXCEPT !.rail = @ + 1]
  /\ op' = [name |-> name, todo |-> todo, done |-> [i \in DOMAIN todo |-> None], target |-> target, missed |-> {}]
  /\ foreign' = [foreign EXCEPT !.rail = @ \cup GivenUp]
  /\ rail' = [rail EXCEPT !.phase = phase, !.imported = None, !.editor = editor]
  /\ wire' = wire \cup {Message("rail", turns.rail + 1, i, todo[i]) : i \in IF name = "load" THEN {1, 2} ELSE {1}}
  /\ UNCHANGED <<host, creator, crossed>>
Busy == rail.phase \in {"loading", "mutating"}

(* When the panel shows the Session, and on its refresh button.              *)
Load(refresh) ==
  /\ IF refresh THEN ~Busy ELSE ~Busy /\ rail.phase # "ready"
  /\ Begin("load", <<Request("catalog", "library", <<>>, 0), Request("catalog", "presets", <<>>, 0)>>, None, "loading", rail.editor)
ImportRequests(f) ==
  LET family == Family(Head(f.ids))
  IN <<Request("save", family, f.ids, IF f.valid THEN f.version ELSE 0)>>
     \o [i \in DOMAIN f.ids |-> Request("activate", family, <<f.ids[i]>>, 0)]
ImportFile(f) == ~Busy /\ Begin("import", ImportRequests(f), f, "mutating", rail.editor)
Shown(id) == LET c == IF id \in Presets THEN rail.presets ELSE rail.library IN c # None /\ c.saved[id] # 0
IsActive(id) ==
  LET c == IF id \in Presets THEN rail.presets ELSE rail.library IN \E active \in c.active : id \in active
SetActive(id) ==
  /\ ~Busy /\ Shown(id)
  /\ Begin("set", <<Request(IF IsActive(id) THEN "deactivate" ELSE "activate", Family(id), <<id>>, 0)>>, id, "mutating", rail.editor)
OpenEditor(id) ==
  /\ ~Busy /\ Shown(id)
  /\ Begin("open", <<Request("detail", Family(id), <<id>>, 0)>>, id, "loading", [phase |-> "loading", target |-> id, doc |-> 0])
(* The editor minds its own phase only, not that of the rail.                *)
SaveEditor(version) ==
  LET id == rail.editor.target
  IN /\ rail.editor.phase \in {"ready", "error"} /\ rail.editor.doc # 0
     /\ Begin("edit", <<Request("update", Family(id), <<id>>, version), Request("detail", Family(id), <<id>>, 0)>>, id, "mutating",
              [rail.editor EXCEPT !.phase = "saving", !.doc = version])
CloseEditor ==
  /\ rail.editor.phase # "closed" /\ op' = None
  /\ rail' = [rail EXCEPT !.phase = IF None \in {rail.library, rail.presets} THEN "idle" ELSE "ready", !.editor = Closed]
  /\ foreign' = [foreign EXCEPT !.rail = @ \cup GivenUp]
  /\ UNCHANGED <<host, wire, creator, crossed, turns>>

(* What the rail shows when its operation has all answers.  A plausible      *)
(* slip: an import shows the catalog that its save has returned.             *)
SlipShowing(o, done) ==
  [library |-> IF o.name = "load" \/ o.todo[1].family = "library" THEN done[1].catalog ELSE rail.library,
   presets |-> IF o.name = "load" THEN done[2].catalog ELSE IF o.todo[1].family = "presets" THEN done[1].catalog ELSE rail.presets]
Showing(o, done) ==
  LET last == IF o.name = "edit" THEN done[1] ELSE done[Len(done)]
      Changed(family) == o.name \notin {"load", "open"} /\ o.todo[1].family = family
  IN [library |-> IF o.name = "load" THEN done[1].catalog ELSE IF Changed("library") THEN last.catalog ELSE rail.library,
      presets |-> IF o.name = "load" THEN done[2].catalog ELSE IF Changed("presets") THEN last.catalog ELSE rail.presets]
Finished(o, done) ==
  [phase |-> "ready", library |-> Showing(o, done).library, presets |-> Showing(o, done).presets,
   imported |-> IF o.name = "import" THEN o.target ELSE None,
   editor |-> IF o.name \in {"open", "edit"}
              THEN [phase |-> "ready", target |-> o.target, doc |-> done[Len(done)].doc] ELSE rail.editor]
Fail ==
  /\ op' = None /\ foreign' = [foreign EXCEPT !.rail = @ \cup GivenUp]
  /\ rail' = [rail EXCEPT !.phase = "error", !.imported = None,
                          !.editor = IF rail.editor.phase = "closed" THEN @ ELSE [@ EXCEPT !.phase = "error"]]

(* An answer, or a transport that fails before or after the Host got it.     *)
RailReceives(m) ==
  LET done == [op.done EXCEPT ![m.step] = m.answer]
      next == {i \in DOMAIN op.todo : i = m.step + 1 /\ op.name # "load"}
  IN /\ m.from = "rail" /\ m.answer # None
     /\ IF ~Current(m) THEN wire' = wire \ {m} /\ UNCHANGED <<rail, op, foreign>>
        ELSE IF ~m.answer.ok THEN wire' = wire \ {m} /\ Fail
        ELSE /\ wire' = (wire \ {m}) \cup {Message("rail", turns.rail, i, op.todo[i]) : i \in next}
             /\ IF None \in Range(done)
                THEN op' = [op EXCEPT !.done = done] /\ UNCHANGED <<rail, foreign>>
                ELSE /\ op' = None /\ rail' = Finished(op, done)
                     /\ foreign' = IF op.name = "load" THEN [foreign EXCEPT !.rail = op.missed] ELSE foreign
     /\ UNCHANGED <<host, creator, crossed, turns>>
RailLoses(m) ==
  /\ m.from = "rail" /\ wire' = wire \ {m}
  /\ IF Current(m) THEN Fail ELSE UNCHANGED <<rail, op, foreign>>
  /\ UNCHANGED <<host, creator, crossed, turns>>

-----------------------------------------------------------------------------
(* The Creator.                                                             *)
CreatorSends(step, requests) ==
  /\ turns.creator < MaxCreatorOps
  /\ turns' = [turns EXCEPT !.creator = @ + 1]
  /\ wire' = wire \cup {Message("creator", turns.creator + 1, step, r) : r \in requests}
  /\ crossed' = crossed \cup {r.family : r \in {q \in requests : \E m \in wire : m.from = "creator" /\ m.request.family = q.family}}
  /\ UNCHANGED <<host, rail, op, foreign>>
CreatorLoads ==
  /\ CreatorSends("load", {Request("catalog", "library", <<>>, 0), Request("catalog", "presets", <<>>, 0)})
  /\ UNCHANGED creator
(* Another format drops the preview, another file of the format does not.    *)
ChooseFile(f) ==
  LET same == creator.file # None /\ Family(Head(creator.file.ids)) = Family(Head(f.ids))
  IN /\ f # creator.file
     /\ creator' = [creator EXCEPT !.file = f, !.preview = IF same THEN @ ELSE None, !.savedPreset = IF same THEN @ ELSE None]
     /\ UNCHANGED <<host, rail, op, wire, foreign, crossed, turns>>
FileRequest(action, f) == Request(action, Family(Head(f.ids)), f.ids, IF f.valid THEN f.version ELSE 0)
Preview ==
  /\ creator.file # None /\ creator' = [creator EXCEPT !.preview = None]
  /\ CreatorSends("preview", {FileRequest("import", creator.file)})
Mutate(step, request) ==
  /\ request.family \notin creator.busy
  /\ creator' = [creator EXCEPT !.busy = @ \cup {request.family}]
  /\ CreatorSends(step, {request})
CreatorSaves == creator.preview # None /\ Mutate("save", FileRequest("save", creator.file))
ActivatePreset ==
  creator.savedPreset # None /\ Mutate("bind", Request("activate", "presets", <<creator.savedPreset>>, 0))
MutateAsset(action, id) ==
  /\ creator.library # None /\ creator.library.saved[id] # 0
  /\ Mutate(IF action = "remove" THEN "remove" ELSE "bind", Request(action, "library", <<id>>, 0))

(* After a library asset is saved or removed the library is read again.      *)
CreatorReceives(m) ==
  LET family == m.request.family
      shown == [creator EXCEPT ![family] = m.answer.catalog, !.busy = @ \ {family},
                               !.savedPreset = IF family = "presets" /\ m.step # "load" THEN Head(m.request.ids) ELSE @]
      again == family = "library" /\ m.step \in {"save", "remove"}
  IN /\ m.from = "creator" /\ m.answer # None
     /\ creator' = IF ~m.answer.ok THEN [creator EXCEPT !.busy = IF m.step \in {"load", "preview"} THEN @ ELSE @ \ {family}]
                   ELSE IF m.step = "preview" THEN [creator EXCEPT !.preview = m.request]
                   ELSE IF m.step = "load" THEN [creator EXCEPT ![family] = m.answer.catalog] ELSE shown
     /\ wire' = (wire \ {m}) \cup (IF again /\ m.answer.ok THEN {Message("creator", m.turn, "load", Request("catalog", "library", <<>>, 0))} ELSE {})
     /\ UNCHANGED <<host, rail, op, foreign, crossed, turns>>

Next ==
  \/ \E refresh \in BOOLEAN : Load(refresh)
  \/ \E f \in Files : ImportFile(f) \/ ChooseFile(f)
  \/ \E id \in Ids : SetActive(id) \/ OpenEditor(id)
  \/ \E version \in 1..MaxVersion : SaveEditor(version)
  \/ CloseEditor \/ CreatorLoads \/ Preview \/ CreatorSaves \/ ActivatePreset
  \/ \E id \in Library : \E action \in {"activate", "deactivate", "remove"} : MutateAsset(action, id)
  \/ \E m \in wire : Arrive(m) \/ RailReceives(m) \/ RailLoses(m) \/ CreatorReceives(m)
Spec == Init /\ [][Next]_webVars

-----------------------------------------------------------------------------
(* A rail that is ready shows what the Host has, with the binding of the    *)
(* Session, unless the Creator or a request that the rail gave up changed   *)
(* it; a file it reports as imported is saved and bound with all its        *)
(* resources; the editor holds one whole document of its target; and the    *)
(* Creator, as long as it makes one request at a time, shows what is saved. *)
Silent(client) == \A m \in wire : m.from # client
ShownIsTrue ==
  /\ \A family \in {"library", "presets"} :
       /\ (rail.phase = "ready" /\ family \notin foreign.rail) => rail[family] \in {None, CatalogOf(host, family, TRUE)}
       /\ (Silent("creator") /\ creator[family] # None /\ family \notin foreign.creator \cup crossed) =>
            /\ creator[family].saved = CatalogOf(host, family, TRUE).saved
            /\ family = "library" => creator[family] = CatalogOf(host, family, TRUE)
  /\ (rail.imported # None /\ foreign.rail = {}) =>
       \A i \in ToSet(rail.imported.ids) : host.saved[i] = rail.imported.version /\ i \in host.bound
  /\ rail.editor.phase = "ready" => rail.editor.doc # 0

=============================================================================
