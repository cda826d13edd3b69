----------------------------- MODULE ContentMC -----------------------------
(***************************************************************************)
(* What a scene is made of, for TLC: the catalogs of assets and presets,   *)
(* memory, the stores of a scope, the registries of scene content, media,  *)
(* the product's document and the resources that the web page shows.       *)
(* These services share nothing but the Host, so a behaviour is one of one *)
(* of them, its focus; Foci names those that a run looks at.               *)
(***************************************************************************)
EXTENDS ContentProofs, TLC

CONSTANTS
  Foci,
  root, branch, twin, first, second, owner, tone, mood, clerk, rival,
  hero, place, style

VARIABLES
  focus,
  graph, documents, scene, edges, reading, ended, lost,
  doc, file, cached, queue, running, log, agent, seed, counts

catalogVars == <<catalogNow, catalogDurable, catalogQueue, catalogWriting, catalogAnswer, stops>>
memoryVars == <<durable, live, hydrated, loading, chain, call, scorers, plain, accepted, found, calls, faults>>
storeVars == <<graph, documents, scene, edges, reading, ended, lost>>
sceneVars == <<tables, current, handles, rolled>>
mediaVars == <<adapters, providers, intake, answered, stored, drawing, drawn, mediaFaults>>
productVars == <<doc, file, cached, queue, running, log, agent, seed, counts>>
pageVars == <<host, rail, operation, wire, creator, foreign, crossed, turns>>

-----------------------------------------------------------------------------
(* Assets and presets: a persona and a character with one id, two presets   *)
(* under one, and a chat below a profile.                                   *)
Upper == "chat" :> "profile" @@ "profile" :> None
Entry(id, enabled) == [id |-> id, enabled |-> enabled]
PresetOf(definitions, entries) ==
  [definitions |-> definitions, orders |-> "o" :> entries, selected |-> "o"]
Full == PresetOf({"main", "jail"}, <<Entry("main", TRUE), Entry("jail", FALSE)>>)
Dangling == PresetOf({"main"}, <<Entry("jail", TRUE)>>)
PresetsById == "p" :> {Full, Dangling}
AssetOf(kind, id) == [kind |-> kind, id |-> id, content |-> "v1"]
AssetJobs ==
  {[op |-> "save", assets |-> {AssetOf("character", "a"), AssetOf("persona", "a")}],
   [op |-> "save", assets |-> {AssetOf("character", "b")}],
   [op |-> "select", scope |-> "profile", kind |-> "character", ids |-> <<"b", "a">>],
   [op |-> "deactivate", scope |-> "profile", kind |-> "character", id |-> None],
   [op |-> "deactivate", scope |-> "chat", kind |-> "character", id |-> "a"]}
  \cup {[op |-> "remove", kind |-> k, id |-> "a"] : k \in {"character", "persona"}}
  \cup {[op |-> "activate", scope |-> "chat", kind |-> "character", id |-> i] : i \in {"a", "b"}}
  \cup {[op |-> "activate", scope |-> "chat", kind |-> "persona", id |-> "a"]}
JobsOnPresets ==
  {[op |-> "savePreset", id |-> "p", preset |-> q] : q \in {Full, Dangling}}
  \cup {[op |-> "removePreset", id |-> "p"]}
  \cup {[op |-> o, scope |-> s, id |-> "p"] :
          o \in {"activatePreset", "deactivatePreset"}, s \in {"chat", "profile"}}

(* One of the two catalogs at a time is called.                             *)
AssetLibrary ==
  INSTANCE AssetCatalog WITH
    Scopes <- AssetScopes, Parent <- AssetParent, Kinds <- AssetKinds, Single <- SingleKinds,
    PresetJobs <- {}, MaxQueue <- MaxCatalogQueue, MaxStops <- MaxCatalogStops,
    memory <- catalogNow, durable <- catalogDurable, queue <- catalogQueue,
    writing <- catalogWriting, answer <- catalogAnswer
PromptPresets ==
  INSTANCE AssetCatalog WITH
    Scopes <- AssetScopes, Parent <- AssetParent, Kinds <- AssetKinds, Single <- SingleKinds,
    LibraryJobs <- {}, MaxQueue <- MaxCatalogQueue, MaxStops <- MaxCatalogStops,
    memory <- catalogNow, durable <- catalogDurable, queue <- catalogQueue,
    writing <- catalogWriting, answer <- catalogAnswer

-----------------------------------------------------------------------------
(* Memory: one fact with two contents, another one, and one appended past    *)
(* the store; two callers, and two scorers of which one abstains.            *)
Fact(id, content, rank) ==
  [id |-> id, content |-> content, size |-> 1, createdAt |-> rank, rank |-> rank]
StoredFacts == {Fact("a", 1, 1), Fact("a", 2, 1), Fact("b", 1, 2)}
LooseFacts == {Fact("p", 1, 3)}
Score(id, priority, rank, score) == [id |-> id, priority |-> priority, rank |-> rank, score |-> score]
TwoScorers ==
  {Score("lexical", 0, 1, [f \in StoredFacts \cup LooseFacts |-> f.rank]),
   Score("durable", 2, 2, [f \in StoredFacts \cup LooseFacts |-> IF f.id = "b" THEN None ELSE 4 - f.rank])}
Hits == [hits |-> 2, characters |-> 2]

-----------------------------------------------------------------------------
(* The stores of a scope: a tree of branches with two candidates; one        *)
(* document with patches, scenes and edges, some of them not acceptable.     *)
Leaf(v) == [t |-> "leaf", v |-> v]
PatchOp(op, path, value) == [op |-> op, path |-> path, value |-> value]
Patches ==
  {<<PatchOp("add", <<"a">>, [t |-> "array", items |-> <<Leaf(1)>>])>>,
   <<PatchOp("test", <<"a", "0">>, Leaf(1)), PatchOp("replace", <<"a", "0">>, Leaf(2))>>,
   <<PatchOp("add", <<"a", "-">>, Leaf(2)), PatchOp("remove", <<"a", "1">>, None)>>,
   <<PatchOp("replace", <<>>, Leaf(1))>>,
   <<PatchOp("add", <<"b">>, [t |-> "object", at |-> <<>>]), PatchOp("test", <<>>, Leaf(1))>>}
Scenes == {[title |-> "s", participants |-> <<"a">>], [title |-> "s", participants |-> <<"a", "a">>]}

Branches ==
  INSTANCE ScopeStores WITH
    Writers <- {clerk, rival}, Root <- root, BranchIds <- {root, branch, twin},
    CandidateIds <- {first, second}, Owners <- {}, Scenes <- {}, Edges <- {},
    Dimensions <- {tone, mood}, Endings <- {}, MaxRevision <- 3, read <- reading
Documents ==
  INSTANCE ScopeStores WITH
    Writers <- {clerk, rival}, Root <- root, BranchIds <- {}, CandidateIds <- {},
    Owners <- {owner}, Scenes <- {}, Edges <- {}, Dimensions <- {}, Endings <- {"state"},
    MaxRevision <- 3, read <- reading
Relations ==
  INSTANCE ScopeStores WITH
    Writers <- {clerk, rival}, Root <- root, BranchIds <- {}, CandidateIds <- {},
    Owners <- {}, Edges <- {<<"a", "b">>, <<"a", "a">>}, Dimensions <- {tone, mood},
    Endings <- {"scene", "relationship"}, MaxRevision <- 2, read <- reading

(* The stores of a scope stay whole however their callers interleave: the    *)
(* branch graph keeps its shape, a state document stays an object, and no    *)
(* commit of branches, state, scene or relationships replaces a value that   *)
(* its writer had not read in the same life of the scope.                    *)
StoresAreSound ==
  /\ focus = "branches" => Branches!StoresAreSound
  /\ focus = "documents" => Documents!StoresAreSound
  /\ focus = "relations" => Relations!StoresAreSound

-----------------------------------------------------------------------------
(* Scene content: sections that stand before and after each other, one id    *)
(* twice and one cycle; lore with and without keys; a throw with a target.   *)
SectionOf(id, rank, priority, before, after) ==
  [registry |-> "sections", id |-> id, rank |-> rank, size |-> 1, whole |-> TRUE,
   priority |-> priority, before |-> before, after |-> after]
LoreEntry(rank, priority, keys, secondary, constant, size) ==
  [rank |-> rank, priority |-> priority, keys |-> keys, secondary |-> secondary,
   constant |-> constant, enabled |-> TRUE, size |-> size]
BookOf(id, rank, entries) ==
  [registry |-> "books", id |-> id, rank |-> rank, size |-> 0, whole |-> TRUE, entries |-> entries]
RowOf(registry, id, rank, size, whole) ==
  [registry |-> registry, id |-> id, rank |-> rank, size |-> size, whole |-> whole]
SceneItems ==
  {SectionOf("a", 1, 5, {}, {}), SectionOf("b", 2, 1, {}, {"a"}), SectionOf("c", 3, 1, {"a"}, {}),
   SectionOf("a", 1, 0, {}, {"b"}),
   BookOf("x", 1, {LoreEntry(1, 1, {"k"}, {}, FALSE, 2), LoreEntry(2, 5, {""}, {}, FALSE, 1)}),
   BookOf("y", 2, {LoreEntry(1, 1, {"k"}, {"m"}, FALSE, 1), LoreEntry(2, 0, {}, {}, TRUE, 1)}),
   RowOf("characters", "p", 1, 2, TRUE), RowOf("characters", "q", 2, 1, TRUE),
   RowOf("personas", "u", 1, 1, TRUE), RowOf("personas", "v", 2, 1, FALSE)}
SceneExtras ==
  {{}} \cup {{SectionOf("d", 4, 0, edge[1], edge[2])} : edge \in {<<{"b"}, {}>>, <<{"e"}, {}>>, <<{}, {"d"}>>}}
SceneThrows == {[seed |-> 1, count |-> 2, sides |-> 6, modifier |-> -1, target |-> 5]}
SceneDigest == [x \in {1} \X (0..1) |-> 5 + x[2]]

SceneTexts == {{"k"}, {"k", "m"}}

(* The content that a turn reads is what plugins have registered and not yet *)
(* taken back (prompt, lore, character, persona), composed within its        *)
(* constraints and bounds; a throw is worth what its notation allows (rules).*)
ContentIsSound == focus = "content" => Scene!ContentIsSound

-----------------------------------------------------------------------------
(* Media: the attachment adapter and one of another plugin; batches with an  *)
(* image that fails its check; a caller with and one without the permission. *)
AdapterOf(id, rank, trust, permissions, mimes, saves) ==
  [id |-> id, rank |-> rank, trust |-> trust, permissions |-> permissions, mimes |-> mimes, saves |-> saves]
BothAdapters ==
  {AdapterOf("dsh-attachment", 1, 2, {"attachment.write"}, {"png"}, TRUE),
   AdapterOf("other", 2, 1, {}, {"png", "mp3"}, FALSE)}
InputOf(mime, adapter, sound) == [mime |-> mime, adapter |-> adapter, sound |-> sound]
MixedBatches ==
  {<<InputOf("png", None, TRUE), InputOf("mp3", None, TRUE), InputOf("png", None, TRUE)>>,
   <<InputOf("png", "other", TRUE), InputOf("png", None, FALSE)>>,
   <<InputOf("png", None, TRUE), InputOf("png", None, FALSE)>>}
TwoAuthorities ==
  {[trust |-> 2, permissions |-> {"attachment.write"}], [trust |-> 1, permissions |-> {}]}
TwoProviders ==
  {[id |-> "svg", rank |-> 2, kinds |-> {"image"}], [id |-> "clip", rank |-> 1, kinds |-> {"image", "video"}]}

-----------------------------------------------------------------------------
(* The product: one session bound to an agent composition with two           *)
(* characters, and the fork of it.                                           *)
EntityOf(id, at, imported) == [id |-> id, fits |-> TRUE, at |-> at, imported |-> imported]
Prompt(id, role, kind) ==
  [id |-> id, role |-> role, system |-> FALSE, marker |-> kind # None, kind |-> kind, sets |-> None, gets |-> None]
ProductPreset(id, mode, definitions) ==
  [id |-> id, fits |-> TRUE, at |-> 0, imported |-> FALSE, mode |-> mode, definitions |-> definitions,
   orders |-> <<[id |-> "global", entries |-> [i \in DOMAIN definitions |-> Entry(definitions[i].id, TRUE)]]>>,
   selected |-> "global"]
MainPreset ==
  ProductPreset("main", "harness",
    <<Prompt("before", "system", "world"), Prompt("history", "system", "history"),
      Prompt("after", "user", "world"), Prompt("prefill", "assistant", None)>>)
TavernPreset ==
  ProductPreset("tavern", "sillytavern",
    <<[Prompt("set", "system", None) EXCEPT !.sets = "x", !.system = TRUE],
      [Prompt("get", "user", None) EXCEPT !.gets = "x"]>>)
AgentBinding ==
  [mode |-> "agent", experience |-> "rp-adaptive", preset |-> "main", system |-> "sys",
   cast |-> <<"a", "b">>, primary |-> None, persona |-> "me", world |-> "w"]
TavernBinding == [AgentBinding EXCEPT !.mode = "tavern", !.preset = "tavern", !.cast = <<"a">>]
ProductDocument(binding) ==
  [revision |-> 0,
   catalog |-> [systems |-> <<EntityOf("sys", 0, FALSE)>>,
                characters |-> <<EntityOf("a", 0, FALSE), EntityOf("b", 0, TRUE)>>,
                personas |-> <<EntityOf("me", 0, FALSE)>>, worlds |-> <<EntityOf("w", 0, FALSE)>>,
                presets |-> <<MainPreset, TavernPreset>>],
   bindings |-> "s" :> binding @@ "f" :> None,
   transcripts |-> [s \in {"s", "f"} |-> None], runtimes |-> [s \in {"s", "f"} |-> None]]
Ask(op, session, arg) == [op |-> op, session |-> session, arg |-> arg]
RemoveCharacter == Ask("remove", None, [kind |-> "characters", id |-> "b"])
Talks ==
  {RemoveCharacter, Ask("schedule", "s", <<"b", "a">>), Ask("next", "s", None), Ask("fork", "f", 1),
   Ask("commit", "s", [keys |-> <<"time">>, choices |-> None]),
   Ask("commit", "s", [keys |-> <<"time", "place">>, choices |-> <<"go">>])}
Upload(kind, entity, readable) == [kind |-> kind, entity |-> entity, readable |-> readable]
Edits ==
  {RemoveCharacter, Ask("speaker", "s", "b"), Ask("choices", "s", <<"go", "stay">>), Ask("choice", "s", "go"),
   Ask("upsert", None, [kind |-> "characters", entity |-> [EntityOf("c", 1, FALSE) EXCEPT !.fits = FALSE]]),
   Ask("import", None, <<Upload("characters", EntityOf("b", 1, TRUE), TRUE),
                         Upload("worlds", EntityOf("w", 1, TRUE), FALSE)>>),
   Ask("adapt", None, "tavern"), Ask("bind", "s", TavernBinding),
   Ask("rebind", "s", [AgentBinding EXCEPT !.experience = "rp-multi-character"]),
   Ask("opening", "s", None), Ask("history", "s", <<"user", "assistant">>), Ask("edit", "s", None)}

P == INSTANCE ProductModel WITH Sessions <- {"s", "f"}, SeatCount <- 5, MaxEffects <- 3
FirstDocument == ProductDocument(P!NormalBinding(AgentBinding))
Talking ==
  INSTANCE ProductStore WITH
    Sessions <- {"s", "f"}, Parent <- "s", Child <- "f", SeatCount <- 5, MaxEffects <- 3,
    Initial <- FirstDocument, Requests <- Talks, MaxLog <- 3, MaxTurns <- 1, MaxRequests <- 1,
    MaxFaults <- 0, MaxCrashes <- 0, read <- cached
Editing ==
  INSTANCE ProductStore WITH
    Sessions <- {"s", "f"}, Parent <- "s", Child <- "f", SeatCount <- 5, MaxEffects <- 3,
    Initial <- FirstDocument, Requests <- Edits, MaxLog <- 2, MaxTurns <- 1, MaxRequests <- 1,
    MaxFaults <- 2, MaxCrashes <- 1, read <- cached
Pairs ==
  INSTANCE ProductStore WITH
    Sessions <- {"s", "f"}, Parent <- "s", Child <- "f", SeatCount <- 5, MaxEffects <- 3,
    Initial <- FirstDocument, Requests <- Edits, MaxLog <- 2, MaxTurns <- 0, MaxRequests <- 2,
    MaxFaults <- 1, MaxCrashes <- 1, read <- cached

(* The product's file is the document that was last answered for, read as    *)
(* such; speakers that are queued exist, a ledger follows the log of its     *)
(* session, a prompt has its seats, and what is recommended can be bound.    *)
ProductIsSound == focus \in {"talk", "edit", "pair"} => Talking!ProductIsSound

-----------------------------------------------------------------------------
(* The resources of one Session in the web page: a file of two assets, a     *)
(* preset, and one that cannot be read.                                      *)
FileOf(ids, version, valid) == [ids |-> ids, version |-> version, valid |-> valid]
ThreeFiles == {FileOf(<<hero, place>>, 1, TRUE), FileOf(<<style>>, 1, TRUE), FileOf(<<style>>, 2, FALSE)}
Rail ==
  INSTANCE WebResources WITH
    Library <- PageLibrary, Presets <- PagePresets, Files <- PageFiles, MaxVersion <- LastVersion,
    MaxOps <- 3, MaxCreatorOps <- 0, op <- operation
Creator ==
  INSTANCE WebResources WITH
    Library <- PageLibrary, Presets <- PagePresets, Files <- PageFiles, MaxVersion <- LastVersion,
    MaxOps <- 0, MaxCreatorOps <- 3, op <- operation

-----------------------------------------------------------------------------
(* These constants are such as the theorems of ContentProofs are about.      *)
ASSUME ContentAssumption == None \notin Nat /\ CatalogAssumption /\ MediaAssumption /\ PageAssumption

Init ==
  /\ focus \in Foci
  /\ Assets!Init /\ Memory!Init /\ Scene!Init /\ Media!Init /\ Talking!Init /\ Page!Init
  /\ CASE focus = "documents" -> Documents!Init
       [] focus = "relations" -> Relations!Init
       [] OTHER -> Branches!Init
Next ==
  /\ UNCHANGED focus
  /\ \/ /\ focus = "library" /\ AssetLibrary!Next
        /\ UNCHANGED <<memoryVars, storeVars, sceneVars, mediaVars, productVars, pageVars>>
     \/ /\ focus = "presets" /\ PromptPresets!Next
        /\ UNCHANGED <<memoryVars, storeVars, sceneVars, mediaVars, productVars, pageVars>>
     \/ /\ focus = "memory" /\ Memory!Next
        /\ UNCHANGED <<catalogVars, storeVars, sceneVars, mediaVars, productVars, pageVars>>
     \/ /\ focus = "branches" /\ Branches!Next
        /\ UNCHANGED <<catalogVars, memoryVars, sceneVars, mediaVars, productVars, pageVars>>
     \/ /\ focus = "documents" /\ Documents!Next
        /\ UNCHANGED <<catalogVars, memoryVars, sceneVars, mediaVars, productVars, pageVars>>
     \/ /\ focus = "relations" /\ Relations!Next
        /\ UNCHANGED <<catalogVars, memoryVars, sceneVars, mediaVars, productVars, pageVars>>
     \/ /\ focus = "content" /\ Scene!Next
        /\ UNCHANGED <<catalogVars, memoryVars, storeVars, mediaVars, productVars, pageVars>>
     \/ /\ focus = "media" /\ Media!Next
        /\ UNCHANGED <<catalogVars, memoryVars, storeVars, sceneVars, productVars, pageVars>>
     \/ /\ focus = "talk" /\ Talking!Next
        /\ UNCHANGED <<catalogVars, memoryVars, storeVars, sceneVars, mediaVars, pageVars>>
     \/ /\ focus = "edit" /\ Editing!Next
        /\ UNCHANGED <<catalogVars, memoryVars, storeVars, sceneVars, mediaVars, pageVars>>
     \/ /\ focus = "pair" /\ Pairs!Next
        /\ UNCHANGED <<catalogVars, memoryVars, storeVars, sceneVars, mediaVars, pageVars>>
     \/ /\ focus = "rail" /\ Rail!Next
        /\ UNCHANGED <<catalogVars, memoryVars, storeVars, sceneVars, mediaVars, productVars>>
     \/ /\ focus = "creator" /\ Creator!Next
        /\ UNCHANGED <<catalogVars, memoryVars, storeVars, sceneVars, mediaVars, productVars>>
     \/ /\ focus = "page" /\ Page!Next
        /\ UNCHANGED <<catalogVars, memoryVars, storeVars, sceneVars, mediaVars, productVars>>
Spec == Init /\ [][Next]_<<focus, catalogVars, memoryVars, storeVars, sceneVars, mediaVars, productVars, pageVars>>
=============================================================================
