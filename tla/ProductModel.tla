---------------------------- MODULE ProductModel ----------------------------
(***************************************************************************)
(* packages/rp/product/src/model.ts: the document of the local workspace   *)
(* and the functions that make the next document of one.  A function       *)
(* answers [code, doc]: every result is normalized, which refuses a        *)
(* document whose parts do not fit together, and has the next revision.    *)
(*                                                                         *)
(* catalog maps a kind to the sequence of its entities; bindings,          *)
(* transcripts and runtimes map a session to its record or None.  Texts    *)
(* are abstracted to whether they fit their limits; a location (turn, seq  *)
(* of the tool call) is None when it is not known.                         *)
(***************************************************************************)
EXTENDS Naturals, FiniteSets, SequencesExt

CONSTANTS
  None,
  Sessions,
  SeatCount,       \* 256 prompt seats
  MaxEffects       \* 500 effects kept in a ledger

EntityKinds == {"systems", "characters", "personas", "worlds", "presets"}
Answer(code, doc) == [code |-> code, doc |-> doc]
Refused(code) == Answer(code, None)

Ids(entities) == {entities[i].id : i \in DOMAIN entities}
Find(entities, id) ==
  IF id \in Ids(entities) THEN entities[CHOOSE i \in DOMAIN entities : entities[i].id = id] ELSE None
Distinct(seq) == FoldLeft(LAMBDA seen, x : IF x \in ToSet(seen) THEN seen ELSE Append(seen, x), <<>>, seq)
Unique(entities) == Cardinality(Ids(entities)) = Len(entities)

-----------------------------------------------------------------------------
(* What a document must be.                                                  *)
EntityFits(entity) == entity.fits
PresetWhole(preset) ==
  /\ preset.fits
  /\ preset.definitions # <<>> /\ Unique(preset.definitions)
  /\ preset.orders # <<>> /\ Unique(preset.orders)
  /\ \A o \in DOMAIN preset.orders :
       LET entries == preset.orders[o].entries
       IN  /\ Len(entries) <= SeatCount /\ Unique(entries)
           /\ Ids(entries) \subseteq Ids(preset.definitions)
  /\ preset.selected \in Ids(preset.orders)
NormalBinding(binding) ==
  LET cast == Distinct(binding.cast)
  IN  [binding EXCEPT !.cast = cast,
                      !.primary = IF @ = None /\ cast # <<>> THEN cast[1] ELSE @]
BindingWhole(binding) ==
  /\ binding.experience = "rp-multi-character" => Len(binding.cast) >= 2
  /\ binding.primary # None => binding.primary \in ToSet(binding.cast)
ReferencesExist(doc, binding) ==
  /\ binding.preset \in Ids(doc.catalog["presets"]) /\ binding.system \in Ids(doc.catalog["systems"])
  /\ ToSet(binding.cast) \subseteq Ids(doc.catalog["characters"])
  /\ binding.persona # None => binding.persona \in Ids(doc.catalog["personas"])
  /\ binding.world # None => binding.world \in Ids(doc.catalog["worlds"])
TranscriptWhole(rows) == \A i, j \in DOMAIN rows : i # j => rows[i].source # rows[j].source
RuntimeWhole(runtime) == Len(runtime.queue) <= 16
Normal(doc) ==
  /\ \A k \in EntityKinds : Unique(doc.catalog[k])
  /\ \A k \in EntityKinds \ {"presets"} : \A i \in DOMAIN doc.catalog[k] : EntityFits(doc.catalog[k][i])
  /\ \A i \in DOMAIN doc.catalog["presets"] : PresetWhole(doc.catalog["presets"][i])
  /\ doc.catalog["systems"] # <<>> /\ doc.catalog["presets"] # <<>>
  /\ \A s \in Sessions :
       /\ doc.bindings[s] # None => BindingWhole(doc.bindings[s]) /\ ReferencesExist(doc, doc.bindings[s])
       /\ doc.transcripts[s] # None => TranscriptWhole(doc.transcripts[s])
       /\ doc.runtimes[s] # None => RuntimeWhole(doc.runtimes[s])
Normalized(doc) ==
  LET bindings == [s \in Sessions |-> IF doc.bindings[s] = None THEN None ELSE NormalBinding(doc.bindings[s])]
      next == [doc EXCEPT !.revision = @ + 1, !.bindings = bindings]
  IN  IF Normal(next) THEN Answer("ok", next) ELSE Refused("INVALID")

-----------------------------------------------------------------------------
(* The catalog.                                                              *)
Merged(current, added) ==
  [i \in DOMAIN current |-> IF current[i].id \in Ids(added) THEN Find(added, current[i].id) ELSE current[i]]
    \o SelectSeq(added, LAMBDA e : e.id \notin Ids(current))
UpsertEntity(doc, kind, entity, base) ==
  IF base # doc.revision THEN Refused("CONFLICT")
  ELSE Normalized([doc EXCEPT !.catalog[kind] = Merged(@, <<entity>>)])
(* A batch of files: the entities of those that could be read, the last one  *)
(* of each id.                                                               *)
DedupeById(entities) ==
  LET ids == Distinct([i \in DOMAIN entities |-> entities[i].id])
  IN  [i \in DOMAIN ids |-> entities[SelectLastInSeq(entities, LAMBDA e : e.id = ids[i])]]
ImportProductFiles(files) ==
  [k \in EntityKinds |->
     LET read == SelectSeq(files, LAMBDA f : f.readable /\ f.kind = k /\ EntityFits(f.entity))
     IN  DedupeById([i \in DOMAIN read |-> read[i].entity])]
MergeImported(doc, imported, base) ==
  IF base # doc.revision THEN Refused("CONFLICT")
  ELSE Normalized([doc EXCEPT !.catalog = [k \in EntityKinds |-> Merged(@[k], imported[k])]])

(* A copy of a SillyTavern preset for the Harness; the original stays.       *)
Adapted(preset) ==
  [preset EXCEPT !.id = @ \o "-harness", !.mode = "harness",
     !.definitions = [i \in DOMAIN @ |-> [@[i] EXCEPT !.role = IF preset.definitions[i].system THEN "system" ELSE @,
                                                      !.system = FALSE]]]
AdaptPresetToHarness(doc, id, base) ==
  LET preset == Find(doc.catalog["presets"], id)
  IN  IF base # doc.revision THEN Refused("CONFLICT")
      ELSE IF preset = None THEN Refused("MISSING")
      ELSE IF preset.mode # "sillytavern" THEN Refused("INVALID")
      ELSE Normalized([doc EXCEPT !.catalog["presets"] = Merged(@, <<Adapted(preset)>>)])

(* Removing an entity repairs what refers to it: a binding takes the first   *)
(* system or preset that is left, and the speakers' queues lose a character. *)
Without(seq, x) == SelectSeq(seq, LAMBDA y : y # x)
RepairedBinding(binding, kind, id, left) ==
  CASE kind = "systems" -> [binding EXCEPT !.system = IF @ = id THEN left[1].id ELSE @]
    [] kind = "presets" -> [binding EXCEPT !.preset = IF @ = id THEN left[1].id ELSE @]
    [] kind = "characters" ->
         LET cast == Without(binding.cast, id)
         IN  [binding EXCEPT !.cast = cast,
                !.primary = IF @ # id THEN @ ELSE IF cast = <<>> THEN None ELSE cast[1]]
    [] kind = "personas" -> [binding EXCEPT !.persona = IF @ = id THEN None ELSE @]
    [] kind = "worlds" -> [binding EXCEPT !.world = IF @ = id THEN None ELSE @]
RepairedRuntime(runtime, kind, id) ==
  IF kind # "characters" THEN runtime
  ELSE [runtime EXCEPT !.queue = Without(@, id), !.speaker = IF @ = id THEN None ELSE @]
RemoveEntity(doc, kind, id, base) ==
  LET entities == doc.catalog[kind]
      left == SelectSeq(entities, LAMBDA e : e.id # id)
  IN  IF base # doc.revision THEN Refused("CONFLICT")
      ELSE IF kind \in {"systems", "presets"} /\ Len(entities) = 1 /\ entities[1].id = id THEN Refused("LAST")
      ELSE IF id \notin Ids(entities) THEN Refused("MISSING")
      ELSE Normalized([doc EXCEPT !.catalog[kind] = left,
             !.bindings = [s \in Sessions |-> IF @[s] = None THEN None ELSE RepairedBinding(@[s], kind, id, left)],
             !.runtimes = [s \in Sessions |-> IF @[s] = None THEN None ELSE RepairedRuntime(@[s], kind, id)]])

(* The composition that needs no choice of the user's: the newest entity of  *)
(* each kind, an imported one before the others.                             *)
Newest(entities) ==
  IF entities = <<>> THEN None
  ELSE LET newest == {i \in DOMAIN entities : \A j \in DOMAIN entities : entities[j].at <= entities[i].at}
       IN  entities[CHOOSE i \in newest : \A j \in newest : j <= i].id
ImportedOrAll(entities) ==
  LET imported == SelectSeq(entities, LAMBDA e : e.imported) IN IF imported = <<>> THEN entities ELSE imported
RecommendedPreset(presets) ==
  LET Harness(seq) == SelectSeq(seq, LAMBDA p : p.mode = "harness")
      imported == SelectSeq(presets, LAMBDA p : p.imported)
  IN  Newest(IF Harness(imported) # <<>> THEN Harness(imported)
             ELSE IF imported # <<>> THEN imported
             ELSE IF Harness(presets) # <<>> THEN Harness(presets) ELSE presets)
RecommendComposition(doc, mode) ==
  LET character == Newest(ImportedOrAll(doc.catalog["characters"]))
  IN  [mode |-> mode, experience |-> "rp-adaptive", preset |-> RecommendedPreset(doc.catalog["presets"]),
       system |-> Newest(doc.catalog["systems"]),
       cast |-> IF character = None THEN <<>> ELSE <<character>>, primary |-> character,
       persona |-> Newest(ImportedOrAll(doc.catalog["personas"])),
       world |-> Newest(ImportedOrAll(doc.catalog["worlds"]))]

-----------------------------------------------------------------------------
(* Sessions: their composition, their cast and the order it speaks in.       *)
EmptyRuntime == [revision |-> 0, effects |-> <<>>, choices |-> <<>>, selected |-> None, choicesAt |-> None,
                 last |-> None, queue |-> <<>>, round |-> 0, speaker |-> None, queueAt |-> None]
RuntimeOf(doc, session) == IF doc.runtimes[session] = None THEN EmptyRuntime ELSE doc.runtimes[session]
Known(location, otherwise) == IF location = None THEN otherwise ELSE location
IsAgent(doc, session) == doc.bindings[session] # None /\ doc.bindings[session].mode = "agent"

BindSession(doc, session, binding, base) ==
  LET bound == NormalBinding(binding)
  IN  IF base # doc.revision THEN Refused("CONFLICT")
      ELSE IF ~BindingWhole(bound) \/ ~ReferencesExist(doc, bound) THEN Refused("INVALID")
      ELSE Normalized([doc EXCEPT !.bindings[session] = bound])
SelectPrimaryCharacter(doc, session, id) ==
  IF ~IsAgent(doc, session) THEN Refused("MODE")
  ELSE IF id \notin ToSet(doc.bindings[session].cast) \cap Ids(doc.catalog["characters"]) THEN Refused("INVALID")
  ELSE Normalized([doc EXCEPT !.bindings[session].primary = id])
ScheduleCast(doc, session, queue, location) ==
  LET runtime == RuntimeOf(doc, session)
  IN  IF ~IsAgent(doc, session) THEN Refused("MODE")
      ELSE IF queue = <<>> \/ ~IsInjective(queue) \/ ~(ToSet(queue) \subseteq ToSet(doc.bindings[session].cast))
      THEN Refused("INVALID")
      ELSE Normalized([doc EXCEPT !.runtimes[session] =
             [runtime EXCEPT !.revision = @ + 1, !.queue = queue, !.round = @ + 1,
                             !.queueAt = Known(location, @), !.last = Known(location, @)]])
AdvanceCastSpeaker(doc, session, location) ==
  LET runtime == RuntimeOf(doc, session)
  IN  IF ~IsAgent(doc, session) THEN Refused("MODE")
      ELSE IF runtime.queue = <<>> \/ Head(runtime.queue) \notin ToSet(doc.bindings[session].cast) THEN Refused("INVALID")
      ELSE Normalized([doc EXCEPT
             !.bindings[session].primary = Head(runtime.queue),
             !.runtimes[session] =
               [runtime EXCEPT !.revision = @ + 1, !.queue = Tail(@), !.speaker = Head(runtime.queue),
                               !.queueAt = Known(location, @), !.last = Known(location, @)]])

(* A forked session starts from what the parent knew at the cut.             *)
Before(location, cut, turn) == location # None /\ location.seq <= cut /\ location.turn <= turn
ForkedRuntime(runtime, cut, turn) ==
  LET effects == SelectSeq(runtime.effects, LAMBDA e : Before(e.at, cut, turn))
      choices == Before(runtime.choicesAt, cut, turn)
      queue == Before(runtime.queueAt, cut, turn)
  IN  [revision |-> Cardinality({effects[i].call : i \in DOMAIN effects}), effects |-> effects,
       choices |-> IF choices THEN runtime.choices ELSE <<>>,
       selected |-> IF choices THEN runtime.selected ELSE None,
       choicesAt |-> IF choices THEN runtime.choicesAt ELSE None,
       last |-> IF effects = <<>> THEN None ELSE Last(effects).at,
       queue |-> IF queue THEN runtime.queue ELSE <<>>, round |-> IF queue THEN runtime.round ELSE 0,
       speaker |-> IF queue THEN runtime.speaker ELSE None, queueAt |-> IF queue THEN runtime.queueAt ELSE None]
ForkSessionProjection(doc, source, child, cut, turn) ==
  LET Clipped(rows) == SelectSeq(rows, LAMBDA r : r.source <= cut /\ r.surface <= cut)
  IN  IF doc.bindings[source] = None THEN Refused("MISSING")
      ELSE Normalized([doc EXCEPT
             !.bindings[child] = doc.bindings[source],
             !.transcripts[child] = IF doc.transcripts[source] = None THEN @ ELSE Clipped(doc.transcripts[source]),
             !.runtimes[child] =
               IF doc.runtimes[source] = None THEN @ ELSE ForkedRuntime(doc.runtimes[source], cut, turn)])

-----------------------------------------------------------------------------
(* Transcripts: the row of a message is named by the event it was said in    *)
(* (source); surface is the event that shows it now.                         *)
Row(seq, role, speaker, synthetic) ==
  [source |-> seq, surface |-> seq, role |-> role, speaker |-> speaker, synthetic |-> synthetic, edits |-> 0]
RowsOf(doc, session) == IF doc.transcripts[session] = None THEN <<>> ELSE doc.transcripts[session]
WithRows(doc, session, rows) == Normalized([doc EXCEPT !.transcripts[session] = RowsOf(doc, session) \o rows])
Speaker(binding, role) == IF role = "assistant" THEN binding.primary ELSE binding.persona
RecordTranscriptMessage(doc, session, seq, role) ==
  IF \/ doc.bindings[session] = None
     \/ \E i \in DOMAIN RowsOf(doc, session) : RowsOf(doc, session)[i].source = seq
  THEN Answer("unchanged", doc)
  ELSE WithRows(doc, session, <<Row(seq, role, Speaker(doc.bindings[session], role), FALSE)>>)
RecordOpeningMessage(doc, session, seq) ==
  IF doc.bindings[session] = None \/ doc.bindings[session].primary = None THEN Refused("MISSING")
  ELSE WithRows(doc, session, <<Row(seq, "assistant", doc.bindings[session].primary, TRUE)>>)
ImportTranscriptHistory(doc, session, seq, roles) ==
  IF doc.bindings[session] = None THEN Refused("MISSING")
  ELSE IF roles = <<>> THEN Refused("INVALID")
  ELSE WithRows(doc, session,
         [i \in DOMAIN roles |-> Row(seq + i - 1, roles[i], Speaker(doc.bindings[session], roles[i]), TRUE)])
EditTranscriptMessage(doc, session, source, edits, replacement) ==
  LET rows == RowsOf(doc, session)
      row == {i \in DOMAIN rows : rows[i].source = source}
  IN  IF row = {} THEN Refused("MISSING")
      ELSE IF \E i \in row : rows[i].edits # edits THEN Refused("CONFLICT")
      ELSE Normalized([doc EXCEPT !.transcripts[session] =
             [i \in DOMAIN rows |->
                IF i \in row THEN [rows[i] EXCEPT !.surface = replacement, !.edits = @ + 1] ELSE rows[i]]])

-----------------------------------------------------------------------------
(* The ledger of an agent's session.                                         *)
Ledger(effects, call, committed) ==
  LET all == SelectSeq(effects, LAMBDA e : e.call # call) \o committed
  IN  IF Len(all) <= MaxEffects THEN all ELSE SubSeq(all, Len(all) - MaxEffects + 1, Len(all))
Proposed(runtime, choices, location) ==
  [runtime EXCEPT !.choices = choices, !.selected = None, !.choicesAt = Known(location, @)]
(* keys: the state keys of the updates; choices: the new ones, or None.      *)
CommitRuntimeTurn(doc, session, call, keys, choices, location) ==
  LET runtime == RuntimeOf(doc, session)
      committed == [i \in DOMAIN keys |-> [call |-> call, key |-> keys[i], at |-> location]]
      ledger == [runtime EXCEPT !.revision = @ + 1, !.effects = Ledger(@, call, committed), !.last = Known(location, @)]
  IN  IF ~IsAgent(doc, session) THEN Refused("MODE")
      ELSE IF choices # None /\ ~IsInjective(choices) THEN Refused("INVALID")
      ELSE Normalized([doc EXCEPT !.runtimes[session] =
             IF choices = None THEN ledger ELSE Proposed(ledger, choices, location)])
ReplaceRuntimeChoices(doc, session, choices, location) ==
  LET runtime == RuntimeOf(doc, session)
  IN  IF ~IsAgent(doc, session) THEN Refused("MODE")
      ELSE IF choices = <<>> \/ ~IsInjective(choices) THEN Refused("INVALID")
      ELSE Normalized([doc EXCEPT !.runtimes[session] =
             Proposed([runtime EXCEPT !.revision = @ + 1, !.last = Known(location, @)], choices, location)])
SelectRuntimeChoice(doc, session, choice) ==
  IF choice \notin ToSet(RuntimeOf(doc, session).choices) THEN Refused("MISSING")
  ELSE Normalized([doc EXCEPT !.runtimes[session].revision = @ + 1, !.runtimes[session].selected = choice])

-----------------------------------------------------------------------------
(* The prompt of a session: a layer for every enabled entry of the selected  *)
(* order.  A definition marks a place for material (kind) or has a text that *)
(* may set and read variables.                                               *)
Material(doc, binding, kind) ==
  CASE kind = "system" -> binding.system
    [] kind = "world" -> binding.world
    [] kind \in {"character", "scene", "examples"} ->
         IF binding.primary # None THEN binding.primary ELSE IF binding.cast # <<>> THEN binding.cast[1] ELSE None
    [] kind = "persona" -> binding.persona
    [] OTHER -> None                        \* history and markers without material
MarkerMaterial(doc, binding, definition, emitted) ==
  IF definition.kind = "world" /\ emitted THEN None ELSE Material(doc, binding, definition.kind)
DefinitionMaterial(definition, variables) ==
  CASE definition.gets # None -> IF definition.gets \in variables \cup {definition.sets} THEN definition.gets ELSE None
    [] definition.gets = None /\ definition.sets # None -> None
    [] OTHER -> definition.id
AddLayer(doc, binding, prompt, definition) ==
  LET content == IF definition.marker THEN MarkerMaterial(doc, binding, definition, prompt.world)
                 ELSE DefinitionMaterial(definition, prompt.variables)
      kind == IF definition.marker THEN definition.kind ELSE "custom"
  IN  [layers |-> Append(prompt.layers, [id |-> definition.id, kind |-> kind, role |-> definition.role, content |-> content]),
       variables |-> IF definition.marker THEN prompt.variables ELSE prompt.variables \cup ({definition.sets} \ {None}),
       world |-> prompt.world \/ (kind = "world" /\ content # None)]
ResolvePromptLayers(doc, session) ==
  LET binding == doc.bindings[session]
      preset == Find(doc.catalog["presets"], binding.preset)
      enabled == SelectSeq(Find(preset.orders, preset.selected).entries, LAMBDA e : e.enabled)
  IN  IF binding = None THEN <<>>
      ELSE FoldLeft(LAMBDA prompt, e : AddLayer(doc, binding, prompt, Find(preset.definitions, e.id)),
                    [layers |-> <<>>, variables |-> {}, world |-> FALSE], enabled).layers
RenderPromptLayer(layer) == IF layer.content = None \/ layer.kind = "history" THEN None ELSE layer
(* Seats 0..SeatCount - 1 are registered once; a closing assistant layer is  *)
(* the last of the prompt.                                                   *)
PromptSeat(layers, seat) ==
  IF layers = <<>> \/ Last(layers).role # "assistant"
  THEN IF seat < Len(layers) THEN layers[seat + 1] ELSE None
  ELSE IF seat = SeatCount - 1 THEN Last(layers)
  ELSE IF seat < Len(layers) - 1 THEN layers[seat + 1] ELSE None
=============================================================================
