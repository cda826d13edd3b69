---------------------------- MODULE ProductStore ----------------------------
(***************************************************************************)
(* packages/rp/product: the store of the document (store.ts), the local    *)
(* API and the commands (index.ts) and the tools and audits of an agent    *)
(* (agent.ts), beside the session logs of the Harness.                     *)
(*                                                                         *)
(* A mutation waits in a chain, computes the next document from the one in *)
(* memory, writes it to a temporary file that is renamed, and only then    *)
(* makes it the one in memory.  Some mutations then have an effect on a    *)
(* session (an event is appended, a preset is composed); one that fails    *)
(* writes the previous document back.  Commands and tools read the session *)
(* when they are called, which is before their turn in the chain.          *)
(***************************************************************************)
EXTENDS ProductModel

CONSTANTS
  Initial,         \* the document of the file the process starts with
  Requests,        \* what users and agents may ask: [op, session, arg]
  Parent, Child,   \* the session that is forked, and the fork
  MaxLog, MaxTurns, MaxRequests, MaxFaults, MaxCrashes

VARIABLES
  doc,        \* the document in memory
  file,       \* the document on disk
  read,       \* the document synchronous readers have cached
  queue,      \* the chain of mutations
  running,    \* the one that runs, or None
  log,        \* session -> its events
  agent,      \* session -> [alive, busy, turn, preset, baseline, attempts, audited, closed]
  seed,       \* the length the fork was created with, or None
  counts      \* how often what is bounded happened

psVars == <<doc, file, read, queue, running, log, agent, seed, counts>>

TargetPreset(binding) == IF binding.mode = "agent" THEN "rp-agent" ELSE "rp-tavern"
NoAgent == [alive |-> FALSE, busy |-> FALSE, turn |-> 0, preset |-> "rp-tavern",
            baseline |-> None, attempts |-> 0, audited |-> FALSE, closed |-> None]
Init ==
  /\ doc = Initial /\ file = Initial /\ read = Initial
  /\ queue = <<>> /\ running = None
  /\ log = [s \in Sessions |-> <<>>]
  /\ agent = [s \in Sessions |-> [NoAgent EXCEPT !.alive = s # Child,
       !.preset = IF Initial.bindings[s] = None THEN @ ELSE TargetPreset(Initial.bindings[s])]]
  /\ seed = None
  /\ counts = [requests |-> 0, faults |-> 0, crashes |-> 0]

Count(what, max) == counts[what] < max /\ counts' = [counts EXCEPT ![what] = @ + 1]
Event(kind, role, of) == [kind |-> kind, role |-> role, of |-> of]
Task(op, session, arg, seq, at) ==
  [op |-> op, session |-> session, arg |-> arg, base |-> doc.revision, seq |-> seq, at |-> at]
Next_(session) == Len(log[session]) + 1            \* session.events.length

-----------------------------------------------------------------------------
(* What a mutation makes of the document.                                    *)
Tools == {"commit", "choices", "schedule", "next", "speaker"}
Http == {"upsert", "remove", "import", "adapt", "rebind", "choice"}
OutcomeOf(t) ==
  CASE t.op = "upsert" -> UpsertEntity(doc, t.arg.kind, t.arg.entity, t.base)
    [] t.op = "remove" -> RemoveEntity(doc, t.arg.kind, t.arg.id, t.base)
    [] t.op = "import" -> MergeImported(doc, ImportProductFiles(t.arg), t.base)
    [] t.op = "adapt" -> AdaptPresetToHarness(doc, t.arg, t.base)
    [] t.op \in {"bind", "rebind"} -> BindSession(doc, t.session, t.arg, t.base)
    [] t.op = "choice" -> SelectRuntimeChoice(doc, t.session, t.arg)
    [] t.op = "opening" -> RecordOpeningMessage(doc, t.session, t.seq)
    [] t.op = "history" -> ImportTranscriptHistory(doc, t.session, t.seq, t.arg)
    [] t.op = "edit" -> EditTranscriptMessage(doc, t.session, t.arg.source, t.arg.edits, t.seq)
    [] t.op = "fork" -> ForkSessionProjection(doc, Parent, t.session, t.seq, t.arg)
    [] t.op = "observe" -> RecordTranscriptMessage(doc, t.session, t.seq, t.arg)
    [] t.op = "commit" -> CommitRuntimeTurn(doc, t.session, t.at.seq, t.arg.keys, t.arg.choices, t.at)
    [] t.op = "choices" -> ReplaceRuntimeChoices(doc, t.session, t.arg, t.at)
    [] t.op = "schedule" -> ScheduleCast(doc, t.session, t.arg, t.at)
    [] t.op = "next" -> AdvanceCastSpeaker(doc, t.session, t.at)
    [] t.op = "speaker" -> SelectPrimaryCharacter(doc, t.session, t.arg)
(* What it appends to the session after the write.                           *)
EffectOf(t) ==
  CASE t.op = "opening" -> <<Event("plugin", "assistant", t.seq)>>
    [] t.op = "history" -> [i \in DOMAIN t.arg |-> Event("plugin", t.arg[i], t.seq + i - 1)]
    [] t.op = "edit" -> <<Event("replace", None, t.arg.source)>>
    [] OTHER -> <<>>
Recomposes(t) == t.op = "bind" /\ agent[t.session].preset # TargetPreset(t.arg)

-----------------------------------------------------------------------------
(* One mutation at a time.                                                   *)
Begin ==
  /\ running = None /\ queue # <<>>
  /\ LET out == OutcomeOf(Head(queue))
     IN  running' = IF out.code # "ok" THEN None
                    ELSE [task |-> Head(queue), previous |-> doc, next |-> out.doc, phase |-> "write"]
  /\ queue' = Tail(queue)
  /\ UNCHANGED <<doc, file, read, log, agent, seed, counts>>
Rename ==
  /\ running # None /\ running.phase = "write"
  /\ file' = running.next
  /\ running' = [running EXCEPT !.phase = "written"]
  /\ UNCHANGED <<doc, read, queue, log, agent, seed, counts>>
WriteFails ==
  /\ running # None /\ running.phase = "write"
  /\ Count("faults", MaxFaults)
  /\ running' = None
  /\ UNCHANGED <<doc, file, read, queue, log, agent, seed>>
(* A tool that has committed is what the audit of its turn looks for.        *)
Audited(t, agents) ==
  IF t.op = "commit" THEN [agents EXCEPT ![t.session].audited = TRUE] ELSE agents
Written ==
  /\ running # None /\ running.phase = "written"
  /\ LET t == running.task
     IN  /\ doc' = running.next /\ read' = running.next
         /\ IF Recomposes(t) THEN running' = [running EXCEPT !.phase = "recompose"] /\ UNCHANGED <<log, agent>>
            ELSE /\ running' = None
                 /\ log' = IF EffectOf(t) = <<>> THEN log ELSE [log EXCEPT ![t.session] = @ \o EffectOf(t)]
                 /\ agent' = Audited(t, agent)
  /\ UNCHANGED <<file, queue, seed, counts>>
Recomposed ==
  /\ running # None /\ running.phase = "recompose"
  /\ LET t == running.task
     IN  /\ agent' = [agent EXCEPT ![t.session].preset = TargetPreset(t.arg)]
         /\ log' = [log EXCEPT ![t.session] = Append(@, Event("preset", None, None))]
  /\ running' = None
  /\ UNCHANGED <<doc, file, read, queue, seed, counts>>
(* What the effect appended before it threw stays in the session.            *)
EffectFails ==
  /\ running # None
  /\ \/ running.phase = "recompose"
     \/ running.phase = "written" /\ EffectOf(running.task) # <<>>
  /\ Count("faults", MaxFaults)
  /\ doc' = running.next /\ read' = running.next
  /\ running' = [running EXCEPT !.phase = "back"]
  /\ LET effect == EffectOf(running.task) IN
       \E sent \in Prefixes(effect) :
         /\ sent # effect \/ effect = <<>>
         /\ log' = [log EXCEPT ![running.task.session] = @ \o sent]
  /\ UNCHANGED <<file, queue, agent, seed>>
(* Slip: only the document in memory is put back.                            *)
SlipWriteBack ==
  /\ running # None /\ running.phase = "back"
  /\ doc' = running.previous /\ read' = running.previous
  /\ running' = None
  /\ UNCHANGED <<file, queue, log, agent, seed, counts>>
WriteBack ==
  /\ running # None /\ running.phase = "back"
  /\ file' = running.previous /\ doc' = running.previous /\ read' = running.previous
  /\ running' = None
  /\ UNCHANGED <<queue, log, agent, seed, counts>>
WriteBackFails ==
  /\ running # None /\ running.phase = "back"
  /\ Count("faults", MaxFaults)
  /\ running' = None
  /\ UNCHANGED <<doc, file, read, queue, log, agent, seed>>
(* A synchronous reader uses what was read or written in this millisecond,   *)
(* and reads the file in a later one.                                        *)
ReadProductStateSync(state) == state \in {read, file} /\ read' = state

-----------------------------------------------------------------------------
(* Requests.                                                                 *)
Enqueue(t) == queue' = Append(queue, t)
Request(op, s, arg, seq) ==
  /\ Count("requests", MaxRequests)
  /\ Enqueue(Task(op, s, arg, seq, None))
  /\ UNCHANGED <<doc, file, read, running, log, agent, seed>>
HandleApi == \E r \in Requests : r.op \in Http /\ Request(r.op, r.session, r.arg, None)
Idle(s) == agent[s].alive /\ ~agent[s].busy
BindCommand ==
  \E r \in Requests :
    /\ r.op = "bind" /\ agent[r.session].alive
    /\ agent[r.session].preset # TargetPreset(r.arg) => agent[r.session].turn = 0
    /\ Request("bind", r.session, r.arg, None)
OpeningCommand ==
  \E r \in Requests :
    /\ r.op = "opening" /\ Idle(r.session)
    /\ doc.bindings[r.session] # None /\ doc.bindings[r.session].primary # None
    /\ Request("opening", r.session, None, Next_(r.session))
ChatImportCommand ==
  \E r \in Requests : r.op = "history" /\ Idle(r.session) /\ Request("history", r.session, r.arg, Next_(r.session))
EditCommand ==
  \E r \in Requests :
    /\ r.op = "edit" /\ Idle(r.session)
    /\ \E i \in DOMAIN RowsOf(doc, r.session) :
         LET row == RowsOf(doc, r.session)[i]
         IN  /\ row.surface \in DOMAIN log[r.session]
             /\ Request("edit", r.session, [source |-> row.source, edits |-> row.edits], Next_(r.session))
ForkAdoptCommand ==
  \E r \in Requests :
    /\ r.op = "fork" /\ Idle(Child) /\ seed # None
    /\ doc.bindings[Parent] # None
    /\ agent[Child].preset = TargetPreset(doc.bindings[Parent])
    /\ Request("fork", Child, r.arg, seed)

(* Messages that are said in a session are observed as they are appended,    *)
(* and again when its agent is created after a restart or by a fork.         *)
Observed(s, events) ==
  LET said == SetToSortSeq({i \in DOMAIN events : events[i].kind = "said"}, <)
  IN  [i \in DOMAIN said |-> Task("observe", s, events[said[i]].role, said[i], None)]
NativeFork ==
  /\ seed = None /\ agent[Parent].alive /\ \E r \in Requests : r.op = "fork"
  /\ \E cut \in 1 .. Len(log[Parent]) :
       LET prefix == SubSeq(log[Parent], 1, cut)
       IN  /\ seed' = cut
           /\ log' = [log EXCEPT ![Child] = prefix]
           /\ agent' = [agent EXCEPT ![Child] = [NoAgent EXCEPT !.alive = TRUE, !.preset = agent[Parent].preset,
                          !.turn = Cardinality({i \in DOMAIN prefix : prefix[i].kind = "said" /\ prefix[i].role = "user"})]]
           /\ queue' = queue \o Observed(Child, prefix)
  /\ UNCHANGED <<doc, file, read, running, counts>>
CreateAgent(s) ==
  /\ ~agent[s].alive /\ (s = Child => seed # None)
  /\ agent' = [agent EXCEPT ![s].alive = TRUE]
  /\ queue' = queue \o Observed(s, log[s])
  /\ UNCHANGED <<doc, file, read, running, log, seed, counts>>

-----------------------------------------------------------------------------
(* A turn of an agent.                                                       *)
Waits(s) ==
  \/ running # None /\ running.task.session = s /\ running.task.op \in Tools
  \/ \E i \in DOMAIN queue : queue[i].session = s /\ queue[i].op \in Tools
Say(s, role) ==
  /\ Len(log[s]) < MaxLog
  /\ log' = [log EXCEPT ![s] = Append(@, Event("said", role, None))]
  /\ Enqueue(Task("observe", s, role, Next_(s), None))
RevisionOf(d, s) == RuntimeOf(d, s).revision
StartTurn(s) ==
  /\ Idle(s) /\ agent[s].turn < MaxTurns
  /\ Say(s, "user")
  /\ \E state \in {read, file} :
       /\ ReadProductStateSync(state)
       /\ agent' = [agent EXCEPT ![s] = [@ EXCEPT !.busy = TRUE, !.turn = @ + 1, !.attempts = 0, !.audited = FALSE,
                 !.closed = None,
                 !.baseline = IF agent[s].preset = "rp-agent" THEN RevisionOf(state, s) ELSE None]]
  /\ UNCHANGED <<doc, file, running, seed, counts>>
CallTool(s) ==
  /\ agent[s].busy /\ agent[s].preset = "rp-agent" /\ ~Waits(s)
  /\ \E r \in Requests :
       /\ r.op \in Tools /\ r.session = s
       /\ Len(log[s]) < MaxLog
       /\ log' = [log EXCEPT ![s] = Append(@, Event("call", None, None))]
       /\ Enqueue(Task(r.op, s, r.arg, None, [turn |-> agent[s].turn, seq |-> Next_(s)]))
  /\ UNCHANGED <<doc, file, read, running, agent, seed, counts>>
Reply(s) ==
  /\ agent[s].busy /\ ~Waits(s)
  /\ Say(s, "assistant")
  /\ UNCHANGED <<doc, file, read, running, agent, seed, counts>>
Closed(s, how) == [agent EXCEPT ![s] = [@ EXCEPT !.busy = FALSE, !.baseline = None, !.attempts = 0, !.closed = how]]
(* The State Keeper asks twice for a commit, then fails the turn.            *)
TurnStopping(s) ==
  /\ agent[s].busy /\ ~Waits(s)
  /\ \E state \in {read, file} :
       /\ ReadProductStateSync(state)
       /\ agent' = IF agent[s].baseline = None \/ RevisionOf(state, s) > agent[s].baseline THEN Closed(s, "done")
                   ELSE IF agent[s].attempts >= 2 THEN Closed(s, "failed")
                   ELSE [agent EXCEPT ![s].attempts = @ + 1]
  /\ UNCHANGED <<doc, file, queue, running, log, seed, counts>>

(* The process stops; the sessions' logs and the file are what is left.      *)
Crash ==
  /\ Count("crashes", MaxCrashes)
  /\ doc' = file /\ read' = file /\ queue' = <<>> /\ running' = None
  /\ agent' = [s \in Sessions |-> [agent[s] EXCEPT !.alive = FALSE, !.busy = FALSE, !.baseline = None,
                                                   !.attempts = 0, !.closed = None]]
  /\ UNCHANGED <<file, log, seed>>

Next ==
  \/ Begin \/ Rename \/ WriteFails \/ Written \/ Recomposed \/ EffectFails \/ WriteBack \/ WriteBackFails
  \/ HandleApi \/ BindCommand \/ OpeningCommand \/ ChatImportCommand \/ EditCommand \/ ForkAdoptCommand
  \/ NativeFork \/ Crash
  \/ \E s \in Sessions : CreateAgent(s) \/ StartTurn(s) \/ CallTool(s) \/ Reply(s) \/ TurnStopping(s)
Spec == Init /\ [][Next]_psVars

-----------------------------------------------------------------------------
(* What the process would read after a stop is what it works with, unless it *)
(* is in the middle of a mutation, and it is a document it accepts.          *)
FileIsCurrent == (running = None => file = doc) /\ Normal(file)
(* Whoever waits to speak is a character that exists.                        *)
QueuedSpeakersExist ==
  \A s \in Sessions : doc.runtimes[s] # None =>
    ToSet(doc.runtimes[s].queue) \subseteq Ids(doc.catalog["characters"])
(* A ledger holds what calls of its own session committed, and what one call *)
(* committed once: a fork knows nothing of its parent's later turns.         *)
LedgersAreLogged ==
  \A s \in Sessions : doc.runtimes[s] # None =>
    LET effects == doc.runtimes[s].effects
    IN  \A i \in DOMAIN effects :
          /\ effects[i].at.seq \in DOMAIN log[s] /\ log[s][effects[i].at.seq].kind = "call"
          /\ \A j \in DOMAIN effects : i # j /\ effects[i].call = effects[j].call => effects[i].key # effects[j].key
(* Every enabled entry of a prompt has one seat, in the order of the preset, *)
(* and the world's material is given once.                                   *)
PromptsAreSeated ==
  \A s \in Sessions :
    LET layers == ResolvePromptLayers(doc, s)
        seats == {n \in 0 .. SeatCount - 1 : PromptSeat(layers, n) # None}
        order == SetToSortSeq(seats, <)
    IN  /\ [i \in DOMAIN order |-> PromptSeat(layers, order[i])] = layers
        /\ Cardinality({i \in DOMAIN layers : layers[i].kind = "world" /\ RenderPromptLayer(layers[i]) # None}) <= 1
(* What is recommended can be bound.                                         *)
RecommendationsBind ==
  \A mode \in {"tavern", "agent"} :
    BindSession(doc, Parent, RecommendComposition(doc, mode), doc.revision).code = "ok"
ProductIsSound ==
  FileIsCurrent /\ QueuedSpeakersExist /\ LedgersAreLogged /\ PromptsAreSeated /\ RecommendationsBind

=============================================================================
