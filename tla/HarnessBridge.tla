--------------------------- MODULE HarnessBridge ---------------------------
(***************************************************************************)
(* packages/rp/harness-bridge, which mirrors the Tools, Skills, Subagents, *)
(* Pipelines and Workflow backends of a Harness into the capability        *)
(* catalog, and the domain capabilities of packages/rp/first-party.        *)
(* Four of the registries are read at once when they change; the list of   *)
(* Skills is asked for and answered later, one question at a time, but for *)
(* the first, which nothing waits for.                                     *)
(***************************************************************************)
EXTENDS Naturals, FiniteSets, Sequences, TLC

CONSTANTS
  Names,            \* group -> what its registry may hold
  Hidden,           \* Skills that a model may not invoke
  Trust, Kinds,     \* Pipeline or backend -> its trust and, of a backend, its kinds
  Demands,          \* Pipeline -> the permissions that it declares
  Calls,            \* [id, permissions, trust, input]
  Contested,        \* capability ids that other plugins register too
  MaxChanges        \* bound

VARIABLES
  phase,       \* "idle", "running", "closing", "gone"
  native,      \* group -> the content of its registry
  mirror,      \* group -> what the bridge has registered of it
  taken,       \* capability ids of other plugins
  waiting,     \* questions for the Skills that wait for their turn
  lookup,      \* "first", "chained" -> the question that is asked, if any
  failed,      \* groups whose last synchronisation threw
  overlapped,  \* has a Skill changed while the first question was open?
  stores,      \* is a durable memory store registered?
  answer,      \* how the last call ended
  changes

hbVars == <<phase, native, mirror, taken, waiting, lookup, failed, overlapped, stores, answer, changes>>
Groups == {"tools", "skills", "subagents", "pipelines", "backends"}
NoLookup == [at |-> "none", list |-> {}]
NoAnswer == [call |-> <<>>, code |-> "none", trust |-> 0, permissions |-> {}, effect |-> "none", backend |-> {}]

Init ==
  /\ phase = "idle" /\ native = [g \in Groups |-> {}] /\ mirror = native /\ taken = {}
  /\ waiting = 0 /\ lookup = [w \in {"first", "chained"} |-> NoLookup]
  /\ failed = {} /\ overlapped = FALSE /\ stores = FALSE /\ answer = NoAnswer /\ changes = 0

-----------------------------------------------------------------------------
(* The mirror.                                                             *)
(* replace(): the old ones go first; when one of the new ones is already    *)
(* registered, none of them stays.                                         *)
Conflict(group, names) == \E n \in names : <<group, n>> \in taken
Replace(group, names) == IF Conflict(group, names) THEN {} ELSE names
Invocable(list) == list \ Hidden

Sync(group, names) ==
  IF phase = "running"
  THEN /\ mirror' = [mirror EXCEPT ![group] = Replace(group, names)]
       /\ failed' = IF Conflict(group, names) THEN failed \cup {group} ELSE failed \ {group}
  ELSE UNCHANGED <<mirror, failed>>

(* apply(): four groups at once.  A conflict rejects the plugin, and its    *)
(* effect is undone; or else the first question for the Skills is asked.    *)
Apply ==
  /\ phase = "idle"
  /\ IF \E g \in Groups \ {"skills"} : Conflict(g, native[g])
     THEN phase' = "gone" /\ UNCHANGED <<mirror, lookup>>
     ELSE /\ phase' = "running"
          /\ mirror' = [g \in Groups |-> IF g = "skills" THEN {} ELSE native[g]]
          /\ lookup' = [lookup EXCEPT !.first = [at |-> "asked", list |-> {}]]
  /\ UNCHANGED <<native, taken, waiting, failed, overlapped, stores, answer, changes>>

(* A registry changes and says so.  The Skills are asked for in a chain.     *)
RegistryChanges(group, names) ==
  /\ changes < MaxChanges /\ names # native[group]
  /\ native' = [native EXCEPT ![group] = names] /\ changes' = changes + 1
  /\ IF phase \in {"idle", "gone"} THEN UNCHANGED <<mirror, failed, waiting, overlapped>>
     ELSE IF group = "skills"
     THEN /\ waiting' = waiting + 1 /\ overlapped' = (overlapped \/ lookup.first # NoLookup)
          /\ UNCHANGED <<mirror, failed>>
     ELSE /\ Sync(group, names) /\ UNCHANGED <<waiting, overlapped>>
  /\ UNCHANGED <<phase, taken, lookup, stores, answer>>

Ask ==
  /\ waiting > 0 /\ lookup.chained = NoLookup
  /\ waiting' = waiting - 1 /\ lookup' = [lookup EXCEPT !.chained = [at |-> "asked", list |-> {}]]
  /\ UNCHANGED <<phase, native, mirror, taken, failed, overlapped, stores, answer, changes>>
Listed(w) ==
  /\ lookup[w].at = "asked"
  /\ lookup' = [lookup EXCEPT ![w] = [at |-> "listed", list |-> native.skills]]
  /\ UNCHANGED <<phase, native, mirror, taken, waiting, failed, overlapped, stores, answer, changes>>
(* A failure of the first question rejects the plugin, another is logged.    *)
Rejected(w) == IF w = "first" /\ phase = "running" THEN "closing" ELSE phase
ListFails(w) ==
  /\ lookup[w].at = "asked"
  /\ lookup' = [lookup EXCEPT ![w] = NoLookup] /\ phase' = Rejected(w)
  /\ failed' = failed \cup {"skills"}
  /\ UNCHANGED <<native, mirror, taken, waiting, overlapped, stores, answer, changes>>
SyncSkills(w) ==
  LET names == Invocable(lookup[w].list)
  IN /\ lookup[w].at = "listed"
     /\ lookup' = [lookup EXCEPT ![w] = NoLookup]
     /\ Sync("skills", names)
     /\ phase' = IF Conflict("skills", names) THEN Rejected(w) ELSE phase
     /\ UNCHANGED <<native, taken, waiting, overlapped, stores, answer, changes>>

(* The disposer waits for the chain, not for the first question.             *)
Dispose ==
  /\ phase = "running" /\ phase' = "closing"
  /\ UNCHANGED <<native, mirror, taken, waiting, lookup, failed, overlapped, stores, answer, changes>>
Release ==
  /\ phase = "closing" /\ waiting = 0 /\ lookup.chained = NoLookup
  /\ phase' = "gone" /\ mirror' = [g \in Groups |-> {}]
  /\ UNCHANGED <<native, taken, waiting, lookup, failed, overlapped, stores, answer, changes>>

(* Another plugin of the same catalog, and of the memory.                    *)
OtherRegisters(id) ==
  /\ id \notin taken /\ id[2] \notin mirror[id[1]] /\ changes < MaxChanges
  /\ taken' = taken \cup {id} /\ changes' = changes + 1
  /\ UNCHANGED <<phase, native, mirror, waiting, lookup, failed, overlapped, stores, answer>>
OtherWithdraws(id) ==
  /\ id \in taken /\ taken' = taken \ {id}
  /\ UNCHANGED <<phase, native, mirror, waiting, lookup, failed, overlapped, stores, answer, changes>>
StoreRegisters ==
  /\ ~stores /\ stores' = TRUE
  /\ UNCHANGED <<phase, native, mirror, taken, waiting, lookup, failed, overlapped, answer, changes>>

-----------------------------------------------------------------------------
(* Calls.  An input is a function from its keys to the types of their       *)
(* values ("text", "number", "list", "other"; an enumerated value is named), *)
(* or Scalar when it is no object.                                           *)
Scalar == [scalar |-> "scalar"]
Domain(needs, permissions, effect) == [needs |-> needs, permissions |-> permissions, effect |-> effect]
Read == Domain(<<>>, {}, "reads")
DomainCapabilities == [
  charactercontext |-> Read, personacontext |-> Read, promptcompose |-> Read, branchesinspect |-> Read,
  sceneinspect |-> Read, relationshipinspect |-> Read, registryinspect |-> Read, outboxinspect |-> Read,
  rulesevaluate |-> Read,
  stateread |-> Domain([owner |-> {"text"}], {}, "reads"),
  memorysearch |-> Domain([text |-> {"text"}], {}, "reads"),
  lorematch |-> Domain([text |-> {"text"}], {}, "reads"),
  memoryappend |-> Domain([id |-> {"text"}, owner |-> {"text"}, content |-> {"text"},
                           salience |-> {"number"}, createdAt |-> {"number"}], {"memory.write"}, "memory"),
  mediagenerate |-> Domain([kind |-> {"image", "audio", "video", "document"}, prompt |-> {"text"}],
                           {"media.generate"}, "media"),
  workflowroute |-> Domain([kind |-> {"turn", "workflow", "sidecar"}], {}, "workflow")]
(* What may be left out, but not be of another type.                         *)
Options == [charactercontext |-> [maxEntries |-> "number", maxCharacters |-> "number"],
            personacontext |-> [maxEntries |-> "number", maxCharacters |-> "number"],
            memoryappend |-> [tags |-> "list"]]
InputFits(id, input) ==
  /\ input # Scalar
  /\ \A k \in DOMAIN DomainCapabilities[id].needs :
       k \in DOMAIN input /\ input[k] \in DomainCapabilities[id].needs[k]
  /\ id \in DOMAIN Options => \A k \in DOMAIN Options[id] \cap DOMAIN input : input[k] = Options[id][k]
  /\ id = "memoryappend" => stores

(* A plausible slip: every backend but a declarative one is native.          *)
SlipWorkflowPermissions(trust) == IF trust = 0 THEN {} ELSE {"workflow.native"}
WorkflowPermissions(trust) ==
  CASE trust = 0 -> {} [] trust = 1 -> {"script.execute"} [] OTHER -> {"workflow.native"}

(* What the catalog knows of an id: <<"domain", d>> or <<group, name>>.       *)
InCatalog(id) == id[1] = "domain" \/ (id[1] # "domain" /\ id[2] \in mirror[id[1]])
Descriptor(id) ==
  CASE id[1] = "domain" -> [trust |-> 0, permissions |-> DomainCapabilities[id[2]].permissions, invoke |-> TRUE]
    [] id[1] = "pipelines" -> [trust |-> Trust[id[2]], permissions |-> Demands[id[2]], invoke |-> TRUE]
    [] id[1] = "backends" ->
         [trust |-> Trust[id[2]], permissions |-> WorkflowPermissions(Trust[id[2]]), invoke |-> TRUE]
    [] id[1] = "subagents" -> [trust |-> 2, permissions |-> {"agent:spawn"}, invoke |-> FALSE]
    [] OTHER -> [trust |-> 2, permissions |-> {}, invoke |-> id[1] = "skills"]

(* The backends that the router may take: with the trust of the effective    *)
(* authority, which is the one of the descriptor.                            *)
Routed(kind, wanted, trust) ==
  {b \in native.backends : kind \in Kinds[b] /\ Trust[b] <= trust /\ wanted \in {"any", b}}
Ended(call, code, effect, backend) ==
  [call |-> call, code |-> code, effect |-> effect, backend |-> backend,
   trust |-> Descriptor(call.id).trust, permissions |-> Descriptor(call.id).permissions]
Served(call) ==
  LET group == call.id[1]
      name == call.id[2]
      input == call.input
      wanted == IF input # Scalar /\ "backend" \in DOMAIN input THEN input.backend ELSE "any"
      Through(backends) == {Ended(call, "completed", "workflow", {b}) : b \in backends}
      refused == Ended(call, "FAILED", "none", {})
  IN CASE group = "skills" ->
            {IF name \in native.skills THEN Ended(call, "completed", "reads", {}) ELSE refused}
       [] group = "pipelines" -> {IF name \in native.pipelines THEN Ended(call, "completed", "pipeline", {}) ELSE refused}
       [] group = "backends" ->
            IF input = Scalar \/ "kind" \notin DOMAIN input THEN {refused}
            ELSE IF input.kind \notin Kinds[name] THEN {refused}
            ELSE {refused} \cup Through(Routed(input.kind, name, Trust[name]))
       [] OTHER ->
            IF ~InputFits(name, input) THEN {refused}
            ELSE IF name # "workflowroute" THEN {Ended(call, "completed", DomainCapabilities[name].effect, {})}
            ELSE {refused} \cup Through(Routed(input.kind, wanted, 0))

Invoke(call) ==
  /\ InCatalog(call.id)
  /\ answer' \in IF ~(Descriptor(call.id).permissions \subseteq call.permissions)
                   THEN {Ended(call, "PERMISSION", "none", {})}
                 ELSE IF Descriptor(call.id).trust > call.trust THEN {Ended(call, "TRUST", "none", {})}
                 ELSE IF ~Descriptor(call.id).invoke THEN {Ended(call, "NOT_EXECUTABLE", "none", {})}
                 ELSE Served(call)
  /\ UNCHANGED <<phase, native, mirror, taken, waiting, lookup, failed, overlapped, stores, changes>>

Next ==
  \/ Apply \/ Dispose \/ Release \/ Ask \/ StoreRegisters
  \/ \E group \in Groups : \E names \in SUBSET Names[group] : RegistryChanges(group, names)
  \/ \E w \in {"first", "chained"} : Listed(w) \/ ListFails(w) \/ SyncSkills(w)
  \/ \E id \in Contested : OtherRegisters(id) \/ OtherWithdraws(id)
  \/ \E call \in Calls : Invoke(call)
Spec == Init /\ [][Next]_hbVars

-----------------------------------------------------------------------------
(* The catalog shows exactly what the registries hold, unless the last      *)
(* synchronisation of a group threw; the Skills as soon as every question   *)
(* is answered, unless they changed under the first one, whose answer may   *)
(* come after a newer one; never what belongs to another plugin or what a   *)
(* model may not invoke; and nothing after the bridge is gone.              *)
Quiet == waiting = 0 /\ \A w \in DOMAIN lookup : lookup[w] = NoLookup
MirrorIsTrue ==
  /\ phase = "running" =>
       /\ \A g \in Groups \ {"skills"} : mirror[g] = IF g \in failed THEN {} ELSE native[g]
       /\ (Quiet /\ "skills" \notin failed /\ ~overlapped) => mirror.skills = Invocable(native.skills)
  /\ \A g \in Groups : \A n \in mirror[g] : <<g, n>> \notin taken
  /\ phase = "gone" => \A g \in Groups : mirror[g] = {}
  /\ mirror.skills \cap Hidden = {}

(* Discovery is no other way to a permission: a backend or a side effect is *)
(* reached only by a caller that was granted what it demands, also through  *)
(* rp.workflow.route, which needs no permission at all.                     *)
GrantedFor(backend) ==
  CASE Trust[backend] = 0 -> TRUE
    [] Trust[backend] = 1 -> answer.call.trust >= 1 /\ "script.execute" \in answer.permissions
    [] OTHER -> answer.call.trust = 2 /\ "workflow.native" \in answer.permissions
NoOtherWay ==
  answer.code = "completed" =>
    /\ answer.permissions \subseteq answer.call.permissions
    /\ \A b \in answer.backend : GrantedFor(b)
    /\ answer.effect = "memory" => "memory.write" \in answer.call.permissions
    /\ answer.effect = "media" => "media.generate" \in answer.call.permissions

BridgeIsSound == MirrorIsTrue /\ NoOtherWay
=============================================================================
