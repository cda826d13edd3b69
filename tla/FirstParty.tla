----------------------------- MODULE FirstParty -----------------------------
(***************************************************************************)
(* packages/rp/first-party and experience-registry: the components, agent  *)
(* roles, Pipelines and Experiences that the bundle registers, how an      *)
(* Experience is selected for a request, and what becomes of one run of    *)
(* its Pipelines.  A stage is the record of what it waits for, the agent   *)
(* role that it asks (or None), the frame keys that it cannot do without   *)
(* and those that it writes.                                               *)
(***************************************************************************)
EXTENDS Naturals, FiniteSets, SequencesExt, TLC

CONSTANTS
  None,
  Selections,   \* requests for an Experience
  Inputs,       \* what a Pipeline is run with: [rules, actor, said]
  Contested,    \* registrations that other plugins make too: <<kind, id>>
  MaxContests   \* how many of them at a time

C == INSTANCE ComponentRegistry
G == INSTANCE PipelineGraph

-----------------------------------------------------------------------------
(* What is registered.                                                      *)
ComponentNeeds == [
  character |-> <<>>, persona |-> <<>>, prompt |-> <<"character", "persona">>, lore |-> <<>>,
  memory |-> <<>>, state |-> <<>>, scene |-> <<"state">>, relationship |-> <<"state">>,
  branches |-> <<>>, actor |-> <<"prompt", "lore">>, director |-> <<"actor">>, critic |-> <<"actor">>,
  world |-> <<"state", "lore">>, rules |-> <<"state">>, media |-> <<>>,
  creator |-> <<"character", "lore", "prompt">>]
Component(id) ==
  [id |-> id, version |-> "1.0.0", requires |-> {},
   scopes |-> {"experience", "profile", "conversation", "scene", "turn", "agent"},
   deps |-> [i \in DOMAIN ComponentNeeds[id] |->
               [id |-> ComponentNeeds[id][i], version |-> "1.0.0", optional |-> FALSE]]]
Roles == {"actor", "director", "narrator", "character", "group-scheduler", "continuity-critic",
          "state-keeper", "memory-curator", "lore-researcher", "world-simulator", "rules", "creator",
          "reviewer", "safety-style"}

Stage(id, after, reads, writes) ==
  [id |-> id, role |-> None, after |-> after, reads |-> reads, writes |-> writes]
(* Slip: the result of an agent stage is filed under its role.               *)
SlipAgentStage(id, role, after, inputKey) ==
  [id |-> id, role |-> role, after |-> after, reads |-> inputKey, writes |-> {<<role, "result">>}]
AgentStage(id, role, after, inputKey) ==
  [id |-> id, role |-> role, after |-> after, reads |-> inputKey, writes |-> {<<id, "result">>}]
JoinStage(id, after) ==
  Stage(id, ToSet(after), {<<after[i], "result">> : i \in DOMAIN after}, {<<id, "joined">>})

Ctx(keys) == {<<"context", k>> : k \in keys}
Prompted == {<<"prompt", "text">>, <<"prompt", "sections">>}
TurnStages(adaptive) ==
  LET read(id, keys) == Stage(id, {"context"}, {}, Ctx(keys))
      domain == {"identity", "history"} \cup
                (IF adaptive THEN {"state", "branches", "lore", "memory", "scene", "relationship"} ELSE {})
      used == {"characters", "personas", "history"} \cup
              (IF adaptive THEN {"state", "branches", "activeBranchId", "lore", "memory", "scene", "relationships"} ELSE {})
  IN  {Stage("admission", {}, {}, {<<"turn", "admitted">>, <<"turn", "inputKind">>}),
       Stage("context", {"admission"}, {}, {<<"turn", "text">>} \cup Ctx({"supplied", "preset", "library"})),
       read("identity", {"characters", "personas"}), read("history", {"history"}),
       Stage("prompt", domain, Ctx(used), Prompted),
       Stage("actor-input", {IF adaptive THEN "capability-plan" ELSE "prompt"}, Prompted, {<<"agent", "request">>}),
       AgentStage("actor", "actor", {"actor-input"}, {<<"agent", "request">>}),
       Stage("output", {"actor"}, {<<"actor", "result">>}, {<<"turn", "effects">>, <<"output", "validated">>}),
       Stage("commit", {"output"}, {}, {<<"turn", "commitReady">>})}
      \cup (IF ~adaptive THEN {} ELSE
      {read("state", {"state"}), read("branches", {"branches", "activeBranchId"}), read("lore", {"lore"}),
       read("memory", {"memory"}), read("scene", {"scene"}), read("relationship", {"relationships"}),
       Stage("capability-plan", {"prompt"}, {}, {<<"agent", "availableCapabilities">>}),
       Stage("render", {"commit"}, {}, {<<"turn", "renderReady">>})})

(* The output of the rules stage depends on the input.                       *)
RulesStage(input) ==
  Stage("rules", {}, {}, {IF input.rules THEN <<"rules", "result">> ELSE <<"rules", "skipped">>})
Result(id) == {<<id, "result">>}
Pipelines(input) == [
  fast |-> TurnStages(FALSE),
  adaptive |-> TurnStages(TRUE),
  directed |-> {AgentStage("director", "director", {}, {}),
                AgentStage("actor", "actor", {"director"}, Result("director")),
                AgentStage("critic", "continuity-critic", {"actor"}, Result("actor")),
                AgentStage("repair", "actor", {"critic"}, Result("critic"))},
  multi |-> {AgentStage("scheduler", "group-scheduler", {}, {}),
             AgentStage("primary", "character", {"scheduler"}, Result("scheduler")),
             AgentStage("secondary", "character", {"scheduler"}, Result("scheduler")),
             JoinStage("join", <<"primary", "secondary">>)},
  world |-> {AgentStage("plan", "world-simulator", {}, {}),
             AgentStage("npcs", "character", {"plan"}, Result("plan")),
             AgentStage("factions", "world-simulator", {"plan"}, Result("plan")),
             AgentStage("environment", "narrator", {"plan"}, Result("plan")),
             JoinStage("join", <<"npcs", "factions", "environment">>)},
  trpg |-> {RulesStage(input),
            AgentStage("party", "character", {"rules"}, Result("rules")),
            AgentStage("world", "world-simulator", {"rules"}, Result("rules")),
            JoinStage("join", <<"party", "world">>),
            AgentStage("master", "narrator", {"join"}, {<<"join", "joined">>})},
  creator |-> {AgentStage("creator", "creator", {}, {}),
               AgentStage("reviewer", "reviewer", {"creator"}, Result("creator")),
               AgentStage("preview", "actor", {"reviewer"}, Result("reviewer"))},
  memory |-> {AgentStage("index", "memory-curator", {}, {}),
              AgentStage("relationship", "state-keeper", {}, {}),
              AgentStage("state", "world-simulator", {}, {}),
              JoinStage("checkpoint", <<"index", "relationship", "state">>)}]
PipelineIds == {"fast", "adaptive", "directed", "multi", "world", "trpg", "creator", "memory"}

Base == <<"character", "persona", "prompt", "lore", "state", "scene", "relationship", "branches", "actor">>
Make(components, agents, turn, workflow, sidecar) ==
  [components |-> components, agents |-> agents, turn |-> turn, workflow |-> workflow, sidecar |-> sidecar]
Experiences ==
  "rp-adaptive" :> Make(Append(Base, "memory"), {"actor"}, "adaptive", "directed", "memory") @@
  "rp-fast" :> Make(Base, {"actor"}, "fast", None, None) @@
  "rp-directed" :> Make(Append(Base, "director"), {"director", "actor"}, "adaptive", "directed", None) @@
  "rp-multi-character" :> Make(Base, {"group-scheduler", "character"}, "adaptive", "multi", None) @@
  "rp-world-sim" :> Make(Base \o <<"world", "memory">>, {"world-simulator", "actor"}, "adaptive", "world", "memory") @@
  "rp-trpg" :> Make(Base \o <<"world", "rules">>, {"narrator", "rules"}, "adaptive", "trpg", None) @@
  "rp-companion" :> Make(Append(Base, "memory"), {"actor"}, "adaptive", None, "memory") @@
  "rp-creator" :> Make(<<"creator", "character", "lore", "prompt", "media">>, {"creator", "reviewer"}, "fast", "creator", None) @@
  "rp-premium" :> Make(Base \o <<"director", "critic", "memory", "media">>,
                       {"director", "actor", "continuity-critic"}, "adaptive", "directed", "memory")

Registrations ==
  {<<"component", id>> : id \in DOMAIN ComponentNeeds} \cup {<<"role", r>> : r \in Roles}
  \cup {<<"pipeline", p>> : p \in PipelineIds} \cup {<<"experience", e>> : e \in DOMAIN Experiences}

-----------------------------------------------------------------------------
VARIABLES
  mounted,    \* is the bundle registered?
  taken,      \* what other plugins have registered
  selection,  \* the last selection: [request, code, experience]
  ran         \* the last composition and run

fpVars == <<mounted, taken, selection, ran>>
NoSelection == [request |-> None, code |-> "none", experience |-> None]
NoRun == [experience |-> None, code |-> "none", pipelines |-> {}, input |-> None, ends |-> {}]

Init == mounted = FALSE /\ taken = {} /\ selection = NoSelection /\ ran = NoRun

(* All registrations are one effect: when one throws, none stays.            *)
Mount ==
  /\ ~mounted
  /\ mounted' = (Registrations \cap taken = {})
  /\ UNCHANGED <<taken, selection, ran>>
Unmount ==
  /\ mounted /\ mounted' = FALSE
  /\ UNCHANGED <<taken, selection, ran>>
OtherRegisters(key) ==
  /\ key \notin taken /\ Cardinality(taken) < MaxContests
  /\ ~(mounted /\ key \in Registrations)
  /\ taken' = taken \cup {key}
  /\ UNCHANGED <<mounted, selection, ran>>
OtherDisposes(key) ==
  /\ key \in taken /\ taken' = taken \ {key}
  /\ UNCHANGED <<mounted, selection, ran>>

(* select(): explicit choices first, then the hints in this order.           *)
Choice(r) ==
  CASE r.requested # None -> r.requested
    [] r.agentChoice # None -> r.agentChoice
    [] "creator" \in r.hints -> "rp-creator"
    [] "rules" \in r.hints -> "rp-trpg"
    [] "worldSimulation" \in r.hints -> "rp-world-sim"
    [] r.participants > 2 -> "rp-multi-character"
    [] "maximum" \in r.hints -> "rp-premium"
    [] "director" \in r.hints -> "rp-directed"
    [] "fast" \in r.hints -> "rp-fast"
    [] OTHER -> "rp-adaptive"
Known(id) == (mounted /\ id \in DOMAIN Experiences) \/ <<"experience", id>> \in taken
Selected(r) ==
  LET id == Choice(r)
      code == IF r.allowed # None /\ id \notin r.allowed THEN "DENIED"
              ELSE IF ~Known(id) THEN "MISSING" ELSE "none"
  IN  [request |-> r, code |-> code, experience |-> IF code = "none" THEN id ELSE None]
Select(r) ==
  /\ selection' = Selected(r)
  /\ UNCHANGED <<mounted, taken, ran>>

-----------------------------------------------------------------------------
(* One run of a Pipeline: level by level, each stage on the frame that the   *)
(* levels before it left.                                                   *)
Definition(stages) ==
  LET ids == {s.id : s \in stages}
      at(id) == CHOOSE s \in stages : s.id = id
  IN  [stages |-> ids, after |-> [id \in ids |-> at(id).after], before |-> [id \in ids |-> {}],
       invokes |-> [id \in ids |-> None]]
StageFails(s, frame, input) ==
  \/ ~(s.reads \subseteq frame)
  \/ s.id = "actor-input" /\ input.actor
  \/ s.id = "output" /\ ~input.said
RunLevel(stages, d, input, run) ==
  LET names == G!Ready(d, run.remaining)
      level == {s \in stages : s.id \in names}
      failed == {s.id : s \in {t \in level : StageFails(t, run.frame, input)}}
  IN  IF run.failed # {} THEN run
      ELSE [remaining |-> run.remaining \ names, failed |-> failed,
            frame |-> run.frame \cup UNION {s.writes : s \in level}]
RunPipeline(id, input) ==
  LET stages == Pipelines(input)[id]
      d == Definition(stages)
      end == FoldLeft(LAMBDA run, n : RunLevel(stages, d, input, run),
                      [remaining |-> d.stages, failed |-> {}, frame |-> {}], [n \in 1..Cardinality(stages) |-> n])
  IN  [pipeline |-> id, failed |-> end.failed,
       frame |-> IF end.failed = {} THEN end.frame ELSE {},
       conflict |-> \E s, t \in stages : s # t /\ s.writes \cap t.writes # {},
       roles |-> {s.role : s \in stages} \ {None}]

(* A turn of the selected Experience: its components are composed, its turn, *)
(* workflow and sidecar Pipelines are run.                                  *)
Composition(e) ==
  C!Resolve([id \in DOMAIN ComponentNeeds |-> Component(id)],
            [components |-> Experiences[e].components, scope |-> "conversation", granted |-> {}])
Run(input) ==
  LET e == selection.experience
      ids == {Experiences[e].turn, Experiences[e].workflow, Experiences[e].sidecar} \ {None}
      composed == Composition(e)
  IN  /\ mounted /\ e \in DOMAIN Experiences
      /\ ran' = [experience |-> e, code |-> composed.code, pipelines |-> ids, input |-> input,
                 ends |-> IF composed.code = "none" THEN {RunPipeline(id, input) : id \in ids} ELSE {}]
      /\ UNCHANGED <<mounted, taken, selection>>

Next ==
  \/ Mount \/ Unmount
  \/ \E key \in Contested : OtherRegisters(key) \/ OtherDisposes(key)
  \/ \E r \in Selections : Select(r)
  \/ \E input \in Inputs : Run(input)
Spec == Init /\ [][Next]_fpVars

-----------------------------------------------------------------------------
(* Whatever Experience is selected is complete: its components compose with  *)
(* all that they need, every stage of its Pipelines finds the keys that it  *)
(* reads, no two of them write the same key, the roles that they ask are    *)
(* registered, and a turn ends with effects and commitReady, unless the     *)
(* input asks for another Actor, the Actor says nothing, or a TRPG workflow *)
(* gets no rules request.                                                   *)
Excused(end) ==
  \/ ran.input.actor \/ ~ran.input.said
  \/ end.pipeline = "trpg" /\ ~ran.input.rules
ExperiencesAreClosed ==
  ran.experience # None =>
    /\ ran.code = "none"
    /\ \A end \in ran.ends :
         /\ ~end.conflict /\ end.roles \subseteq Roles
         /\ ~Excused(end) => end.failed = {}
         /\ end.failed = {} /\ end.pipeline \in {"fast", "adaptive"}
              => {<<"turn", "effects">>, <<"turn", "commitReady">>} \subseteq end.frame

=============================================================================
