---------------------------- MODULE ExecutionMC ----------------------------
(***************************************************************************)
(* What runs in the Host, for TLC: turns of serialized and of interleaved  *)
(* callers, plans of Pipelines, the bundle of Experiences, the authority   *)
(* of capability calls, delegated agents, sidecar jobs, workflows and the  *)
(* bridge to the harness.  A behaviour is one of one of them, its focus.   *)
(***************************************************************************)
EXTENDS ExecutionProofs, TLC

CONSTANTS Foci, t1, t2, t3, s1, s2, pipeline, document, fact, ahead, middle, behind, keeper

VARIABLES
  focus,
  states, plans, drafts, activations, log, faults,
  mounted, others, selection, ran,
  backends, handles, workflows, changesOfBackends

turnVars == <<states, plans, drafts, activations, log, faults>>
planVars == <<definitions, captured, answer>>
bundleVars == <<mounted, others, selection, ran>>
agentVars ==
  <<roles, providers, roleCatalog, roleHandles, providerHandles, delegations, session, open, roleChanges, failures>>
jobVars == <<pipelines, published, sidecarCalls, jobs, active, journals, lifecycle, drain, requested, edits>>
workflowVars == <<backends, handles, workflows, changesOfBackends>>
bridgeVars == <<phase, native, mirror, taken, waiting, lookup, failed, overlapped, stores, said, bridgeChanges>>

-----------------------------------------------------------------------------
(* Turns: a document that is initialized, replaced and patched, and two      *)
(* contents for one memory.                                                  *)
NoEffects ==
  [state |-> None, patch |-> None, memories |-> <<>>, relationships |-> <<>>, scene |-> None, branch |-> None]
State(revision) == [NoEffects EXCEPT !.state = [owner |-> document, revision |-> revision]]
Patch(base) == [State(base + 1) EXCEPT !.patch = [owner |-> document, baseRevision |-> base]]
Memory(content) == [NoEffects EXCEPT !.memories = <<[id |-> fact, content |-> content]>>]
StateAndMemory == {State(0), State(1), Patch(0), Memory("x"), Memory("y")}
StateAndPatch == {State(0), Patch(0), State(2)}

(* run() of one caller after another, in two scopes.                         *)
Serial ==
  INSTANCE TurnRun WITH
    Turns <- {t1, t2, t3}, Scopes <- {s1, s2}, Calls <- {1, 2, 3}, EffectChoices <- StateAndMemory,
    Pipeline <- pipeline, MaxFaults <- 0, MaxActive <- 1, calls <- activations
(* prepare(), execute(), commit() and abort() by whoever and in any order.   *)
Api ==
  INSTANCE TurnRuntime WITH
    Turns <- {t1, t2}, Scopes <- {s1}, Calls <- {1, 2}, EffectChoices <- StateAndPatch,
    Pipeline <- pipeline, MaxFaults <- 1, calls <- activations

(* A turn of serialized callers sees the commits before it and loses none,   *)
(* and every scope can be projected; of interleaved callers, a commit comes  *)
(* after its Pipeline was started and completed, and fits the snapshot that  *)
(* its turn was prepared against.  (turn-runtime, projection)                *)
TurnsAreSound ==
  /\ focus = "serial" => Serial!NoLostUpdate /\ Serial!SnapshotIsCurrent /\ Serial!ScopeProjectable
  /\ focus = "api" => Api!CommitFollowsPipeline /\ Api!CommitFitsSnapshot

-----------------------------------------------------------------------------
(* Plans: the ways that three Pipelines may invoke each other.               *)
Invocations == {i \in [{1, 2} -> {ahead, middle, behind} \cup {None}] : i[1] = None \/ i[2] = behind}
PipelineCalls ==
  {[stages |-> {1, 2}, after |-> [s \in {1, 2} |-> IF s = 2 THEN {1} ELSE {}],
    before |-> [s \in {1, 2} |-> {}], invokes |-> i] : i \in Invocations}

-----------------------------------------------------------------------------
(* The bundle: every Experience that it names, and selections by hints.      *)
Selection(requestedId, agentChoice, hints, participants, allowed) ==
  [requested |-> requestedId, agentChoice |-> agentChoice, hints |-> hints,
   participants |-> participants, allowed |-> allowed]
Bundle ==
  INSTANCE FirstParty WITH
    Selections <-
      {Selection(e, None, {}, 1, None) :
         e \in {"rp-adaptive", "rp-fast", "rp-directed", "rp-multi-character", "rp-world-sim", "rp-trpg",
                "rp-companion", "rp-creator", "rp-premium", "rp-extra"}}
      \cup {Selection(None, None, {"rules"}, 3, {"rp-fast"}), Selection(None, None, {}, 3, None),
            Selection(None, "rp-fast", {"creator"}, 1, None)}
      \cup {Selection(None, None, {h, "director"}, 2, None) :
              h \in {"creator", "rules", "worldSimulation", "maximum", "fast"}},
    Inputs <- {[rules |-> r, actor |-> a, said |-> s] : r, a, s \in BOOLEAN},
    Contested <- {<<"experience", "rp-extra">>, <<"component", "lore">>}, MaxContests <- 1,
    taken <- others

(* Whatever Experience is selected is complete: its components compose, the  *)
(* stages of its Pipelines find what they read and share no key, the roles   *)
(* that they ask exist, and a turn ends with effects that can be committed.  *)
(* (first-party, experience-registry, component-runtime)                     *)
ExperiencesAreClosed == focus = "bundle" => Bundle!ExperiencesAreClosed

-----------------------------------------------------------------------------
(* Authority: two ceilings, three capabilities, and four authorizers, one of *)
(* which is the policy's and one throws.                                     *)
BudgetOf(value) == [k \in BudgetKeys |-> value]
Layer(name, permissions, trust, budget, reach) ==
  [name |-> name, permissions |-> permissions, trust |-> trust, budget |-> BudgetOf(budget), reach |-> reach]
ProductLayer == Layer("product", {"read"}, 1, None, {"net"})
CallLayer == Layer("call", None, None, 1, {})
SomeLayers == {ProductLayer, CallLayer}
Capability(id, permissions, trust, budget, executable) ==
  [id |-> id, scopes |-> {"agent"}, permissions |-> permissions, trust |-> trust,
   budget |-> BudgetOf(budget), executable |-> executable]
SomeCapabilities ==
  {Capability("c", {"read"}, 1, 2, TRUE), Capability("c", {"write"}, 2, None, TRUE), Capability("d", {}, 0, None, FALSE)}
RequestFor(capability, permissions, trust, budget, reach, layers) ==
  [capability |-> capability, scope |-> "agent", permissions |-> permissions, trust |-> trust,
   budget |-> BudgetOf(budget), reach |-> reach, layers |-> layers]
SomeRequests ==
  {RequestFor("c", {"read", "write"}, 2, 2, {"net", "disk"}, {CallLayer}),
   RequestFor("c", {"read"}, 1, None, {"net"}, {}), RequestFor("d", {}, 2, None, {}, {})}
Authorizer(id, rank, policy, narrows, ceiling, widens) ==
  [id |-> id, rank |-> rank, policy |-> policy, narrows |-> narrows, ceiling |-> ceiling, widens |-> widens]
SomeAuthorizers ==
  {Authorizer("rp-policy-layers", 2, TRUE, {}, 2, FALSE), Authorizer("x", 3, FALSE, {"write"}, 1, FALSE),
   Authorizer("y", 1, FALSE, {}, 2, TRUE), Authorizer("z", 4, FALSE, None, 2, FALSE)}

-----------------------------------------------------------------------------
(* Agents: two roles of one capability and one that is taken; two providers  *)
(* and two transports.                                                       *)
Role(id, capability, provider, instructs) ==
  [id |-> id, capability |-> capability, provider |-> provider, instructs |-> instructs, whole |-> TRUE]
Provider(id, rank, serves) == [id |-> id, rank |-> rank, priority |-> rank, serves |-> serves, whole |-> TRUE]
SomeRoles ==
  {Role("writer", "agent.writer", None, TRUE), Role("critic", "agent.writer", "remote", FALSE),
   Role("judge", "taken", None, FALSE)}
SomeProviders == {Provider("harness", 1, {"writer"}), Provider("remote", 2, {"critic"})}
ForkFirst == <<"fork", "spawn">>
TransportsOf == [fork |-> [depth |-> TRUE, persona |-> FALSE], spawn |-> [depth |-> TRUE, persona |-> TRUE]]
SomeInputs ==
  {[turn |-> t1, media |-> TRUE], [turn |-> None, media |-> FALSE], [turn |-> None, media |-> TRUE]}

-----------------------------------------------------------------------------
(* Sidecar jobs: one id with three definitions, one of them no Sidecar.      *)
StageOf(kind, permissions, trust, invoked) ==
  [kind |-> kind, permissions |-> permissions, trust |-> trust, pipeline |-> invoked]
PipelineOf(kind, version, stages) ==
  [id |-> "recap", kind |-> kind, version |-> version, permissions |-> {"mem"}, trust |-> 1, stages |-> stages]
SidecarPipelines ==
  {PipelineOf("sidecar", 1, <<StageOf("invoke-pipeline", None, None, "sum")>>), PipelineOf("pre-turn", 2, <<>>),
   PipelineOf("sidecar", 3, <<StageOf("invoke-capability", {"mem", "net"}, 2, None)>>)}
Granted == {[permissions |-> {"mem", "rp.sidecar.start"}, trust |-> 1]}
LongResult == {<<3, 3, 3, 3>>}
Deploys == INSTANCE SidecarJobs WITH calls <- sidecarCalls, phase <- lifecycle, MaxJobs <- 1, MaxEdits <- 3

-----------------------------------------------------------------------------
(* Workflows: a backend of each kind, expressions at the limits of the       *)
(* evaluator, WASM modules with bounds written in one byte or in two, and    *)
(* native functions that return, throw or never answer.                      *)
Backend(id, rank, kind, trust, priority) ==
  [id |-> id, rank |-> rank, kind |-> kind, trust |-> trust, priority |-> priority, kinds |-> {"turn", "workflow"}]
AtomOf(v) == [t |-> "atom", v |-> v]
Given == [op |-> "input"]
Field(key) == [op |-> "get", from |-> Given, key |-> key]
ArrayOf(item) == [op |-> "array", items |-> <<item>>]
Choice ==
  [op |-> "if", condition |-> Field("b"), then |-> ArrayOf(Given),
   else |-> [op |-> "object", keys |-> <<"p", "q">>, items |-> <<Field("a"), Field("c")>>]]
Script(whole, expression) ==
  [form |-> "quickjs", whole |-> whole, expression |-> expression,
   input |-> [t |-> "object", m |-> [a |-> AtomOf("1"), b |-> AtomOf("false")]]]
Binary(sections) ==
  [form |-> "wasm", whole |-> TRUE, sections |-> sections, pad |-> 0, expression |-> Given, input |-> AtomOf("1")]
Section(id, rows) == [id |-> id, rows |-> rows]
Bound(flags, low, high) == [flags |-> flags, low |-> low, high |-> high]
Scripts == [trust |-> 1, permissions |-> {"script.execute"}, timeout |-> None]
Unpermitted == [trust |-> 1, permissions |-> {}, timeout |-> 5]
Deployment == [trust |-> 2, permissions |-> {"native.execute"}, timeout |-> None]
Workflow(kind, backend, requires, trust, authority, timeout, payload) ==
  [kind |-> kind, backend |-> backend, requires |-> requires, trust |-> trust,
   authority |-> authority, timeout |-> timeout, payload |-> payload]
Invoked(kind, backend, numbers, payload) ==
  [kind |-> kind, backend |-> backend, authority |-> Scripts, timeout |-> None, numbers |-> numbers, payload |-> payload]
WorkflowBackends ==
  {Backend("deterministic", 1, "deterministic", 0, -100), Backend("worker", 4, "worker-thread", 0, 20),
   Backend("quickjs", 2, "quickjs", 1, -210), Backend("wasm", 5, "wasm", 1, -200), Backend("remote", 3, "remote", 1, 5)}
WorkflowRequests ==
  {Workflow("turn", None, None, None, None, 3, Script(TRUE, Choice)),
   Workflow("turn", "quickjs", None, None, Scripts, 20, Script(TRUE, Given)),
   Workflow("turn", "quickjs", None, None, Unpermitted, None, Script(TRUE, Given)),
   Workflow("turn", "remote", None, None, None, None, Script(TRUE, ArrayOf(ArrayOf(ArrayOf(ArrayOf(Given)))))),
   Workflow("turn", None, "deterministic", None, None, None, Script(TRUE, ArrayOf(ArrayOf(ArrayOf(ArrayOf(Given)))))),
   Workflow("turn", None, None, 1, Scripts, 2, Script(FALSE, Given)),
   Workflow("turn", "wasm", None, None, Scripts, None, Binary(<<Section(5, <<Bound(1, 0, 256)>>)>>)),
   Workflow("turn", "wasm", None, None, Scripts, None, Binary(<<Section(8, <<>>)>>))}
ScriptInvocations ==
  {Invoked("quickjs", None, FALSE, Script(TRUE, Given)), Invoked("wasm", "quickjs", TRUE, Script(TRUE, Given)),
   Invoked("wasm", None, TRUE, Binary(<<Section(8, <<>>)>>))}
NativeRequests ==
  {Workflow("workflow", None, None, None, Deployment, None, [function |-> f, result |-> r]) :
     f \in {TRUE}, r \in {"json", "throws", "other"}}
  \cup {Workflow("workflow", None, None, None, Deployment, None, [function |-> FALSE, result |-> "json"])}
WasmModules ==
  {<<Section(5, <<Bound(1, l, h)>>), Section(i, <<Bound(f, 2, 300)>>)>> :
     l \in {0, 200}, h \in {130, 257}, i \in {1, 4, 8}, f \in {0, 1}}
Workflows ==
  INSTANCE WorkflowRouter WITH
    BackendDefs <- WorkflowBackends,
    Requests <- WorkflowRequests,
    Invocations <- ScriptInvocations,
    Natives <- NativeRequests,
    Modules <- WasmModules,
    MaxTimeout <- 10, DefaultTimeout <- 2, MaxDepth <- 3, MaxCount <- 8, MaxWasmBytes <- 100,
    MaxMemoryPages <- 256, MaxTableElements <- 10000, MaxRuns <- 2, MaxChanges <- 2,
    runs <- workflows, changes <- changesOfBackends
Backends ==
  INSTANCE WorkflowRouter WITH
    BackendDefs <- WorkflowBackends,
    Requests <- WorkflowRequests,
    Invocations <- ScriptInvocations,
    Natives <- NativeRequests,
    Modules <- WasmModules,
    MaxTimeout <- 10, DefaultTimeout <- 2, MaxDepth <- 3, MaxCount <- 8, MaxWasmBytes <- 100,
    MaxMemoryPages <- 256, MaxTableElements <- 10000, MaxRuns <- 1, MaxChanges <- 4,
    runs <- workflows, changes <- changesOfBackends

(* A workflow runs with the trust that its request carries, an outcome says  *)
(* what happened whatever races what, and a WASM module is admitted exactly  *)
(* when each of its sections is modest.                                      *)
(* (workflow-router, workflow-backends-local and -sandbox, package-runtime)  *)
WorkflowsAreSound == focus \in {"workflows", "backends"} => Workflows!WorkflowsAreSound

-----------------------------------------------------------------------------
(* The bridge: two Skills, one of them hidden, and names that other plugins  *)
(* contest; callers with no permission, with all of them and in between.     *)
Everything == {"memory.write", "media.generate", "script.execute", "workflow.native", "q"}
Call(id, permissions, trust, input) == [id |-> id, permissions |-> permissions, trust |-> trust, input |-> input]
Domain(name) == <<"domain", name>>
MemoryFact == [id |-> "text", owner |-> "text", content |-> "text", salience |-> "number", createdAt |-> "number"]
EveryCall ==
  {Call(Domain("memoryappend"), permissions, 0, MemoryFact) : permissions \in {{}, Everything}}
  \cup {Call(Domain("mediagenerate"), Everything, 0, [kind |-> "image", prompt |-> "text"]),
        Call(Domain("charactercontext"), {}, 0, [maxEntries |-> "other"]), Call(Domain("memorysearch"), {}, 0, [scalar |-> "scalar"]),
        Call(Domain("workflowroute"), {}, 2, [kind |-> "turn"]),
        Call(Domain("workflowroute"), {}, 2, [kind |-> "workflow", backend |-> "w1"]),
        Call(<<"pipelines", "p1">>, Everything, 2, [scalar |-> "scalar"]), Call(<<"skills", "s1">>, {}, 2, [scalar |-> "scalar"]),
        Call(<<"tools", "x1">>, {}, 2, [scalar |-> "scalar"])}
  \cup {Call(<<"backends", b>>, permissions, t, [kind |-> "workflow"]) :
          b \in {"w1", "w2"}, permissions \in {{"workflow.native"}, {"script.execute"}}, t \in {1, 2}}
FewCalls == {call \in EveryCall : call.id \in {<<"skills", "s1">>, <<"tools", "x1">>, Domain("memoryappend")}}
NativeNames ==
  [tools |-> {"x1"}, skills |-> {"s1", "s2"}, subagents |-> {"a1"}, pipelines |-> {"p1"},
   backends |-> {"w0", "w1", "w2"}]
TrustOf == [p1 |-> 1, w0 |-> 0, w1 |-> 1, w2 |-> 2]
KindsOf == [w0 |-> {"turn"}, w1 |-> {"turn", "workflow"}, w2 |-> {"workflow"}]
DemandsOf == [p1 |-> {"q"}]
ContestedNames == {<<"tools", "x1">>, <<"skills", "s1">>}
Doors ==
  INSTANCE HarnessBridge WITH
    Calls <- EveryCall, MaxChanges <- 1, changes <- bridgeChanges, answer <- said

-----------------------------------------------------------------------------
(* These constants are such as the theorems of ExecutionProofs are about.    *)
ASSUME ExecutionAssumption ==
  /\ BridgeAssumption /\ SidecarAssumption /\ OutputAssumption /\ NestsAssumption
  /\ AgentAssumption /\ IsFiniteSet(PlannedPipelines)

FocusInit ==
  /\ focus \in Foci
  /\ Init /\ Serial!Init /\ Plans!Init /\ Bundle!Init /\ Agents!Init /\ Sidecars!Init /\ Workflows!Init /\ Bridge!Init
FocusNext ==
  /\ UNCHANGED focus
  /\ \/ /\ focus = "serial" /\ Serial!RunNext
        /\ UNCHANGED <<planVars, bundleVars, auVars, agentVars, jobVars, workflowVars, bridgeVars>>
     \/ /\ focus = "api" /\ Api!Next
        /\ UNCHANGED <<planVars, bundleVars, auVars, agentVars, jobVars, workflowVars, bridgeVars>>
     \/ /\ focus = "plans" /\ Plans!Next
        /\ UNCHANGED <<turnVars, bundleVars, auVars, agentVars, jobVars, workflowVars, bridgeVars>>
     \/ /\ focus = "bundle" /\ Bundle!Next
        /\ UNCHANGED <<turnVars, planVars, auVars, agentVars, jobVars, workflowVars, bridgeVars>>
     \/ /\ focus = "authority" /\ Next
        /\ UNCHANGED <<turnVars, planVars, bundleVars, agentVars, jobVars, workflowVars, bridgeVars>>
     \/ /\ focus = "agents" /\ Agents!Next
        /\ UNCHANGED <<turnVars, planVars, bundleVars, auVars, jobVars, workflowVars, bridgeVars>>
     \/ /\ focus = "sidecars" /\ Sidecars!Next
        /\ UNCHANGED <<turnVars, planVars, bundleVars, auVars, agentVars, workflowVars, bridgeVars>>
     \/ /\ focus = "deploys" /\ Deploys!Next
        /\ UNCHANGED <<turnVars, planVars, bundleVars, auVars, agentVars, workflowVars, bridgeVars>>
     \/ /\ focus = "workflows" /\ Workflows!Next
        /\ UNCHANGED <<turnVars, planVars, bundleVars, auVars, agentVars, jobVars, bridgeVars>>
     \/ /\ focus = "backends" /\ Backends!Next
        /\ UNCHANGED <<turnVars, planVars, bundleVars, auVars, agentVars, jobVars, bridgeVars>>
     \/ /\ focus = "bridge" /\ Bridge!Next
        /\ UNCHANGED <<turnVars, planVars, bundleVars, auVars, agentVars, jobVars, workflowVars>>
     \/ /\ focus = "doors" /\ Doors!Next
        /\ UNCHANGED <<turnVars, planVars, bundleVars, auVars, agentVars, jobVars, workflowVars>>
FocusSpec == FocusInit /\ [][FocusNext]_<<focus, turnVars, planVars, bundleVars, auVars, agentVars, jobVars, workflowVars, bridgeVars>>
=============================================================================
