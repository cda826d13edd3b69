-------------------------- MODULE PipelineRegistry --------------------------
(***************************************************************************)
(* RpPipelineRuntime as a registry: register(), the disposer it returns,   *)
(* and capture(), whose plan must stay executable when the registrations   *)
(* that it was captured from are disposed of or replaced.                  *)
(***************************************************************************)
EXTENDS PipelineGraph

CONSTANTS
  Pipelines,    \* Pipeline ids
  Definitions   \* the definitions that callers try to register

VARIABLES
  definitions,  \* RpPipelineRuntime.definitions, None for an id not registered
  plan,         \* the plan captured last: [id, graph], or None
  answer        \* what the last call returned or threw

vars == <<definitions, plan, answer>>

Init ==
  /\ definitions = [p \in Pipelines |-> None]
  /\ plan = None
  /\ answer = "none"

Register(p, d) ==
  LET result == IF definitions[p] # None THEN "DUPLICATE" ELSE CompileResult(d)
  IN  /\ answer' = result
      /\ definitions' = IF result = "ok" THEN [definitions EXCEPT ![p] = d] ELSE definitions
      /\ UNCHANGED plan

(* The disposer removes only the registration that returned it; a second   *)
(* call of it changes nothing, which is a stuttering step here.            *)
Dispose(p) ==
  /\ definitions[p] # None
  /\ definitions' = [definitions EXCEPT ![p] = None]
  /\ answer' = "ok"
  /\ UNCHANGED plan

Capture(p) ==
  /\ IF Captures(definitions, p)
     THEN /\ answer' = "ok"
          /\ plan' = [id |-> p, graph |-> [q \in Closure(definitions, p) |-> definitions[q]]]
     ELSE answer' = "refused" /\ UNCHANGED plan
  /\ UNCHANGED definitions

Next ==
  \E p \in Pipelines :
    \/ \E d \in Definitions : Register(p, d)
    \/ Dispose(p)
    \/ Capture(p)

Spec == Init /\ [][Next]_vars

-----------------------------------------------------------------------------
(* A captured plan holds every Pipeline that it may invoke and no way back *)
(* to an ancestor, whatever has been disposed of or registered since.      *)
PlanIsClosed ==
  plan # None =>
    /\ plan.id \in DOMAIN plan.graph
    /\ \A p \in DOMAIN plan.graph :
         /\ Compiles(plan.graph[p])
         /\ Invoked(plan.graph[p]) \subseteq DOMAIN plan.graph

(* Running a captured plan cannot invoke Pipelines for ever: they can be   *)
(* numbered so that each invokes only Pipelines below it.                  *)
PlanTerminates ==
  plan # None =>
    \E depth \in [DOMAIN plan.graph -> 0..Cardinality(Pipelines)] :
      \A p \in DOMAIN plan.graph : \A q \in Invoked(plan.graph[p]) : depth[q] < depth[p]

(* A captured plan can be run to its end, whatever has become of the       *)
(* registrations that it was captured from.                                *)
PlansAreSound == PlanIsClosed /\ PlanTerminates
=============================================================================
