--------------------------- MODULE PipelineGraph ---------------------------
(***************************************************************************)
(* compile() of packages/rp/pipeline-runtime: the concurrent levels of one *)
(* Pipeline definition, and the reasons to reject it.  A definition is a   *)
(* record [stages, after, before, invokes]: after and before map a stage   *)
(* to the stage names it lists, invokes maps it to the Pipeline it calls   *)
(* (or None).                                                              *)
(***************************************************************************)
EXTENDS Naturals, FiniteSets

CONSTANT None

(* The stages that s waits for: those it lists in "after", and those that  *)
(* list s in "before".                                                     *)
Dependencies(d, s) == d.after[s] \cup {x \in d.stages : s \in d.before[x]}

NamesMissing(d) == \E s \in d.stages : ~((d.after[s] \cup d.before[s]) \subseteq d.stages)

(* A slip: "before" is forgotten.                                          *)
SlipReadyAfterOnly(d, remaining) == {s \in remaining : d.after[s] \cap remaining = {}}

Ready(d, remaining) == {s \in remaining : Dependencies(d, s) \cap remaining = {}}

(* What remains after n levels have been taken off.                        *)
Remaining(d, n) ==
  LET left[i \in 0..n] ==
        IF i = 0 THEN d.stages
        ELSE LET before == left[i - 1] IN before \ Ready(d, before)
  IN  left[n]

Level(d, n) == Ready(d, Remaining(d, n - 1))

(* Every round of the loop removes a stage or throws CYCLE, so the number  *)
(* of stages bounds the number of levels.                                  *)
IsCyclic(d) == Remaining(d, Cardinality(d.stages)) # {}
Compiles(d) == ~NamesMissing(d) /\ ~IsCyclic(d)
CompileResult(d) ==
  IF NamesMissing(d) THEN "MISSING" ELSE IF IsCyclic(d) THEN "CYCLE" ELSE "ok"

LevelCount(d) ==
  CHOOSE n \in 0..Cardinality(d.stages) :
    /\ Remaining(d, n) = {}
    /\ n = 0 \/ Remaining(d, n - 1) # {}

Invoked(d) == {d.invokes[s] : s \in d.stages} \ {None}

(* captureNested(): does capturing id succeed, from the given registry and *)
(* below the given ancestors?  It fails on a Pipeline that is its own      *)
(* ancestor and on one that is not registered.                             *)
Captures(registry, id) ==
  LET ids == DOMAIN registry
      ok[x \in ids \X SUBSET ids] ==
        /\ x[1] \notin x[2]
        /\ registry[x[1]] # None
        /\ \A q \in Invoked(registry[x[1]]) : q \in ids /\ ok[<<q, x[2] \cup {x[1]}>>]
  IN  ok[<<id, {}>>]

(* A slip: so are only they kept in the plan.                              *)
SlipClosureDirect(registry, id) == {id} \cup Invoked(registry[id])

(* The Pipelines that a captured plan holds: id and all it may invoke.     *)
Closure(registry, id) ==
  LET ids == DOMAIN registry
      reach[n \in 0..Cardinality(ids)] ==
        IF n = 0 THEN {id}
        ELSE reach[n - 1] \cup UNION {Invoked(registry[p]) : p \in reach[n - 1]}
  IN  reach[Cardinality(ids)]
=============================================================================
