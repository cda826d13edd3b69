--------------------------- MODULE PipelineRunMC ---------------------------
(* Instances of PipelineRun for TLC.                                       *)
EXTENDS PipelineRun

CONSTANTS root, inner, ghost

Leaf(S) ==
  [stages |-> S, after |-> [s \in S |-> {}], before |-> [s \in S |-> {}],
   invokes |-> [s \in S |-> None], retries |-> [s \in S |-> 0],
   failure |-> [s \in S |-> "abort"], timed |-> [s \in S |-> FALSE],
   writes |-> [s \in S |-> {s}]]

Alone(graph) == [p \in {root} |-> graph]
With(graph, nested) == [p \in {root, inner} |-> IF p = inner THEN nested ELSE graph]

(* Three stages, the first two side by side; the second may be retried and *)
(* may continue, and writes the key of the third.                          *)
Fork ==
  [Leaf({1, 2, 3}) EXCEPT !.after[3] = {1}, !.before[2] = {3},
     !.retries[2] = 1, !.failure[2] = "continue", !.timed[2] = TRUE,
     !.writes[2] = {2, 3}]

(* A chain of stages, the second of which invokes another chain once.      *)
Chain ==
  [Leaf({1, 2, 3}) EXCEPT !.after[2] = {1}, !.after[3] = {2},
     !.invokes[2] = inner, !.retries[3] = 1]
InnerChain == [Leaf({1, 2}) EXCEPT !.after[2] = {1}, !.failure[2] = "continue"]

(* A nested Pipeline beside another stage, with timeouts and retries.      *)
Retried ==
  [Leaf({1, 2}) EXCEPT !.invokes[1] = inner, !.retries[1] = 1,
     !.timed = [s \in {1, 2} |-> TRUE], !.failure[2] = "continue"]

(* Two stages side by side, neither of which may fail.                     *)
Pair == Leaf({1, 2})

(* Every graph of three stages: any "after" relation without self-loops,   *)
(* and one "before" entry, which may name the stage itself or no stage.    *)
Stages == 1..3
Small ==
  {[Leaf(Stages) EXCEPT !.after = a, !.before[1] = b] :
     a \in {x \in [Stages -> SUBSET Stages] : \A s \in Stages : s \notin x[s]},
     b \in {{}, {1}, {2}, {2, 3}, {ghost}}}

Catalogue ==
  {Alone(Fork), With(Chain, InnerChain), With(Retried, Leaf({1}))}
    \cup {Alone(g) : g \in Small}
JustPair == {Alone(Pair)}
=============================================================================
