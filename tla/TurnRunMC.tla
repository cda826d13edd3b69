----------------------------- MODULE TurnRunMC -----------------------------
(* Instances of TurnRun for TLC: the effects that a Pipeline may publish.  *)
EXTENDS TurnRun

CONSTANTS owner, fact, trunk

NoEffects ==
  [state |-> None, patch |-> None, memories |-> <<>>, relationships |-> <<>>,
   scene |-> None, branch |-> None]

State(revision) == [NoEffects EXCEPT !.state = [owner |-> owner, revision |-> revision]]
Patch(base) ==
  [State(base + 1) EXCEPT !.patch = [owner |-> owner, baseRevision |-> base]]
Memory(content) == [NoEffects EXCEPT !.memories = <<[id |-> fact, content |-> content]>>]
Relate(revision) == [NoEffects EXCEPT !.relationships = <<[pair |-> owner, revision |-> revision]>>]
Branch(id, message, active) ==
  [NoEffects EXCEPT !.branch = [id |-> id, parent |-> None, message |-> message, active |-> active]]

(* A document is initialized, replaced and patched; two turns may accept   *)
(* different contents for one memory.                                      *)
StateAndMemory == {State(0), State(1), Patch(0), Memory("x"), Memory("y")}
Documents == {State(0), Patch(0), State(2)}
=============================================================================
