------------------------------ MODULE TurnRun ------------------------------
(***************************************************************************)
(* The callers of RpTurnRuntime.run(): one activation prepares, executes,  *)
(* validates and commits a turn, and aborts it when a step fails.  No      *)
(* draft leaves run(), so nobody else executes, commits or aborts it.      *)
(* MaxActive bounds the activations that are between their start and their *)
(* settlement: 1 when the caller serializes its runs, as turn-api.ts does  *)
(* with the Agent's maintenance lock.                                      *)
(***************************************************************************)
EXTENDS TurnRuntime

CONSTANTS MaxActive

ASSUME ActiveAssumption == MaxActive \in Nat

Running(c) == calls[c].at \notin {"idle", "settled"}
Active == {c \in Calls : Running(c)}

(* A slip: the Pipeline's start is not journaled.                          *)
SlipStartsUnseen(t, s) == PrepareEvents(t, s)

StartEvents(t, s) == Append(PrepareEvents(t, s), PipelineEvent(t, "pipeline-started"))

(* prepare() and the part of execute() before its first await.             *)
RunStart(c, t, s) ==
  /\ At(c, "idle")
  /\ Cardinality(Active) < MaxActive
  /\ Admitted(t, s)
  /\ drafts' = NewDraft(t, s)
  /\ log' = log \o StartEvents(t, s)
  /\ calls' = [calls EXCEPT ![c] = [at |-> "pipeline", turn |-> t, effects |-> None]]
  /\ UNCHANGED faults

(* runPlan() rejects before it journals a start: no authority to run the   *)
(* Pipeline, or the append of the start throws.                            *)
RunRefused(c, t, s) ==
  /\ At(c, "idle")
  /\ Cardinality(Active) < MaxActive
  /\ Admitted(t, s)
  /\ drafts' = NewDraft(t, s)
  /\ log' = log \o PrepareEvents(t, s)
  /\ calls' = [calls EXCEPT ![c] = [at |-> "failed", turn |-> t, effects |-> None]]
  /\ UNCHANGED faults

(* prepare() throws after it has registered the id; it is outside the try, *)
(* so no abort follows.                                                    *)
RunTorn(c, t, s) ==
  /\ At(c, "idle")
  /\ Cardinality(Active) < MaxActive
  /\ PrepareTorn(t, s)

(* commitTurn's append throws: run() goes to its catch clause.             *)
RunCommitFails(c) ==
  /\ At(c, "outcome")
  /\ Fault
  /\ calls' = [calls EXCEPT ![c].at = "failed"]
  /\ UNCHANGED <<states, plans, drafts, log>>

(* The catch clause.                                                       *)
RunAborts(c) ==
  /\ At(c, "failed")
  /\ Aborted(calls[c].turn)
  /\ calls' = [calls EXCEPT ![c].at = "settled"]
  /\ UNCHANGED <<drafts, faults>>

(* The abort's own append throws: AggregateError, and no terminal event.   *)
RunAbortFails(c) ==
  /\ At(c, "failed")
  /\ Fault
  /\ calls' = [calls EXCEPT ![c].at = "settled"]
  /\ UNCHANGED <<states, plans, drafts, log>>

RunNext ==
  \/ \E c \in Calls, t \in Turns, s \in Scopes :
       RunStart(c, t, s) \/ RunRefused(c, t, s) \/ RunTorn(c, t, s)
  \/ \E c \in Calls : PipelineCompletes(c) \/ PipelineFails(c) \/ PipelineFailsUnseen(c)
  \/ \E c \in Calls, fx \in EffectChoices : ExecuteReturns(c, fx)
  \/ \E c \in Calls : ExecuteRejects(c) \/ Commit(c)
  \/ \E c \in Calls : RunCommitFails(c) \/ RunAborts(c) \/ RunAbortFails(c)

(* What the event loop owes a started run: a Pipeline that settles, and    *)
(* the continuations after each settled promise.                           *)
Continuation(c) ==
  \/ PipelineCompletes(c) \/ PipelineFails(c) \/ PipelineFailsUnseen(c)
  \/ ExecuteRejects(c) \/ \E fx \in EffectChoices : ExecuteReturns(c, fx)
  \/ Commit(c) \/ RunCommitFails(c) \/ RunAborts(c) \/ RunAbortFails(c)

RunSpec == Init /\ [][RunNext]_vars
FairRunSpec == RunSpec /\ \A c \in Calls : WF_vars(Continuation(c))

-----------------------------------------------------------------------------
(* The phase of a turn tells what the log holds of it, across every        *)
(* interleaving of runs and failed appends: a commit and nothing else, an  *)
(* abort and nothing else, or no terminal event at all.                    *)
PhaseMatchesLog ==
  \A t \in Turns :
    /\ (CommitsOf(t) # {}) <=> (states[t] = "committed")
    /\ (AbortsOf(t) # {}) <=> (states[t] = "aborted")

(* "Any admitted failure receives one terminal abort event and no turn     *)
(* commit": a run that settled, but for appends that threw, left exactly   *)
(* one terminal event, and it is an abort unless the run committed.        *)
SettledRunIsTerminal ==
  \A c \in Calls :
    At(c, "settled") /\ faults = 0 =>
      LET t == calls[c].turn IN
      Cardinality(CommitsOf(t)) + Cardinality(AbortsOf(t)) = 1

(* The strict Session fold accepts everything that concurrent runs write:  *)
(* a commit follows its composition and the completion of its Pipeline.    *)
SessionProjectable == ProjectSession(log).ok

(* The log is a legal history at all times, and a run that has settled has  *)
(* its end in it.                                                          *)
LogIsHistory == SessionProjectable /\ SettledRunIsTerminal

(* What a turn commits follows, in its scope, what the log already holds:  *)
(* an owner's revisions are 0, 1, 2, ... without gap or repetition.  Holds *)
(* of serialized runs only.                                                *)
CommittedRevisions(s, owner) ==
  LET mine == SelectSeq(log, LAMBDA e : /\ e.type = "turn-committed"
                                        /\ e.composition.scope = s
                                        /\ e.effects.state # None
                                        /\ e.effects.state.owner = owner)
  IN  [i \in DOMAIN mine |-> mine[i].effects.state.revision]

NoLostUpdate ==
  \A s \in Scopes : \A fx \in EffectChoices :
    fx.state # None =>
      LET revisions == CommittedRevisions(s, fx.state.owner)
      IN  \A i \in DOMAIN revisions : revisions[i] = i - 1

(* "The next turn sees the previous commit": what the snapshot of an open  *)
(* serialized turn says of the domain is what the log says now.            *)
SnapshotIsCurrent ==
  \A c \in Calls :
    At(c, "outcome") => SnapshotOf(calls[c].turn) = ProjectScope(log, drafts[calls[c].turn].scope)

(* The inductive invariant.  A call's place decides the phase of its turn, *)
(* which no other call may touch: that is why a phase is never overwritten *)
(* once the log holds a terminal event of the turn.                        *)
CallInv ==
  \A c \in Calls :
    LET call == calls[c] IN
    /\ call.at # "idle" => /\ call.turn \in Turns
                           /\ drafts[call.turn] \in Draft
                           /\ states[call.turn] # "none"
    /\ call.at \in {"pipeline", "returned"} => states[call.turn] = "prepared"
    /\ call.at = "outcome" => /\ states[call.turn] = "executed"
                              /\ call.effects \in EffectChoices
    /\ call.at = "failed" => states[call.turn] \in Live

(* No two activations share a turn, because prepare() draws a fresh id.    *)
OneCallPerTurn ==
  \A c, d \in Calls :
    c # d /\ calls[c].at # "idle" /\ calls[d].at # "idle" => calls[c].turn # calls[d].turn

(* The inductive invariant as a whole.                                     *)
IInv == TypeOK /\ CallInv /\ OneCallPerTurn /\ PhaseMatchesLog /\ AtMostOneTerminal

(* A run that has started settles.                                         *)
EveryRunSettles == \A c \in Calls : Running(c) ~> At(c, "settled")

(* A commit publishes everything a turn did at once: see TurnTransaction.  *)
StatusOf(t) ==
  CASE states[t] = "none" -> "absent"
    [] states[t] \in Live -> "open"
    [] states[t] = "committed" -> "committed"
    [] states[t] = "aborted" -> "aborted"

Published ==
  {<<log[i].turn, log[i].effects>> : i \in {j \in DOMAIN log : log[j].type = "turn-committed"}}

Transaction == INSTANCE TurnTransaction
  WITH status <- [t \in Turns |-> StatusOf(t)], published <- Published

(* run() implements the transaction: a turn opens once, then commits all of*)
(* its effects in one step or aborts with none, and never both.            *)
ImplementsTransaction == Transaction!Spec
=============================================================================
