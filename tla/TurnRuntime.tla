---------------------------- MODULE TurnRuntime ----------------------------
(***************************************************************************)
(* The turn transaction of packages/rp/turn-runtime: prepare, execute,     *)
(* validate, commit and abort of RpTurnRuntime over one Session log, as    *)
(* any caller of the public service may interleave them.  Module TurnRun   *)
(* models the callers that go through run().                               *)
(*                                                                         *)
(* A call c of execute() is a process: it is suspended while its Pipeline  *)
(* runs, and the service's two maps may change before it resumes.  The     *)
(* Pipeline is seen here only through the events its observer journals at  *)
(* the start and at the end; module PipelineRun opens it.                  *)
(***************************************************************************)
EXTENDS SessionProjection

CONSTANTS
  Turns,          \* the turn ids that prepare() may draw
  Scopes,         \* lifecycle scopes
  Calls,          \* activations of execute() or run()
  EffectChoices,  \* the typed effects a Pipeline may publish
  Pipeline,       \* id and hash of the Experience's turn Pipeline
  MaxFaults       \* bound on the appends that throw

ASSUME FaultsAssumption == MaxFaults \in Nat

VARIABLES
  states,  \* RpTurnRuntime.states, "none" for an id not yet drawn
  plans,   \* the keys of RpTurnRuntime.plans
  drafts,  \* the draft that prepare() returned for a turn, if it returned
  calls,   \* where each activation stands
  log,     \* the Session's events
  faults   \* appends that have thrown

vars == <<states, plans, drafts, calls, log, faults>>

Phases == {"none", "prepared", "executed", "committed", "aborted"}
Live == {"prepared", "executed"}

Idle == [at |-> "idle", turn |-> None, effects |-> None]
At(c, place) == calls[c].at = place

Draft == [scope : Scopes, through : Nat]
Places == {"idle", "pipeline", "returned", "outcome", "failed", "settled"}
CallState == [at : Places, turn : Turns \cup {None}, effects : EffectChoices \cup {None}]

(* Events written on behalf of turn t.                                     *)
CompositionOf(t, s) == [scope |-> s]
PrepareEvents(t, s) ==
  << [type |-> "composition-resolved", turn |-> t, composition |-> CompositionOf(t, s)],
     [type |-> "context-activated", turn |-> t, context |-> t] >>
PipelineEvent(t, kind) == [type |-> kind, turn |-> t, pipeline |-> Pipeline]
CommitEvent(t, s, fx) ==
  [type |-> "turn-committed", turn |-> t, composition |-> CompositionOf(t, s),
   pipeline |-> Pipeline, agentTrace |-> <<>>, effects |-> fx]
AbortEvent(t) == [type |-> "turn-aborted", turn |-> t]

(* The snapshot of a draft: the scope's context at the event boundary that *)
(* prepare() recorded.                                                     *)
SnapshotOf(t) == ProjectScope(SubSeq(log, 1, drafts[t].through), drafts[t].scope)

-----------------------------------------------------------------------------
(* validateEffects: the effects agree with themselves.                     *)
WellFormed(fx) ==
  fx.patch # None =>
    /\ fx.state # None
    /\ fx.state.owner = fx.patch.owner
    /\ fx.state.revision = fx.patch.baseRevision + 1

(* validateEffectsAgainstSnapshot: they fit what the turn was shown.       *)
FitsSnapshot(fx, view) ==
  /\ fx.state # None =>
       LET current == Lookup(view.states, fx.state.owner) IN
       IF fx.patch # None
       THEN current # None /\ current.revision = fx.patch.baseRevision
       ELSE fx.state.revision = IF current = None THEN 0 ELSE current.revision + 1
  /\ \A r \in ToSet(fx.relationships) :
       r.revision = 1 + IF r.pair \in DOMAIN view.relationships
                        THEN view.relationships[r.pair] ELSE 0
  /\ \A m \in ToSet(fx.memories) : Stable(view.memories, m.id, m.content)

Valid(t, fx) == WellFormed(fx) /\ FitsSnapshot(fx, SnapshotOf(t))

-----------------------------------------------------------------------------
Init ==
  /\ states = [t \in Turns |-> "none"]
  /\ plans = {}
  /\ drafts = [t \in Turns |-> None]
  /\ calls = [c \in Calls |-> Idle]
  /\ log = <<>>
  /\ faults = 0

Fault == faults < MaxFaults /\ faults' = faults + 1

(* A slip: the id need not be fresh.                                       *)
SlipAdmitsAgain(t, s) ==
  /\ states' = [states EXCEPT ![t] = "prepared"]
  /\ plans' = plans \cup {t}
  /\ ProjectScope(log, s).ok

(* What prepare() does to the maps before it journals: a fresh id, its     *)
(* phase and its plan.  projectScope throws on an unprojectable log.       *)
Admitted(t, s) ==
  /\ states[t] = "none"
  /\ ProjectScope(log, s).ok
  /\ states' = [states EXCEPT ![t] = "prepared"]
  /\ plans' = plans \cup {t}

(* A slip: the boundary leaves out the last event.                         *)
SlipDraftsEarly(t, s) == [drafts EXCEPT ![t] = [scope |-> s, through |-> Len(log) - 1]]

NewDraft(t, s) == [drafts EXCEPT ![t] = [scope |-> s, through |-> Len(log)]]

Prepare(t, s) ==
  /\ Admitted(t, s)
  /\ drafts' = NewDraft(t, s)
  /\ log' = log \o PrepareEvents(t, s)
  /\ UNCHANGED <<calls, faults>>

(* One of the two appends throws: prepare() throws, the maps keep the id.  *)
PrepareTorn(t, s) ==
  /\ Admitted(t, s)
  /\ Fault
  /\ log' \in {log, Append(log, PrepareEvents(t, s)[1])}
  /\ UNCHANGED <<drafts, calls>>

(* requireState and the plan lookup come before the first await, and so    *)
(* does the observer's record of the start.                                *)
ExecuteStart(c, t) ==
  /\ At(c, "idle")
  /\ drafts[t] # None
  /\ states[t] = "prepared"
  /\ t \in plans
  /\ calls' = [calls EXCEPT ![c] = [at |-> "pipeline", turn |-> t, effects |-> None]]
  /\ log' = Append(log, PipelineEvent(t, "pipeline-started"))
  /\ UNCHANGED <<states, plans, drafts, faults>>

PipelineCompletes(c) ==
  /\ At(c, "pipeline")
  /\ calls' = [calls EXCEPT ![c].at = "returned"]
  /\ log' = Append(log, PipelineEvent(calls[c].turn, "pipeline-completed"))
  /\ UNCHANGED <<states, plans, drafts, faults>>

PipelineFails(c) ==
  /\ At(c, "pipeline")
  /\ calls' = [calls EXCEPT ![c].at = "failed"]
  /\ log' = Append(log, PipelineEvent(calls[c].turn, "pipeline-failed"))
  /\ UNCHANGED <<states, plans, drafts, faults>>

(* The observer's append of the failure throws as well.                    *)
PipelineFailsUnseen(c) ==
  /\ At(c, "pipeline")
  /\ Fault
  /\ calls' = [calls EXCEPT ![c].at = "failed"]
  /\ UNCHANGED <<states, plans, drafts, log>>

(* The rest of execute() after the await: the phase is not looked at again *)
(* before it is overwritten.                                               *)
ExecuteReturns(c, fx) ==
  /\ At(c, "returned")
  /\ Valid(calls[c].turn, fx)
  /\ states' = [states EXCEPT ![calls[c].turn] = "executed"]
  /\ calls' = [calls EXCEPT ![c].at = "outcome", ![c].effects = fx]
  /\ UNCHANGED <<plans, drafts, log, faults>>

(* The effects are missing, malformed or do not fit the snapshot.          *)
ExecuteRejects(c) ==
  /\ At(c, "returned")
  /\ calls' = [calls EXCEPT ![c].at = "failed"]
  /\ UNCHANGED <<states, plans, drafts, log, faults>>

(* A slip: the phase stays "executed".                                     *)
SlipCommitsTwice(t, fx) ==
  /\ states[t] = "executed"
  /\ log' = Append(log, CommitEvent(t, drafts[t].scope, fx))
  /\ plans' = plans \ {t}
  /\ UNCHANGED states

(* commit(outcome), for the outcome that call c produced.                  *)
Committed(t, fx) ==
  /\ states[t] = "executed"
  /\ log' = Append(log, CommitEvent(t, drafts[t].scope, fx))
  /\ states' = [states EXCEPT ![t] = "committed"]
  /\ plans' = plans \ {t}

Commit(c) ==
  /\ At(c, "outcome")
  /\ Committed(calls[c].turn, calls[c].effects)
  /\ calls' = [calls EXCEPT ![c].at = "settled"]
  /\ UNCHANGED <<drafts, faults>>

(* A slip: only an executed turn is aborted.                               *)
SlipAbortsExecuted(t) ==
  /\ states[t] = "executed"
  /\ log' = Append(log, AbortEvent(t))
  /\ states' = [states EXCEPT ![t] = "aborted"]
  /\ plans' = plans \ {t}

(* abort(draft, reason) by whoever holds the draft.                        *)
Aborted(t) ==
  /\ states[t] \in Live
  /\ log' = Append(log, AbortEvent(t))
  /\ states' = [states EXCEPT ![t] = "aborted"]
  /\ plans' = plans \ {t}

Abort(t) ==
  /\ drafts[t] # None
  /\ Aborted(t)
  /\ UNCHANGED <<drafts, calls, faults>>

Next ==
  \/ \E t \in Turns, s \in Scopes : Prepare(t, s) \/ PrepareTorn(t, s)
  \/ \E c \in Calls, t \in Turns : ExecuteStart(c, t)
  \/ \E c \in Calls : PipelineCompletes(c) \/ PipelineFails(c) \/ PipelineFailsUnseen(c)
  \/ \E c \in Calls, fx \in EffectChoices : ExecuteReturns(c, fx)
  \/ \E c \in Calls : ExecuteRejects(c) \/ Commit(c)
  \/ \E t \in Turns : Abort(t)

Spec == Init /\ [][Next]_vars

-----------------------------------------------------------------------------
Event ==
  [type : {"composition-resolved"}, turn : Turns, composition : [scope : Scopes]]
  \cup [type : {"context-activated"}, turn : Turns, context : Turns]
  \cup [type : {"pipeline-started", "pipeline-completed", "pipeline-failed"},
        turn : Turns, pipeline : {Pipeline}]
  \cup [type : {"turn-committed"}, turn : Turns, composition : [scope : Scopes],
        pipeline : {Pipeline}, agentTrace : {<<>>}, effects : EffectChoices]
  \cup [type : {"turn-aborted"}, turn : Turns]

(* The type invariant.                                                     *)
TypeOK ==
  /\ states \in [Turns -> Phases]
  /\ plans \subseteq Turns
  /\ drafts \in [Turns -> Draft \cup {None}]
  /\ calls \in [Calls -> CallState]
  /\ log \in Seq(Event)
  /\ faults \in 0..MaxFaults

(* Positions of the log that hold a commit or an abort of turn t.          *)
TerminalTypes == {"turn-committed", "turn-aborted"}
IsTerminal(e) == e.type \in TerminalTypes
CommitsOf(t) == {i \in DOMAIN log : log[i].type = "turn-committed" /\ log[i].turn = t}
AbortsOf(t) == {i \in DOMAIN log : log[i].type = "turn-aborted" /\ log[i].turn = t}

(* A live transaction has at most one terminal event: neither commit nor   *)
(* abort follows another terminal operation of the same turn.              *)
AtMostOneTerminal ==
  \A i, j \in DOMAIN log :
    IsTerminal(log[i]) /\ IsTerminal(log[j]) /\ log[i].turn = log[j].turn => i = j

(* Whoever calls, and in whatever order: a commit is preceded by a start   *)
(* and a completion of the turn's Pipeline.                                *)
CommitFollowsPipeline ==
  \A i \in DOMAIN log :
    log[i].type = "turn-committed" =>
      \E j, k \in 1..(i - 1) :
        /\ j < k
        /\ log[j] = PipelineEvent(log[i].turn, "pipeline-started")
        /\ log[k] = PipelineEvent(log[i].turn, "pipeline-completed")

(* Whoever calls, and in whatever order: the effects in the log fit the    *)
(* snapshot that their turn was prepared against, whatever other turns     *)
(* committed in between.                                                   *)
CommitFitsSnapshot ==
  \A i \in DOMAIN log :
    log[i].type = "turn-committed" => Valid(log[i].turn, log[i].effects)

(* Every scope can still be projected, so the next prepare() does not      *)
(* throw.                                                                  *)
ScopeProjectable == \A s \in Scopes : ProjectScope(log, s).ok
=============================================================================
