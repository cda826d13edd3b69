------------------------- MODULE SessionProjection -------------------------
(***************************************************************************)
(* The two replay folds of packages/rp/projection: projectRpSession        *)
(* rebuilds the whole execution topology of a Session and rejects a log    *)
(* that is not a legal history; projectRpScope rebuilds the domain context *)
(* of one lifecycle scope, the snapshot that the next turn is prepared     *)
(* against.                                                                *)
(*                                                                         *)
(* An event is a record whose field "type" is the event name without its   *)
(* "rp/" prefix.  A view is a record with a field "ok": a fold that throws *)
(* yields a view whose "ok" is FALSE and which no later event changes.     *)
(* Maps are functions whose domain is the set of keys present; an absent   *)
(* optional field is None.  Timestamps, messages and diagnostic texts are  *)
(* left out; a document's content is whatever value the event carries.     *)
(***************************************************************************)
EXTENDS Naturals, Sequences, FiniteSets, SequencesExt, WellFoundedInduction, TLAPS

CONSTANT None

Map0 == [k \in {} |-> None]
Put(map, k, v) == [x \in DOMAIN map \cup {k} |-> IF x = k THEN v ELSE map[x]]
Drop(map, k) == Restrict(map, DOMAIN map \ {k})
Lookup(map, k) == IF k \in DOMAIN map THEN map[k] ELSE None

(* A step of a fold: take the view "next" if the code's check holds, throw *)
(* otherwise.                                                              *)
Admit(check, view, next) == IF check THEN next ELSE [view EXCEPT !.ok = FALSE]

(* putStable, putTurnScope and putMemory: the first value of a key stays.  *)
Stable(map, k, v) == k \in DOMAIN map => map[k] = v
KeepFirst(map, k, v) == IF k \in DOMAIN map THEN map ELSE Put(map, k, v)

-----------------------------------------------------------------------------
(* Branch records are [id, parent, message, active].                       *)

OnlyActive(branches, id) ==
  [b \in DOMAIN branches |-> [branches[b] EXCEPT !.active = (b = id)]]

ActivateBranch(v, id) ==
  Admit(id \in DOMAIN v.branches, v,
        [v EXCEPT !.branches = OnlyActive(@, id), !.activeBranch = id])

SetBranch(v, branch) ==
  LET w == [v EXCEPT !.branches = Put(@, branch.id, branch)]
  IN  IF branch.active THEN ActivateBranch(w, branch.id) ELSE w

RemoveBranch(v, id) ==
  [v EXCEPT !.branches = Drop(@, id),
            !.activeBranch = IF @ = id THEN None ELSE @]

SameBranch(branches, branch) ==
  branch.id \in DOMAIN branches =>
    /\ branches[branch.id].parent = branch.parent
    /\ branches[branch.id].message = branch.message

PutBranch(v, branch) == Admit(SameBranch(v.branches, branch), v, SetBranch(v, branch))

-----------------------------------------------------------------------------
(* The strict Session fold.                                                *)

EmptySession ==
  [ok |-> TRUE, turns |-> <<>>, terminal |-> {}, aborted |-> {},
   compositions |-> Map0, contexts |-> Map0, pipelines |-> Map0, agents |-> Map0,
   stateChanges |-> Map0, states |-> Map0, state |-> None, memories |-> Map0,
   proposals |-> {}, relationships |-> Map0, scene |-> None, branches |-> Map0,
   activeBranch |-> None, media |-> Map0, calls |-> Map0]

(* A Pipeline execution is identified by its turn, id and snapshot hash;   *)
(* e.pipeline stands for the id together with the hash.                    *)
PipelineKey(e) == <<e.turn, e.pipeline>>

IsRunning(v, e) ==
  /\ PipelineKey(e) \in DOMAIN v.pipelines
  /\ v.pipelines[PipelineKey(e)].status = "running"

PipelineStep(v, e) ==
  LET key == PipelineKey(e) IN
  CASE e.type = "pipeline-started" ->
         Admit(key \notin DOMAIN v.pipelines, v,
               [v EXCEPT !.pipelines = Put(@, key, [status |-> "running", stages |-> {}])])
    [] e.type = "pipeline-stage" ->
         Admit(IsRunning(v, e) /\ e.stage \notin v.pipelines[key].stages, v,
               [v EXCEPT !.pipelines[key].stages = @ \cup {e.stage}])
    [] e.type = "pipeline-completed" ->
         Admit(IsRunning(v, e), v, [v EXCEPT !.pipelines[key].status = "completed"])
    [] e.type = "pipeline-failed" ->
         Admit(IsRunning(v, e), v, [v EXCEPT !.pipelines[key].status = "failed"])

AgentKey(r) == <<r.turn, r.agent>>

StartAgent(v, r) ==
  Admit(AgentKey(r) \notin DOMAIN v.agents, v,
        [v EXCEPT !.agents = Put(@, AgentKey(r),
           [role |-> r.role, parent |-> r.parent, status |-> "running", delegated |-> FALSE])])

UpdateAgent(v, r) ==
  LET key     == AgentKey(r)
      status  == IF r.operation = "delegated" THEN "running" ELSE r.operation
      current == v.agents[key]
  IN  Admit(/\ key \in DOMAIN v.agents
            /\ current.status = "running"
            /\ current.role = r.role /\ current.parent = r.parent
            /\ ~(r.operation = "delegated" /\ current.delegated),
            v,
            [v EXCEPT !.agents[key].status = status,
                      !.agents[key].delegated = @ \/ r.operation = "delegated"])

AgentStep(v, r) == IF r.operation = "started" THEN StartAgent(v, r) ELSE UpdateAgent(v, r)

(* The agents a commit carries are merged with the ones the log already    *)
(* showed; a record that repeats what is known changes nothing.            *)
UpsertAgent(v, r) ==
  IF ~v.ok THEN v
  ELSE IF AgentKey(r) \notin DOMAIN v.agents
  THEN LET w == StartAgent(v, r)
       IN  IF r.operation = "started" THEN w ELSE UpdateAgent(w, r)
  ELSE LET current == v.agents[AgentKey(r)]
           known   == \/ r.operation = "started"
                      \/ r.operation = "delegated" /\ current.delegated
                      \/ r.operation = current.status
       IN  IF known THEN v ELSE UpdateAgent(v, r)

CapabilityStep(v, e) ==
  LET known == e.call \in DOMAIN v.calls
      entry == [capability |-> e.capability, agent |-> e.agent,
                status |-> IF e.type = "capability-authorized" THEN "authorized" ELSE e.status]
  IN  Admit(IF e.type = "capability-authorized" THEN ~known
            ELSE IF ~known THEN e.status = "denied"
            ELSE /\ v.calls[e.call].status = "authorized"
                 /\ v.calls[e.call].capability = e.capability
                 /\ v.calls[e.call].agent = e.agent,
            v, [v EXCEPT !.calls = Put(@, e.call, entry)])

StateChangeIs(v, turn, status) ==
  turn \in DOMAIN v.stateChanges /\ v.stateChanges[turn] = status

StateStep(v, e) ==
  CASE e.type = "state-proposed" ->
         Admit(e.turn \notin DOMAIN v.stateChanges, v,
               [v EXCEPT !.stateChanges = Put(@, e.turn, "proposed")])
    [] e.type = "state-committed" ->
         Admit(StateChangeIs(v, e.turn, "proposed"), v,
               [v EXCEPT !.state = e.state,
                         !.states = Put(@, e.state.owner, e.state),
                         !.stateChanges[e.turn] = "committed"])
    [] e.type = "state-rejected" ->
         Admit(StateChangeIs(v, e.turn, "proposed"), v, [v EXCEPT !.stateChanges[e.turn] = "rejected"])

BranchStep(v, e) ==
  CASE e.type = "branch-created" ->
         Admit(e.branch.id \notin DOMAIN v.branches, v, SetBranch(v, e.branch))
    [] e.type = "branch-activated" -> ActivateBranch(v, e.id)
    [] e.type = "branch-removed" -> Admit(e.id \in DOMAIN v.branches, v, RemoveBranch(v, e.id))

PutMemories(map, memories) ==
  FoldLeft(LAMBDA m, x : Put(m, x.id, x.content), map, memories)

MemoryStep(v, e) ==
  CASE e.type = "memory-proposed" ->
         Admit(<<e.turn, e.memory.id>> \notin v.proposals, v,
               [v EXCEPT !.proposals = @ \cup {<<e.turn, e.memory.id>>}])
    [] e.type = "memory-accepted" ->
         Admit(<<e.turn, e.memory.id>> \in v.proposals, v,
               [v EXCEPT !.proposals = @ \ {<<e.turn, e.memory.id>>},
                         !.memories = Put(@, e.memory.id, e.memory.content)])
    [] e.type = "memory-compacted" ->
         Admit(e.ids \subseteq DOMAIN v.memories, v,
               [v EXCEPT !.memories = Restrict(@, DOMAIN @ \ e.ids)])

MediaStep(v, e) ==
  IF e.type = "media-requested"
  THEN Admit(e.turn \notin DOMAIN v.media, v, [v EXCEPT !.media = Put(@, e.turn, "requested")])
  ELSE Admit(e.turn \in DOMAIN v.media /\ v.media[e.turn] = "requested", v,
             [v EXCEPT !.media[e.turn] = e.type])

PutRelationships(map, relationships) ==
  FoldLeft(LAMBDA m, x : Put(m, x.pair, x.revision), map, relationships)

(* A commit names its turn, composition and Pipeline, and carries every    *)
(* domain effect: effects is [state, patch, memories, relationships,       *)
(* scene, branch], each None (or empty) when the turn leaves it alone.     *)
Touched(fx) == fx.state # None \/ fx.patch # None

CommitTopology(v, e) ==
  LET key       == PipelineKey(e)
      pipelines == IF key \in DOMAIN v.pipelines
                   THEN [v.pipelines EXCEPT ![key].status = "completed"]
                   ELSE Put(v.pipelines, key, [status |-> "completed", stages |-> {}])
  IN  FoldLeft(UpsertAgent,
               [v EXCEPT !.terminal = @ \cup {e.turn},
                         !.turns = Append(@, e.turn),
                         !.compositions = KeepFirst(@, e.turn, e.composition),
                         !.pipelines = pipelines],
               e.agentTrace)

CommitDomain(v, turn, fx) ==
  [v EXCEPT !.state = IF fx.state = None THEN @ ELSE fx.state,
            !.states = IF fx.state = None THEN @ ELSE Put(@, fx.state.owner, fx.state),
            !.stateChanges = IF Touched(fx) THEN Put(@, turn, "committed") ELSE @,
            !.proposals = @ \ {<<turn, m.id>> : m \in ToSet(fx.memories)},
            !.memories = PutMemories(@, fx.memories),
            !.relationships = PutRelationships(@, fx.relationships),
            !.scene = IF fx.scene = None THEN @ ELSE fx.scene]

CommitStep(v, e) ==
  LET key    == PipelineKey(e)
      merged == CommitTopology(v, e)
      domain == CommitDomain(merged, e.turn, e.effects)
  IN  Admit(/\ e.turn \notin v.terminal
            /\ Stable(v.compositions, e.turn, e.composition)
            /\ key \in DOMAIN v.pipelines => v.pipelines[key].status # "failed"
            /\ merged.ok
            /\ Touched(e.effects) => ~StateChangeIs(v, e.turn, "rejected"),
            v,
            IF e.effects.branch = None THEN domain ELSE SetBranch(domain, e.effects.branch))

AbortStep(v, e) ==
  Admit(e.turn \notin v.terminal, v,
        [v EXCEPT !.terminal = @ \cup {e.turn}, !.aborted = @ \cup {e.turn}])

SessionStep(v, e) ==
  CASE ~v.ok -> v
    [] v.ok /\ e.type = "composition-resolved" ->
         Admit(Stable(v.compositions, e.turn, e.composition), v,
               [v EXCEPT !.compositions = KeepFirst(@, e.turn, e.composition)])
    [] v.ok /\ e.type = "context-activated" ->
         Admit(Stable(v.contexts, e.turn, e.context), v,
               [v EXCEPT !.contexts = KeepFirst(@, e.turn, e.context)])
    [] v.ok /\ e.type \in {"pipeline-started", "pipeline-stage",
                           "pipeline-completed", "pipeline-failed"} -> PipelineStep(v, e)
    [] v.ok /\ e.type = "agent" -> AgentStep(v, e)
    [] v.ok /\ e.type \in {"capability-authorized", "capability-settled"} -> CapabilityStep(v, e)
    [] v.ok /\ e.type \in {"state-proposed", "state-committed", "state-rejected"} -> StateStep(v, e)
    [] v.ok /\ e.type \in {"branch-created", "branch-activated", "branch-removed"} -> BranchStep(v, e)
    [] v.ok /\ e.type \in {"memory-proposed", "memory-accepted", "memory-compacted"} -> MemoryStep(v, e)
    [] v.ok /\ e.type \in {"media-requested", "media-completed", "media-failed"} -> MediaStep(v, e)
    [] v.ok /\ e.type = "turn-committed" -> CommitStep(v, e)
    [] v.ok /\ e.type = "turn-aborted" -> AbortStep(v, e)
    [] OTHER -> v

ProjectSession(log) ==
  LET view[n \in 0..Len(log)] ==
        IF n = 0 THEN EmptySession ELSE SessionStep(view[n - 1], log[n])
  IN  view[Len(log)]

-----------------------------------------------------------------------------
(* The scope fold: a first pass learns which scope owns each turn, from    *)
(* the whole log, and a second pass applies the events of one scope.       *)

EmptyScope ==
  [ok |-> TRUE, states |-> Map0, memories |-> Map0, relationships |-> Map0,
   scene |-> None, branches |-> Map0, activeBranch |-> None, history |-> <<>>]

CompositionEvents(log) ==
  SelectSeq(log, LAMBDA e : e.type \in {"composition-resolved", "turn-committed"})

TurnsOfScope(log, scope) ==
  {e.turn : e \in {x \in ToSet(CompositionEvents(log)) : x.composition.scope = scope}}

ScopesAreStable(log) ==
  LET events == ToSet(CompositionEvents(log)) IN
  \A e, f \in events : e.turn = f.turn => e.composition.scope = f.composition.scope

ContextsAreStable(log) ==
  LET events == {e \in ToSet(log) : e.type = "context-activated"} IN
  \A e, f \in events : e.turn = f.turn => e.context = f.context

PutMemory(v, m) ==
  IF ~v.ok THEN v
  ELSE Admit(Stable(v.memories, m.id, m.content), v,
             [v EXCEPT !.memories = KeepFirst(@, m.id, m.content)])

ScopeCommit(v, e) ==
  LET fx     == e.effects
      merged == FoldLeft(PutMemory, v, fx.memories)
      domain == [merged EXCEPT
                   !.states = IF fx.state = None THEN @ ELSE Put(@, fx.state.owner, fx.state),
                   !.relationships = PutRelationships(@, fx.relationships),
                   !.scene = IF fx.scene = None THEN @ ELSE fx.scene]
      placed == IF fx.branch = None \/ ~merged.ok THEN domain ELSE PutBranch(domain, fx.branch)
  IN  [placed EXCEPT !.history = Append(@, e.turn)]

ScopeStep(v, e) ==
  CASE ~v.ok -> v
    [] v.ok /\ e.type = "state-committed" ->
         [v EXCEPT !.states = Put(@, e.state.owner, e.state)]
    [] v.ok /\ e.type = "memory-accepted" -> PutMemory(v, e.memory)
    [] v.ok /\ e.type = "memory-compacted" ->
         [v EXCEPT !.memories = Restrict(@, DOMAIN @ \ e.ids)]
    [] v.ok /\ e.type = "branch-created" -> PutBranch(v, e.branch)
    [] v.ok /\ e.type = "branch-activated" -> ActivateBranch(v, e.id)
    [] v.ok /\ e.type = "branch-removed" -> RemoveBranch(v, e.id)
    [] v.ok /\ e.type = "turn-committed" -> ScopeCommit(v, e)
    [] OTHER -> v

ProjectScope(log, scope) ==
  LET turns  == TurnsOfScope(log, scope)
      events == SelectSeq(log, LAMBDA e : "turn" \in DOMAIN e /\ e.turn \in turns)
      start  == [EmptyScope EXCEPT !.ok = ScopesAreStable(log) /\ ContextsAreStable(log)]
  IN  FoldLeft(ScopeStep, start, events)

-----------------------------------------------------------------------------
(* The strict fold takes one event after the other.                        *)
LEMMA Least ==
  ASSUME NEW S \in SUBSET Nat, S # {}
  PROVE  \E n \in S : \A m \in S : n <= m
<1>1. PICK n \in S : \A m \in S : <<m, n>> \notin OpToRel(<, Nat)
  BY NatLessThanWellFounded, WFMin
<1>2. \A m \in S : ~(m < n)
  BY <1>1 DEF OpToRel
<1> QED BY <1>2

(* What the fold has seen after each of the first n events.                *)
Views(f, log, n) ==
  /\ f[0] = EmptySession
  /\ \A i \in 1..n : f[i] = SessionStep(f[i - 1], log[i])

LEMMA ViewsExist ==
  ASSUME NEW log, NEW n \in Nat
  PROVE  \E f : Views(f, log, n)
<1> HIDE DEF EmptySession, SessionStep
<1> DEFINE Bad == {m \in Nat : ~\E f : Views(f, log, m)}
<1>1. ASSUME Bad # {}
      PROVE  FALSE
  <2>1. PICK m \in Bad : \A k \in Bad : m <= k
    <3>1. Bad \in SUBSET Nat
      OBVIOUS
    <3> HIDE DEF Bad
    <3> QED BY <1>1, <3>1, Least
  <2>2. CASE m = 0
    <3>1. Views([i \in 0..0 |-> EmptySession], log, 0)
      BY DEF Views
    <3> QED BY <2>1, <2>2, <3>1
  <2>3. CASE m # 0
    <3>1. m - 1 \in Nat /\ m - 1 \notin Bad
      BY <2>1, <2>3
    <3>2. PICK f : Views(f, log, m - 1)
      BY <3>1
    <3> DEFINE g == [i \in 0..m |-> IF i < m THEN f[i] ELSE SessionStep(f[m - 1], log[m])]
    <3>3. g[0] = EmptySession
      BY <2>3, <3>2 DEF Views
    <3>4. ASSUME NEW i \in 1..m
          PROVE  g[i] = SessionStep(g[i - 1], log[i])
      <4>1. g[i - 1] = f[i - 1] /\ i - 1 < m
        BY <2>1
      <4>2. CASE i < m
        <5>1. i \in 1..(m - 1) /\ g[i] = f[i]
          BY <4>2
        <5> QED BY <3>2, <4>1, <5>1 DEF Views
      <4>3. CASE i = m
        BY <4>1, <4>3
      <4> QED BY <4>2, <4>3
    <3>5. Views(g, log, m)
      BY <3>3, <3>4 DEF Views
    <3> QED BY <2>1, <3>5
  <2> QED BY <2>2, <2>3
<1> QED BY <1>1

LEMMA ViewsAgree ==
  ASSUME NEW log, NEW more, NEW n \in Nat, NEW m \in Nat, n <= m,
         \A i \in 1..n : log[i] = more[i],
         NEW f, Views(f, log, n), NEW g, Views(g, more, m)
  PROVE  \A i \in 0..n : f[i] = g[i]
<1> HIDE DEF EmptySession, SessionStep
<1> DEFINE Bad == {i \in 0..n : f[i] # g[i]}
<1>1. ASSUME Bad # {}
      PROVE  FALSE
  <2>1. PICK k \in Bad : \A j \in Bad : k <= j
    <3>1. Bad \in SUBSET Nat
      OBVIOUS
    <3> HIDE DEF Bad
    <3> QED BY <1>1, <3>1, Least
  <2>2. k # 0 => f[k - 1] = g[k - 1]
    BY <2>1
  <2>3. k \in 1..n \/ k = 0
    BY <2>1
  <2>4. k # 0 => /\ f[k] = SessionStep(f[k - 1], log[k])
                 /\ g[k] = SessionStep(g[k - 1], log[k])
    BY <2>3 DEF Views
  <2>5. k = 0 => f[k] = g[k]
    BY DEF Views
  <2> QED BY <2>1, <2>2, <2>4, <2>5
<1> QED BY <1>1

LEMMA ProjectSessionIsLastView ==
  ASSUME NEW log, Len(log) \in Nat
  PROVE  \A f : Views(f, log, Len(log)) => ProjectSession(log) = f[Len(log)]
<1> HIDE DEF EmptySession, SessionStep
<1> DEFINE n == Len(log)
           Round(view) == [i \in 0..Len(log) |-> IF i = 0 THEN EmptySession
                                            ELSE SessionStep(view[i - 1], log[i])]
           view == CHOOSE view : view = Round(view)
<1>1. ASSUME NEW f, f = Round(f)
      PROVE  Views(f, log, n)
  <2>1. PICK g : g = Round(f)
    OBVIOUS
  <2>2. g[0] = EmptySession /\ \A i \in 1..n : g[i] = SessionStep(f[i - 1], log[i])
    BY <2>1
  <2> QED BY <1>1, <2>1, <2>2 DEF Views
<1>2. \E f : f = Round(f)
  <2>1. PICK f : Views(f, log, n)
    BY ViewsExist
  <2>2. PICK g : g = [i \in 0..n |-> f[i]]
    OBVIOUS
  <2>3. DOMAIN g = 0..n /\ \A i \in 0..n : g[i] = f[i]
    BY <2>2
  <2>4. PICK h : h = Round(g)
    OBVIOUS
  <2>5. DOMAIN h = 0..n /\ \A i \in 0..n : h[i] = IF i = 0 THEN EmptySession
                                                 ELSE SessionStep(g[i - 1], log[i])
    BY <2>4
  <2>6. ASSUME NEW i \in 0..n
        PROVE  h[i] = g[i]
    <3>1. CASE i = 0
      BY <2>1, <2>3, <2>5, <3>1 DEF Views
    <3>2. CASE i # 0
      <4>1. i \in 1..n /\ i - 1 \in 0..n
        BY <3>2
      <4>2. f[i] = SessionStep(f[i - 1], log[i])
        BY <2>1, <4>1 DEF Views
      <4> QED BY <2>3, <2>5, <3>2, <4>1, <4>2
    <3> QED BY <3>1, <3>2
  <2>7. h = g
    <3>1. h = [i \in 0..n |-> h[i]]
      BY <2>4
    <3>2. [i \in 0..n |-> h[i]] = [i \in 0..n |-> f[i]]
      BY <2>3, <2>6
    <3> QED BY <2>2, <3>1, <3>2
  <2> QED BY <2>4, <2>7
<1>3. Views(view, log, n)
  <2>1. view = Round(view)
    <3> HIDE DEF Round
    <3> QED BY <1>2
  <2> HIDE DEF view, Round
  <2> QED BY <1>1, <2>1
<1>4. ProjectSession(log) = view[n]
  BY DEF ProjectSession
<1> HIDE DEF view
<1>5. \A f : Views(f, log, n) => f[n] = view[n]
  <2> HIDE DEF n
  <2>1. n \in Nat
    BY DEF n
  <2> QED BY <1>3, <2>1, ViewsAgree
<1> QED BY <1>4, <1>5

LEMMA NothingIsProjected == ProjectSession(<<>>) = EmptySession
<1> HIDE DEF EmptySession, SessionStep
<1>1. PICK f : Views(f, <<>>, 0)
  BY ViewsExist
<1> QED BY <1>1, ProjectSessionIsLastView DEF Views

LEMMA ProjectSessionAppends ==
  ASSUME NEW S, NEW log \in Seq(S), NEW e
  PROVE  ProjectSession(Append(log, e)) = SessionStep(ProjectSession(log), e)
<1> HIDE DEF EmptySession, SessionStep
<1>1. PICK n, more : n = Len(log) /\ more = Append(log, e)
  OBVIOUS
<1>2. n \in Nat /\ n + 1 \in Nat
  BY <1>1
<1>3. /\ Len(more) = n + 1 /\ more[n + 1] = e
      /\ \A i \in 1..n : log[i] = more[i]
  BY <1>1, <1>2
<1>4. PICK g : Views(g, more, n + 1)
  BY <1>2, ViewsExist
<1>5. PICK f : Views(f, log, n)
  BY <1>2, ViewsExist
<1>6. f[n] = g[n]
  BY <1>2, <1>3, <1>4, <1>5, ViewsAgree
<1>7. g[n + 1] = SessionStep(g[n], e)
  <2>1. n + 1 \in 1..(n + 1) /\ (n + 1) - 1 = n
    BY <1>2
  <2> QED BY <1>3, <1>4, <2>1 DEF Views
<1>8. ProjectSession(log) = f[n]
  BY <1>1, <1>2, <1>5, ProjectSessionIsLastView
<1>9. ProjectSession(more) = g[n + 1]
  BY <1>2, <1>3, <1>4, ProjectSessionIsLastView
<1> QED BY <1>1, <1>6, <1>7, <1>8, <1>9
=============================================================================
