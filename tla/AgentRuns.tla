------------------------------ MODULE AgentRuns ------------------------------
(***************************************************************************)
(* Delegation to an RP Agent role: packages/rp/agent-runtime, which keeps  *)
(* the roles and the Providers and routes a call to one of them, and       *)
(* packages/rp/agent-provider-harness, the Provider that starts one child  *)
(* Agent, writes what happens to it into the Session of the Agent that     *)
(* asked, and disposes of it.                                              *)
(*                                                                         *)
(* A role is [id, capability, provider, instructs, whole]; a Provider is   *)
(* [id, rank, priority, serves, whole], `serves` the role ids it supports. *)
(* The Session's events have the form that SessionProjection folds.        *)
(***************************************************************************)
EXTENDS SessionProjection, Integers, FiniteSetsExt

CONSTANTS
  RoleDefs, ProviderDefs,
  Taken,          \* capability ids that the Catalog holds for somebody else
  Order,          \* the Subagent Providers, in the configured order
  Transports,     \* those that exist: name -> [depth, persona]
  Inputs,         \* [turn, media]: the turn id in the model input, or None,
                  \* and whether its image references are well formed
  MaxRuns, MaxChanges, MaxFailures   \* bounds: calls, registrations, failures

VARIABLES
  roles, providers,   \* id -> definition
  catalog,            \* capability id -> the role that it invokes
  roleHandles, providerHandles,     \* disposers not called yet
  runs,               \* what each call has come to
  log,                \* the Session of the parent Agent
  open, changes, failures

arVars == <<roles, providers, catalog, roleHandles, providerHandles, runs, log,
            open, changes, failures>>
registry == <<roles, providers, catalog, roleHandles, providerHandles, changes>>

Init ==
  /\ roles = Map0 /\ providers = Map0 /\ catalog = Map0
  /\ roleHandles = {} /\ providerHandles = {}
  /\ runs = <<>> /\ log = <<>> /\ open = TRUE /\ changes = 0 /\ failures = 0

-----------------------------------------------------------------------------
(* The registries.                                                         *)
Change == changes < MaxChanges /\ changes' = changes + 1 /\ UNCHANGED <<runs, log, open, failures>>

(* validateRole(): normalized labels and lists, at least one scope.        *)
ValidRole(role) == role.whole
ValidProvider(provider) == provider.whole

(* A capability that cannot be published takes the role back.              *)
Published(role) == role.capability \notin Taken \cup DOMAIN catalog
(* A plausible slip: the failed publication leaves the role behind.        *)
SlipRegisterRole(role) ==
  /\ Change /\ ValidRole(role) /\ role.id \notin DOMAIN roles
  /\ roles' = Put(roles, role.id, role)
  /\ IF Published(role)
     THEN catalog' = Put(catalog, role.capability, role.id) /\ roleHandles' = roleHandles \cup {role}
     ELSE UNCHANGED <<catalog, roleHandles>>
  /\ UNCHANGED <<providers, providerHandles>>
RegisterRole(role) ==
  /\ Change /\ ValidRole(role) /\ role.id \notin DOMAIN roles
  /\ IF Published(role)
     THEN /\ roles' = Put(roles, role.id, role)
          /\ catalog' = Put(catalog, role.capability, role.id)
          /\ roleHandles' = roleHandles \cup {role}
     ELSE UNCHANGED <<roles, catalog, roleHandles>>
  /\ UNCHANGED <<providers, providerHandles>>

DisposeRole(role) ==
  /\ role \in roleHandles /\ Change
  /\ roleHandles' = roleHandles \ {role}
  /\ catalog' = Drop(catalog, role.capability)
  /\ roles' = IF Lookup(roles, role.id) = role THEN Drop(roles, role.id) ELSE roles
  /\ UNCHANGED <<providers, providerHandles>>

RegisterProvider(provider) ==
  /\ Change /\ ValidProvider(provider) /\ provider.id \notin DOMAIN providers
  /\ providers' = Put(providers, provider.id, provider)
  /\ providerHandles' = providerHandles \cup {provider}
  /\ UNCHANGED <<roles, catalog, roleHandles>>

DisposeProvider(provider) ==
  /\ provider \in providerHandles /\ Change
  /\ providerHandles' = providerHandles \ {provider}
  /\ providers' = IF Lookup(providers, provider.id) = provider THEN Drop(providers, provider.id) ELSE providers
  /\ UNCHANGED <<roles, catalog, roleHandles>>

-----------------------------------------------------------------------------
(* Routing.                                                                *)
Before(p, q) == p.priority > q.priority \/ (p.priority = q.priority /\ p.rank < q.rank)
First(candidates) == CHOOSE p \in candidates : \A q \in candidates \ {p} : Before(p, q)
Supporting(role) == {p \in Range(providers) : role.id \in p.serves}
(* A pinned Provider is never replaced by another; None is NO_PROVIDER.    *)
SelectProvider(role) ==
  LET able == IF role.provider = None THEN Supporting(role)
              ELSE {p \in Supporting(role) : p.id = role.provider}
  IN IF able = {} THEN None ELSE First(able).id

Fits(name, role) ==
  /\ name \in DOMAIN Transports /\ Transports[name].depth
  /\ role.instructs => Transports[name].persona
(* selectTransport(): the first configured one that fits, or NO_TRANSPORT. *)
SelectTransport(role) ==
  LET fit == SelectSeq(Order, LAMBDA name : Fits(name, role))
  IN IF fit = <<>> THEN None ELSE Head(fit)

-----------------------------------------------------------------------------
(* The Harness Provider: a run is "starting" until the Subagent Provider   *)
(* answers, "running" until its child settles, "disposing" until the child *)
(* is gone, and "settled" when the caller has its answer.                  *)
TurnOf(input) == IF input.turn # None THEN input.turn ELSE <<"rp-agent", Len(runs) + 1>>
Entry(role, provider, transport, input) ==
  [role |-> role, provider |-> provider, transport |-> transport, turn |-> TurnOf(input),
   media |-> input.media, child |-> None, at |-> "starting", aborted |-> FALSE, outcome |-> None]
(* An answer is detached as finite JSON, or the call fails.                *)
Detached(json) == IF json THEN "answered" ELSE "failed"

(* The journal's event of run n; every id of a child is new.               *)
Fact(n, agent, operation) ==
  [type |-> "agent", turn |-> runs[n].turn, agent |-> agent, role |-> runs[n].role,
   parent |-> "parent", operation |-> operation]
(* The Session refuses an append once it is closed.                        *)
Write(facts) == log' = IF open THEN log \o facts ELSE log

(* invoke() up to its first await, in another Provider's case to its end.  *)
Invoke(id, input, initiated, json) ==
  /\ id \in Range(catalog) /\ id \in DOMAIN roles /\ Len(runs) < MaxRuns
  /\ LET role == roles[id]
         provider == SelectProvider(role)
         transport == SelectTransport(role)
         harness == provider = "harness" /\ initiated /\ transport # None
     IN /\ provider # None
        /\ runs' = Append(runs,
             IF harness THEN Entry(id, provider, transport, input)
             ELSE [Entry(id, provider, None, input) EXCEPT
                     !.at = "settled",
                     !.outcome = IF provider = "harness" THEN "failed" ELSE Detached(json)])
  /\ UNCHANGED <<registry, log, open, failures>>

(* The caller gives up, or the smaller of the two time limits is over:     *)
(* the linked signal tells the Subagent Provider.                          *)
Abort(n) ==
  /\ runs[n].at \in {"starting", "running"} /\ ~runs[n].aborted
  /\ runs' = [runs EXCEPT ![n].aborted = TRUE]
  /\ UNCHANGED <<registry, log, open, failures>>

(* mediaBlocks(): an image reference that is not whole throws, and it does  *)
(* so while the request for the child is put together.                     *)
Presentable(n) == runs[n].media
StartChild(n) ==
  /\ runs[n].at = "starting" /\ Presentable(n)
  /\ Write(<<Fact(n, <<"child", n>>, "started"), Fact(n, <<"child", n>>, "delegated")>>)
  /\ runs' = [runs EXCEPT ![n].child = <<"child", n>>,
                          ![n].at = IF open THEN "running" ELSE "disposing",
                          ![n].outcome = IF open THEN None ELSE "failed"]
  /\ UNCHANGED <<registry, open, failures>>

(* start() is not reached or rejects: the interruption is written under the *)
(* run's own id.                                                           *)
StartFails(n) ==
  /\ runs[n].at = "starting" /\ (Presentable(n) => failures < MaxFailures)
  /\ Write(<<Fact(n, <<"run", n>>, "interrupted")>>)
  /\ runs' = [runs EXCEPT ![n].at = "settled",
                          ![n].outcome = "failed"]
  /\ failures' = IF Presentable(n) THEN failures + 1 ELSE failures
  /\ UNCHANGED <<registry, open>>

Operation(stop) == IF stop = "completed" THEN "completed" ELSE "interrupted"
(* The child's result: it says why it stopped, or its promise rejects.     *)
(* terminalRecorded is set before the append, so that one that throws is   *)
(* not repeated by the handler.                                            *)
ChildSettles(n, stop) ==
  /\ runs[n].at = "running"
  /\ stop = "aborted" => runs[n].aborted
  /\ Write(<<Fact(n, runs[n].child, Operation(stop))>>)
  /\ runs' = [runs EXCEPT ![n].at = "disposing",
                          ![n].outcome = IF open /\ stop = "completed" THEN "answered" ELSE "failed"]
  /\ UNCHANGED <<registry, open, failures>>

(* finally: the timer and the listener are taken down, the child disposed  *)
(* of; an answer is lost when that fails.                                  *)
DisposeChild(n, fails) ==
  /\ runs[n].at = "disposing"
  /\ fails => failures < MaxFailures
  /\ failures' = IF fails THEN failures + 1 ELSE failures
  /\ runs' = [runs EXCEPT ![n].at = "settled", ![n].outcome = IF fails THEN "failed" ELSE @]
  /\ UNCHANGED <<registry, log, open>>

CloseSession ==
  /\ open /\ open' = FALSE
  /\ UNCHANGED <<registry, runs, log, failures>>

Stops == {"completed", "aborted", "failed", "rejected"}
Next ==
  \/ \E role \in RoleDefs : RegisterRole(role) \/ DisposeRole(role)
  \/ \E provider \in ProviderDefs : RegisterProvider(provider) \/ DisposeProvider(provider)
  \/ \E id \in DOMAIN roles, input \in Inputs, initiated, json \in BOOLEAN :
       Invoke(id, input, initiated, json)
  \/ \E n \in 1..Len(runs) :
       \/ Abort(n) \/ StartChild(n) \/ StartFails(n)
       \/ \E stop \in Stops : ChildSettles(n, stop)
       \/ \E fails \in BOOLEAN : DisposeChild(n, fails)
  \/ CloseSession

Spec == Init /\ [][Next]_arVars

-----------------------------------------------------------------------------
Unstarted == \E n \in 1..Len(runs) : runs[n].child = None /\ runs[n].at = "settled" /\ runs[n].transport # None
Told(n) == {e.operation : e \in {x \in ToSet(log) : x.agent = runs[n].child}}

(* What the Catalog offers is what can be routed: no role is listed that   *)
(* nobody can call, and no capability outlives its role.                   *)
CatalogIsRouted ==
  /\ \A c \in DOMAIN catalog : catalog[c] \in DOMAIN roles /\ roles[catalog[c]].capability = c
  /\ \A id \in DOMAIN roles : Lookup(catalog, roles[id].capability) = id
  /\ roleHandles = Range(roles)

(* Every child that was started is told of once from its start to one end, *)
(* and the end is the one that the caller hears of: an answer comes after  *)
(* "completed" only.                                                       *)
ChildrenAreTold ==
  \A n \in 1..Len(runs) : runs[n].child # None =>
    /\ runs[n].outcome = "answered" => "completed" \in Told(n)
    /\ (runs[n].at = "disposing" /\ open) => ("completed" \in Told(n) <=> runs[n].outcome = "answered")
    /\ (runs[n].at \in {"disposing", "settled"} /\ open) =>
         \/ Told(n) = {"started", "delegated", "completed"}
         \/ Told(n) = {"started", "delegated", "interrupted"} /\ runs[n].outcome # "answered"

(* The log stays one that the Session's fold accepts, as long as every     *)
(* child that was asked for was started.                                   *)
DelegationIsTold == ChildrenAreTold /\ (~Unstarted => ProjectSession(log).ok)

AgentsAreSound == CatalogIsRouted /\ DelegationIsTold
=============================================================================
