------------------------------ MODULE Authority ------------------------------
(***************************************************************************)
(* Who may run a capability: packages/rp/capability-catalog (the directory *)
(* and its invoke()), packages/rp/policy (registered ceilings, one         *)
(* authorizer of the catalog) and packages/rp/tool-capability (the model's *)
(* bridge, which journals each call in its Session).                       *)
(*                                                                         *)
(* The loop over the authorizers runs to its end before anything else      *)
(* does: `deciding` holds it and stops every other action.  The adapter    *)
(* then runs on its own, while capabilities, authorizers and ceilings come *)
(* and go.  Trust levels L0, L1 and L2 are 0, 1 and 2.  networkDomains and *)
(* fileRoots are treated alike by the code; `reach` is one of them.  None  *)
(* stands for an omitted field, which constrains nothing.                  *)
(***************************************************************************)
EXTENDS Naturals, FiniteSets

CONSTANTS
  None,
  Permissions, Resources, BudgetKeys, LimitValues,
  Scopes,
  Capabilities,  \* [id, scopes, permissions, trust, budget, executable]
  Authorizers,   \* [id, rank, policy, narrows: SUBSET Permissions or None (throws), ceiling, widens]
  Layers,        \* [name, permissions, trust, budget, reach]
  Requests,      \* [capability, scope, permissions, trust, budget, reach, layers]
  Calls,
  MaxChanges     \* bound: registrations and disposals

Trusts == 0..2
Budgets == [BudgetKeys -> LimitValues \cup {None}]
Authorities == [permissions: SUBSET Permissions, trust: Trusts, budget: Budgets, reach: SUBSET Resources]
LayerRecords == [name: STRING, permissions: {None} \cup SUBSET Permissions, trust: {None} \cup Trusts,
                 budget: Budgets, reach: {None} \cup SUBSET Resources]
RequestRecords == [capability: STRING, scope: Scopes, permissions: SUBSET Permissions, trust: Trusts,
                   budget: Budgets, reach: SUBSET Resources, layers: SUBSET Layers]
CapabilityRecords == [id: STRING, scopes: SUBSET Scopes, permissions: SUBSET Permissions, trust: Trusts,
                      budget: Budgets, executable: BOOLEAN]

ASSUME LimitsAssumption == LimitValues \subseteq Nat \ {0} /\ None \notin LimitValues
ASSUME RecordsAssumption ==
  Capabilities \subseteq CapabilityRecords /\ Layers \subseteq LayerRecords /\ Requests \subseteq RequestRecords

VARIABLES
  catalog, authorizers, policies,  \* what is registered
  deciding,    \* None, or the loop under way: [call, request, capability, authority, rest, due]
  running,     \* call -> None, or what its adapter runs under: [request, capability, authority, due]
  journal,     \* call -> [authorized, settled]
  changes

auVars == <<catalog, authorizers, policies, deciding, running, journal, changes>>

Init ==
  /\ catalog = {} /\ authorizers = {} /\ policies = {}
  /\ deciding = None /\ running = [c \in Calls |-> None]
  /\ journal = [c \in Calls |-> [authorized |-> None, settled |-> None]]
  /\ changes = 0

-----------------------------------------------------------------------------
(* budgetWidens() and assertNarrower(): the negation of what they refuse.    *)
BudgetWithin(b, ceiling) == \A k \in BudgetKeys : ceiling[k] # None => b[k] # None /\ b[k] <= ceiling[k]
Narrower(after, before) ==
  /\ after.trust <= before.trust /\ after.permissions \subseteq before.permissions
  /\ after.reach \subseteq before.reach /\ BudgetWithin(after.budget, before.budget)
(* intersectBudgets(): the least of the declared limits, if there is one.    *)
IntersectBudgets(b, budgets) ==
  \A k \in BudgetKeys :
    LET declared == {x[k] : x \in budgets} \ {None} IN
    IF declared = {} THEN b[k] = None ELSE b[k] \in declared /\ \A v \in declared : b[k] <= v
Constrained(values, ceilings) == {v \in values : \A c \in ceilings \ {None} : v \in c}

(* What invoke() asks before any authorizer is heard.                        *)
Admits(capability, request) ==
  /\ request.scope \in capability.scopes /\ capability.permissions \subseteq request.permissions
  /\ capability.trust <= request.trust /\ capability.executable
(* list() as the bridge calls it, with its own ceilings as the query.        *)
Listed(request) ==
  {c \in catalog : /\ request.scope \in c.scopes /\ c.permissions \subseteq request.permissions
                   /\ c.trust <= request.trust /\ c.executable}

(* resolve(): registered layers and the layers of the call; the trust that   *)
(* is asked for must survive them all.                                       *)
TrustAllowed(authority, layers) == \A l \in layers : l.trust # None => authority.trust <= l.trust
Resolve(authority, layers, next) ==
  /\ next.trust = authority.trust
  /\ next.permissions = Constrained(authority.permissions, {l.permissions : l \in layers})
  /\ next.reach = Constrained(authority.reach, {l.reach : l \in layers})
  /\ IntersectBudgets(next.budget, {authority.budget} \cup {l.budget : l \in layers})
(* Any other authorizer: it drops permissions or trust, throws, or answers   *)
(* with more than it was given.                                              *)
Decides(a, authority, next) ==
  next = [authority EXCEPT !.permissions = IF a.widens THEN Permissions ELSE @ \ a.narrows,
                           !.trust = IF a.ceiling < @ THEN a.ceiling ELSE @]

(* The rank of an authorizer is its place by priority and then by id.        *)
CompareAuthorizers(a, rest) == \A b \in rest : a.rank <= b.rank

-----------------------------------------------------------------------------
Change ==
  /\ deciding = None /\ changes < MaxChanges /\ changes' = changes + 1
  /\ UNCHANGED <<deciding, running, journal>>
Register(c) ==
  /\ \A d \in catalog : d.id # c.id
  /\ catalog' = catalog \cup {c} /\ UNCHANGED <<authorizers, policies>>
RegisterAuthorizer(a) ==
  /\ \A b \in authorizers : b.id # a.id
  /\ authorizers' = authorizers \cup {a} /\ UNCHANGED <<catalog, policies>>
RegisterLayer(l) ==
  /\ \A m \in policies : m.name # l.name
  /\ policies' = policies \cup {l} /\ UNCHANGED <<catalog, authorizers>>
Dispose ==
  \/ \E c \in catalog : catalog' = catalog \ {c} /\ UNCHANGED <<authorizers, policies>>
  \/ \E a \in authorizers : authorizers' = authorizers \ {a} /\ UNCHANGED <<catalog, policies>>
  \/ \E l \in policies : policies' = policies \ {l} /\ UNCHANGED <<catalog, authorizers>>
Changes ==
  /\ Change
  /\ \/ \E c \in Capabilities : Register(c)
     \/ \E a \in Authorizers : RegisterAuthorizer(a)
     \/ \E l \in Layers : RegisterLayer(l)
     \/ Dispose

Settled(call, status) == journal' = [journal EXCEPT ![call].settled = status]
Denied(call) == deciding' = None /\ Settled(call, "denied") /\ UNCHANGED running

(* invoke() up to its loop: the authority it starts from is the capability's *)
(* own, under the budget of both.                                            *)
Invoke(call, request) ==
  /\ deciding = None /\ running[call] = None /\ journal[call].settled = None
  /\ UNCHANGED <<catalog, authorizers, policies, changes>>
  /\ \/ /\ \A c \in catalog : c.id # request.capability \/ ~Admits(c, request)
        /\ Denied(call)
     \/ \E c \in catalog, budget \in Budgets :
          /\ c.id = request.capability /\ Admits(c, request)
          /\ IntersectBudgets(budget, {c.budget, request.budget})
          /\ deciding' = [call |-> call, request |-> request, capability |-> c,
                          authority |-> [permissions |-> c.permissions, trust |-> c.trust,
                                         budget |-> budget, reach |-> request.reach],
                          rest |-> authorizers,
                          due |-> IF \E a \in authorizers : a.policy THEN policies \cup request.layers ELSE {}]
          /\ UNCHANGED <<running, journal>>

(* One turn of the loop.                                                     *)
Narrowed(next) ==
  /\ Narrower(next, deciding.authority)
  /\ UNCHANGED <<running, journal>>
(* A plausible slip: the ceilings named by the call are not heard.           *)
SlipAuthorizeByPolicy(a) ==
  LET layers == policies IN
  \/ ~TrustAllowed(deciding.authority, layers) /\ Denied(deciding.call)
  \/ /\ TrustAllowed(deciding.authority, layers)
     /\ \E next \in Authorities :
          /\ Resolve(deciding.authority, layers, next) /\ Narrowed(next)
          /\ deciding' = [deciding EXCEPT !.authority = next, !.rest = @ \ {a}]
AuthorizeByPolicy(a) ==
  LET layers == policies \cup deciding.request.layers IN
  \/ ~TrustAllowed(deciding.authority, layers) /\ Denied(deciding.call)
  \/ /\ TrustAllowed(deciding.authority, layers)
     /\ \E next \in Authorities :
          /\ Resolve(deciding.authority, layers, next) /\ Narrowed(next)
          /\ deciding' = [deciding EXCEPT !.authority = next, !.rest = @ \ {a}]
AuthorizeByOther(a) ==
  \/ a.narrows = None /\ Denied(deciding.call)
  \/ /\ a.narrows # None
     /\ \E next \in Authorities :
          /\ Decides(a, deciding.authority, next)
          /\ \/ ~Narrower(next, deciding.authority) /\ Denied(deciding.call)
             \/ /\ Narrowed(next)
                /\ deciding' = [deciding EXCEPT !.authority = next, !.rest = @ \ {a}]
Authorize ==
  /\ deciding # None
  /\ \E a \in deciding.rest :
       /\ CompareAuthorizers(a, deciding.rest)
       /\ \/ a.policy /\ AuthorizeByPolicy(a)
          \/ ~a.policy /\ AuthorizeByOther(a)
  /\ UNCHANGED <<catalog, authorizers, policies, changes>>

DescriptorGranted(capability, authority) ==
  capability.trust <= authority.trust /\ capability.permissions \subseteq authority.permissions
(* The end of the loop: assertDescriptorAuthority(), onAuthorized(), which   *)
(* may throw before it has recorded the authorization, and invoke.           *)
Start ==
  /\ deciding # None /\ deciding.rest = {}
  /\ \/ ~DescriptorGranted(deciding.capability, deciding.authority) /\ Denied(deciding.call)
     \/ DescriptorGranted(deciding.capability, deciding.authority) /\ Denied(deciding.call)
     \/ /\ DescriptorGranted(deciding.capability, deciding.authority)
        /\ deciding' = None
        /\ running' = [running EXCEPT ![deciding.call] =
             [request |-> deciding.request, capability |-> deciding.capability,
              authority |-> deciding.authority, due |-> deciding.due]]
        /\ journal' = [journal EXCEPT ![deciding.call].authorized = deciding.authority]
  /\ UNCHANGED <<catalog, authorizers, policies, changes>>
(* The adapter answers or throws: the bridge tells a failure from a denial   *)
(* by the authorization it finds in the Session.                             *)
Settle(call) ==
  /\ deciding = None /\ running[call] # None
  /\ running' = [running EXCEPT ![call] = None]
  /\ \/ Settled(call, "completed")
     \/ Settled(call, IF journal[call].authorized # None THEN "failed" ELSE "denied")
  /\ UNCHANGED <<catalog, authorizers, policies, deciding, changes>>

Next ==
  \/ Changes \/ Authorize \/ Start
  \/ \E call \in Calls : Settle(call) \/ \E request \in Requests : Invoke(call, request)

Spec == Init /\ [][Next]_auVars

-----------------------------------------------------------------------------
WithinLayer(authority, l) ==
  /\ l.permissions # None => authority.permissions \subseteq l.permissions
  /\ l.trust # None => authority.trust <= l.trust
  /\ l.reach # None => authority.reach \subseteq l.reach
  /\ BudgetWithin(authority.budget, l.budget)
WithinCaller(authority, request) ==
  /\ authority.permissions \subseteq request.permissions /\ authority.trust <= request.trust
  /\ authority.reach \subseteq request.reach /\ BudgetWithin(authority.budget, request.budget)

(* What an adapter runs under is never more than what its caller was given   *)
(* or than any ceiling that was registered or named by the call when it was  *)
(* authorized, whatever the authorizers answer and in whatever order they    *)
(* are heard, and it is all that the capability asks for.                    *)
AuthorityNeverWidens ==
  \A call \in Calls :
    LET r == running[call] IN
    r # None =>
      /\ WithinCaller(r.authority, r.request) /\ \A l \in r.due : WithinLayer(r.authority, l)
      /\ r.authority.permissions = r.capability.permissions /\ r.authority.trust = r.capability.trust
      /\ BudgetWithin(r.authority.budget, r.capability.budget)

==============================================================================
