-------------------------- MODULE ExecutionProofs --------------------------
(***************************************************************************)
(* Proofs about what runs in the Host and what gives and bounds its right  *)
(* to act, for any capabilities, Pipelines and callers.                    *)
(*   Authority: an adapter never runs under more than its caller and every *)
(*     ceiling that was due allow.                                         *)
(*   HarnessBridge: the catalog shows what the registries hold, and every  *)
(*     way to a backend or a side effect demands its permission.           *)
(*   SidecarJobs: capabilities follow the Sidecars, a stage asks for no    *)
(*     more than its Job was given, outputs are bounded, Sessions replay,  *)
(*     an unload takes every Job with it.                                  *)
(*   AgentRuns: the catalog offers the roles that can be routed, and a     *)
(*     child is told of from its start to its one end.                     *)
(*   PipelineRegistry: a captured plan is closed and terminates.           *)
(* ExecutionMC gives values to the constants.                              *)
(***************************************************************************)
EXTENDS Authority, Integers, Sequences, FiniteSetTheorems, NaturalsInduction, TLAPS

CONSTANTS
  Names, Hidden, Trust, Kinds, Demands, BridgeCalls, Contested, MaxBridgeChanges,
  PipelineDefs, Owners, Grants, TurnIds, Results, OutputLimit, NoticeSize, MaxJobs, MaxEdits,
  RoleDefs, ProviderDefs, Taken, Order, Transports, Inputs, MaxRuns, MaxRoleChanges, MaxFailures,
  PlannedPipelines, Definitions
VARIABLES
  phase, native, mirror, taken, waiting, lookup, failed, overlapped, stores, said, bridgeChanges,
  pipelines, published, sidecarCalls, jobs, active, journals, lifecycle, drain, requested, edits,
  roles, providers, roleCatalog, roleHandles, providerHandles, delegations, session, open, roleChanges, failures,
  definitions, captured, answer

RunRecords == [request: Requests, capability: Capabilities, authority: Authorities, due: SUBSET Layers]
DecisionRecords == [call: Calls, request: Requests, capability: Capabilities, authority: Authorities,
                    rest: SUBSET Authorizers, due: SUBSET Layers]

TypeInv ==
  /\ catalog \subseteq Capabilities /\ authorizers \subseteq Authorizers /\ policies \subseteq Layers
  /\ deciding # None => deciding \in DecisionRecords
  /\ running \in [Calls -> RunRecords \cup {None}]

(* What holds between two turns of the loop: the authority is within the     *)
(* caller's and the capability's, and the ceilings are either still to be    *)
(* heard, by a policy authorizer, or respected.                              *)
LoopInv ==
  deciding # None =>
    /\ WithinCaller(deciding.authority, deciding.request)
    /\ deciding.authority.permissions \subseteq deciding.capability.permissions
    /\ deciding.authority.trust <= deciding.capability.trust
    /\ BudgetWithin(deciding.authority.budget, deciding.capability.budget)
    /\ deciding.due \subseteq policies \cup deciding.request.layers
    /\ \/ \E a \in deciding.rest : a.policy
       \/ \A l \in deciding.due : WithinLayer(deciding.authority, l)

IInv == TypeInv /\ LoopInv /\ AuthorityNeverWidens

(* A limit within a limit that is within a third one is within the third.    *)
LEMMA BudgetTransitive ==
  ASSUME NEW a \in Budgets, NEW b \in Budgets, NEW c \in Budgets, BudgetWithin(a, b), BudgetWithin(b, c)
  PROVE  BudgetWithin(a, c)
<1> SUFFICES ASSUME NEW k \in BudgetKeys, c[k] # None PROVE a[k] # None /\ a[k] <= c[k]
    BY DEF BudgetWithin
<1>1. b[k] # None /\ b[k] <= c[k] BY DEF BudgetWithin
<1>2. a[k] # None /\ a[k] <= b[k] BY <1>1 DEF BudgetWithin
<1>3. a[k] \in Nat /\ b[k] \in Nat /\ c[k] \in Nat BY <1>1, <1>2, LimitsAssumption DEF Budgets
<1> QED BY <1>1, <1>2, <1>3

(* What an intersection of budgets answers is within each of them.           *)
LEMMA IntersectionWithin ==
  ASSUME NEW b \in Budgets, NEW budgets, IntersectBudgets(b, budgets), NEW x \in budgets
  PROVE  BudgetWithin(b, x)
<1> SUFFICES ASSUME NEW k \in BudgetKeys, x[k] # None PROVE b[k] # None /\ b[k] <= x[k]
    BY DEF BudgetWithin
<1> DEFINE declared == {y[k] : y \in budgets} \ {None}
<1>1. x[k] \in declared OBVIOUS
<1>2. b[k] \in declared /\ \A v \in declared : b[k] <= v BY <1>1 DEF IntersectBudgets
<1> QED BY <1>1, <1>2

(* Narrowing keeps an authority within its caller and within a ceiling.      *)
LEMMA NarrowerKeeps ==
  ASSUME NEW a \in Authorities, NEW b \in Authorities, Narrower(b, a)
  PROVE  /\ \A request \in Requests : WithinCaller(a, request) => WithinCaller(b, request)
         /\ \A l \in Layers : WithinLayer(a, l) => WithinLayer(b, l)
         /\ \A budget \in Budgets : BudgetWithin(a.budget, budget) => BudgetWithin(b.budget, budget)
<1>1. a.trust \in Nat /\ b.trust \in Nat /\ b.trust <= a.trust BY DEF Authorities, Trusts, Narrower
<1>2. a.budget \in Budgets /\ b.budget \in Budgets /\ BudgetWithin(b.budget, a.budget)
      BY DEF Authorities, Narrower
<1>3. \A budget \in Budgets : BudgetWithin(a.budget, budget) => BudgetWithin(b.budget, budget)
      BY <1>2, BudgetTransitive
<1>4. ASSUME NEW request \in Requests, WithinCaller(a, request) PROVE WithinCaller(b, request)
  <2>1. request.budget \in Budgets /\ request.trust \in Nat
        BY RecordsAssumption DEF RequestRecords, Trusts
  <2> QED BY <1>1, <1>3, <1>4, <2>1 DEF WithinCaller, Narrower
<1>5. ASSUME NEW l \in Layers, WithinLayer(a, l) PROVE WithinLayer(b, l)
  <2>1. l.budget \in Budgets /\ (l.trust # None => l.trust \in Nat)
        BY RecordsAssumption DEF LayerRecords, Trusts
  <2> QED BY <1>1, <1>3, <1>5, <2>1 DEF WithinLayer, Narrower
<1> QED BY <1>3, <1>4, <1>5

(* What the policy answers is within every layer that it heard.              *)
LEMMA ResolveFits ==
  ASSUME NEW a \in Authorities, NEW next \in Authorities, NEW layers \in SUBSET Layers,
         Resolve(a, layers, next), TrustAllowed(a, layers), NEW l \in layers
  PROVE  WithinLayer(next, l)
<1>1. l.permissions # None => next.permissions \subseteq l.permissions BY DEF Resolve, Constrained
<1>2. l.reach # None => next.reach \subseteq l.reach BY DEF Resolve, Constrained
<1>3. l.trust # None => next.trust <= l.trust BY DEF Resolve, TrustAllowed
<1>4. BudgetWithin(next.budget, l.budget)
  <2>1. next.budget \in Budgets BY DEF Authorities
  <2>2. l.budget \in {a.budget} \cup {m.budget : m \in layers} OBVIOUS
  <2> QED BY <2>1, <2>2, IntersectionWithin DEF Resolve
<1> QED BY <1>1, <1>2, <1>3, <1>4 DEF WithinLayer

(* The loop starts within the caller's authority and the capability's.       *)
LEMMA InvokeKeeps ==
  ASSUME IInv, NEW call \in Calls, NEW request \in Requests, Invoke(call, request)
  PROVE  IInv'
<1> USE DEF IInv
<1>1. CASE deciding' = None
  <2>1. UNCHANGED <<catalog, authorizers, policies, running>>
        BY <1>1 DEF Invoke, Denied
  <2> QED BY <1>1, <2>1 DEF TypeInv, LoopInv, AuthorityNeverWidens
<1>2. CASE deciding' # None
  <2>1. PICK c \in catalog, budget \in Budgets :
          /\ Admits(c, request) /\ IntersectBudgets(budget, {c.budget, request.budget})
          /\ deciding' = [call |-> call, request |-> request, capability |-> c,
                          authority |-> [permissions |-> c.permissions, trust |-> c.trust,
                                         budget |-> budget, reach |-> request.reach],
                          rest |-> authorizers,
                          due |-> IF \E a \in authorizers : a.policy THEN policies \cup request.layers ELSE {}]
        BY <1>2 DEF Invoke, Denied
  <2>2. UNCHANGED <<catalog, authorizers, policies, running>>
        BY <1>2 DEF Invoke, Denied
  <2>3. c \in CapabilityRecords /\ request \in RequestRecords /\ c \in Capabilities
        BY RecordsAssumption DEF TypeInv
  <2>4. BudgetWithin(budget, c.budget) /\ BudgetWithin(budget, request.budget)
        BY <2>1, IntersectionWithin
  <2>5. [permissions |-> c.permissions, trust |-> c.trust, budget |-> budget, reach |-> request.reach]
          \in Authorities
        BY <2>3 DEF CapabilityRecords, RequestRecords, Authorities
  <2>6. deciding'.due \subseteq policies \cup request.layers /\ deciding'.due \subseteq Layers
        BY <2>1, <2>3 DEF TypeInv, RequestRecords
  <2>7. deciding' \in DecisionRecords
        BY <2>1, <2>3, <2>5, <2>6 DEF DecisionRecords, TypeInv
  <2>8. TypeInv' BY <2>2, <2>7 DEF TypeInv
  <2>9. LoopInv'
    <3>1. c.trust <= request.trust /\ c.trust \in Nat /\ request.trust \in Nat
          BY <2>1, <2>3 DEF Admits, CapabilityRecords, RequestRecords, Trusts
    <3>2. WithinCaller(deciding'.authority, deciding'.request)
          BY <2>1, <2>4, <3>1 DEF WithinCaller, Admits
    <3>3. (\E a \in deciding'.rest : a.policy) \/ deciding'.due = {}
          BY <2>1
    <3> QED BY <2>1, <2>2, <2>4, <2>6, <3>1, <3>2, <3>3 DEF LoopInv
  <2> QED BY <2>2, <2>8, <2>9 DEF AuthorityNeverWidens
<1> QED BY <1>1, <1>2

(* A turn of the loop that is not refused keeps what holds between turns.    *)
LEMMA TurnKeeps ==
  ASSUME IInv, deciding # None, NEW a \in deciding.rest, NEW next \in Authorities,
         Narrower(next, deciding.authority),
         a.policy => \A l \in policies \cup deciding.request.layers : WithinLayer(next, l),
         deciding' = [deciding EXCEPT !.authority = next, !.rest = @ \ {a}],
         UNCHANGED <<catalog, authorizers, policies, running>>
  PROVE  IInv'
<1> USE DEF IInv
<1>1. deciding \in DecisionRecords BY DEF TypeInv
<1>2. /\ deciding'.authority = next /\ deciding'.rest = deciding.rest \ {a}
      /\ deciding'.request = deciding.request /\ deciding'.capability = deciding.capability
      /\ deciding'.due = deciding.due /\ deciding'.call = deciding.call /\ deciding' \in DecisionRecords
      BY <1>1 DEF DecisionRecords
<1>3. /\ deciding.authority \in Authorities /\ deciding.request \in Requests
      /\ deciding.capability \in Capabilities /\ deciding.due \subseteq Layers
      BY <1>1 DEF DecisionRecords
<1>4. deciding.capability.budget \in Budgets /\ deciding.capability.trust \in Nat
      BY <1>3, RecordsAssumption DEF CapabilityRecords, Trusts
<1>5. TypeInv' BY <1>2 DEF TypeInv
<1>6. LoopInv'
  <2>1. WithinCaller(next, deciding.request) BY <1>3, NarrowerKeeps DEF LoopInv
  <2>2. BudgetWithin(next.budget, deciding.capability.budget) BY <1>3, <1>4, NarrowerKeeps DEF LoopInv
  <2>3. next.permissions \subseteq deciding.capability.permissions BY DEF LoopInv, Narrower
  <2>4. next.trust <= deciding.capability.trust
        BY <1>3, <1>4 DEF LoopInv, Narrower, Authorities, Trusts
  <2>5. (\E b \in deciding.rest \ {a} : b.policy) \/ \A l \in deciding.due : WithinLayer(next, l)
    <3>1. CASE a.policy BY <3>1 DEF LoopInv
    <3>2. CASE ~a.policy /\ \E b \in deciding.rest : b.policy BY <3>2
    <3>3. CASE \A l \in deciding.due : WithinLayer(deciding.authority, l)
          BY <3>3, <1>3, NarrowerKeeps
    <3> QED BY <3>1, <3>2, <3>3 DEF LoopInv
  <2> QED BY <1>2, <2>1, <2>2, <2>3, <2>4, <2>5 DEF LoopInv
<1> QED BY <1>5, <1>6 DEF AuthorityNeverWidens

LEMMA AuthorizeKeeps ==
  ASSUME IInv, Authorize
  PROVE  IInv'
<1> USE DEF IInv
<1>0. deciding # None /\ UNCHANGED <<catalog, authorizers, policies>> BY DEF Authorize
<1>1. PICK a \in deciding.rest : (a.policy /\ AuthorizeByPolicy(a)) \/ (~a.policy /\ AuthorizeByOther(a))
      BY DEF Authorize
<1>2. ASSUME Denied(deciding.call) PROVE IInv'
      BY <1>0, <1>2 DEF Denied, TypeInv, LoopInv, AuthorityNeverWidens
<1>3. ASSUME a.policy, AuthorizeByPolicy(a), ~Denied(deciding.call) PROVE IInv'
  <2> DEFINE layers == policies \cup deciding.request.layers
  <2>1. PICK next \in Authorities :
          /\ TrustAllowed(deciding.authority, layers) /\ Resolve(deciding.authority, layers, next)
          /\ Narrower(next, deciding.authority) /\ UNCHANGED running
          /\ deciding' = [deciding EXCEPT !.authority = next, !.rest = @ \ {a}]
        BY <1>3 DEF AuthorizeByPolicy, Narrowed
  <2>2. deciding.authority \in Authorities /\ layers \in SUBSET Layers
        BY <1>0, RecordsAssumption DEF TypeInv, DecisionRecords, RequestRecords
  <2>3. \A l \in layers : WithinLayer(next, l) BY <2>1, <2>2, ResolveFits
  <2> QED BY <1>0, <2>1, <2>3, TurnKeeps
<1>4. ASSUME ~a.policy, AuthorizeByOther(a), ~Denied(deciding.call) PROVE IInv'
  <2>1. PICK next \in Authorities :
          /\ Narrower(next, deciding.authority) /\ UNCHANGED running
          /\ deciding' = [deciding EXCEPT !.authority = next, !.rest = @ \ {a}]
        BY <1>4 DEF AuthorizeByOther, Narrowed
  <2> QED BY <1>0, <1>4, <2>1, TurnKeeps
<1> QED BY <1>1, <1>2, <1>3, <1>4

(* The adapter starts under what the loop ended with.                        *)
LEMMA StartKeeps ==
  ASSUME IInv, Start
  PROVE  IInv'
<1> USE DEF IInv
<1>0. deciding # None /\ deciding.rest = {} /\ deciding' = None /\ UNCHANGED <<catalog, authorizers, policies>>
      BY DEF Start, Denied
<1>1. CASE running' = running
      BY <1>0, <1>1 DEF TypeInv, LoopInv, AuthorityNeverWidens
<1>2. CASE running' # running
  <2> DEFINE r == [request |-> deciding.request, capability |-> deciding.capability,
                   authority |-> deciding.authority, due |-> deciding.due]
  <2>1. running' = [running EXCEPT ![deciding.call] = r] /\ DescriptorGranted(deciding.capability, deciding.authority)
        BY <1>2 DEF Start, Denied
  <2>2. deciding \in DecisionRecords /\ r \in RunRecords
        BY <1>0 DEF TypeInv, DecisionRecords, RunRecords
  <2>3. deciding.authority.trust = deciding.capability.trust
    <3>1. deciding.authority.trust \in Nat /\ deciding.capability.trust \in Nat
          BY <2>2, RecordsAssumption DEF DecisionRecords, Authorities, CapabilityRecords, Trusts
    <3> QED BY <1>0, <2>1, <3>1 DEF LoopInv, DescriptorGranted
  <2>4. deciding.authority.permissions = deciding.capability.permissions
        BY <1>0, <2>1 DEF LoopInv, DescriptorGranted
  <2>5. \A l \in deciding.due : WithinLayer(deciding.authority, l) BY <1>0 DEF LoopInv
  <2>6. AuthorityNeverWidens'
    <3> SUFFICES ASSUME NEW call \in Calls, running'[call] # None
                 PROVE  LET q == running'[call] IN
                          /\ WithinCaller(q.authority, q.request) /\ \A l \in q.due : WithinLayer(q.authority, l)
                          /\ q.authority.permissions = q.capability.permissions
                          /\ q.authority.trust = q.capability.trust
                          /\ BudgetWithin(q.authority.budget, q.capability.budget)
        BY DEF AuthorityNeverWidens
    <3>1. CASE call # deciding.call
          BY <2>1, <3>1 DEF TypeInv, AuthorityNeverWidens
    <3>2. CASE call = deciding.call
      <4>1. running'[call] = r BY <2>1, <3>2 DEF TypeInv
      <4> QED BY <1>0, <2>3, <2>4, <2>5, <4>1 DEF LoopInv
    <3> QED BY <3>1, <3>2
  <2>7. TypeInv' BY <1>0, <2>1, <2>2 DEF TypeInv
  <2> QED BY <1>0, <2>6, <2>7 DEF LoopInv
<1> QED BY <1>1, <1>2

(* The invariant is inductive.                                               *)
THEOREM AuthorityInductive == IInv /\ [Next]_auVars => IInv'
<1> SUFFICES ASSUME IInv, [Next]_auVars PROVE IInv'
    OBVIOUS
<1>1. CASE Changes
  <2>1. deciding = None /\ UNCHANGED <<deciding, running>> BY <1>1 DEF Changes, Change
  <2>2. /\ catalog' \subseteq Capabilities /\ authorizers' \subseteq Authorizers /\ policies' \subseteq Layers
        BY <1>1 DEF Changes, Register, RegisterAuthorizer, RegisterLayer, Dispose, IInv, TypeInv
  <2> QED BY <2>1, <2>2 DEF IInv, TypeInv, LoopInv, AuthorityNeverWidens
<1>2. CASE Authorize BY <1>2, AuthorizeKeeps
<1>3. CASE Start BY <1>3, StartKeeps
<1>4. ASSUME NEW call \in Calls, Settle(call) PROVE IInv'
  <2>1. /\ running' = [running EXCEPT ![call] = None]
        /\ UNCHANGED <<catalog, authorizers, policies, deciding>>
        BY <1>4 DEF Settle
  <2>2. TypeInv' BY <2>1 DEF IInv, TypeInv
  <2>3. LoopInv' BY <2>1 DEF IInv, LoopInv
  <2>4. AuthorityNeverWidens' BY <2>1 DEF IInv, TypeInv, AuthorityNeverWidens
  <2> QED BY <2>2, <2>3, <2>4 DEF IInv
<1>5. ASSUME NEW call \in Calls, NEW request \in Requests, Invoke(call, request) PROVE IInv'
      BY <1>5, InvokeKeeps
<1>6. CASE UNCHANGED auVars
      BY <1>6 DEF auVars, IInv, TypeInv, LoopInv, AuthorityNeverWidens
<1> QED BY <1>1, <1>2, <1>3, <1>4, <1>5, <1>6 DEF Next

(* RpCapabilityCatalog.invoke() with any authorizers beside the policy: an   *)
(* adapter never runs under more authority than its caller, its capability   *)
(* and the ceilings that were due grant it.                                  *)
THEOREM AuthorityIsNarrow == Spec => []AuthorityNeverWidens
<1>1. Init => IInv BY DEF Init, IInv, TypeInv, LoopInv, AuthorityNeverWidens
<1>2. IInv => AuthorityNeverWidens BY DEF IInv
<1> QED BY <1>1, <1>2, AuthorityInductive, PTL DEF Spec

-----------------------------------------------------------------------------
(* The bridge to the Harness.                                               *)
Bridge == INSTANCE HarnessBridge WITH
  Calls <- BridgeCalls, MaxChanges <- MaxBridgeChanges, changes <- bridgeChanges, answer <- said

(* The catalog shows what the registries hold, and no way through the bridge *)
(* leads to a backend or a side effect without the permission it demands.    *)
(* (harness-bridge)                                                          *)
BridgeIsSound == Bridge!BridgeIsSound

(* Trust levels are the code's L0, L1 and L2; a call names something that    *)
(* the catalog may hold.                                                    *)
BridgeAssumption ==
  /\ \A g \in {"pipelines", "backends"} : \A n \in Names[g] : Trust[n] \in 0..2
  /\ "any" \notin Names["backends"]
  /\ \A c \in BridgeCalls :
       /\ c.trust \in 0..2
       /\ \/ c.id[1] = "domain" /\ c.id[2] \in DOMAIN Bridge!DomainCapabilities
          \/ c.id[1] \in Bridge!Groups
  /\ \A i \in Contested : i = <<i[1], i[2]>> /\ i[1] \in Bridge!Groups

Lookups == [at : {"none", "asked", "listed"}, list : SUBSET Names["skills"]]
BridgeTyped ==
  /\ phase \in {"idle", "running", "closing", "gone"}
  /\ native \in [Bridge!Groups -> SUBSET UNION {Names[g] : g \in Bridge!Groups}]
  /\ mirror \in [Bridge!Groups -> SUBSET UNION {Names[g] : g \in Bridge!Groups}]
  /\ \A g \in Bridge!Groups : native[g] \subseteq Names[g] /\ mirror[g] \subseteq Names[g]
  /\ waiting \in Nat
  /\ lookup \in [{"first", "chained"} -> Lookups]

(* A question that was answered before the Skills changed again is followed  *)
(* by another one; under the first question, as long as they do not change,  *)
(* there is no other.                                                       *)
SkillsAreAsked ==
  /\ phase = "idle" => /\ \A g \in Bridge!Groups : mirror[g] = {}
                       /\ waiting = 0 /\ failed = {} /\ \A w \in DOMAIN lookup : lookup[w] = Bridge!NoLookup
  /\ phase = "running" =>
       /\ (lookup["chained"].at = "listed" /\ lookup["chained"].list # native["skills"]) => waiting > 0
       /\ (lookup["first"] # Bridge!NoLookup /\ ~overlapped) =>
            /\ waiting = 0 /\ lookup["chained"] = Bridge!NoLookup
            /\ lookup["first"].at = "listed" => lookup["first"].list = native["skills"]

BridgeInv == BridgeTyped /\ SkillsAreAsked /\ Bridge!MirrorIsTrue

LEMMA BridgeStarts == Bridge!Init => BridgeInv /\ Bridge!NoOtherWay
<1> SUFFICES ASSUME Bridge!Init PROVE BridgeInv /\ Bridge!NoOtherWay OBVIOUS
<1> USE DEF Bridge!Init
<1>1. /\ native = [g \in Bridge!Groups |-> {}] /\ mirror = [g \in Bridge!Groups |-> {}]
      /\ phase = "idle" /\ waiting = 0
    OBVIOUS
<1>2. Bridge!NoLookup \in Lookups BY DEF Bridge!NoLookup, Lookups
<1>3. lookup = [w \in {"first", "chained"} |-> Bridge!NoLookup] OBVIOUS
<1>4. lookup \in [{"first", "chained"} -> Lookups] BY <1>2, <1>3
<1>5. BridgeTyped BY <1>1, <1>4 DEF BridgeTyped
<1>6. SkillsAreAsked BY <1>1, <1>3 DEF SkillsAreAsked
<1>7. Bridge!MirrorIsTrue BY <1>1 DEF Bridge!MirrorIsTrue, Bridge!Groups
<1>8. Bridge!NoOtherWay BY DEF Bridge!NoAnswer, Bridge!NoOtherWay
<1> QED BY <1>5, <1>6, <1>7, <1>8 DEF BridgeInv

(* apply(): nothing of it is another plugin's.                              *)
LEMMA ApplyKeeps == ASSUME BridgeInv, Bridge!Apply PROVE BridgeInv'
<1>1. /\ phase = "idle" /\ UNCHANGED <<native, taken, waiting, failed, overlapped>>
      /\ \A g \in Bridge!Groups : mirror[g] = {}
      /\ waiting = 0 /\ failed = {} /\ \A w \in {"first", "chained"} : lookup[w] = Bridge!NoLookup
    BY DEF Bridge!Apply, BridgeInv, SkillsAreAsked, BridgeTyped
<1>2. CASE \E g \in Bridge!Groups \ {"skills"} : Bridge!Conflict(g, native[g])
  <2>1. phase' = "gone" /\ UNCHANGED <<mirror, lookup>> BY <1>2 DEF Bridge!Apply
  <2> QED BY <1>1, <2>1 DEF BridgeInv, BridgeTyped, SkillsAreAsked, Bridge!MirrorIsTrue, Bridge!Groups
<1>3. CASE ~ \E g \in Bridge!Groups \ {"skills"} : Bridge!Conflict(g, native[g])
  <2>1. PICK asked : asked = [at |-> "asked", list |-> {}] OBVIOUS
  <2>2. /\ phase' = "running" /\ mirror' = [g \in Bridge!Groups |-> IF g = "skills" THEN {} ELSE native[g]]
        /\ lookup' = [lookup EXCEPT !["first"] = asked]
      BY <1>3, <2>1 DEF Bridge!Apply
  <2>3. asked \in Lookups /\ asked.at = "asked" BY <2>1 DEF Lookups
  <2>4. /\ lookup' \in [{"first", "chained"} -> Lookups]
        /\ lookup'["first"] = asked /\ lookup'["chained"] = Bridge!NoLookup
      BY <1>1, <2>2, <2>3 DEF BridgeInv, BridgeTyped
  <2>5. \A g \in Bridge!Groups : mirror'[g] = IF g = "skills" THEN {} ELSE native[g] BY <2>2
  <2>6. mirror' \in [Bridge!Groups -> SUBSET UNION {Names[g] : g \in Bridge!Groups}]
      BY <2>2 DEF BridgeInv, BridgeTyped
  <2>7. BridgeTyped' BY <1>1, <2>2, <2>4, <2>5, <2>6 DEF BridgeInv, BridgeTyped
  <2>8. SkillsAreAsked' BY <1>1, <2>2, <2>3, <2>4 DEF SkillsAreAsked, Bridge!NoLookup
  <2>9. asked # Bridge!NoLookup BY <2>3 DEF Bridge!NoLookup
  <2>10. DOMAIN lookup' = {"first", "chained"} BY <2>4
  <2>11. ~Bridge!Quiet' BY <2>4, <2>9, <2>10 DEF Bridge!Quiet
  <2>12. \A g \in Bridge!Groups : \A n \in mirror'[g] : <<g, n>> \notin taken
      BY <1>3, <2>5 DEF Bridge!Conflict
  <2>13. Bridge!MirrorIsTrue'
      BY <1>1, <2>2, <2>5, <2>11, <2>12 DEF Bridge!MirrorIsTrue, Bridge!Groups
  <2> QED BY <2>7, <2>8, <2>13 DEF BridgeInv
<1> QED BY <1>2, <1>3

(* One group is made anew, or withdrawn when another plugin has a name of it.*)
LEMMA SyncIsTrue ==
  ASSUME BridgeInv, NEW group \in Bridge!Groups, NEW names \in SUBSET Names[group], Bridge!Sync(group, names),
         UNCHANGED taken
  PROVE  /\ mirror' \in [Bridge!Groups -> SUBSET UNION {Names[g] : g \in Bridge!Groups}]
         /\ \A g \in Bridge!Groups \ {group} : mirror'[g] = mirror[g] /\ (g \in failed' <=> g \in failed)
         /\ phase # "running" => mirror' = mirror /\ failed' = failed
         /\ phase = "running" => mirror'[group] = IF group \in failed' THEN {} ELSE names
         /\ \A n \in mirror'[group] : n \in mirror[group] \/ n \in names
         /\ \A g \in Bridge!Groups : \A n \in mirror'[g] : <<g, n>> \notin taken'
<1>1. CASE phase # "running"
  <2>1. mirror' = mirror /\ failed' = failed BY <1>1 DEF Bridge!Sync
  <2> QED BY <1>1, <2>1 DEF BridgeInv, BridgeTyped, Bridge!MirrorIsTrue
<1>2. CASE phase = "running"
  <2>1. PICK new : new = IF Bridge!Conflict(group, names) THEN {} ELSE names OBVIOUS
  <2>2. /\ mirror' = [mirror EXCEPT ![group] = new]
        /\ failed' = IF Bridge!Conflict(group, names) THEN failed \cup {group} ELSE failed \ {group}
      BY <1>2, <2>1 DEF Bridge!Sync, Bridge!Replace
  <2>3. new \in SUBSET UNION {Names[g] : g \in Bridge!Groups} BY <2>1
  <2>4. /\ mirror' \in [Bridge!Groups -> SUBSET UNION {Names[g] : g \in Bridge!Groups}]
        /\ mirror'[group] = new /\ \A g \in Bridge!Groups \ {group} : mirror'[g] = mirror[g]
      BY <2>2, <2>3 DEF BridgeInv, BridgeTyped
  <2>5. \A n \in new : <<group, n>> \notin taken BY <2>1 DEF Bridge!Conflict
  <2>6. \A g \in Bridge!Groups : \A n \in mirror'[g] : <<g, n>> \notin taken'
      BY <2>4, <2>5 DEF BridgeInv, Bridge!MirrorIsTrue
  <2>7. mirror'[group] = IF group \in failed' THEN {} ELSE names BY <2>1, <2>2, <2>4
  <2>8. \A g \in Bridge!Groups \ {group} : g \in failed' <=> g \in failed BY <2>2
  <2> QED BY <1>2, <2>4, <2>6, <2>7, <2>8
<1> QED BY <1>1, <1>2

LEMMA RegistriesKeep ==
  ASSUME BridgeInv, NEW group \in Bridge!Groups, NEW names \in SUBSET Names[group],
         Bridge!RegistryChanges(group, names)
  PROVE  BridgeInv'
<1>1. native' = [native EXCEPT ![group] = names] /\ UNCHANGED <<phase, taken, lookup>> BY DEF Bridge!RegistryChanges
<1>2. /\ native' \in [Bridge!Groups -> SUBSET UNION {Names[g] : g \in Bridge!Groups}]
      /\ native'[group] = names /\ \A g \in Bridge!Groups \ {group} : native'[g] = native[g]
  <2>1. names \in SUBSET UNION {Names[g] : g \in Bridge!Groups} OBVIOUS
  <2> QED BY <1>1, <2>1 DEF BridgeInv, BridgeTyped
<1>3. CASE phase \in {"idle", "gone"}
  <2>1. UNCHANGED <<mirror, failed, waiting, overlapped>> BY <1>3 DEF Bridge!RegistryChanges
  <2> QED BY <1>1, <1>2, <1>3, <2>1 DEF BridgeInv, BridgeTyped, SkillsAreAsked, Bridge!MirrorIsTrue
<1>4. CASE phase \in {"running", "closing"} /\ group = "skills"
  <2>1. /\ waiting' = waiting + 1 /\ overlapped' = (overlapped \/ lookup["first"] # Bridge!NoLookup)
        /\ UNCHANGED <<mirror, failed>>
      BY <1>4 DEF Bridge!RegistryChanges
  <2>2. waiting' \in Nat /\ waiting' > 0 BY <2>1 DEF BridgeInv, BridgeTyped
  <2>3. BridgeTyped' BY <1>1, <1>2, <2>1, <2>2 DEF BridgeInv, BridgeTyped
  <2>4. SkillsAreAsked' BY <1>1, <1>4, <2>1, <2>2 DEF SkillsAreAsked
  <2>5. ~Bridge!Quiet' BY <2>2 DEF Bridge!Quiet
  <2>6. Bridge!MirrorIsTrue' BY <1>1, <1>2, <1>4, <2>1, <2>5 DEF BridgeInv, Bridge!MirrorIsTrue
  <2> QED BY <2>3, <2>4, <2>6 DEF BridgeInv
<1>5. CASE phase \in {"running", "closing"} /\ group # "skills"
  <2>1. Bridge!Sync(group, names) /\ UNCHANGED <<waiting, overlapped>> BY <1>5 DEF Bridge!RegistryChanges
  <2>2. /\ mirror' \in [Bridge!Groups -> SUBSET UNION {Names[g] : g \in Bridge!Groups}]
        /\ \A g \in Bridge!Groups \ {group} : mirror'[g] = mirror[g] /\ (g \in failed' <=> g \in failed)
        /\ phase # "running" => mirror' = mirror /\ failed' = failed
        /\ phase = "running" => mirror'[group] = IF group \in failed' THEN {} ELSE names
        /\ \A n \in mirror'[group] : n \in mirror[group] \/ n \in names
        /\ \A g \in Bridge!Groups : \A n \in mirror'[g] : <<g, n>> \notin taken'
      BY <1>1, <2>1, SyncIsTrue
  <2>3. native'["skills"] = native["skills"] /\ mirror'["skills"] = mirror["skills"]
        /\ ("skills" \in failed' <=> "skills" \in failed)
      BY <1>2, <1>5, <2>2 DEF Bridge!Groups
  <2>4. BridgeTyped' BY <1>1, <1>2, <2>1, <2>2 DEF BridgeInv, BridgeTyped
  <2>5. SkillsAreAsked' BY <1>1, <1>5, <2>1, <2>3 DEF BridgeInv, SkillsAreAsked
  <2>6. Bridge!MirrorIsTrue'
    <3>1. Bridge!Quiet' <=> Bridge!Quiet BY <1>1, <2>1 DEF Bridge!Quiet
    <3>2. phase = "running" => \A g \in Bridge!Groups \ {"skills"} : mirror'[g] = IF g \in failed' THEN {} ELSE native'[g]
        BY <1>2, <1>5, <2>2 DEF BridgeInv, Bridge!MirrorIsTrue
    <3> QED BY <1>1, <1>5, <2>1, <2>2, <2>3, <3>1, <3>2 DEF BridgeInv, Bridge!MirrorIsTrue
  <2> QED BY <2>4, <2>5, <2>6 DEF BridgeInv
<1> QED BY <1>3, <1>4, <1>5 DEF BridgeInv, BridgeTyped

(* A question for the Skills is asked, and the registry answers it.         *)
LEMMA QuestionsKeep ==
  ASSUME BridgeInv, NEW w \in {"first", "chained"},
         Bridge!Ask \/ Bridge!Listed(w) \/ Bridge!ListFails(w)
  PROVE  BridgeInv'
<1> USE DEF BridgeInv, BridgeTyped
<1>1. CASE Bridge!Ask
  <2>1. PICK asked : asked = [at |-> "asked", list |-> {}] OBVIOUS
  <2>2. /\ waiting > 0 /\ lookup["chained"] = Bridge!NoLookup /\ waiting' = waiting - 1
        /\ lookup' = [lookup EXCEPT !["chained"] = asked]
        /\ UNCHANGED <<phase, native, mirror, taken, failed, overlapped>>
      BY <1>1, <2>1 DEF Bridge!Ask
  <2>3. asked \in Lookups /\ asked.at = "asked" /\ asked # Bridge!NoLookup BY <2>1 DEF Lookups, Bridge!NoLookup
  <2>4. /\ lookup' \in [{"first", "chained"} -> Lookups]
        /\ lookup'["chained"] = asked /\ lookup'["first"] = lookup["first"]
      BY <2>2, <2>3
  <2>5. BridgeTyped' BY <2>2, <2>4
  <2>6. SkillsAreAsked' BY <2>2, <2>3, <2>4 DEF SkillsAreAsked
  <2>7. ~Bridge!Quiet' BY <2>3, <2>4 DEF Bridge!Quiet
  <2>8. Bridge!MirrorIsTrue' BY <2>2, <2>7 DEF Bridge!MirrorIsTrue
  <2> QED BY <2>5, <2>6, <2>8
<1>2. CASE Bridge!Listed(w)
  <2>1. PICK listed : listed = [at |-> "listed", list |-> native["skills"]] OBVIOUS
  <2>2. /\ lookup[w].at = "asked" /\ lookup' = [lookup EXCEPT ![w] = listed]
        /\ UNCHANGED <<phase, native, mirror, taken, waiting, failed, overlapped>>
      BY <1>2, <2>1 DEF Bridge!Listed
  <2>3. /\ listed \in Lookups /\ listed.at = "listed" /\ listed.list = native["skills"]
        /\ listed # Bridge!NoLookup /\ lookup[w] # Bridge!NoLookup
      BY <2>1, <2>2 DEF Lookups, Bridge!NoLookup, Bridge!Groups
  <2>4. /\ lookup' \in [{"first", "chained"} -> Lookups] /\ lookup'[w] = listed
        /\ \A v \in {"first", "chained"} \ {w} : lookup'[v] = lookup[v]
      BY <2>2, <2>3
  <2>5. BridgeTyped' BY <2>2, <2>4
  <2>6. SkillsAreAsked' BY <2>2, <2>3, <2>4 DEF SkillsAreAsked
  <2>7. ~Bridge!Quiet' BY <2>3, <2>4 DEF Bridge!Quiet
  <2>8. Bridge!MirrorIsTrue' BY <2>2, <2>7 DEF Bridge!MirrorIsTrue
  <2> QED BY <2>5, <2>6, <2>8
<1>3. CASE Bridge!ListFails(w)
  <2>1. PICK none : none = Bridge!NoLookup OBVIOUS
  <2>2. /\ lookup[w].at = "asked" /\ lookup' = [lookup EXCEPT ![w] = none]
        /\ phase' = IF w = "first" /\ phase = "running" THEN "closing" ELSE phase
        /\ failed' = failed \cup {"skills"} /\ UNCHANGED <<native, mirror, taken, waiting, overlapped>>
      BY <1>3, <2>1 DEF Bridge!ListFails, Bridge!Rejected
  <2>3. none \in Lookups /\ none.at = "none" /\ lookup[w] # none BY <2>1, <2>2 DEF Lookups, Bridge!NoLookup
  <2>4. /\ lookup' \in [{"first", "chained"} -> Lookups] /\ lookup'[w] = none
        /\ \A v \in {"first", "chained"} \ {w} : lookup'[v] = lookup[v]
      BY <2>2, <2>3
  <2>5. BridgeTyped' BY <2>2, <2>4
  <2>6. phase # "idle" BY <2>1, <2>3 DEF SkillsAreAsked
  <2>7. SkillsAreAsked' BY <2>1, <2>2, <2>3, <2>4, <2>6 DEF SkillsAreAsked
  <2>8. Bridge!MirrorIsTrue' BY <2>2, <2>6 DEF Bridge!MirrorIsTrue
  <2> QED BY <2>5, <2>7, <2>8
<1> QED BY <1>1, <1>2, <1>3

(* An answer is put into the mirror: it is the newest, another question      *)
(* waits, or it is the first one's and others have overtaken it.            *)
LEMMA SkillsKeep ==
  ASSUME BridgeInv, NEW w \in {"first", "chained"}, Bridge!SyncSkills(w)
  PROVE  BridgeInv'
<1> USE DEF BridgeInv, BridgeTyped
<1>1. PICK none, names : none = Bridge!NoLookup /\ names = lookup[w].list \ Hidden OBVIOUS
<1>2. /\ lookup[w].at = "listed" /\ lookup' = [lookup EXCEPT ![w] = none] /\ Bridge!Sync("skills", names)
      /\ phase' = phase \/ (phase = "running" /\ w = "first" /\ phase' = "closing")
      /\ UNCHANGED <<native, taken, waiting, overlapped>>
    BY <1>1 DEF Bridge!SyncSkills, Bridge!Invocable, Bridge!Rejected
<1>3. none \in Lookups /\ none.at = "none" /\ lookup[w] # none /\ lookup[w] \in Lookups
    BY <1>1, <1>2 DEF Lookups, Bridge!NoLookup
<1>4. names \in SUBSET Names["skills"] /\ "skills" \in Bridge!Groups BY <1>1, <1>3 DEF Lookups, Bridge!Groups
<1>5. /\ lookup' \in [{"first", "chained"} -> Lookups] /\ lookup'[w] = none
      /\ \A v \in {"first", "chained"} \ {w} : lookup'[v] = lookup[v]
    BY <1>2, <1>3
<1>6. /\ mirror' \in [Bridge!Groups -> SUBSET UNION {Names[g] : g \in Bridge!Groups}]
      /\ \A g \in Bridge!Groups \ {"skills"} : mirror'[g] = mirror[g] /\ (g \in failed' <=> g \in failed)
      /\ phase # "running" => mirror' = mirror /\ failed' = failed
      /\ phase = "running" => mirror'["skills"] = IF "skills" \in failed' THEN {} ELSE names
      /\ \A n \in mirror'["skills"] : n \in mirror["skills"] \/ n \in names
      /\ \A g \in Bridge!Groups : \A n \in mirror'[g] : <<g, n>> \notin taken'
    BY <1>2, <1>4, SyncIsTrue
<1>7. BridgeTyped' BY <1>2, <1>4, <1>5, <1>6
<1>8. phase # "idle" BY <1>1, <1>3 DEF SkillsAreAsked
<1>9. SkillsAreAsked' BY <1>1, <1>2, <1>3, <1>5, <1>8 DEF SkillsAreAsked
<1>10. (phase' = "running" /\ Bridge!Quiet' /\ "skills" \notin failed' /\ ~overlapped') =>
          mirror'["skills"] = Bridge!Invocable(native'["skills"])
  <2> SUFFICES ASSUME phase' = "running", Bridge!Quiet', "skills" \notin failed', ~overlapped'
               PROVE  mirror'["skills"] = Bridge!Invocable(native'["skills"])
      OBVIOUS
  <2>1. phase = "running" /\ waiting = 0 BY <1>2 DEF Bridge!Quiet
  <2>2. lookup[w].list = native["skills"] BY <1>1, <1>2, <1>3, <2>1 DEF SkillsAreAsked
  <2> QED BY <1>1, <1>2, <1>6, <2>1, <2>2 DEF Bridge!Invocable
<1>11. mirror'["skills"] \cap Hidden = {} BY <1>1, <1>6 DEF Bridge!MirrorIsTrue
<1>12. Bridge!MirrorIsTrue'
  <2>1. phase' = "running" => \A g \in Bridge!Groups \ {"skills"} : mirror'[g] = IF g \in failed' THEN {} ELSE native'[g]
      BY <1>2, <1>6 DEF Bridge!MirrorIsTrue
  <2>2. phase' = "gone" => \A g \in Bridge!Groups : mirror'[g] = {} BY <1>2, <1>6 DEF Bridge!MirrorIsTrue
  <2> QED BY <1>6, <1>10, <1>11, <2>1, <2>2 DEF Bridge!MirrorIsTrue
<1> QED BY <1>7, <1>9, <1>12

LEMMA BridgeEndsKeep ==
  ASSUME BridgeInv, Bridge!Dispose \/ Bridge!Release
  PROVE  BridgeInv'
<1> USE DEF BridgeInv, BridgeTyped
<1>1. CASE Bridge!Dispose
    BY <1>1 DEF Bridge!Dispose, SkillsAreAsked, Bridge!MirrorIsTrue
<1>2. CASE Bridge!Release
  <2>1. /\ phase' = "gone" /\ mirror' = [g \in Bridge!Groups |-> {}]
        /\ UNCHANGED <<native, taken, waiting, lookup, failed, overlapped>>
      BY <1>2 DEF Bridge!Release
  <2> QED BY <2>1 DEF SkillsAreAsked, Bridge!MirrorIsTrue, Bridge!Groups
<1> QED BY <1>1, <1>2

(* Another plugin takes an id that the mirror does not hold.                *)
LEMMA ContestedKeep ==
  ASSUME BridgeInv, BridgeAssumption, NEW id \in Contested, Bridge!OtherRegisters(id) \/ Bridge!OtherWithdraws(id)
  PROVE  BridgeInv'
<1>1. UNCHANGED <<phase, native, mirror, waiting, lookup, failed, overlapped>>
    BY DEF Bridge!OtherRegisters, Bridge!OtherWithdraws
<1>2. \A g \in Bridge!Groups : \A n \in mirror[g] : <<g, n>> \notin taken'
  <2>1. CASE Bridge!OtherWithdraws(id) BY <2>1 DEF Bridge!OtherWithdraws, BridgeInv, Bridge!MirrorIsTrue
  <2>2. CASE Bridge!OtherRegisters(id)
    <3>1. taken' = taken \cup {id} /\ id[2] \notin mirror[id[1]] BY <2>2 DEF Bridge!OtherRegisters
    <3>2. PICK group, name : id = <<group, name>> BY DEF BridgeAssumption
    <3>3. id[1] = group /\ id[2] = name BY <3>2
    <3>4. \A g \in Bridge!Groups : \A n \in mirror[g] : <<g, n>> # id BY <3>1, <3>2, <3>3
    <3> QED BY <3>1, <3>4 DEF BridgeInv, Bridge!MirrorIsTrue
  <2> QED BY <2>1, <2>2
<1>3. Bridge!Quiet' <=> Bridge!Quiet BY <1>1 DEF Bridge!Quiet
<1> QED BY <1>1, <1>2, <1>3 DEF BridgeInv, BridgeTyped, SkillsAreAsked, Bridge!MirrorIsTrue

LEMMA BridgeFrame ==
  ASSUME BridgeInv, UNCHANGED <<phase, native, mirror, taken, waiting, lookup, failed, overlapped>>
  PROVE  BridgeInv'
BY DEF BridgeInv, BridgeTyped, SkillsAreAsked, Bridge!MirrorIsTrue, Bridge!Quiet

-----------------------------------------------------------------------------
(* What an answer may say of the call that it answers.                      *)
GrantedTo(a, backend) ==
  CASE Trust[backend] = 0 -> TRUE
    [] Trust[backend] = 1 -> a.call.trust >= 1 /\ "script.execute" \in a.permissions
    [] OTHER -> a.call.trust = 2 /\ "workflow.native" \in a.permissions
IsGranted(a) ==
  a.code = "completed" =>
    /\ a.permissions \subseteq a.call.permissions
    /\ \A b \in a.backend : GrantedTo(a, b)
    /\ a.effect = "memory" => "memory.write" \in a.call.permissions
    /\ a.effect = "media" => "media.generate" \in a.call.permissions

LEMMA EndedIs ==
  ASSUME NEW call, NEW code, NEW effect, NEW backend
  PROVE  LET a == Bridge!Ended(call, code, effect, backend) IN
         /\ a.call = call /\ a.code = code /\ a.effect = effect /\ a.backend = backend
         /\ a.trust = Bridge!Descriptor(call.id).trust /\ a.permissions = Bridge!Descriptor(call.id).permissions
BY DEF Bridge!Ended

(* What the router takes for a call has no more trust than the descriptor.  *)
LEMMA RoutedIsGranted ==
  ASSUME BridgeInv, BridgeAssumption, NEW kind, NEW wanted, NEW trust \in Nat,
         NEW b \in Bridge!Routed(kind, wanted, trust)
  PROVE  b \in Names["backends"] /\ Trust[b] \in 0..2 /\ Trust[b] <= trust /\ wanted \in {"any", b}
<1>1. b \in native["backends"] /\ Trust[b] <= trust /\ wanted \in {"any", b} BY DEF Bridge!Routed
<1>2. b \in Names["backends"] BY <1>1 DEF BridgeInv, BridgeTyped, Bridge!Groups
<1> QED BY <1>1, <1>2 DEF BridgeAssumption

(* What a domain capability does to the world it demands a permission for.  *)
LEMMA EffectsAreDemanded ==
  ASSUME NEW d \in DOMAIN Bridge!DomainCapabilities
  PROVE  LET c == Bridge!DomainCapabilities[d] IN
         /\ c.effect = "memory" => "memory.write" \in c.permissions
         /\ c.effect = "media" => "media.generate" \in c.permissions
<1>1. PICK c : c = Bridge!DomainCapabilities[d] OBVIOUS
<1>2. \A needs, permissions, effect :
        /\ Bridge!Domain(needs, permissions, effect).permissions = permissions
        /\ Bridge!Domain(needs, permissions, effect).effect = effect
    BY DEF Bridge!Domain
<1>3. CASE d = "memoryappend"
  <2>1. \E needs : c = Bridge!Domain(needs, {"memory.write"}, "memory")
      BY <1>1, <1>3 DEF Bridge!DomainCapabilities
  <2> QED BY <1>1, <1>2, <2>1
<1>4. CASE d = "mediagenerate"
  <2>1. \E needs : c = Bridge!Domain(needs, {"media.generate"}, "media")
      BY <1>1, <1>4 DEF Bridge!DomainCapabilities
  <2> QED BY <1>1, <1>2, <2>1
<1>5. CASE d = "workflowroute"
  <2>1. \E needs : c = Bridge!Domain(needs, {}, "workflow")
      BY <1>1, <1>5 DEF Bridge!DomainCapabilities
  <2> QED BY <1>1, <1>2, <2>1
<1>6. CASE d \notin {"memoryappend", "mediagenerate", "workflowroute"}
  <2>1. \E needs : c = Bridge!Domain(needs, {}, "reads")
      BY <1>1, <1>6 DEF Bridge!DomainCapabilities, Bridge!Read
  <2> QED BY <1>1, <1>2, <2>1
<1> QED BY <1>3, <1>4, <1>5, <1>6

LEMMA ServedIsGranted ==
  ASSUME BridgeInv, BridgeAssumption, NEW call \in BridgeCalls, Bridge!InCatalog(call.id),
         Bridge!Descriptor(call.id).permissions \subseteq call.permissions,
         Bridge!Descriptor(call.id).trust <= call.trust, Bridge!Descriptor(call.id).invoke,
         NEW a \in Bridge!Served(call)
  PROVE  IsGranted(a)
<1>1. PICK group, name, input, permissions :
        group = call.id[1] /\ name = call.id[2] /\ input = call.input
        /\ permissions = Bridge!Descriptor(call.id).permissions
    OBVIOUS
<1>2. \A code, effect, backend : LET e == Bridge!Ended(call, code, effect, backend) IN
        e.call = call /\ e.code = code /\ e.effect = effect /\ e.backend = backend /\ e.permissions = permissions
    BY <1>1, EndedIs
<1>3. ASSUME NEW code, NEW effect, NEW backend, a = Bridge!Ended(call, code, effect, backend),
             code # "completed" \/ (effect \notin {"memory", "media"} /\ backend = {})
      PROVE  IsGranted(a)
    BY <1>1, <1>2, <1>3 DEF IsGranted
<1>4. group \in {"domain"} \cup Bridge!Groups /\ (group = "domain" => name \in DOMAIN Bridge!DomainCapabilities)
  <2>1. (group = "domain" /\ name \in DOMAIN Bridge!DomainCapabilities) \/ group \in Bridge!Groups
      BY <1>1 DEF BridgeAssumption
  <2> QED BY <2>1 DEF Bridge!Groups
<1>5. CASE group \in {"skills", "pipelines"}
  <2>1. \/ a = Bridge!Ended(call, "completed", "reads", {}) \/ a = Bridge!Ended(call, "FAILED", "none", {})
        \/ a = Bridge!Ended(call, "completed", "pipeline", {})
      BY <1>1, <1>5 DEF Bridge!Served
  <2> QED BY <1>3, <2>1
<1>6. CASE group = "backends"
  <2>1. \/ a = Bridge!Ended(call, "FAILED", "none", {})
        \/ \E kind : \E b \in Bridge!Routed(kind, name, Trust[name]) : a = Bridge!Ended(call, "completed", "workflow", {b})
      BY <1>1, <1>6 DEF Bridge!Served
  <2>2. ASSUME NEW kind, NEW b \in Bridge!Routed(kind, name, Trust[name]), a = Bridge!Ended(call, "completed", "workflow", {b})
        PROVE  IsGranted(a)
    <3>1. name \in Names["backends"]
        BY <1>1, <1>6 DEF Bridge!InCatalog, BridgeInv, BridgeTyped, Bridge!Groups
    <3>2. Trust[name] \in 0..2 BY <3>1 DEF BridgeAssumption
    <3>3. b = name BY <3>1, <3>2, RoutedIsGranted DEF BridgeAssumption
    <3>4. permissions = Bridge!WorkflowPermissions(Trust[name]) /\ Trust[name] <= call.trust
        BY <1>1, <1>6 DEF Bridge!Descriptor
    <3>5. call.trust \in 0..2 BY DEF BridgeAssumption
    <3>6. a.permissions = permissions /\ a.call = call /\ a.backend = {name} /\ a.effect = "workflow"
        BY <1>2, <2>2, <3>3
    <3>7. GrantedTo(a, name)
        BY <3>2, <3>4, <3>5, <3>6 DEF GrantedTo, Bridge!WorkflowPermissions
    <3> QED BY <1>1, <3>6, <3>7 DEF IsGranted
  <2> QED BY <1>3, <2>1, <2>2
<1>7. CASE group = "domain"
  <2>1. permissions = Bridge!DomainCapabilities[name].permissions
      BY <1>1, <1>7 DEF Bridge!Descriptor
  <2>2. \/ a = Bridge!Ended(call, "FAILED", "none", {})
        \/ a = Bridge!Ended(call, "completed", Bridge!DomainCapabilities[name].effect, {})
        \/ \E kind, wanted : \E b \in Bridge!Routed(kind, wanted, 0) : a = Bridge!Ended(call, "completed", "workflow", {b})
      BY <1>1, <1>7 DEF Bridge!Served
  <2>3. CASE a = Bridge!Ended(call, "completed", Bridge!DomainCapabilities[name].effect, {})
    <3>1. /\ Bridge!DomainCapabilities[name].effect = "memory" => "memory.write" \in permissions
          /\ Bridge!DomainCapabilities[name].effect = "media" => "media.generate" \in permissions
        BY <1>4, <1>7, <2>1, EffectsAreDemanded
    <3>2. a.call = call /\ a.backend = {} /\ a.effect = Bridge!DomainCapabilities[name].effect /\ a.permissions = permissions
        BY <1>2, <2>3
    <3> QED BY <1>1, <3>1, <3>2 DEF IsGranted
  <2>4. ASSUME NEW kind, NEW wanted, NEW b \in Bridge!Routed(kind, wanted, 0),
               a = Bridge!Ended(call, "completed", "workflow", {b})
        PROVE  IsGranted(a)
    <3>1. Trust[b] = 0 BY RoutedIsGranted
    <3>2. a.call = call /\ a.backend = {b} /\ a.effect = "workflow" /\ a.permissions = permissions BY <1>2, <2>4
    <3> QED BY <1>1, <3>1, <3>2 DEF IsGranted, GrantedTo
  <2> QED BY <1>3, <2>2, <2>3, <2>4
<1>8. group \notin {"tools", "subagents"} BY <1>1 DEF Bridge!Descriptor
<1> QED BY <1>4, <1>5, <1>6, <1>7, <1>8 DEF Bridge!Groups

(* invoke(): what is refused did nothing, what is served was granted.       *)
LEMMA InvokeIsGranted ==
  ASSUME BridgeInv, BridgeAssumption, NEW call \in BridgeCalls, Bridge!Invoke(call)
  PROVE  IsGranted(said')
<1>1. Bridge!InCatalog(call.id) BY DEF Bridge!Invoke
<1>2. \/ \E code \in {"PERMISSION", "TRUST", "NOT_EXECUTABLE"} : said' = Bridge!Ended(call, code, "none", {})
      \/ /\ Bridge!Descriptor(call.id).permissions \subseteq call.permissions
         /\ ~(Bridge!Descriptor(call.id).trust > call.trust)
         /\ Bridge!Descriptor(call.id).invoke
         /\ said' \in Bridge!Served(call)
    BY DEF Bridge!Invoke
<1>3. CASE \E code \in {"PERMISSION", "TRUST", "NOT_EXECUTABLE"} : said' = Bridge!Ended(call, code, "none", {})
    BY <1>3, EndedIs DEF IsGranted
<1>4. Bridge!Descriptor(call.id).trust \in Nat
  <2>1. CASE call.id[1] \in {"pipelines", "backends"}
    <3>1. call.id[2] \in Names[call.id[1]]
        BY <1>1, <2>1 DEF Bridge!InCatalog, BridgeInv, BridgeTyped, Bridge!Groups
    <3>2. Trust[call.id[2]] \in Nat BY <2>1, <3>1 DEF BridgeAssumption
    <3> QED BY <2>1, <3>2 DEF Bridge!Descriptor
  <2>2. CASE call.id[1] \notin {"pipelines", "backends"} BY <2>2 DEF Bridge!Descriptor
  <2> QED BY <2>1, <2>2
<1>5. call.trust \in Nat BY DEF BridgeAssumption
<1>6. ASSUME said' \in Bridge!Served(call), Bridge!Descriptor(call.id).permissions \subseteq call.permissions,
             ~(Bridge!Descriptor(call.id).trust > call.trust), Bridge!Descriptor(call.id).invoke
      PROVE  IsGranted(said')
  <2>1. PICK a : a = said' OBVIOUS
  <2>2. Bridge!Descriptor(call.id).trust <= call.trust BY <1>4, <1>5, <1>6
  <2>3. IsGranted(a) BY <1>1, <1>6, <2>1, <2>2, ServedIsGranted
  <2> QED BY <2>1, <2>3
<1> QED BY <1>2, <1>3, <1>6

-----------------------------------------------------------------------------
(* Every step of the bridge, of the registries that it mirrors and of the    *)
(* other plugins keeps the invariant.                                       *)
THEOREM BridgeInductive ==
  ASSUME BridgeAssumption, BridgeInv, Bridge!NoOtherWay, [Bridge!Next]_(Bridge!hbVars)
  PROVE  BridgeInv' /\ Bridge!NoOtherWay'
<1>1. Bridge!NoOtherWay <=> IsGranted(said) BY DEF Bridge!NoOtherWay, IsGranted, Bridge!GrantedFor, GrantedTo
<1>2. Bridge!NoOtherWay' <=> IsGranted(said') BY DEF Bridge!NoOtherWay, IsGranted, Bridge!GrantedFor, GrantedTo
<1>3. CASE Bridge!Apply BY <1>1, <1>2, <1>3, ApplyKeeps DEF Bridge!Apply
<1>4. CASE Bridge!Dispose \/ Bridge!Release
    BY <1>1, <1>2, <1>4, BridgeEndsKeep DEF Bridge!Dispose, Bridge!Release
<1>5. CASE \E w \in {"first", "chained"} : Bridge!Ask \/ Bridge!Listed(w) \/ Bridge!ListFails(w)
    BY <1>1, <1>2, <1>5, QuestionsKeep DEF Bridge!Ask, Bridge!Listed, Bridge!ListFails
<1>6. CASE \E w \in {"first", "chained"} : Bridge!SyncSkills(w)
    BY <1>1, <1>2, <1>6, SkillsKeep DEF Bridge!SyncSkills
<1>7. CASE \E group \in Bridge!Groups : \E names \in SUBSET Names[group] : Bridge!RegistryChanges(group, names)
    BY <1>1, <1>2, <1>7, RegistriesKeep DEF Bridge!RegistryChanges
<1>8. CASE \E id \in Contested : Bridge!OtherRegisters(id) \/ Bridge!OtherWithdraws(id)
    BY <1>1, <1>2, <1>8, ContestedKeep DEF Bridge!OtherRegisters, Bridge!OtherWithdraws
<1>9. CASE \E call \in BridgeCalls : Bridge!Invoke(call)
    BY <1>2, <1>9, BridgeFrame, InvokeIsGranted DEF Bridge!Invoke
<1>10. CASE Bridge!StoreRegisters \/ UNCHANGED Bridge!hbVars
    BY <1>1, <1>2, <1>10, BridgeFrame DEF Bridge!StoreRegisters, Bridge!hbVars
<1> QED BY <1>3, <1>4, <1>5, <1>6, <1>7, <1>8, <1>9, <1>10 DEF Bridge!Next

(* However the registries change under the questions for the Skills and      *)
(* whatever other plugins hold, the catalog shows what the registries hold;  *)
(* and no way through the bridge leads to a backend or a side effect         *)
(* without the permission that it demands.                                  *)
THEOREM BridgeIsSafe == ASSUME BridgeAssumption PROVE Bridge!Spec => []BridgeIsSound
<1>1. BridgeInv /\ Bridge!NoOtherWay /\ [Bridge!Next]_(Bridge!hbVars) => (BridgeInv /\ Bridge!NoOtherWay)'
    BY BridgeInductive
<1>2. BridgeInv /\ Bridge!NoOtherWay => BridgeIsSound BY DEF BridgeInv, BridgeIsSound, Bridge!BridgeIsSound
<1> QED BY <1>1, <1>2, BridgeStarts, PTL DEF Bridge!Spec

(* A set of natural numbers that is not empty has a least element.         *)
LEMMA Least ==
  ASSUME NEW S \in SUBSET Nat, S # {}
  PROVE  \E n \in S : \A m \in S : n <= m
<1>1. IsWellFoundedOn(OpToRel(<, Nat), Nat)
  BY NatLessThanWellFounded
<1>2. PICK n \in S : \A m \in S : <<m, n>> \notin OpToRel(<, Nat)
  BY <1>1, WFMin
<1>3. \A m \in S : ~(m < n)
  BY <1>2 DEF OpToRel
<1> QED BY <1>3

-----------------------------------------------------------------------------
(* Sidecar Jobs.                                                            *)
Sidecars == INSTANCE SidecarJobs WITH calls <- sidecarCalls, phase <- lifecycle

(* The capabilities follow the Pipelines; no stage of a Job asks for more    *)
(* than the Job was given; its output is bounded, and the Session can be     *)
(* replayed and says of each run how it ended; an unload that reports no     *)
(* failure leaves no Job that it has seen.  (sidecar-jobs)                   *)
SidecarsAreSound == Sidecars!SidecarsAreSound

(* A call carries an authority of its own, and trust is a level.            *)
SidecarAssumption ==
  /\ \A g \in Grants : g.permissions # None /\ g.trust # None /\ g.trust \in Int
  /\ \A p \in PipelineDefs : \A i \in 1..Len(p.stages) : p.stages[i].trust \in Int \cup {None}

JobRecords ==
  [owner : Owners, plan : PipelineDefs, turn : TurnIds \cup {<<"rp-sidecar", n>> : n \in Nat}, grant : Grants,
   stage : Nat \ {0}, aborted : BOOLEAN, late : BOOLEAN, status : {"running", "completed", "failed", "killed"},
   output : {None} \cup {Sidecars!BoundedOutput(text) : text \in Results}]
Drains == [waiting : SUBSET Nat, taken : SUBSET Nat, failures : SUBSET Nat]
SidecarTyped ==
  /\ \A id \in DOMAIN pipelines : pipelines[id] \in PipelineDefs
  /\ \A c \in sidecarCalls : c.owner \in Owners /\ c.grant \in Grants /\ c.turn \in TurnIds
  /\ jobs \in Seq(JobRecords)
  /\ lifecycle \in {"live", "draining", "unloaded", "failed"}
  /\ drain \in Drains
  /\ \A r \in requested : r.job \in DOMAIN jobs

(* While it is drained, what ran when that began is waited for or given up.  *)
DrainIsWhole ==
  lifecycle = "draining" =>
    \A j \in DOMAIN jobs : jobs[j].late \/ jobs[j].status # "running" \/ j \in drain.waiting \cup drain.failures

SidecarInv ==
  /\ SidecarTyped /\ DrainIsWhole
  /\ Sidecars!SidecarsArePublished /\ Sidecars!StagesStayWithin /\ Sidecars!UnloadIsWhole

(* The published capabilities are those of the Sidecars that are registered. *)
SidecarsOf(map) == [id \in {i \in DOMAIN map : Sidecars!IsSidecar(map, i)} |-> map[id]]
LEMMA SyncFollows ==
  ASSUME NEW map, NEW id, published = SidecarsOf(pipelines),
         DOMAIN map \ {id} = DOMAIN pipelines \ {id}, \A i \in DOMAIN map \ {id} : map[i] = pipelines[i]
  PROVE  Sidecars!SyncCapability(map, id) = SidecarsOf(map)
<1>1. \A i : i # id => (Sidecars!IsSidecar(map, i) <=> Sidecars!IsSidecar(pipelines, i))
    BY DEF Sidecars!IsSidecar
<1>2. PICK old : old = {i \in DOMAIN pipelines : Sidecars!IsSidecar(pipelines, i)} OBVIOUS
<1>3. PICK new : new = {i \in DOMAIN map : Sidecars!IsSidecar(map, i)} OBVIOUS
<1>4. new \ {id} = old \ {id} BY <1>1, <1>2, <1>3
<1>5. DOMAIN published = old /\ \A i \in old : published[i] = pipelines[i] BY <1>2 DEF SidecarsOf
<1>6. id \in new <=> Sidecars!IsSidecar(map, id) BY <1>3 DEF Sidecars!IsSidecar
<1>7. CASE Sidecars!IsSidecar(map, id)
  <2>1. Sidecars!SyncCapability(map, id) = [i \in old \cup {id} |-> IF i = id THEN map[id] ELSE published[i]]
      BY <1>5, <1>7 DEF Sidecars!SyncCapability, Sidecars!Put
  <2>2. old \cup {id} = new BY <1>4, <1>6, <1>7
  <2>3. \A i \in new : (IF i = id THEN map[id] ELSE published[i]) = map[i] BY <1>3, <1>4, <1>5
  <2> QED BY <1>3, <2>1, <2>2, <2>3 DEF SidecarsOf
<1>8. CASE ~Sidecars!IsSidecar(map, id)
  <2>1. Sidecars!SyncCapability(map, id) = [i \in old \ {id} |-> published[i]]
      BY <1>5, <1>8 DEF Sidecars!SyncCapability, Sidecars!Drop, Sidecars!Restrict
  <2>2. old \ {id} = new BY <1>4, <1>6, <1>8
  <2>3. \A i \in new : published[i] = map[i] BY <1>3, <1>4, <1>5, <2>2
  <2> QED BY <1>3, <2>1, <2>2, <2>3 DEF SidecarsOf
<1> QED BY <1>7, <1>8

(* The registered Pipelines change.                                         *)
LEMMA EditsKeep ==
  ASSUME SidecarInv,
         \/ \E p \in PipelineDefs : Sidecars!ReplacePipeline(p)
         \/ \E id \in DOMAIN pipelines : Sidecars!RemovePipeline(id)
  PROVE  SidecarInv'
<1>1. PICK map, id :
        /\ Sidecars!EditPipelines(map, id) /\ DOMAIN map \ {id} = DOMAIN pipelines \ {id}
        /\ \A i \in DOMAIN map \ {id} : map[i] = pipelines[i]
        /\ \A i \in DOMAIN map : map[i] \in PipelineDefs
  <2>1. CASE \E p \in PipelineDefs : Sidecars!ReplacePipeline(p)
    <3>1. PICK p \in PipelineDefs : Sidecars!ReplacePipeline(p) BY <2>1
    <3>2. PICK map : map = Sidecars!Put(pipelines, p.id, p) OBVIOUS
    <3>3. /\ DOMAIN map = DOMAIN pipelines \cup {p.id}
          /\ \A i \in DOMAIN map : map[i] = IF i = p.id THEN p ELSE pipelines[i]
        BY <3>2 DEF Sidecars!Put
    <3>4. Sidecars!EditPipelines(map, p.id) BY <3>1, <3>2 DEF Sidecars!ReplacePipeline
    <3> QED BY <3>3, <3>4 DEF SidecarInv, SidecarTyped
  <2>2. CASE \E id \in DOMAIN pipelines : Sidecars!RemovePipeline(id)
    <3>1. PICK id : Sidecars!RemovePipeline(id) BY <2>2
    <3>2. PICK map : map = Sidecars!Drop(pipelines, id) OBVIOUS
    <3>3. DOMAIN map = DOMAIN pipelines \ {id} /\ \A i \in DOMAIN map : map[i] = pipelines[i]
        BY <3>2 DEF Sidecars!Drop, Sidecars!Restrict
    <3>4. Sidecars!EditPipelines(map, id) BY <3>1, <3>2 DEF Sidecars!RemovePipeline
    <3> QED BY <3>3, <3>4 DEF SidecarInv, SidecarTyped
  <2> QED BY <2>1, <2>2
<1>2. /\ lifecycle = "live" /\ pipelines' = map /\ published' = Sidecars!SyncCapability(map, id)
      /\ UNCHANGED <<sidecarCalls, jobs, active, lifecycle, drain, requested>>
    BY <1>1 DEF Sidecars!EditPipelines
<1>3. published = SidecarsOf(pipelines) BY <1>2 DEF SidecarInv, Sidecars!SidecarsArePublished, SidecarsOf
<1>4. published' = SidecarsOf(map) BY <1>1, <1>2, <1>3, SyncFollows
<1>5. Sidecars!SidecarsArePublished'
    BY <1>2, <1>4 DEF SidecarInv, Sidecars!SidecarsArePublished, SidecarsOf, Sidecars!IsSidecar
<1>6. SidecarTyped' BY <1>1, <1>2 DEF SidecarInv, SidecarTyped
<1> QED BY <1>2, <1>5, <1>6 DEF SidecarInv, DrainIsWhole, Sidecars!StagesStayWithin, Sidecars!UnloadIsWhole

LEMMA SidecarCallsKeep ==
  ASSUME SidecarInv, NEW id, NEW owner \in Owners, NEW grant \in Grants, NEW turn \in TurnIds,
         Sidecars!Authorize(id, owner, grant, turn)
  PROVE  SidecarInv'
<1>1. PICK call : call = [id |-> id, owner |-> owner, grant |-> grant, turn |-> turn] OBVIOUS
<1>2. sidecarCalls' = {call} /\ UNCHANGED <<pipelines, published, jobs, active, lifecycle, drain, requested>>
    BY <1>1 DEF Sidecars!Authorize
<1>3. call.owner \in Owners /\ call.grant \in Grants /\ call.turn \in TurnIds BY <1>1
<1> QED
    BY <1>2, <1>3
    DEF SidecarInv, SidecarTyped, DrainIsWhole, Sidecars!SidecarsArePublished, Sidecars!IsSidecar,
        Sidecars!StagesStayWithin, Sidecars!UnloadIsWhole

(* start() takes the plan that is registered when it is reached.            *)
LEMMA SidecarStartKeeps ==
  ASSUME SidecarInv, NEW c \in sidecarCalls, Sidecars!Start(c)
  PROVE  SidecarInv'
<1> USE DEF SidecarInv, SidecarTyped
<1>1. /\ sidecarCalls' = sidecarCalls \ {c} /\ UNCHANGED <<pipelines, published, lifecycle, drain, requested>>
    BY DEF Sidecars!Start
<1>2. CASE ~Sidecars!IsSidecar(pipelines, c.id)
  <2>1. UNCHANGED <<jobs, active>> BY <1>2 DEF Sidecars!Start
  <2> QED
      BY <1>1, <2>1
      DEF DrainIsWhole, Sidecars!SidecarsArePublished, Sidecars!IsSidecar, Sidecars!StagesStayWithin, Sidecars!UnloadIsWhole
<1>3. CASE Sidecars!IsSidecar(pipelines, c.id)
  <2>1. PICK n, plan, turn, runs, status :
          /\ n = Len(jobs) + 1 /\ plan = pipelines[c.id]
          /\ turn = IF c.turn = None THEN <<"rp-sidecar", n>> ELSE c.turn
          /\ runs = Sidecars!Granted(plan, c.grant)
          /\ status = IF Sidecars!Granted(plan, c.grant) THEN "running" ELSE "failed"
      OBVIOUS
  <2>2. PICK job : job = [owner |-> c.owner, plan |-> plan, turn |-> turn, grant |-> c.grant, stage |-> 1, aborted |-> FALSE,
                          late |-> lifecycle # "live", status |-> status, output |-> None]
      OBVIOUS
  <2>3. /\ jobs' = Append(jobs, job) /\ active' = IF status = "running" THEN active \cup {n} ELSE active
      BY <1>3, <2>1, <2>2 DEF Sidecars!Start
  <2>4. plan \in PipelineDefs BY <1>3, <2>1 DEF Sidecars!IsSidecar
  <2>5. n \in Nat /\ turn \in TurnIds \cup {<<"rp-sidecar", i>> : i \in Nat} BY <2>1
  <2>6. status \in {"running", "completed", "failed", "killed"} BY <2>1
  <2>7. job \in JobRecords BY <2>2, <2>4, <2>5, <2>6 DEF JobRecords
  <2>8. /\ jobs' \in Seq(JobRecords) /\ Len(jobs') = n /\ DOMAIN jobs = 1..(n - 1) /\ DOMAIN jobs' = 1..n
        /\ \A j \in DOMAIN jobs : jobs'[j] = jobs[j]
      BY <2>1, <2>3, <2>7
  <2>9. jobs'[n] = job /\ n \notin DOMAIN jobs /\ DOMAIN jobs' = DOMAIN jobs \cup {n} BY <2>1, <2>3, <2>5, <2>8
  <2>10. job.status = status /\ (job.late <=> lifecycle # "live") BY <2>2
  <2>11. SidecarTyped' BY <1>1, <2>8, <2>9
  <2>12. DrainIsWhole' BY <1>1, <2>8, <2>9, <2>10 DEF DrainIsWhole
  <2>13. Sidecars!SidecarsArePublished'
    <3>1. active' = {j \in DOMAIN jobs' : jobs'[j].status = "running"}
        BY <2>3, <2>8, <2>9, <2>10 DEF Sidecars!SidecarsArePublished
    <3> QED BY <1>1, <3>1 DEF Sidecars!SidecarsArePublished, Sidecars!IsSidecar
  <2>14. Sidecars!StagesStayWithin' BY <1>1, <2>8 DEF Sidecars!StagesStayWithin, Sidecars!Granted
  <2>15. Sidecars!UnloadIsWhole' BY <1>1, <2>8, <2>9, <2>10 DEF Sidecars!UnloadIsWhole
  <2> QED BY <2>11, <2>12, <2>13, <2>14, <2>15
<1> QED BY <1>2, <1>3

-----------------------------------------------------------------------------
(* executeStage(): whatever the stage declares, it asks for no more.        *)
LEMMA GrantShrinks ==
  ASSUME SidecarAssumption, NEW request \in Grants, NEW stage, stage.trust \in Int \cup {None}
  PROVE  Sidecars!Granted(Sidecars!StageGrant(request, stage), request)
<1>1. PICK grant : grant = Sidecars!StageGrant(request, stage) OBVIOUS
<1>2. /\ grant.permissions = Sidecars!GrantedPermissions(request, stage)
      /\ grant.trust = Sidecars!GrantedTrust(request, stage)
    BY <1>1 DEF Sidecars!StageGrant
<1>3. grant.permissions \subseteq request.permissions
    BY <1>2 DEF SidecarAssumption, Sidecars!GrantedPermissions
<1>4. grant.trust <= request.trust
    BY <1>2 DEF SidecarAssumption, Sidecars!GrantedTrust, Sidecars!Lesser
<1> QED BY <1>1, <1>3, <1>4 DEF Sidecars!Granted

(* A Job changes, and keeps its authority.                                  *)
LEMMA JobChanges ==
  ASSUME SidecarInv, NEW j \in DOMAIN jobs, NEW job \in JobRecords,
         job.grant = jobs[j].grant, job.late = jobs[j].late, job.status = "running" => jobs[j].status = "running",
         jobs' = [jobs EXCEPT ![j] = job],
         active' = IF job.status = "running" THEN active ELSE active \ {j},
         jobs[j].status = "running",
         UNCHANGED <<pipelines, published, sidecarCalls, lifecycle, drain>>,
         \A r \in requested' : r \in requested \/ (r.job = j /\ Sidecars!Granted(r.grant, jobs[j].grant))
  PROVE  SidecarInv'
<1> USE DEF SidecarInv, SidecarTyped
<1>1. /\ jobs' \in Seq(JobRecords) /\ DOMAIN jobs' = DOMAIN jobs /\ jobs'[j] = job
      /\ \A i \in DOMAIN jobs : i # j => jobs'[i] = jobs[i]
    OBVIOUS
<1>2. \A i \in DOMAIN jobs : jobs'[i].grant = jobs[i].grant /\ jobs'[i].late = jobs[i].late
                             /\ (jobs'[i].status = "running" => jobs[i].status = "running")
    BY <1>1
<1>3. SidecarTyped' BY <1>1
<1>4. DrainIsWhole' BY <1>1, <1>2 DEF DrainIsWhole
<1>5. active' = {i \in DOMAIN jobs' : jobs'[i].status = "running"} BY <1>1 DEF Sidecars!SidecarsArePublished
<1>6. Sidecars!SidecarsArePublished' BY <1>5 DEF Sidecars!SidecarsArePublished, Sidecars!IsSidecar
<1>7. Sidecars!StagesStayWithin' BY <1>1, <1>2 DEF Sidecars!StagesStayWithin, Sidecars!Granted
<1>8. Sidecars!UnloadIsWhole' BY <1>1, <1>2 DEF Sidecars!UnloadIsWhole
<1> QED BY <1>3, <1>4, <1>6, <1>7, <1>8

LEMMA StagesKeep ==
  ASSUME SidecarInv, SidecarAssumption, NEW j \in DOMAIN jobs, Sidecars!ExecuteStage(j)
  PROVE  SidecarInv'
<1>1. PICK old, stage, job :
        old = jobs[j] /\ stage = jobs[j].plan.stages[jobs[j].stage] /\ job = [jobs[j] EXCEPT !.stage = @ + 1]
    OBVIOUS
<1>2. old \in JobRecords BY <1>1 DEF SidecarInv, SidecarTyped
<1>3. job \in JobRecords /\ job.grant = old.grant /\ job.late = old.late /\ job.status = old.status
    BY <1>1, <1>2 DEF JobRecords
<1>4. /\ old.status = "running" /\ old.stage <= Len(old.plan.stages)
      /\ jobs' = [jobs EXCEPT ![j] = job] /\ UNCHANGED <<pipelines, published, sidecarCalls, active, lifecycle, drain>>
      /\ \/ \E r : requested' = requested \cup {r} /\ r = [job |-> j, grant |-> Sidecars!StageGrant(old.grant, stage)]
         \/ \E r : requested' = requested \cup {r} /\ r = [job |-> j, grant |-> old.grant]
         \/ requested' = requested
    BY <1>1 DEF Sidecars!ExecuteStage
<1>5. old.grant \in Grants /\ old.plan \in PipelineDefs /\ old.stage \in 1..Len(old.plan.stages)
    BY <1>2, <1>4 DEF JobRecords
<1>6. stage.trust \in Int \cup {None} BY <1>1, <1>5 DEF SidecarAssumption
<1>7. Sidecars!Granted(Sidecars!StageGrant(old.grant, stage), old.grant) BY <1>5, <1>6, GrantShrinks
<1>8. Sidecars!Granted(old.grant, old.grant) BY <1>5 DEF Sidecars!Granted, SidecarAssumption
<1>9. \A r \in requested' : r \in requested \/ (r.job = j /\ Sidecars!Granted(r.grant, old.grant))
    BY <1>4, <1>7, <1>8
<1> QED BY <1>1, <1>3, <1>4, <1>9, JobChanges

LEMMA EndsKeep ==
  ASSUME SidecarInv, NEW j \in DOMAIN jobs,
         Sidecars!Fails(j) \/ Sidecars!Cancel(j) \/ \E text \in Results : Sidecars!Complete(j, text)
  PROVE  SidecarInv'
<1>1. PICK old : old = jobs[j] /\ old \in JobRecords BY DEF SidecarInv, SidecarTyped
<1>2. CASE Sidecars!Cancel(j)
  <2>1. PICK job : job = [old EXCEPT !.aborted = TRUE] OBVIOUS
  <2>2. /\ old.status = "running" /\ jobs' = [jobs EXCEPT ![j] = job]
        /\ UNCHANGED <<pipelines, published, sidecarCalls, active, lifecycle, drain, requested>>
      BY <1>1, <1>2, <2>1 DEF Sidecars!Cancel
  <2>3. job \in JobRecords /\ job.grant = old.grant /\ job.late = old.late /\ job.status = old.status
      BY <1>1, <2>1 DEF JobRecords
  <2> QED BY <1>1, <2>2, <2>3, JobChanges
<1>3. ASSUME NEW status \in {"completed", "failed", "killed"},
             NEW output \in {None} \cup {Sidecars!BoundedOutput(text) : text \in Results},
             old.status = "running", Sidecars!Settle(j, status, output)
      PROVE  SidecarInv'
  <2>1. PICK job : job = [old EXCEPT !.status = status, !.output = output] OBVIOUS
  <2>2. /\ jobs' = [jobs EXCEPT ![j] = job] /\ active' = active \ {j}
        /\ UNCHANGED <<pipelines, published, sidecarCalls, lifecycle, drain, requested>>
      BY <1>1, <1>3, <2>1 DEF Sidecars!Settle
  <2>3. job \in JobRecords /\ job.grant = old.grant /\ job.late = old.late /\ job.status = status
      BY <1>1, <2>1 DEF JobRecords
  <2> QED BY <1>1, <1>3, <2>2, <2>3, JobChanges
<1>4. CASE Sidecars!Fails(j)
  <2>1. PICK status : status = IF old.aborted THEN "killed" ELSE "failed" OBVIOUS
  <2>2. old.status = "running" /\ Sidecars!Settle(j, status, None)
      BY <1>1, <1>4, <2>1 DEF Sidecars!Fails
  <2> QED BY <1>3, <2>1, <2>2
<1>5. CASE \E text \in Results : Sidecars!Complete(j, text)
  <2>1. PICK text \in Results : Sidecars!Complete(j, text) BY <1>5
  <2>2. old.status = "running" /\ Sidecars!Settle(j, "completed", Sidecars!BoundedOutput(text))
      BY <1>1, <2>1 DEF Sidecars!Complete
  <2> QED BY <1>3, <2>2
<1> QED BY <1>2, <1>4, <1>5

(* Unloading takes every Job that runs and lets go of none that still runs   *)
(* without counting it.                                                     *)
LEMMA UnloadKeeps ==
  ASSUME SidecarInv, NEW refused \in SUBSET active, Sidecars!Unload(refused)
  PROVE  SidecarInv'
<1> USE DEF SidecarInv, SidecarTyped
<1>1. PICK all, held : all = jobs /\ held = active /\ all \in Seq(JobRecords) OBVIOUS
<1>2. PICK new : new = [j \in DOMAIN all |-> IF j \in held \ refused THEN [all[j] EXCEPT !.aborted = TRUE] ELSE all[j]]
    OBVIOUS
<1>3. \A j \in DOMAIN all :
        LET job == [all[j] EXCEPT !.aborted = TRUE] IN
        /\ job \in JobRecords /\ job.grant = all[j].grant /\ job.status = all[j].status /\ job.late = all[j].late
  <2> SUFFICES ASSUME NEW j \in DOMAIN all
               PROVE  LET job == [all[j] EXCEPT !.aborted = TRUE] IN
                      /\ job \in JobRecords /\ job.grant = all[j].grant /\ job.status = all[j].status
                      /\ job.late = all[j].late
      OBVIOUS
  <2>1. PICK old : old = all[j] /\ old \in JobRecords BY <1>1
  <2> QED BY <2>1 DEF JobRecords
<1>4. /\ DOMAIN new = DOMAIN all
      /\ \A j \in DOMAIN all : /\ new[j] \in JobRecords /\ new[j].grant = all[j].grant
                               /\ new[j].status = all[j].status /\ new[j].late = all[j].late
    BY <1>1, <1>2, <1>3
<1>5. new \in Seq(JobRecords)
  <2>1. PICK n \in Nat : DOMAIN all = 1..n BY <1>1
  <2>2. new \in [1..n -> JobRecords] BY <1>2, <1>4, <2>1
  <2> QED BY ONLY <2>1, <2>2
<1>6. PICK due : due = [waiting |-> held, taken |-> held, failures |-> refused] OBVIOUS
<1>7. /\ lifecycle' = "draining" /\ jobs' = new /\ drain' = due
      /\ UNCHANGED <<pipelines, sidecarCalls, active, requested>>
    BY <1>1, <1>2, <1>6 DEF Sidecars!Unload
<1>8. SidecarTyped'
  <2>1. active \subseteq Nat BY <1>1 DEF Sidecars!SidecarsArePublished
  <2>2. due \in Drains BY <1>1, <1>6, <2>1 DEF Drains
  <2> QED BY <1>1, <1>4, <1>5, <1>7, <2>2
<1>9. active' = {j \in DOMAIN jobs' : jobs'[j].status = "running"}
    BY <1>1, <1>4, <1>7 DEF Sidecars!SidecarsArePublished
<1>10. Sidecars!SidecarsArePublished' BY <1>7, <1>9 DEF Sidecars!SidecarsArePublished
<1>11. DrainIsWhole' BY <1>1, <1>4, <1>6, <1>7 DEF DrainIsWhole, Sidecars!SidecarsArePublished
<1>12. Sidecars!StagesStayWithin' BY <1>1, <1>4, <1>7 DEF Sidecars!StagesStayWithin, Sidecars!Granted
<1> QED BY <1>7, <1>8, <1>10, <1>11, <1>12 DEF Sidecars!UnloadIsWhole

LEMMA DrainKeeps ==
  ASSUME SidecarInv, \/ \E j \in DOMAIN jobs : Sidecars!Drained(j) \/ Sidecars!GraceEnds(j)
                     \/ Sidecars!Unloaded
  PROVE  SidecarInv'
<1> USE DEF SidecarInv, SidecarTyped
<1>1. UNCHANGED <<pipelines, published, sidecarCalls, jobs, active, requested>>
    BY DEF Sidecars!Drained, Sidecars!GraceEnds, Sidecars!Unloaded
<1>2. CASE Sidecars!Unloaded
  <2>1. /\ lifecycle = "draining" /\ drain.waiting = {} /\ drain' = drain
        /\ lifecycle' = IF drain.failures = {} THEN "unloaded" ELSE "failed"
      BY <1>2 DEF Sidecars!Unloaded
  <2> QED
      BY <1>1, <2>1
      DEF DrainIsWhole, Sidecars!SidecarsArePublished, Sidecars!StagesStayWithin, Sidecars!UnloadIsWhole
<1>3. CASE \E j \in DOMAIN jobs : Sidecars!Drained(j) \/ Sidecars!GraceEnds(j)
  <2>1. PICK j \in DOMAIN jobs : Sidecars!Drained(j) \/ Sidecars!GraceEnds(j) BY <1>3
  <2>2. lifecycle' = lifecycle BY <2>1 DEF Sidecars!Drained, Sidecars!GraceEnds
  <2>3. /\ drain' \in Drains
        /\ \A i \in DOMAIN jobs : i \in drain.waiting \cup drain.failures =>
             jobs[i].status # "running" \/ i \in drain'.waiting \cup drain'.failures
    <3>1. CASE Sidecars!Drained(j)
      <4>1. /\ jobs[j].status # "running" /\ drain' = [drain EXCEPT !.waiting = drain.waiting \ {j}]
          BY <3>1 DEF Sidecars!Drained
      <4>2. /\ drain'.waiting = drain.waiting \ {j} /\ drain'.failures = drain.failures
            /\ drain' \in Drains
          BY <4>1 DEF Drains
      <4> QED BY <4>1, <4>2
    <3>2. CASE Sidecars!GraceEnds(j)
      <4>1. drain' = [drain EXCEPT !.waiting = drain.waiting \ {j}, !.failures = drain.failures \cup {j}]
          BY <3>2 DEF Sidecars!GraceEnds
      <4>2. j \in Nat OBVIOUS
      <4>3. /\ drain'.waiting = drain.waiting \ {j} /\ drain'.failures = drain.failures \cup {j}
            /\ drain' \in Drains
          BY <4>1, <4>2 DEF Drains
      <4> QED BY <4>3
    <3> QED BY <2>1, <3>1, <3>2
  <2>4. DrainIsWhole' BY <1>1, <2>2, <2>3 DEF DrainIsWhole
  <2> QED
      BY <1>1, <2>2, <2>3, <2>4
      DEF Sidecars!SidecarsArePublished, Sidecars!IsSidecar, Sidecars!StagesStayWithin, Sidecars!UnloadIsWhole
<1> QED BY <1>2, <1>3

-----------------------------------------------------------------------------
(* boundedOutput(): a text is a sequence of characters, each of its bytes.    *)
OutputAssumption == Results \subseteq Seq(Nat \ {0}) /\ OutputLimit \in Nat /\ NoticeSize \in Nat

Chars == Nat \ {0}
Sums(f, text, n) == f[0] = 0 /\ \A i \in 1..n : f[i] = f[i - 1] + text[i]

LEMMA SumsExist ==
  ASSUME NEW text \in Seq(Chars), NEW n \in 0..Len(text)
  PROVE  \E f : Sums(f, text, n)
<1> DEFINE Bad == {m \in 0..Len(text) : ~\E f : Sums(f, text, m)}
<1>1. ASSUME Bad # {} PROVE FALSE
  <2>1. PICK m \in Bad : \A k \in Bad : m <= k
    <3>1. Bad \in SUBSET Nat OBVIOUS
    <3> HIDE DEF Bad
    <3> QED BY <1>1, <3>1, Least
  <2>2. CASE m = 0
    <3>1. Sums([i \in 0..0 |-> 0], text, 0) BY DEF Sums
    <3> QED BY <2>1, <2>2, <3>1
  <2>3. CASE m # 0
    <3>1. m - 1 \in 0..Len(text) /\ m - 1 \notin Bad BY <2>1, <2>3
    <3>2. PICK f : Sums(f, text, m - 1) BY <3>1
    <3>3. PICK last : last = f[m - 1] + text[m] OBVIOUS
    <3>4. PICK g : g = [i \in 0..m |-> IF i < m THEN f[i] ELSE last] OBVIOUS
    <3>5. g[0] = 0 BY <2>3, <3>1, <3>2, <3>4 DEF Sums
    <3>6. ASSUME NEW i \in 1..m PROVE g[i] = g[i - 1] + text[i]
      <4>1. g[i - 1] = f[i - 1] BY <2>1, <3>4
      <4>2. CASE i < m
        <5>1. i \in 1..(m - 1) /\ g[i] = f[i] BY <2>1, <3>4, <4>2
        <5> QED BY <3>2, <4>1, <5>1 DEF Sums
      <4>3. CASE i = m BY <2>1, <3>3, <3>4, <4>1, <4>3
      <4> QED BY <2>1, <4>2, <4>3
    <3>7. Sums(g, text, m) BY <3>5, <3>6 DEF Sums
    <3> QED BY <2>1, <3>7
  <2> QED BY <2>2, <2>3
<1> QED BY <1>1

(* A text has a byte for each character at least.                           *)
LEMMA BytesCount ==
  ASSUME NEW text \in Seq(Chars)
  PROVE  Sidecars!Bytes(text) \in Nat /\ Sidecars!Bytes(text) >= Len(text) /\ (Len(text) = 0 => Sidecars!Bytes(text) = 0)
<1> DEFINE n == Len(text)
           Round(sum) == [i \in 0..Len(text) |-> IF i = 0 THEN 0 ELSE sum[i - 1] + text[i]]
           sum == CHOOSE sum : sum = Round(sum)
<1>1. \E f : f = Round(f)
  <2>1. PICK f : Sums(f, text, n) BY SumsExist
  <2>2. PICK g : g = [i \in 0..n |-> f[i]] OBVIOUS
  <2>3. DOMAIN g = 0..n /\ \A i \in 0..n : g[i] = f[i] BY <2>2
  <2>4. PICK h : h = Round(g) OBVIOUS
  <2>5. DOMAIN h = 0..n /\ \A i \in 0..n : h[i] = IF i = 0 THEN 0 ELSE g[i - 1] + text[i] BY <2>4
  <2>6. ASSUME NEW i \in 0..n PROVE h[i] = g[i]
    <3>1. CASE i = 0 BY <2>1, <2>3, <2>5, <3>1 DEF Sums
    <3>2. CASE i # 0
      <4>1. i \in 1..n /\ i - 1 \in 0..n BY <3>2
      <4>2. f[i] = f[i - 1] + text[i] BY <2>1, <4>1 DEF Sums
      <4> QED BY <2>3, <2>5, <3>2, <4>1, <4>2
    <3> QED BY <3>1, <3>2
  <2>7. h = g
    <3>1. h = [i \in 0..n |-> h[i]] BY <2>4
    <3>2. [i \in 0..n |-> h[i]] = [i \in 0..n |-> f[i]] BY <2>3, <2>6
    <3> QED BY <2>2, <3>1, <3>2
  <2> QED BY <2>4, <2>7
<1>2. sum = Round(sum)
  <2> HIDE DEF Round
  <2> QED BY <1>1
<1>3. Sidecars!Bytes(text) = sum[n] BY DEF Sidecars!Bytes
<1>4. \A i \in 0..n : sum[i] = IF i = 0 THEN 0 ELSE sum[i - 1] + text[i]
  <2> HIDE DEF sum
  <2> QED BY <1>2
<1> HIDE DEF sum, Round
<1> DEFINE Bad == {i \in 0..n : ~(sum[i] \in Nat /\ sum[i] >= i)}
<1>5. Bad = {}
  <2>1. SUFFICES ASSUME Bad # {} PROVE FALSE OBVIOUS
  <2>2. PICK m \in Bad : \A k \in Bad : m <= k
    <3>1. Bad \in SUBSET Nat OBVIOUS
    <3> HIDE DEF Bad
    <3> QED BY <2>1, <3>1, Least
  <2>3. m # 0 BY <1>4, <2>2
  <2>4. m - 1 \in 0..n /\ m - 1 \notin Bad BY <2>2, <2>3
  <2>5. text[m] \in Nat /\ text[m] >= 1 BY <2>2, <2>3 DEF Chars
  <2>6. sum[m] = sum[m - 1] + text[m] BY <1>4, <2>2, <2>3
  <2> QED BY <2>2, <2>4, <2>5, <2>6
<1> QED BY <1>3, <1>4, <1>5

(* What is kept and the notice fit the limit, or the notice is cut.         *)
LEMMA OutputFits ==
  ASSUME OutputAssumption, NEW text \in Results
  PROVE  Sidecars!BoundedOutput(text).size <= OutputLimit
<1>1. text \in Seq(Chars) /\ OutputLimit \in Nat /\ NoticeSize \in Nat BY DEF OutputAssumption, Chars
<1>2. CASE Sidecars!Bytes(text) <= OutputLimit BY <1>2 DEF Sidecars!BoundedOutput
<1>3. CASE ~(Sidecars!Bytes(text) <= OutputLimit)
  <2>1. PICK room : room = IF OutputLimit > NoticeSize THEN OutputLimit - NoticeSize ELSE 0 OBVIOUS
  <2>2. PICK fits : fits = {n \in 0..Len(text) : Sidecars!Bytes(SubSeq(text, 1, n)) <= room} OBVIOUS
  <2>3. PICK kept : kept = CHOOSE n \in fits : \A m \in fits : m <= n OBVIOUS
  <2>4. room \in Nat BY <1>1, <2>1
  <2>5. \A n \in 0..Len(text) :
          LET bytes == Sidecars!Bytes(SubSeq(text, 1, n)) IN bytes \in Nat /\ bytes >= n /\ (n = 0 => bytes = 0)
    <3> SUFFICES ASSUME NEW n \in 0..Len(text)
                 PROVE  LET bytes == Sidecars!Bytes(SubSeq(text, 1, n)) IN
                        bytes \in Nat /\ bytes >= n /\ (n = 0 => bytes = 0)
        OBVIOUS
    <3>1. PICK part : part = SubSeq(text, 1, n) OBVIOUS
    <3>2. part \in Seq(Chars) /\ Len(part) = n BY <1>1, <3>1
    <3> QED BY <3>1, <3>2, BytesCount
  <2>6. 0 \in fits BY <1>1, <2>2, <2>4, <2>5
  <2>7. \E n \in fits : \A m \in fits : m <= n
    <3>1. PICK short : short = {Len(text) - n : n \in fits} OBVIOUS
    <3>2. short \in SUBSET Nat /\ short # {} BY <1>1, <2>2, <2>6, <3>1
    <3>3. PICK k \in short : \A m \in short : k <= m BY <3>2, Least
    <3>4. PICK n \in fits : k = Len(text) - n BY <3>1
    <3>5. ASSUME NEW m \in fits PROVE m <= n
      <4>1. Len(text) - m \in short BY <3>1
      <4>2. m \in Nat /\ n \in Nat /\ Len(text) \in Nat BY <1>1, <2>2
      <4> QED BY <3>3, <3>4, <4>1, <4>2
    <3> QED BY <3>5
  <2>8. kept \in fits BY <2>3, <2>7
  <2>9. PICK bytes : bytes = Sidecars!Bytes(SubSeq(text, 1, kept)) OBVIOUS
  <2>10. bytes \in Nat /\ bytes >= kept /\ bytes <= room /\ kept \in Nat BY <2>2, <2>5, <2>8, <2>9
  <2>11. Sidecars!BoundedOutput(text).size = IF kept = 0 THEN Sidecars!Lesser(NoticeSize, OutputLimit) ELSE bytes + NoticeSize
      BY <1>3, <2>1, <2>2, <2>3, <2>9 DEF Sidecars!BoundedOutput
  <2> QED BY <1>1, <2>1, <2>10, <2>11 DEF Sidecars!Lesser
<1> QED BY <1>2, <1>3

-----------------------------------------------------------------------------
(* The Session of an owner replays to what its Jobs are.                     *)
(* No stages of a Pipeline invoke the same one, and a nested run is told     *)
(* under a version that no registered Pipeline has.                         *)
NestsAssumption ==
  \A p \in PipelineDefs :
    /\ p.version # 0
    /\ \A i, k \in 1..Len(p.stages) :
         (/\ p.stages[i].kind = "invoke-pipeline" /\ p.stages[k].kind = "invoke-pipeline"
          /\ p.stages[i].pipeline = p.stages[k].pipeline) => i = k

JobKey(job) == <<job.turn, Sidecars!Key(job.plan)>>
NestedKey(job, i) == <<job.turn, <<job.plan.stages[i].pipeline, 0>>>>
JobKeys(job) == {<<job.turn, r>> : r \in Sidecars!PlanRuns(job.plan)}
IsView(v) ==
  /\ {"ok", "pipelines"} \subseteq DOMAIN v /\ v.ok = TRUE
  /\ \A key \in DOMAIN v.pipelines : DOMAIN v.pipelines[key] = {"status", "stages"}
JobIsTold(runs, job) ==
  /\ JobKey(job) \in DOMAIN runs => runs[JobKey(job)].status = IF job.status = "killed" THEN "failed" ELSE job.status
  /\ job.status = "running" =>
       /\ JobKey(job) \in DOMAIN runs /\ runs[JobKey(job)].stages \subseteq 1..(job.stage - 1)
       /\ \A i \in job.stage..Len(job.plan.stages) :
            job.plan.stages[i].kind = "invoke-pipeline" => NestedKey(job, i) \notin DOMAIN runs
JournalIsTold(o) ==
  LET view == Sidecars!ProjectSession(journals[o])
  IN /\ IsView(view)
     /\ \A key \in DOMAIN view.pipelines : \E j \in DOMAIN jobs : jobs[j].owner = o /\ key \in JobKeys(jobs[j])
     /\ \A j \in DOMAIN jobs : jobs[j].owner = o => JobIsTold(view.pipelines, jobs[j])
JournalsInv ==
  /\ journals = [o \in Owners |-> journals[o]] /\ \A o \in Owners : \E S : journals[o] \in Seq(S)
  /\ \A o \in Owners : Sidecars!Shared(o) \/ JournalIsTold(o)

LEMMA JournalsTell == JournalsInv => Sidecars!RunsAreTold
BY DEF JournalsInv, JournalIsTold, IsView, JobIsTold, JobKey, Sidecars!RunsAreTold

(* What the fold makes of each fact of a run.                               *)
LEMMA RunStartFolds ==
  ASSUME NEW v, IsView(v), NEW e, e.type = "pipeline-started", <<e.turn, e.pipeline>> \notin DOMAIN v.pipelines
  PROVE  LET w == Sidecars!SessionStep(v, e) IN
         /\ IsView(w) /\ DOMAIN w.pipelines = DOMAIN v.pipelines \cup {<<e.turn, e.pipeline>>}
         /\ w.pipelines[<<e.turn, e.pipeline>>] = [status |-> "running", stages |-> {}]
         /\ \A key \in DOMAIN v.pipelines : w.pipelines[key] = v.pipelines[key]
<1>1. PICK key : key = <<e.turn, e.pipeline>> OBVIOUS
<1>2. PICK map : map = Sidecars!Put(v.pipelines, key, [status |-> "running", stages |-> {}]) OBVIOUS
<1>3. Sidecars!SessionStep(v, e) = [v EXCEPT !.pipelines = map]
    BY <1>1, <1>2 DEF IsView, Sidecars!SessionStep, Sidecars!PipelineStep, Sidecars!Admit, Sidecars!PipelineKey
<1>4. /\ DOMAIN map = DOMAIN v.pipelines \cup {key} /\ map[key] = [status |-> "running", stages |-> {}]
      /\ \A k \in DOMAIN v.pipelines : k # key => map[k] = v.pipelines[k]
    BY <1>2 DEF Sidecars!Put
<1> QED BY <1>1, <1>3, <1>4 DEF IsView

LEMMA RunMoveFolds ==
  ASSUME NEW v, IsView(v), NEW e, NEW entry, NEW key, key = <<e.turn, e.pipeline>>,
         key \in DOMAIN v.pipelines, v.pipelines[key].status = "running",
         \/ /\ e.type = "pipeline-stage" /\ e.stage \notin v.pipelines[key].stages
            /\ entry = [v.pipelines[key] EXCEPT !.stages = @ \cup {e.stage}]
         \/ e.type = "pipeline-completed" /\ entry = [v.pipelines[key] EXCEPT !.status = "completed"]
         \/ e.type = "pipeline-failed" /\ entry = [v.pipelines[key] EXCEPT !.status = "failed"]
  PROVE  LET w == Sidecars!SessionStep(v, e) IN
         /\ IsView(w) /\ w.pipelines = [v.pipelines EXCEPT ![key] = entry] /\ DOMAIN entry = {"status", "stages"}
<1>1. DOMAIN entry = {"status", "stages"} BY DEF IsView
<1>2. Sidecars!IsRunning(v, e) BY DEF Sidecars!IsRunning, Sidecars!PipelineKey
<1>3. Sidecars!SessionStep(v, e) = [v EXCEPT !.pipelines = [v.pipelines EXCEPT ![key] = entry]]
  <2>1. CASE e.type = "pipeline-stage"
      BY <1>2, <2>1 DEF IsView, Sidecars!SessionStep, Sidecars!PipelineStep, Sidecars!Admit, Sidecars!PipelineKey
  <2>2. CASE e.type = "pipeline-completed"
      BY <1>2, <2>2 DEF IsView, Sidecars!SessionStep, Sidecars!PipelineStep, Sidecars!Admit, Sidecars!PipelineKey
  <2>3. CASE e.type = "pipeline-failed"
      BY <1>2, <2>3 DEF IsView, Sidecars!SessionStep, Sidecars!PipelineStep, Sidecars!Admit, Sidecars!PipelineKey
  <2> QED BY <2>1, <2>2, <2>3
<1> QED BY <1>1, <1>3 DEF IsView

(* The runs that a Job tells of.                                            *)
LEMMA JobKeysHold ==
  ASSUME NEW job
  PROVE  /\ JobKey(job) \in JobKeys(job)
         /\ \A i \in 1..Len(job.plan.stages) :
              job.plan.stages[i].kind = "invoke-pipeline" => NestedKey(job, i) \in JobKeys(job)
BY DEF JobKey, NestedKey, JobKeys, Sidecars!PlanRuns
LEMMA JobKeysFollow ==
  ASSUME NEW job, NEW other, other.turn = job.turn, other.plan = job.plan
  PROVE  JobKeys(other) = JobKeys(job)
BY DEF JobKeys

(* What a fact of a Job's makes of its owner's view.                        *)
TellsOn(v, w, job) ==
  /\ IsView(w) /\ DOMAIN v.pipelines \subseteq DOMAIN w.pipelines
  /\ \A key \in DOMAIN w.pipelines : key \notin JobKeys(job) => key \in DOMAIN v.pipelines /\ w.pipelines[key] = v.pipelines[key]
  /\ JobIsTold(w.pipelines, job)
(* One Job moves or is added.                                               *)
OneMoves(j) ==
  /\ j \in DOMAIN jobs' /\ DOMAIN jobs \subseteq DOMAIN jobs'
  /\ j \in DOMAIN jobs => /\ jobs[j].owner = jobs'[j].owner /\ jobs[j].turn = jobs'[j].turn
                          /\ jobs[j].plan = jobs'[j].plan
  /\ \A i \in DOMAIN jobs' : i # j => i \in DOMAIN jobs /\ jobs'[i] = jobs[i]
(* The other Jobs of an owner tell of other runs.                           *)
LEMMA JournalGoesOn ==
  ASSUME SidecarInv, JournalsInv, NEW j, OneMoves(j), NEW o \in Owners, jobs'[j].owner = o,
         NEW log, NEW S, log \in Seq(S), journals' = [journals EXCEPT ![o] = log],
         ~Sidecars!Shared(o) /\ JournalIsTold(o) /\ ~Sidecars!Shared(o)' =>
           TellsOn(Sidecars!ProjectSession(journals[o]), Sidecars!ProjectSession(log), jobs'[j])
  PROVE  JournalsInv'
<1> DEFINE v == Sidecars!ProjectSession(journals[o])
           w == Sidecars!ProjectSession(log)
<1>0. /\ j \in DOMAIN jobs' /\ DOMAIN jobs \subseteq DOMAIN jobs'
      /\ j \in DOMAIN jobs => jobs[j].owner = o /\ jobs[j].turn = jobs'[j].turn /\ jobs[j].plan = jobs'[j].plan
      /\ \A i \in DOMAIN jobs' : i # j => i \in DOMAIN jobs /\ jobs'[i] = jobs[i]
    BY DEF OneMoves
<1>1. /\ journals' = [p \in Owners |-> journals'[p]] /\ journals'[o] = log
      /\ \A p \in Owners : p # o => journals'[p] = journals[p]
    BY DEF JournalsInv
<1>2. \A i \in DOMAIN jobs : jobs'[i].owner = jobs[i].owner /\ jobs'[i].turn = jobs[i].turn /\ jobs'[i].plan = jobs[i].plan
    BY <1>0
<1>3. \A p \in Owners : \E T : journals'[p] \in Seq(T)
  <2> SUFFICES ASSUME NEW p \in Owners PROVE \E T : journals'[p] \in Seq(T) OBVIOUS
  <2>1. CASE p = o BY <1>1, <2>1
  <2>2. CASE p # o BY <1>1, <2>2 DEF JournalsInv
  <2> QED BY <2>1, <2>2
<1>4. ASSUME NEW p \in Owners, Sidecars!Shared(p) PROVE Sidecars!Shared(p)'
    BY <1>0, <1>2, <1>4 DEF Sidecars!Shared
<1>5. ASSUME NEW p \in Owners, p # o, JournalIsTold(p) PROVE JournalIsTold(p)'
  <2>1. journals'[p] = journals[p] BY <1>1, <1>5
  <2>2. \A i \in DOMAIN jobs' : jobs'[i].owner = p => i \in DOMAIN jobs /\ jobs'[i] = jobs[i] BY <1>0, <1>5
  <2> QED BY <1>0, <1>2, <1>5, <2>1, <2>2 DEF JournalIsTold
<1>6. ASSUME ~Sidecars!Shared(o), JournalIsTold(o), ~Sidecars!Shared(o)' PROVE JournalIsTold(o)'
  <2>1. /\ IsView(w) /\ DOMAIN v.pipelines \subseteq DOMAIN w.pipelines
        /\ \A key \in DOMAIN w.pipelines : key \notin JobKeys(jobs'[j]) =>
             key \in DOMAIN v.pipelines /\ w.pipelines[key] = v.pipelines[key]
        /\ JobIsTold(w.pipelines, jobs'[j])
      BY <1>6 DEF TellsOn
  <2> HIDE DEF v, w
  <2>2. \A key \in DOMAIN w.pipelines : \E i \in DOMAIN jobs' : jobs'[i].owner = o /\ key \in JobKeys(jobs'[i])
    <3>1. \A i \in DOMAIN jobs : JobKeys(jobs'[i]) = JobKeys(jobs[i]) BY <1>2, JobKeysFollow
    <3> QED BY <1>0, <1>2, <1>6, <2>1, <3>1 DEF JournalIsTold, v
  <2>3. ASSUME NEW i \in DOMAIN jobs', jobs'[i].owner = o, i # j PROVE JobIsTold(w.pipelines, jobs'[i])
    <3>1. PICK job : job = jobs'[i] OBVIOUS
    <3>2. i \in DOMAIN jobs /\ jobs[i] = job /\ job.owner = o BY <1>0, <2>3, <3>1
    <3>3. JobKeys(job) \cap JobKeys(jobs'[j]) = {}
      <4> SUFFICES ASSUME NEW key \in JobKeys(job), key \in JobKeys(jobs'[j]) PROVE FALSE
          OBVIOUS
      <4>1. PICK q : q = jobs'[j] OBVIOUS
      <4>2. job.turn = q.turn /\ Sidecars!PlanRuns(job.plan) \cap Sidecars!PlanRuns(q.plan) # {}
          BY <4>1 DEF JobKeys
      <4>3. i \in DOMAIN jobs' /\ j \in DOMAIN jobs' /\ q.owner = o BY <1>0, <4>1
      <4> QED BY <1>6, <2>3, <3>1, <3>2, <4>1, <4>2, <4>3 DEF Sidecars!Shared
    <3>4. JobIsTold(v.pipelines, job) BY <1>6, <3>2 DEF JournalIsTold, v
    <3>5. job \in JobRecords BY <3>2 DEF SidecarInv, SidecarTyped
    <3>6. \A n \in job.stage..Len(job.plan.stages) : n \in 1..Len(job.plan.stages) BY <3>5 DEF JobRecords
    <3>7. /\ JobKey(job) \notin JobKeys(jobs'[j])
          /\ \A n \in job.stage..Len(job.plan.stages) :
               job.plan.stages[n].kind = "invoke-pipeline" => NestedKey(job, n) \notin JobKeys(jobs'[j])
        BY <3>3, <3>6, JobKeysHold
    <3> QED BY <2>1, <3>1, <3>4, <3>7 DEF JobIsTold
  <2>4. \A i \in DOMAIN jobs' : jobs'[i].owner = o => JobIsTold(w.pipelines, jobs'[i]) BY <2>1, <2>3
  <2> QED BY <1>1, <2>1, <2>2, <2>4 DEF JournalIsTold, w
<1>7. \A p \in Owners : Sidecars!Shared(p)' \/ JournalIsTold(p)'
  <2> SUFFICES ASSUME NEW p \in Owners PROVE Sidecars!Shared(p)' \/ JournalIsTold(p)' OBVIOUS
  <2>1. Sidecars!Shared(p) \/ JournalIsTold(p) BY DEF JournalsInv
  <2> QED BY <1>4, <1>5, <1>6, <2>1
<1> QED BY <1>1, <1>3, <1>7 DEF JournalsInv

(* Nothing is written, and no Job moves.                                    *)
LEMMA JournalStays ==
  ASSUME JournalsInv, journals' = journals, DOMAIN jobs' = DOMAIN jobs,
         \A i \in DOMAIN jobs : /\ jobs'[i].owner = jobs[i].owner /\ jobs'[i].turn = jobs[i].turn
                                /\ jobs'[i].plan = jobs[i].plan /\ jobs'[i].stage = jobs[i].stage
                                /\ jobs'[i].status = jobs[i].status
  PROVE  JournalsInv'
<1>1. \A o \in Owners : Sidecars!Shared(o) => Sidecars!Shared(o)' BY DEF Sidecars!Shared
<1>2. ASSUME NEW i \in DOMAIN jobs, NEW runs, JobIsTold(runs, jobs[i]) PROVE JobIsTold(runs, jobs'[i])
  <2>1. PICK old, job : old = jobs[i] /\ job = jobs'[i] OBVIOUS
  <2>2. job.turn = old.turn /\ job.plan = old.plan /\ job.stage = old.stage /\ job.status = old.status BY <2>1
  <2>3. JobIsTold(runs, old) BY <1>2, <2>1
  <2>4. JobKey(job) = JobKey(old) /\ \A n : NestedKey(job, n) = NestedKey(old, n) BY <2>2 DEF JobKey, NestedKey
  <2>5. JobIsTold(runs, job) BY <2>2, <2>3, <2>4 DEF JobIsTold
  <2> QED BY <2>1, <2>5
<1>4. \A i \in DOMAIN jobs : JobKeys(jobs'[i]) = JobKeys(jobs[i]) BY JobKeysFollow
<1>3. \A o \in Owners : JournalIsTold(o) => JournalIsTold(o)' BY <1>2, <1>4 DEF JournalIsTold
<1> QED BY <1>1, <1>3 DEF JournalsInv

LEMMA JobStartTells ==
  ASSUME NestsAssumption, SidecarInv, SidecarInv', JournalsInv, NEW c \in sidecarCalls, Sidecars!Start(c)
  PROVE  JournalsInv'
<1> USE DEF SidecarInv
<1>1. CASE ~Sidecars!IsSidecar(pipelines, c.id)
  <2>1. UNCHANGED <<jobs, journals>> BY <1>1 DEF Sidecars!Start
  <2> QED BY <2>1, JournalStays
<1>2. CASE Sidecars!IsSidecar(pipelines, c.id)
  <2>1. PICK n, plan, turn, status, o :
          /\ n = Len(jobs) + 1 /\ plan = pipelines[c.id] /\ o = c.owner
          /\ turn = IF c.turn = None THEN <<"rp-sidecar", n>> ELSE c.turn
          /\ status = IF Sidecars!Granted(plan, c.grant) THEN "running" ELSE "failed"
      OBVIOUS
  <2>2. PICK job : job = [owner |-> o, plan |-> plan, turn |-> turn, grant |-> c.grant, stage |-> 1, aborted |-> FALSE,
                          late |-> lifecycle # "live", status |-> status, output |-> None]
      OBVIOUS
  <2>3. PICK e : e = [type |-> "pipeline-started", turn |-> turn, pipeline |-> Sidecars!Key(plan)] OBVIOUS
  <2>4. /\ jobs' = Append(jobs, job)
        /\ journals' = IF status = "running" THEN [journals EXCEPT ![o] = Append(@, e)] ELSE journals
      BY <1>2, <2>1, <2>2, <2>3 DEF Sidecars!Start
  <2>5. /\ n \in Nat \ {0} /\ DOMAIN jobs = 1..(n - 1) /\ DOMAIN jobs' = 1..n /\ jobs'[n] = job
        /\ \A i \in DOMAIN jobs : jobs'[i] = jobs[i]
      BY <2>1, <2>4 DEF SidecarTyped
  <2>6. o \in Owners BY <2>1 DEF SidecarTyped
  <2>7. PICK v : v = Sidecars!ProjectSession(journals[o]) OBVIOUS
  <2>8. PICK S : journals[o] \in Seq(S) BY <2>6 DEF JournalsInv
  <2>9. ASSUME JournalIsTold(o), ~Sidecars!Shared(o)'
        PROVE  IsView(v) /\ \A key \in DOMAIN v.pipelines : key \notin JobKeys(job)
    <3>1. IsView(v) BY <2>7, <2>9 DEF JournalIsTold
    <3>2. ASSUME NEW key \in DOMAIN v.pipelines, key \in JobKeys(job) PROVE FALSE
      <4>1. PICK i \in DOMAIN jobs : jobs[i].owner = o /\ key \in JobKeys(jobs[i])
          BY <2>7, <2>9, <3>2 DEF JournalIsTold
      <4>2. i # n /\ i \in DOMAIN jobs' /\ n \in DOMAIN jobs' BY <2>5
      <4>3. jobs'[i].owner = o /\ jobs'[n].owner = o /\ jobs'[i] = jobs[i] /\ jobs'[n] = job
          BY <2>2, <2>5, <4>1
      <4>4. jobs'[i].turn = jobs'[n].turn /\ Sidecars!PlanRuns(jobs'[i].plan) \cap Sidecars!PlanRuns(jobs'[n].plan) # {}
          BY <3>2, <4>1, <4>3 DEF JobKeys
      <4> QED BY <2>9, <4>2, <4>3, <4>4 DEF Sidecars!Shared
    <3> QED BY <3>1, <3>2
  <2>10. /\ JobKey(job) = <<turn, Sidecars!Key(plan)>> /\ JobKey(job) \in JobKeys(job)
         /\ \A i \in 1..Len(job.plan.stages) :
              job.plan.stages[i].kind = "invoke-pipeline" => NestedKey(job, i) \in JobKeys(job)
      BY <2>2, JobKeysHold DEF JobKey
  <2>11. \A i \in DOMAIN jobs' : i # n => i \in DOMAIN jobs /\ jobs'[i] = jobs[i] BY <2>5
  <2>12. /\ n \in DOMAIN jobs' /\ n \notin DOMAIN jobs /\ DOMAIN jobs \subseteq DOMAIN jobs'
         /\ job.owner = o /\ job.turn = turn
    <3>1. n \in DOMAIN jobs' /\ n \notin DOMAIN jobs /\ DOMAIN jobs \subseteq DOMAIN jobs' BY <2>5
    <3> QED BY <2>2, <3>1
  <2>15. OneMoves(n) BY <2>11, <2>12 DEF OneMoves
  <2>13. CASE status = "running"
    <3>1. PICK log, w, T : log = Append(journals[o], e) /\ w = Sidecars!ProjectSession(log) /\ T = S \cup {e} OBVIOUS
    <3>2. journals[o] \in Seq(T) /\ log \in Seq(T) BY <2>8, <3>1
    <3>3. w = Sidecars!SessionStep(v, e) BY <2>7, <3>1, <3>2, Sidecars!ProjectSessionAppends
    <3>4. ASSUME JournalIsTold(o), ~Sidecars!Shared(o)'
          PROVE  /\ IsView(w) /\ DOMAIN v.pipelines \subseteq DOMAIN w.pipelines
                 /\ \A key \in DOMAIN w.pipelines : key \notin JobKeys(job) =>
                      key \in DOMAIN v.pipelines /\ w.pipelines[key] = v.pipelines[key]
                 /\ JobIsTold(w.pipelines, job)
      <4>1. IsView(v) /\ \A key \in DOMAIN v.pipelines : key \notin JobKeys(job) BY <2>9, <3>4
      <4>2. e.type = "pipeline-started" /\ <<e.turn, e.pipeline>> = JobKey(job) BY <2>3, <2>10
      <4>3. JobKey(job) \notin DOMAIN v.pipelines BY <2>10, <4>1
      <4>4. /\ IsView(w) /\ DOMAIN w.pipelines = DOMAIN v.pipelines \cup {JobKey(job)}
            /\ w.pipelines[JobKey(job)] = [status |-> "running", stages |-> {}]
            /\ \A key \in DOMAIN v.pipelines : w.pipelines[key] = v.pipelines[key]
          BY <3>3, <4>1, <4>2, <4>3, RunStartFolds
      <4>5. \A i : NestedKey(job, i) # JobKey(job)
        <5>1. plan.version # 0 BY <1>2, <2>1 DEF NestsAssumption, SidecarTyped, Sidecars!IsSidecar
        <5> QED BY <2>2, <5>1 DEF NestedKey, JobKey, Sidecars!Key
      <4>6. JobIsTold(w.pipelines, job)
        <5>1. job.status = "running" BY <2>2, <2>13
        <5>2. w.pipelines[JobKey(job)].status = "running" /\ w.pipelines[JobKey(job)].stages = {} BY <4>4
        <5>3. \A i \in 1..Len(job.plan.stages) :
                job.plan.stages[i].kind = "invoke-pipeline" => NestedKey(job, i) \notin DOMAIN w.pipelines
            BY <2>10, <4>1, <4>4, <4>5
        <5>4. job.stage = 1 BY <2>2
        <5> QED BY <4>4, <5>1, <5>2, <5>3, <5>4 DEF JobIsTold
      <4> QED BY <2>10, <4>4, <4>6
    <3>5. journals' = [journals EXCEPT ![o] = log] BY <2>4, <2>13, <3>1
    <3>6. ~Sidecars!Shared(o) /\ JournalIsTold(o) /\ ~Sidecars!Shared(o)' =>
            TellsOn(Sidecars!ProjectSession(journals[o]), Sidecars!ProjectSession(log), jobs'[n])
        BY <2>5, <2>7, <2>12, <3>1, <3>4 DEF TellsOn
    <3> QED BY <2>5, <2>6, <2>12, <2>15, <3>2, <3>5, <3>6, JournalGoesOn
  <2>14. CASE status = "failed"
    <3>1. journals' = journals BY <2>4, <2>14
    <3>2. journals' = [journals EXCEPT ![o] = journals[o]] BY <3>1, <2>6 DEF JournalsInv
    <3>3. ASSUME JournalIsTold(o), ~Sidecars!Shared(o)' PROVE IsView(v) /\ JobIsTold(v.pipelines, job)
      <4>1. IsView(v) /\ JobKey(job) \notin DOMAIN v.pipelines BY <2>9, <2>10, <3>3
      <4> QED BY <2>2, <2>14, <4>1 DEF JobIsTold
    <3>4. ~Sidecars!Shared(o) /\ JournalIsTold(o) /\ ~Sidecars!Shared(o)' =>
            TellsOn(Sidecars!ProjectSession(journals[o]), Sidecars!ProjectSession(journals[o]), jobs'[n])
        BY <2>5, <2>7, <3>3 DEF TellsOn
    <3> QED BY <2>5, <2>6, <2>8, <2>12, <2>15, <3>2, <3>4, JournalGoesOn
  <2> QED BY <2>1, <2>13, <2>14
<1> QED BY <1>1, <1>2

LEMMA JobMoves ==
  ASSUME NEW j \in DOMAIN jobs, NEW job, jobs' = [jobs EXCEPT ![j] = job],
         job.owner = jobs[j].owner, job.turn = jobs[j].turn, job.plan = jobs[j].plan
  PROVE  OneMoves(j) /\ jobs'[j] = job
<1>1. DOMAIN jobs' = DOMAIN jobs /\ jobs'[j] = job /\ \A i \in DOMAIN jobs : i # j => jobs'[i] = jobs[i] OBVIOUS
<1> QED BY <1>1 DEF OneMoves

LEMMA FactsAppend ==
  ASSUME NEW S, NEW s \in Seq(S), NEW a \in S, NEW b \in S, NEW c \in S
  PROVE  s \o <<c>> = Append(s, c) /\ s \o <<a, b, c>> = Append(Append(Append(s, a), b), c)
<1>1. s \o <<c>> = Append(s, c) OBVIOUS
<1>2. s \o <<a, b, c>> = Append(Append(Append(s, a), b), c) OBVIOUS
<1> QED BY <1>1, <1>2

(* What the stage's own fact makes of the view.                             *)
LEMMA MarkTells ==
  ASSUME NEW u, NEW old \in JobRecords, NEW job, NEW mark, IsView(u), old.status = "running",
         job = [old EXCEPT !.stage = @ + 1],
         mark = [type |-> "pipeline-stage", turn |-> old.turn, pipeline |-> Sidecars!Key(old.plan), stage |-> old.stage],
         JobKey(old) \in DOMAIN u.pipelines, u.pipelines[JobKey(old)].status = "running",
         u.pipelines[JobKey(old)].stages \subseteq 1..(old.stage - 1),
         \A i \in (old.stage + 1)..Len(old.plan.stages) :
           old.plan.stages[i].kind = "invoke-pipeline" => NestedKey(old, i) \notin DOMAIN u.pipelines
  PROVE  TellsOn(u, Sidecars!SessionStep(u, mark), job)
<1>1. PICK key, entry, w :
        /\ key = JobKey(old) /\ w = Sidecars!SessionStep(u, mark)
        /\ entry = [u.pipelines[key] EXCEPT !.stages = @ \cup {old.stage}]
    OBVIOUS
<1>2. /\ mark.type = "pipeline-stage" /\ mark.stage = old.stage /\ key = <<mark.turn, mark.pipeline>>
      /\ key[1] = old.turn
    BY <1>1 DEF JobKey
<1>3. old.stage \in Nat \ {0} BY DEF JobRecords
<1>4. mark.stage \notin u.pipelines[key].stages BY <1>1, <1>2, <1>3
<1>5. IsView(w) /\ w.pipelines = [u.pipelines EXCEPT ![key] = entry] /\ DOMAIN entry = {"status", "stages"}
  <2>1. key \in DOMAIN u.pipelines /\ u.pipelines[key].status = "running" BY <1>1
  <2>2. entry = [u.pipelines[key] EXCEPT !.stages = @ \cup {mark.stage}] BY <1>1, <1>2
  <2>3. key = <<mark.turn, mark.pipeline>> /\ mark.type = "pipeline-stage" BY <1>2
  <2> QED BY <1>1, <1>4, <2>1, <2>2, <2>3, RunMoveFolds, SMTT(30)
<1>6. /\ job.turn = old.turn /\ job.plan = old.plan /\ job.status = "running" /\ job.stage = old.stage + 1
    BY DEF JobRecords
<1>7. JobKey(job) = key /\ \A i : NestedKey(job, i) = NestedKey(old, i) BY <1>1, <1>6 DEF JobKey, NestedKey
<1>8. entry.status = "running" /\ entry.stages = u.pipelines[key].stages \cup {old.stage}
    BY <1>1 DEF IsView
<1>9. DOMAIN w.pipelines = DOMAIN u.pipelines /\ w.pipelines[key] = entry
      /\ \A k \in DOMAIN u.pipelines : k # key => w.pipelines[k] = u.pipelines[k]
    BY <1>1, <1>5
<1>10. entry.stages \subseteq 1..(job.stage - 1) BY <1>1, <1>3, <1>6, <1>8
<1>11. JobIsTold(w.pipelines, job) BY <1>1, <1>6, <1>7, <1>8, <1>9, <1>10 DEF JobIsTold
<1>12. key \in JobKeys(job) BY <1>7, JobKeysHold
<1> QED BY <1>1, <1>5, <1>9, <1>11, <1>12 DEF TellsOn

LEMMA StageTells ==
  ASSUME NestsAssumption, SidecarInv, JournalsInv, NEW j \in DOMAIN jobs, Sidecars!ExecuteStage(j)
  PROVE  JournalsInv'
<1>1. PICK old, stage, job, mark, o :
        /\ old = jobs[j] /\ stage = old.plan.stages[old.stage] /\ job = [old EXCEPT !.stage = @ + 1] /\ o = old.owner
        /\ mark = [type |-> "pipeline-stage", turn |-> old.turn, pipeline |-> Sidecars!Key(old.plan), stage |-> old.stage]
    OBVIOUS
<1>2. old \in JobRecords BY <1>1 DEF SidecarInv, SidecarTyped
<1>3. /\ old.status = "running" /\ old.stage <= Len(old.plan.stages) /\ jobs' = [jobs EXCEPT ![j] = job]
      /\ journals' = [journals EXCEPT ![o] = @ \o Sidecars!Facts(j, stage)]
    BY <1>1 DEF Sidecars!ExecuteStage, Sidecars!Write
<1>4. o \in Owners /\ old.plan \in PipelineDefs /\ old.stage \in Nat \ {0} BY <1>1, <1>2 DEF JobRecords
<1>5. job.owner = o /\ job.turn = old.turn /\ job.plan = old.plan BY <1>1, <1>2 DEF JobRecords
<1>6. OneMoves(j) /\ jobs'[j] = job BY <1>1, <1>3, <1>5, JobMoves
<1>7. PICK v, S : v = Sidecars!ProjectSession(journals[o]) /\ journals[o] \in Seq(S) BY <1>4 DEF JournalsInv
<1>8. ASSUME JournalIsTold(o)
      PROVE  /\ IsView(v) /\ JobKey(old) \in DOMAIN v.pipelines /\ v.pipelines[JobKey(old)].status = "running"
             /\ v.pipelines[JobKey(old)].stages \subseteq 1..(old.stage - 1)
             /\ \A i \in old.stage..Len(old.plan.stages) :
                  old.plan.stages[i].kind = "invoke-pipeline" => NestedKey(old, i) \notin DOMAIN v.pipelines
  <2>1. IsView(v) /\ JobIsTold(v.pipelines, old) BY <1>1, <1>7, <1>8 DEF JournalIsTold
  <2> QED BY <1>3, <2>1 DEF JobIsTold
<1>9. JobKey(old) = <<mark.turn, mark.pipeline>> BY <1>1 DEF JobKey
<1>10. \A i \in (old.stage + 1)..Len(old.plan.stages) : i \in old.stage..Len(old.plan.stages) BY <1>4
<1>11. CASE stage.kind # "invoke-pipeline"
  <2>1. PICK log, T : log = Append(journals[o], mark) /\ T = S \cup {mark} OBVIOUS
  <2>2. journals[o] \in Seq(T) /\ mark \in T /\ log \in Seq(T) BY <1>7, <2>1
  <2>3. journals[o] \o Sidecars!Facts(j, stage) = log
    <3>1. Sidecars!Facts(j, stage) = <<mark>> BY <1>1, <1>11 DEF Sidecars!Facts
    <3> QED BY <2>1, <2>2, <3>1, FactsAppend
  <2>4. journals' = [journals EXCEPT ![o] = log] BY <1>3, <2>3
  <2>5. Sidecars!ProjectSession(log) = Sidecars!SessionStep(v, mark)
      BY <1>7, <2>1, <2>2, Sidecars!ProjectSessionAppends
  <2>6. ASSUME JournalIsTold(o) PROVE TellsOn(v, Sidecars!ProjectSession(log), job)
      BY <1>1, <1>2, <1>3, <1>8, <1>10, <2>5, <2>6, MarkTells
  <2> QED BY <1>4, <1>5, <1>6, <1>7, <2>2, <2>4, <2>6, JournalGoesOn
<1>12. CASE stage.kind = "invoke-pipeline"
  <2>1. PICK nested, closed :
          /\ nested = [type |-> "pipeline-started", turn |-> old.turn, pipeline |-> <<stage.pipeline, 0>>]
          /\ closed = [nested EXCEPT !.type = "pipeline-completed"]
      OBVIOUS
  <2>2. PICK log1, log2, log3, T :
          /\ log1 = Append(journals[o], nested) /\ log2 = Append(log1, closed) /\ log3 = Append(log2, mark)
          /\ T = S \cup {nested, closed, mark}
      OBVIOUS
  <2>3. /\ journals[o] \in Seq(T) /\ nested \in T /\ closed \in T /\ mark \in T
        /\ log1 \in Seq(T) /\ log2 \in Seq(T) /\ log3 \in Seq(T)
      BY <1>7, <2>2
  <2>4. Sidecars!Facts(j, stage) = <<nested, closed, mark>> BY <1>1, <1>12, <2>1 DEF Sidecars!Facts
  <2>5. journals[o] \o <<nested, closed, mark>> = log3 BY <2>2, <2>3, FactsAppend
  <2>6. journals' = [journals EXCEPT ![o] = log3] BY <1>3, <2>4, <2>5
  <2>7. PICK v1, v2, v3 : /\ v1 = Sidecars!SessionStep(v, nested) /\ v2 = Sidecars!SessionStep(v1, closed)
                          /\ v3 = Sidecars!SessionStep(v2, mark)
      OBVIOUS
  <2>8. Sidecars!ProjectSession(log1) = v1 BY <1>7, <2>2, <2>3, <2>7, Sidecars!ProjectSessionAppends
  <2>9. Sidecars!ProjectSession(log2) = v2 BY <2>2, <2>3, <2>7, <2>8, Sidecars!ProjectSessionAppends
  <2>10. Sidecars!ProjectSession(log3) = v3 BY <2>2, <2>3, <2>7, <2>9, Sidecars!ProjectSessionAppends
  <2>11. PICK inner : inner = <<old.turn, <<stage.pipeline, 0>>>> OBVIOUS
  <2>12. /\ nested.type = "pipeline-started" /\ inner = <<nested.turn, nested.pipeline>>
         /\ closed.type = "pipeline-completed" /\ inner = <<closed.turn, closed.pipeline>>
         /\ inner = NestedKey(old, old.stage)
      BY <1>1, <2>1, <2>11 DEF NestedKey
  <2>16. inner \in JobKeys(job)
    <3>1. old.stage \in 1..Len(old.plan.stages) BY <1>3, <1>4
    <3>2. inner \in JobKeys(old) BY <1>1, <1>12, <2>12, <3>1, JobKeysHold
    <3> QED BY <1>5, <3>2, JobKeysFollow
  <2>13. inner # JobKey(old)
    <3>1. old.plan.version # 0 BY <1>4 DEF NestsAssumption
    <3> QED BY <2>11, <3>1 DEF JobKey, Sidecars!Key
  <2>14. \A i \in (old.stage + 1)..Len(old.plan.stages) :
           old.plan.stages[i].kind = "invoke-pipeline" => NestedKey(old, i) # inner
    <3> SUFFICES ASSUME NEW i \in (old.stage + 1)..Len(old.plan.stages), old.plan.stages[i].kind = "invoke-pipeline",
                        NestedKey(old, i) = inner
                 PROVE  FALSE
        OBVIOUS
    <3>1. old.plan.stages[i].pipeline = stage.pipeline BY <2>11 DEF NestedKey
    <3>2. Len(old.plan.stages) \in Int \/ Len(old.plan.stages) \notin Int OBVIOUS
    <3>3. i \in 1..Len(old.plan.stages) /\ old.stage \in 1..Len(old.plan.stages) /\ i # old.stage BY <1>3, <1>4
    <3> QED BY <1>1, <1>4, <1>12, <3>1, <3>3 DEF NestsAssumption
  <2>15. ASSUME JournalIsTold(o) PROVE TellsOn(v, v3, job)
    <3>1. inner \notin DOMAIN v.pipelines
      <4>1. old.stage \in old.stage..Len(old.plan.stages) BY <1>3, <1>4
      <4> QED BY <1>1, <1>8, <1>12, <2>12, <2>15, <4>1
    <3>2. /\ IsView(v1) /\ DOMAIN v1.pipelines = DOMAIN v.pipelines \cup {inner}
          /\ v1.pipelines[inner] = [status |-> "running", stages |-> {}]
          /\ \A k \in DOMAIN v.pipelines : v1.pipelines[k] = v.pipelines[k]
        BY <1>8, <2>7, <2>12, <2>15, <3>1, RunStartFolds
    <3>3. PICK entry : entry = [v1.pipelines[inner] EXCEPT !.status = "completed"] OBVIOUS
    <3>4. v1.pipelines[inner].status = "running" /\ inner \in DOMAIN v1.pipelines BY <3>2
    <3>5. IsView(v2) /\ v2.pipelines = [v1.pipelines EXCEPT ![inner] = entry]
        BY <2>7, <2>12, <3>2, <3>3, <3>4, RunMoveFolds
    <3>6. /\ DOMAIN v2.pipelines = DOMAIN v.pipelines \cup {inner}
          /\ \A k \in DOMAIN v.pipelines : v2.pipelines[k] = v.pipelines[k]
        BY <3>1, <3>2, <3>5
    <3>7. TellsOn(v2, v3, job)
      <4>1. \A i \in (old.stage + 1)..Len(old.plan.stages) :
              old.plan.stages[i].kind = "invoke-pipeline" => NestedKey(old, i) \notin DOMAIN v2.pipelines
          BY <1>8, <1>10, <2>14, <2>15, <3>6
      <4>2. /\ JobKey(old) \in DOMAIN v2.pipelines /\ v2.pipelines[JobKey(old)].status = "running"
            /\ v2.pipelines[JobKey(old)].stages \subseteq 1..(old.stage - 1)
          BY <1>8, <2>15, <3>6
      <4> QED BY <1>1, <1>2, <1>3, <2>7, <3>5, <4>1, <4>2, MarkTells
    <3> QED BY <2>16, <3>6, <3>7 DEF TellsOn
  <2> QED BY <1>4, <1>5, <1>6, <1>7, <2>3, <2>6, <2>10, <2>15, JournalGoesOn
<1> QED BY <1>11, <1>12

LEMMA EndTells ==
  ASSUME SidecarInv, JournalsInv, NEW j \in DOMAIN jobs,
         Sidecars!Fails(j) \/ \E text \in Results : Sidecars!Complete(j, text)
  PROVE  JournalsInv'
<1>1. PICK old, o : old = jobs[j] /\ o = old.owner OBVIOUS
<1>2. old \in JobRecords BY <1>1 DEF SidecarInv, SidecarTyped
<1>3. \E status, output, type :
        /\ old.status = "running" /\ jobs' = [jobs EXCEPT ![j].status = status, ![j].output = output]
        /\ journals' = [journals EXCEPT ![o] = @ \o <<Sidecars!Event(j, type)>>]
        /\ \/ type = "pipeline-completed" /\ status = "completed"
           \/ type = "pipeline-failed" /\ status \in {"failed", "killed"}
  <2>1. CASE Sidecars!Fails(j)
      BY <1>1, <2>1 DEF Sidecars!Fails, Sidecars!Write, Sidecars!Settle
  <2>2. CASE \E text \in Results : Sidecars!Complete(j, text)
      BY <1>1, <2>2 DEF Sidecars!Complete, Sidecars!Write, Sidecars!Settle
  <2> QED BY <2>1, <2>2
<1>4. PICK status, output, type :
        /\ old.status = "running" /\ jobs' = [jobs EXCEPT ![j].status = status, ![j].output = output]
        /\ journals' = [journals EXCEPT ![o] = @ \o <<Sidecars!Event(j, type)>>]
        /\ \/ type = "pipeline-completed" /\ status = "completed"
           \/ type = "pipeline-failed" /\ status \in {"failed", "killed"}
    BY <1>3
<1>5. PICK job, e, told :
        /\ job = [old EXCEPT !.status = status, !.output = output]
        /\ e = [type |-> type, turn |-> old.turn, pipeline |-> Sidecars!Key(old.plan)]
        /\ told = IF status = "killed" THEN "failed" ELSE status
    OBVIOUS
<1>6. jobs' = [jobs EXCEPT ![j] = job] BY <1>1, <1>4, <1>5
<1>7. journals' = [journals EXCEPT ![o] = @ \o <<e>>] BY <1>1, <1>4, <1>5 DEF Sidecars!Event
<1>8. /\ o \in Owners /\ job.owner = o /\ job.turn = old.turn /\ job.plan = old.plan
      /\ job.status = status /\ status # "running"
    BY <1>1, <1>2, <1>4, <1>5 DEF JobRecords
<1>9. OneMoves(j) /\ jobs'[j] = job BY <1>1, <1>6, <1>8, JobMoves
<1>10. PICK v, S : v = Sidecars!ProjectSession(journals[o]) /\ journals[o] \in Seq(S) BY <1>8 DEF JournalsInv
<1>11. PICK log, T : log = Append(journals[o], e) /\ T = S \cup {e} OBVIOUS
<1>12. journals[o] \in Seq(T) /\ e \in T /\ log \in Seq(T) BY <1>10, <1>11
<1>13. journals' = [journals EXCEPT ![o] = log]
  <2>1. journals[o] \o <<e>> = log BY <1>11, <1>12, FactsAppend
  <2> QED BY <1>7, <2>1
<1>14. Sidecars!ProjectSession(log) = Sidecars!SessionStep(v, e) BY <1>10, <1>11, <1>12, Sidecars!ProjectSessionAppends
<1>15. ASSUME JournalIsTold(o) PROVE TellsOn(v, Sidecars!ProjectSession(log), job)
  <2>1. PICK key, w : key = JobKey(old) /\ w = Sidecars!ProjectSession(log) OBVIOUS
  <2>2. IsView(v) /\ JobIsTold(v.pipelines, old) BY <1>1, <1>10, <1>15 DEF JournalIsTold
  <2>3. key \in DOMAIN v.pipelines /\ v.pipelines[key].status = "running" BY <1>4, <2>1, <2>2 DEF JobIsTold
  <2>4. PICK entry : entry = [v.pipelines[key] EXCEPT !.status = told] OBVIOUS
  <2>5. key = <<e.turn, e.pipeline>> /\ e.type = type /\ key[1] = old.turn BY <1>5, <2>1 DEF JobKey
  <2>6. \/ type = "pipeline-completed" /\ told = "completed"
        \/ type = "pipeline-failed" /\ told = "failed"
      BY <1>4, <1>5
  <2>7. IsView(w) /\ w.pipelines = [v.pipelines EXCEPT ![key] = entry]
      BY <1>14, <2>1, <2>2, <2>3, <2>4, <2>5, <2>6, RunMoveFolds
  <2>8. DOMAIN w.pipelines = DOMAIN v.pipelines /\ w.pipelines[key] = entry
        /\ \A k \in DOMAIN v.pipelines : k # key => w.pipelines[k] = v.pipelines[k]
      BY <2>3, <2>7
  <2>9. entry.status = told BY <2>2, <2>3, <2>4 DEF IsView
  <2>10. JobKey(job) = key BY <1>8, <2>1 DEF JobKey
  <2>11. JobIsTold(w.pipelines, job) BY <1>5, <1>8, <2>8, <2>9, <2>10 DEF JobIsTold
  <2>12. key \in JobKeys(job) BY <2>10, JobKeysHold
  <2> QED BY <2>1, <2>7, <2>8, <2>11, <2>12 DEF TellsOn
<1> QED BY <1>8, <1>9, <1>10, <1>12, <1>13, <1>15, JournalGoesOn

LEMMA OthersTell ==
  ASSUME SidecarInv, JournalsInv,
         \/ \E p \in PipelineDefs : Sidecars!ReplacePipeline(p)
         \/ \E id \in DOMAIN pipelines : Sidecars!RemovePipeline(id)
         \/ \E id \in DOMAIN published, owner \in Owners, grant \in Grants, turn \in TurnIds :
              Sidecars!Authorize(id, owner, grant, turn)
         \/ \E j \in DOMAIN jobs : Sidecars!Cancel(j) \/ Sidecars!Drained(j) \/ Sidecars!GraceEnds(j)
         \/ \E refused \in SUBSET active : Sidecars!Unload(refused)
         \/ Sidecars!Unloaded
  PROVE  JournalsInv'
<1>1. jobs \in Seq(JobRecords) BY DEF SidecarInv, SidecarTyped
<1>2. \A j \in DOMAIN jobs : LET job == [jobs[j] EXCEPT !.aborted = TRUE] IN
        /\ job.owner = jobs[j].owner /\ job.turn = jobs[j].turn /\ job.plan = jobs[j].plan
        /\ job.stage = jobs[j].stage /\ job.status = jobs[j].status
  <2> SUFFICES ASSUME NEW j \in DOMAIN jobs
               PROVE  LET job == [jobs[j] EXCEPT !.aborted = TRUE] IN
                      /\ job.owner = jobs[j].owner /\ job.turn = jobs[j].turn /\ job.plan = jobs[j].plan
                      /\ job.stage = jobs[j].stage /\ job.status = jobs[j].status
      OBVIOUS
  <2>1. PICK old : old = jobs[j] /\ old \in JobRecords BY <1>1
  <2> QED BY <2>1 DEF JobRecords
<1>3. CASE jobs' = jobs /\ journals' = journals BY <1>3, JournalStays
<1>4. CASE \E j \in DOMAIN jobs : Sidecars!Cancel(j)
  <2>1. PICK j \in DOMAIN jobs : Sidecars!Cancel(j) BY <1>4
  <2>2. PICK job : job = [jobs[j] EXCEPT !.aborted = TRUE] OBVIOUS
  <2>3. jobs' = [jobs EXCEPT ![j] = job] /\ journals' = journals BY <2>1, <2>2 DEF Sidecars!Cancel
  <2>4. DOMAIN jobs' = DOMAIN jobs /\ jobs'[j] = job /\ \A i \in DOMAIN jobs : i # j => jobs'[i] = jobs[i] BY <2>3
  <2>5. /\ job.owner = jobs[j].owner /\ job.turn = jobs[j].turn /\ job.plan = jobs[j].plan
        /\ job.stage = jobs[j].stage /\ job.status = jobs[j].status
      BY <1>2, <2>2
  <2> QED BY <2>3, <2>4, <2>5, JournalStays
<1>5. CASE \E refused \in SUBSET active : Sidecars!Unload(refused)
  <2>1. PICK refused \in SUBSET active : Sidecars!Unload(refused) BY <1>5
  <2>2. /\ journals' = journals
        /\ jobs' = [j \in DOMAIN jobs |-> IF j \in active \ refused THEN [jobs[j] EXCEPT !.aborted = TRUE] ELSE jobs[j]]
      BY <2>1 DEF Sidecars!Unload
  <2>3. DOMAIN jobs' = DOMAIN jobs BY <2>2
  <2>4. \A j \in DOMAIN jobs : jobs'[j] = jobs[j] \/ jobs'[j] = [jobs[j] EXCEPT !.aborted = TRUE] BY <2>2
  <2>5. \A j \in DOMAIN jobs : /\ jobs'[j].owner = jobs[j].owner /\ jobs'[j].turn = jobs[j].turn
                               /\ jobs'[j].plan = jobs[j].plan /\ jobs'[j].stage = jobs[j].stage
                               /\ jobs'[j].status = jobs[j].status
      BY <1>2, <2>4
  <2> QED BY <2>2, <2>3, <2>5, JournalStays
<1> QED
    BY <1>3, <1>4, <1>5
    DEF Sidecars!ReplacePipeline, Sidecars!RemovePipeline, Sidecars!EditPipelines, Sidecars!Authorize,
        Sidecars!Drained, Sidecars!GraceEnds, Sidecars!Unloaded

-----------------------------------------------------------------------------
(* Whatever Pipelines are registered, called, cancelled and unloaded when,   *)
(* the published capabilities are those of the registered Sidecars, no stage *)
(* asks for more than its Job was given, no output is over the limit, the    *)
(* Session of an owner whose Jobs tell of different runs replays to how      *)
(* each of them ended, and an unload that reports no failure leaves no Job   *)
(* of those that ran when it began.  (sidecar-jobs)                         *)
THEOREM SidecarsAreSafe ==
  ASSUME SidecarAssumption, OutputAssumption, NestsAssumption
  PROVE  Sidecars!Spec => []SidecarsAreSound
<1>1. Sidecars!Init => SidecarInv
  <2> SUFFICES ASSUME Sidecars!Init PROVE SidecarInv OBVIOUS
  <2>1. /\ pipelines = Sidecars!Map0 /\ published = Sidecars!Map0 /\ sidecarCalls = {} /\ jobs = <<>> /\ active = {}
        /\ lifecycle = "live" /\ requested = {} /\ drain = [waiting |-> {}, taken |-> {}, failures |-> {}]
      BY DEF Sidecars!Init
  <2>2. DOMAIN Sidecars!Map0 = {} BY DEF Sidecars!Map0
  <2>3. SidecarTyped
    <3>1. drain \in Drains BY <2>1 DEF Drains
    <3>2. jobs \in Seq(JobRecords) BY <2>1
    <3> QED BY <2>1, <2>2, <3>1, <3>2 DEF SidecarTyped
  <2>4. published = [id \in {i \in DOMAIN pipelines : Sidecars!IsSidecar(pipelines, i)} |-> pipelines[id]]
      BY <2>1, <2>2 DEF Sidecars!Map0
  <2>5. active = {j \in DOMAIN jobs : jobs[j].status = "running"} BY <2>1
  <2> QED
      BY <2>1, <2>3, <2>4, <2>5
      DEF SidecarInv, DrainIsWhole, Sidecars!SidecarsArePublished, Sidecars!StagesStayWithin, Sidecars!UnloadIsWhole
<1>2. SidecarInv /\ [Sidecars!Next]_(Sidecars!sjVars) => SidecarInv'
  <2> SUFFICES ASSUME SidecarInv, [Sidecars!Next]_(Sidecars!sjVars) PROVE SidecarInv' OBVIOUS
  <2>1. CASE UNCHANGED Sidecars!sjVars
      BY <2>1
      DEF Sidecars!sjVars, SidecarInv, SidecarTyped, DrainIsWhole, Sidecars!SidecarsArePublished, Sidecars!IsSidecar,
          Sidecars!StagesStayWithin, Sidecars!UnloadIsWhole
  <2> QED
      BY <2>1, EditsKeep, SidecarCallsKeep, SidecarStartKeeps, StagesKeep, EndsKeep, UnloadKeeps, DrainKeeps DEF Sidecars!Next
<1>3. Sidecars!Init => JournalsInv
  <2> SUFFICES ASSUME Sidecars!Init PROVE JournalsInv OBVIOUS
  <2>1. jobs = <<>> /\ journals = [o \in Owners |-> <<>>] BY DEF Sidecars!Init
  <2>2. DOMAIN jobs = {} BY <2>1
  <2>3. ASSUME NEW o \in Owners PROVE JournalIsTold(o)
    <3>1. journals[o] = <<>> BY <2>1
    <3>2. PICK view : view = Sidecars!ProjectSession(journals[o]) OBVIOUS
    <3>3. view = Sidecars!EmptySession BY <3>1, <3>2, Sidecars!NothingIsProjected
    <3>4. {"ok", "pipelines"} \subseteq DOMAIN view /\ view.ok = TRUE /\ DOMAIN view.pipelines = {}
        BY <3>3 DEF Sidecars!EmptySession, Sidecars!Map0
    <3> QED BY <2>2, <3>2, <3>4 DEF JournalIsTold, IsView
  <2>4. \A o \in Owners : journals[o] \in Seq({}) BY <2>1
  <2> QED BY <2>1, <2>3, <2>4 DEF JournalsInv
<1>4. SidecarInv /\ JournalsInv /\ [Sidecars!Next]_(Sidecars!sjVars) => (SidecarInv /\ JournalsInv)'
  <2> SUFFICES ASSUME SidecarInv, JournalsInv, [Sidecars!Next]_(Sidecars!sjVars) PROVE (SidecarInv /\ JournalsInv)' OBVIOUS
  <2>1. SidecarInv' BY <1>2
  <2>2. JournalsInv'
    <3>1. CASE UNCHANGED Sidecars!sjVars
      <4>1. jobs' = jobs /\ journals' = journals BY <3>1 DEF Sidecars!sjVars
      <4> QED BY <4>1, JournalStays
    <3> QED BY <2>1, <3>1, JobStartTells, StageTells, EndTells, OthersTell DEF Sidecars!Next
  <2> QED BY <2>1, <2>2
<1>5. SidecarInv /\ JournalsInv => SidecarsAreSound
  <2> SUFFICES ASSUME SidecarInv, JournalsInv PROVE SidecarsAreSound OBVIOUS
  <2>1. Sidecars!OutputsAreBounded
    <3> SUFFICES ASSUME NEW j \in DOMAIN jobs, jobs[j].output # None PROVE jobs[j].output.size <= OutputLimit
        BY DEF Sidecars!OutputsAreBounded
    <3>1. jobs[j] \in JobRecords BY DEF SidecarInv, SidecarTyped
    <3>2. PICK text \in Results : jobs[j].output = Sidecars!BoundedOutput(text) BY <3>1 DEF JobRecords
    <3> QED BY <3>2, OutputFits
  <2> QED BY <2>1, JournalsTell DEF SidecarInv, SidecarsAreSound, Sidecars!SidecarsAreSound
<1> QED BY <1>1, <1>3, <1>4, <1>5, PTL DEF Sidecars!Spec

-----------------------------------------------------------------------------
(* Agent roles and delegations to them.                                     *)
Agents == INSTANCE AgentRuns WITH
  catalog <- roleCatalog, runs <- delegations, log <- session, changes <- roleChanges, MaxChanges <- MaxRoleChanges

(* What the Catalog offers is what can be routed; every child that started   *)
(* is told of once from its start to one end, and the end is the one that    *)
(* the caller hears of.  (agent-runtime, agent-provider-harness)             *)
AgentsAreSound == Agents!AgentsAreSound

(* A role is registered under its own id, and its capability leads to it.    *)
RolesInv ==
  /\ \A id \in DOMAIN roles : /\ roles[id].id = id /\ roles[id].capability \in DOMAIN roleCatalog
                              /\ roleCatalog[roles[id].capability] = id
  /\ Agents!CatalogIsRouted

LEMMA RolesKeep ==
  ASSUME RolesInv, NEW role \in RoleDefs, Agents!RegisterRole(role) \/ Agents!DisposeRole(role)
  PROVE  RolesInv'
<1> USE DEF RolesInv, Agents!CatalogIsRouted, Agents!Lookup, Agents!Range
<1>1. CASE Agents!RegisterRole(role) /\ ~Agents!Published(role)
    BY <1>1 DEF Agents!RegisterRole
<1>2. CASE Agents!RegisterRole(role) /\ Agents!Published(role)
  <2>1. /\ role.id \notin DOMAIN roles /\ role.capability \notin DOMAIN roleCatalog
        /\ roleHandles' = roleHandles \cup {role}
        /\ DOMAIN roles' = DOMAIN roles \cup {role.id}
        /\ \A id \in DOMAIN roles' : roles'[id] = IF id = role.id THEN role ELSE roles[id]
        /\ DOMAIN roleCatalog' = DOMAIN roleCatalog \cup {role.capability}
        /\ \A c \in DOMAIN roleCatalog' : roleCatalog'[c] = IF c = role.capability THEN role.id ELSE roleCatalog[c]
      BY <1>2 DEF Agents!RegisterRole, Agents!Published, Agents!Put
  <2>2. Agents!Range(roles') = Agents!Range(roles) \cup {role} BY <2>1
  <2> QED BY <2>1, <2>2
<1>3. CASE Agents!DisposeRole(role)
  <2>1. PICK id \in DOMAIN roles : role = roles[id] /\ id = role.id BY <1>3 DEF Agents!DisposeRole
  <2>2. /\ roleHandles' = roleHandles \ {role}
        /\ DOMAIN roles' = DOMAIN roles \ {id} /\ \A i \in DOMAIN roles' : roles'[i] = roles[i]
        /\ DOMAIN roleCatalog' = DOMAIN roleCatalog \ {role.capability}
        /\ \A c \in DOMAIN roleCatalog' : roleCatalog'[c] = roleCatalog[c]
      BY <1>3, <2>1 DEF Agents!DisposeRole, Agents!Drop, Agents!Restrict
  <2>3. Agents!Range(roles') = Agents!Range(roles) \ {role} BY <2>1, <2>2
  <2>4. roleHandles' = Agents!Range(roles') BY <2>2, <2>3
  <2> HIDE DEF Agents!Range
  <2>5. \A i \in DOMAIN roles' : roles[i].capability # role.capability BY <2>1, <2>2
  <2>6. \A i \in DOMAIN roles' : /\ roles'[i].id = i /\ roles'[i].capability \in DOMAIN roleCatalog'
                                 /\ roleCatalog'[roles'[i].capability] = i
      BY <2>2, <2>5
  <2>7. \A c \in DOMAIN roleCatalog' : roleCatalog'[c] \in DOMAIN roles' /\ roles'[roleCatalog'[c]].capability = c
    <3>1. \A c \in DOMAIN roleCatalog' : roleCatalog[c] \in DOMAIN roles /\ roles[roleCatalog[c]].capability = c BY <2>2
    <3>2. \A c \in DOMAIN roleCatalog' : roleCatalog[c] # id BY <2>1, <2>2, <3>1
    <3> QED BY <2>2, <3>1, <3>2
  <2> QED BY <2>4, <2>6, <2>7
<1> QED BY <1>1, <1>2, <1>3

-----------------------------------------------------------------------------
(* What is told of a child.  The values of the other fields are of no        *)
(* account: whatever they are, some set holds them.                         *)
Children == {"child"} \X Nat
SessionFacts(any) ==
  [type : any, turn : any, agent : Children \cup {<<"run", n>> : n \in Nat}, role : any, parent : any, operation : any]
Delegations(any) ==
  [role : any, provider : any, transport : any, turn : any, media : any, child : Children \cup {None},
   at : {"starting", "running", "disposing", "settled"}, aborted : any, outcome : any]
(* None is no child and no answer.                                         *)
AgentAssumption == None \notin Children \cup {"answered"}
DelegationsTyped == \E any : delegations \in Seq(Delegations(any)) /\ session \in Seq(SessionFacts(any))

Told(facts, child) == {e.operation : e \in {x \in facts : x.agent = child}}
RunIsTold(run, told, isOpen) ==
  /\ run.at = "starting" => run.child = None
  /\ run.at = "running" => run.child # None /\ told = {"started", "delegated"} /\ run.outcome # "answered"
  /\ run.child # None =>
       /\ run.outcome = "answered" => "completed" \in told
       /\ (run.at = "disposing" /\ isOpen) => ("completed" \in told <=> run.outcome = "answered")
       /\ (run.at \in {"disposing", "settled"} /\ isOpen) =>
            \/ told = {"started", "delegated", "completed"}
            \/ told = {"started", "delegated", "interrupted"} /\ run.outcome # "answered"

ToldInv ==
  /\ DelegationsTyped
  /\ \A n \in 1..Len(delegations) : delegations[n].child \in {None, <<"child", n>>}
  /\ \A e \in Agents!ToSet(session), n \in Nat :
       e.agent = <<"child", n>> => n \in 1..Len(delegations) /\ delegations[n].child = <<"child", n>>
  /\ \A n \in 1..Len(delegations) :
       RunIsTold(delegations[n], Told(Agents!ToSet(session), delegations[n].child), open)

LEMMA ToldIsTold == ToldInv => Agents!ChildrenAreTold
BY DEF ToldInv, RunIsTold, Told, Agents!ChildrenAreTold, Agents!Told

LEMMA TypesGrow ==
  ASSUME DelegationsTyped, NEW more
  PROVE  \E any : /\ more \subseteq any
                  /\ delegations \in Seq(Delegations(any)) /\ session \in Seq(SessionFacts(any))
<1>1. PICK old : delegations \in Seq(Delegations(old)) /\ session \in Seq(SessionFacts(old)) BY DEF DelegationsTyped
<1>2. PICK any : any = old \cup more OBVIOUS
<1>3. Delegations(old) \subseteq Delegations(any) BY <1>2 DEF Delegations
<1>4. SessionFacts(old) \subseteq SessionFacts(any) BY <1>2 DEF SessionFacts
<1> HIDE DEF Delegations, SessionFacts
<1>5. delegations \in Seq(Delegations(any)) BY <1>1, <1>3
<1>6. session \in Seq(SessionFacts(any)) BY <1>1, <1>4
<1> QED BY <1>2, <1>5, <1>6

(* A Session that is open holds what is written, a closed one what it held.  *)
LEMMA WritingTells ==
  ASSUME NEW any, session \in Seq(SessionFacts(any)), NEW facts \in Seq(SessionFacts(any)), Agents!Write(facts)
  PROVE  /\ session' \in Seq(SessionFacts(any))
         /\ Agents!ToSet(session') = Agents!ToSet(session) \cup (IF open THEN Agents!ToSet(facts) ELSE {})
<1>1. session' = IF open THEN session \o facts ELSE session BY DEF Agents!Write
<1>2. session \o facts \in Seq(SessionFacts(any)) OBVIOUS
<1>3. Agents!ToSet(session \o facts) = Agents!ToSet(session) \cup Agents!ToSet(facts)
  <2>1. PICK k, l, joined : k = Len(session) /\ l = Len(facts) /\ joined = session \o facts OBVIOUS
  <2>2. /\ k \in Nat /\ l \in Nat /\ DOMAIN session = 1..k /\ DOMAIN facts = 1..l /\ DOMAIN joined = 1..(k + l)
        /\ \A i \in 1..k : joined[i] = session[i]
        /\ \A i \in 1..l : joined[k + i] = facts[i]
      BY <2>1
  <2>3. \A i \in 1..l : k + i \in 1..(k + l) BY <2>2
  <2>4. \A i \in 1..k : i \in 1..(k + l) BY <2>2
  <2>5. ASSUME NEW i \in 1..(k + l), i \notin 1..k PROVE \E j \in 1..l : i = k + j
    <3>1. i - k \in 1..l /\ i = k + (i - k) BY <2>2, <2>5
    <3> QED BY <3>1
  <2>6. Agents!ToSet(joined) = {joined[i] : i \in 1..(k + l)} BY <2>2 DEF Agents!ToSet
  <2>7. Agents!ToSet(session) = {session[i] : i \in 1..k} /\ Agents!ToSet(facts) = {facts[i] : i \in 1..l}
      BY <2>2 DEF Agents!ToSet
  <2>8. {joined[i] : i \in 1..(k + l)} \subseteq {session[i] : i \in 1..k} \cup {facts[i] : i \in 1..l}
    <3>1. ASSUME NEW i \in 1..(k + l) PROVE joined[i] \in {session[j] : j \in 1..k} \cup {facts[j] : j \in 1..l}
      <4>1. CASE i \in 1..k BY <2>2, <4>1
      <4>2. CASE i \notin 1..k
        <5>1. PICK j \in 1..l : i = k + j BY <2>5, <4>2
        <5>2. joined[i] = facts[j] BY <2>2, <5>1
        <5> QED BY <5>2
      <4> QED BY <4>1, <4>2
    <3> QED BY <3>1
  <2>9. {session[i] : i \in 1..k} \subseteq {joined[i] : i \in 1..(k + l)} BY <2>2, <2>4
  <2>10. {facts[i] : i \in 1..l} \subseteq {joined[i] : i \in 1..(k + l)} BY <2>2, <2>3
  <2> QED BY <2>1, <2>6, <2>7, <2>8, <2>9, <2>10
<1> QED BY <1>1, <1>2, <1>3

(* One run changes, and what is written is of its own child.                *)
RunBecomes(n, run, facts) ==
  /\ n \in 1..Len(delegations) /\ delegations' = [delegations EXCEPT ![n] = run]
  /\ Agents!ToSet(session') = Agents!ToSet(session) \cup facts
  /\ run.child \in {None, <<"child", n>>} /\ (delegations[n].child # None => run.child # None)
  /\ \A e \in facts, m \in Nat : e.agent = <<"child", m>> => m = n /\ run.child # None
  /\ open' => open
  /\ RunIsTold(run, Told(Agents!ToSet(session) \cup facts, run.child), open')
LEMMA RunChanges ==
  ASSUME ToldInv, DelegationsTyped', AgentAssumption, NEW n, NEW run, NEW facts, RunBecomes(n, run, facts)
  PROVE  ToldInv'
<1> USE DEF RunBecomes, AgentAssumption
<1>1. /\ Len(delegations') = Len(delegations) /\ delegations'[n] = run
      /\ \A m \in 1..Len(delegations) : m # n => delegations'[m] = delegations[m]
    BY DEF ToldInv, DelegationsTyped
<1>2. \A m \in 1..Len(delegations') : delegations'[m].child \in {None, <<"child", m>>} BY <1>1 DEF ToldInv
<1>3. \A e \in Agents!ToSet(session)', m \in Nat :
        e.agent = <<"child", m>> => m \in 1..Len(delegations') /\ delegations'[m].child = <<"child", m>>
    BY <1>1 DEF ToldInv
<1>4. ASSUME NEW m \in 1..Len(delegations), m # n
      PROVE  RunIsTold(delegations[m], Told(Agents!ToSet(session) \cup facts, delegations[m].child), open')
  <2>1. CASE delegations[m].child = None BY <2>1 DEF ToldInv, RunIsTold
  <2>2. CASE delegations[m].child = <<"child", m>>
    <3>1. \A e \in facts : e.agent # <<"child", m>> BY <1>4
    <3>2. Told(Agents!ToSet(session) \cup facts, delegations[m].child) = Told(Agents!ToSet(session), delegations[m].child)
        BY <2>2, <3>1 DEF Told
    <3> QED BY <3>2 DEF ToldInv, RunIsTold
  <2> QED BY <2>1, <2>2 DEF ToldInv
<1>5. \A m \in 1..Len(delegations') :
        RunIsTold(delegations'[m], Told(Agents!ToSet(session'), delegations'[m].child), open')
    BY <1>1, <1>4
<1> QED BY <1>2, <1>3, <1>5 DEF ToldInv

(* The fact that is written of a run.                                       *)
LEMMA FactIs ==
  ASSUME NEW any, NEW n \in Nat, NEW operation, NEW agent \in Children \cup {<<"run", m>> : m \in Nat},
         delegations[n].turn \in any, delegations[n].role \in any, {"agent", "parent", operation} \subseteq any
  PROVE  LET told == Agents!Fact(n, agent, operation) IN
         told \in SessionFacts(any) /\ told.agent = agent /\ told.operation = operation
BY DEF Agents!Fact, SessionFacts

LEMMA DelegateKeeps ==
  ASSUME ToldInv, AgentAssumption, NEW id, NEW input, NEW initiated, NEW json, Agents!Invoke(id, input, initiated, json)
  PROVE  ToldInv'
<1>1. PICK n, provider, transport : n = Len(delegations) + 1 /\ provider = Agents!SelectProvider(roles[id])
                                    /\ transport = Agents!SelectTransport(roles[id])
    OBVIOUS
<1>2. PICK any :
        /\ {id, provider, transport, Agents!TurnOf(input), input.media, FALSE, None, "failed", "answered"} \subseteq any
        /\ delegations \in Seq(Delegations(any)) /\ session \in Seq(SessionFacts(any))
  <2>1. PICK more : more = {id, provider, transport, Agents!TurnOf(input), input.media, FALSE, None, "failed", "answered"}
      OBVIOUS
  <2>2. DelegationsTyped BY DEF ToldInv
  <2>3. \E any : more \subseteq any /\ delegations \in Seq(Delegations(any)) /\ session \in Seq(SessionFacts(any))
      BY ONLY <2>2, TypesGrow, Zenon
  <2> QED BY ONLY <2>1, <2>3
<1>3. PICK run :
        /\ delegations' = Append(delegations, run) /\ run \in Delegations(any)
        /\ run.child = None /\ run.at \in {"starting", "settled"}
  <2>1. PICK entry : entry = Agents!Entry(id, provider, transport, input) OBVIOUS
  <2>2. PICK refused : refused = Agents!Entry(id, provider, None, input) OBVIOUS
  <2>3. entry \in Delegations(any) /\ entry.child = None /\ entry.at = "starting"
      BY <1>2, <2>1 DEF Agents!Entry, Delegations
  <2>4. refused \in Delegations(any) /\ refused.child = None BY <1>2, <2>2 DEF Agents!Entry, Delegations
  <2>5. \A outcome \in {"failed", "answered"} :
          LET run == [refused EXCEPT !.at = "settled", !.outcome = outcome] IN
          run \in Delegations(any) /\ run.child = None /\ run.at = "settled"
      BY <1>2, <2>4 DEF Delegations
  <2>6. \/ delegations' = Append(delegations, entry)
        \/ \E outcome \in {"failed", "answered"} :
             delegations' = Append(delegations, [refused EXCEPT !.at = "settled", !.outcome = outcome])
    <3>1. (IF provider = "harness" THEN "failed" ELSE Agents!Detached(json)) \in {"failed", "answered"}
        BY DEF Agents!Detached
    <3> QED BY <1>1, <2>1, <2>2, <3>1 DEF Agents!Invoke
  <2> QED BY <2>3, <2>5, <2>6
<1>4. session' = session /\ open' = open BY DEF Agents!Invoke
<1>5. /\ n \in Nat /\ Len(delegations') = n /\ delegations' \in Seq(Delegations(any)) /\ delegations'[n] = run
      /\ \A m \in 1..Len(delegations) : m \in 1..n /\ delegations'[m] = delegations[m]
    BY <1>1, <1>2, <1>3
<1>6. \A m \in 1..n : m = n \/ m \in 1..Len(delegations) BY <1>1, <1>2
<1>7. DelegationsTyped' BY <1>2, <1>4, <1>5 DEF DelegationsTyped
<1>8. \A m \in 1..Len(delegations') : delegations'[m].child \in {None, <<"child", m>>}
    BY <1>3, <1>5, <1>6 DEF ToldInv
<1>9. \A e \in Agents!ToSet(session'), m \in Nat :
        e.agent = <<"child", m>> => m \in 1..Len(delegations') /\ delegations'[m].child = <<"child", m>>
    BY <1>4, <1>5 DEF ToldInv
<1>10. \A told : RunIsTold(run, told, open) BY <1>3 DEF RunIsTold
<1>11. \A m \in 1..Len(delegations') :
        RunIsTold(delegations'[m], Told(Agents!ToSet(session'), delegations'[m].child), open')
    BY <1>4, <1>5, <1>6, <1>10 DEF ToldInv
<1> QED BY <1>7, <1>8, <1>9, <1>11 DEF ToldInv

LEMMA RunsStayTyped ==
  ASSUME NEW any, delegations \in Seq(Delegations(any)), session' \in Seq(SessionFacts(any)),
         NEW n \in 1..Len(delegations), NEW run \in Delegations(any), delegations' = [delegations EXCEPT ![n] = run]
  PROVE  DelegationsTyped'
<1>1. delegations' \in Seq(Delegations(any)) OBVIOUS
<1> QED BY <1>1 DEF DelegationsTyped

LEMMA AbortKeeps ==
  ASSUME ToldInv, AgentAssumption, NEW n \in 1..Len(delegations), Agents!Abort(n)
  PROVE  ToldInv'
<1>1. DelegationsTyped BY DEF ToldInv
<1>2. PICK any : {TRUE} \subseteq any /\ delegations \in Seq(Delegations(any)) /\ session \in Seq(SessionFacts(any))
    BY ONLY <1>1, TypesGrow
<1>3. PICK old : old = delegations[n] /\ old \in Delegations(any) BY <1>2
<1>4. PICK run : run = [old EXCEPT !.aborted = TRUE] OBVIOUS
<1>5. run \in Delegations(any) /\ run.child = old.child /\ run.at = old.at /\ run.outcome = old.outcome
    BY <1>2, <1>3, <1>4 DEF Delegations
<1>6. delegations' = [delegations EXCEPT ![n] = run] /\ session' = session /\ open' = open
    BY <1>3, <1>4 DEF Agents!Abort
<1>7. DelegationsTyped' BY <1>2, <1>5, <1>6, RunsStayTyped
<1>8. Agents!ToSet(session') = Agents!ToSet(session) \cup {} BY <1>6
<1>9. RunIsTold(old, Told(Agents!ToSet(session), old.child), open) BY <1>3 DEF ToldInv
<1>10. RunIsTold(run, Told(Agents!ToSet(session) \cup {}, run.child), open')
    BY <1>5, <1>6, <1>9 DEF RunIsTold
<1>11. old.child \in {None, <<"child", n>>} BY <1>3 DEF ToldInv
<1>12. RunBecomes(n, run, {}) BY <1>3, <1>5, <1>6, <1>8, <1>10, <1>11 DEF RunBecomes
<1> QED BY <1>7, <1>12, RunChanges

(* A child starts: nothing was told of it.                                  *)
LEMMA StartKeepsTold ==
  ASSUME ToldInv, AgentAssumption, NEW n \in 1..Len(delegations), Agents!StartChild(n)
  PROVE  ToldInv'
<1>1. DelegationsTyped BY DEF ToldInv
<1>2. PICK old, child : old = delegations[n] /\ child = <<"child", n>> OBVIOUS
<1>3. PICK more : more = {old.turn, old.role, "agent", "parent", "started", "delegated", "failed", None} OBVIOUS
<1>4. PICK any : more \subseteq any /\ delegations \in Seq(Delegations(any)) /\ session \in Seq(SessionFacts(any))
    BY ONLY <1>1, TypesGrow, Zenon
<1>5. old \in Delegations(any) /\ n \in Nat /\ child \in Children BY <1>2, <1>4 DEF Children
<1>6. PICK first, second : first = Agents!Fact(n, child, "started") /\ second = Agents!Fact(n, child, "delegated") OBVIOUS
<1>7. /\ first \in SessionFacts(any) /\ first.agent = child /\ first.operation = "started"
      /\ second \in SessionFacts(any) /\ second.agent = child /\ second.operation = "delegated"
  <2>1. delegations[n].turn \in any /\ delegations[n].role \in any BY <1>2, <1>3, <1>4
  <2>2. {"agent", "parent", "started"} \subseteq any /\ {"agent", "parent", "delegated"} \subseteq any BY <1>3, <1>4
  <2>3. child \in Children \cup {<<"run", m>> : m \in Nat} BY <1>5
  <2> QED BY <1>5, <1>6, <2>1, <2>2, <2>3, FactIs
<1>8. PICK facts : facts = <<first, second>> OBVIOUS
<1>9. facts \in Seq(SessionFacts(any)) /\ Agents!ToSet(facts) = {first, second} BY <1>7, <1>8 DEF Agents!ToSet
<1>10. PICK run : run = [old EXCEPT !.child = child, !.at = IF open THEN "running" ELSE "disposing",
                                    !.outcome = IF open THEN None ELSE "failed"]
    OBVIOUS
<1>11. /\ old.at = "starting" /\ Agents!Write(facts) /\ open' = open
       /\ delegations' = [delegations EXCEPT ![n] = run]
    BY <1>2, <1>6, <1>8, <1>10 DEF Agents!StartChild
<1>12. /\ run \in Delegations(any) /\ run.child = child /\ run.at = IF open THEN "running" ELSE "disposing"
       /\ run.outcome = IF open THEN None ELSE "failed"
    BY <1>3, <1>4, <1>5, <1>10 DEF Delegations
<1>13. PICK told : told = IF open THEN {first, second} ELSE {} OBVIOUS
<1>14. session' \in Seq(SessionFacts(any)) /\ Agents!ToSet(session') = Agents!ToSet(session) \cup told
    BY <1>4, <1>9, <1>11, <1>13, WritingTells
<1>15. DelegationsTyped' BY <1>4, <1>11, <1>12, <1>14, RunsStayTyped
<1>16. old.child = None BY <1>2, <1>11 DEF ToldInv, RunIsTold
<1>17. \A e \in Agents!ToSet(session) : e.agent # child
    BY <1>2, <1>5, <1>16 DEF ToldInv, AgentAssumption
<1>18. Told(Agents!ToSet(session) \cup told, child) = IF open THEN {"started", "delegated"} ELSE {}
    BY <1>7, <1>13, <1>17 DEF Told
<1>19. RunIsTold(run, Told(Agents!ToSet(session) \cup told, run.child), open')
    BY <1>2, <1>5, <1>11, <1>12, <1>18 DEF RunIsTold, AgentAssumption
<1>20. \A e \in told, m \in Nat : e.agent = <<"child", m>> => m = n /\ run.child # None
    BY <1>2, <1>5, <1>7, <1>12, <1>13 DEF AgentAssumption
<1>21. RunBecomes(n, run, told) BY <1>2, <1>11, <1>12, <1>14, <1>16, <1>19, <1>20 DEF RunBecomes
<1> QED BY <1>15, <1>21, RunChanges

(* start() is not reached or rejects: there is no child to tell of.         *)
LEMMA StartFailsKeeps ==
  ASSUME ToldInv, AgentAssumption, NEW n \in 1..Len(delegations), Agents!StartFails(n)
  PROVE  ToldInv'
<1>1. DelegationsTyped BY DEF ToldInv
<1>2. PICK old, own : old = delegations[n] /\ own = <<"run", n>> OBVIOUS
<1>3. PICK more : more = {old.turn, old.role, "agent", "parent", "interrupted", "failed"} OBVIOUS
<1>4. PICK any : more \subseteq any /\ delegations \in Seq(Delegations(any)) /\ session \in Seq(SessionFacts(any))
    BY ONLY <1>1, TypesGrow, Zenon
<1>5. old \in Delegations(any) /\ n \in Nat BY <1>2, <1>4
<1>6. PICK fact : fact = Agents!Fact(n, own, "interrupted") OBVIOUS
<1>7. fact \in SessionFacts(any) /\ fact.agent = own
  <2>1. delegations[n].turn \in any /\ delegations[n].role \in any BY <1>2, <1>3, <1>4
  <2>2. {"agent", "parent", "interrupted"} \subseteq any BY <1>3, <1>4
  <2>3. own \in Children \cup {<<"run", m>> : m \in Nat} BY <1>2, <1>5
  <2> QED BY <1>5, <1>6, <2>1, <2>2, <2>3, FactIs
<1>8. PICK facts : facts = <<fact>> OBVIOUS
<1>9. facts \in Seq(SessionFacts(any)) /\ Agents!ToSet(facts) = {fact} BY <1>7, <1>8 DEF Agents!ToSet
<1>10. PICK run : run = [old EXCEPT !.at = "settled", !.outcome = "failed"] OBVIOUS
<1>11. /\ old.at = "starting" /\ Agents!Write(facts) /\ open' = open
       /\ delegations' = [delegations EXCEPT ![n] = run]
    BY <1>2, <1>6, <1>8, <1>10 DEF Agents!StartFails
<1>12. run \in Delegations(any) /\ run.child = old.child /\ run.at = "settled"
    BY <1>3, <1>4, <1>5, <1>10 DEF Delegations
<1>13. PICK told : told = IF open THEN {fact} ELSE {} OBVIOUS
<1>14. session' \in Seq(SessionFacts(any)) /\ Agents!ToSet(session') = Agents!ToSet(session) \cup told
    BY <1>4, <1>9, <1>11, <1>13, WritingTells
<1>15. DelegationsTyped' BY <1>4, <1>11, <1>12, <1>14, RunsStayTyped
<1>16. old.child = None BY <1>2, <1>11 DEF ToldInv, RunIsTold
<1>17. RunIsTold(run, Told(Agents!ToSet(session) \cup told, run.child), open') BY <1>12, <1>16 DEF RunIsTold
<1>18. \A e \in told, m \in Nat : e.agent # <<"child", m>> BY <1>2, <1>7, <1>13
<1>19. RunBecomes(n, run, told) BY <1>2, <1>11, <1>12, <1>14, <1>16, <1>17, <1>18 DEF RunBecomes
<1> QED BY <1>15, <1>19, RunChanges

(* A child settles: its one end is told, and the caller is answered only     *)
(* when that could be written.                                              *)
LEMMA SettleKeeps ==
  ASSUME ToldInv, AgentAssumption, NEW n \in 1..Len(delegations), NEW stop, Agents!ChildSettles(n, stop)
  PROVE  ToldInv'
<1>1. DelegationsTyped BY DEF ToldInv
<1>2. PICK old, child, operation, outcome :
        /\ old = delegations[n] /\ child = delegations[n].child /\ operation = Agents!Operation(stop)
        /\ outcome = IF open /\ stop = "completed" THEN "answered" ELSE "failed"
    OBVIOUS
<1>3. operation = IF stop = "completed" THEN "completed" ELSE "interrupted" BY <1>2 DEF Agents!Operation
<1>4. PICK more : more = {old.turn, old.role, "agent", "parent", operation, outcome} OBVIOUS
<1>5. PICK any : more \subseteq any /\ delegations \in Seq(Delegations(any)) /\ session \in Seq(SessionFacts(any))
    BY ONLY <1>1, TypesGrow, Zenon
<1>6. PICK fact : fact = Agents!Fact(n, child, operation) OBVIOUS
<1>7. PICK facts : facts = <<fact>> OBVIOUS
<1>8. PICK run : run = [old EXCEPT !.at = "disposing", !.outcome = outcome] OBVIOUS
<1>9. /\ old.at = "running" /\ Agents!Write(facts) /\ open' = open
      /\ delegations' = [delegations EXCEPT ![n] = run]
    BY <1>2, <1>6, <1>7, <1>8 DEF Agents!ChildSettles
<1>10. /\ old \in Delegations(any) /\ n \in Nat
       /\ child = <<"child", n>> /\ child \in Children /\ child # None
       /\ Told(Agents!ToSet(session), child) = {"started", "delegated"}
  <2>1. old \in Delegations(any) /\ n \in Nat BY <1>2, <1>5
  <2>2. child # None /\ Told(Agents!ToSet(session), child) = {"started", "delegated"}
      BY <1>2, <1>9 DEF ToldInv, RunIsTold
  <2>3. child = <<"child", n>> BY <1>2, <2>2 DEF ToldInv
  <2> QED BY <2>1, <2>2, <2>3 DEF Children
<1>11. fact \in SessionFacts(any) /\ fact.agent = child /\ fact.operation = operation
  <2>1. delegations[n].turn \in any /\ delegations[n].role \in any BY <1>2, <1>4, <1>5
  <2>2. {"agent", "parent", operation} \subseteq any BY <1>4, <1>5
  <2>3. child \in Children \cup {<<"run", m>> : m \in Nat} BY <1>10
  <2> QED BY <1>6, <1>10, <2>1, <2>2, <2>3, FactIs
<1>12. facts \in Seq(SessionFacts(any)) /\ Agents!ToSet(facts) = {fact} BY <1>7, <1>11 DEF Agents!ToSet
<1>13. run \in Delegations(any) /\ run.child = child /\ run.at = "disposing" /\ run.outcome = outcome
    BY <1>2, <1>4, <1>5, <1>8, <1>10 DEF Delegations
<1>14. PICK told : told = IF open THEN {fact} ELSE {} OBVIOUS
<1>15. session' \in Seq(SessionFacts(any)) /\ Agents!ToSet(session') = Agents!ToSet(session) \cup told
    BY <1>5, <1>9, <1>12, <1>14, WritingTells
<1>16. DelegationsTyped' BY <1>5, <1>9, <1>13, <1>15, RunsStayTyped
<1>17. Told(Agents!ToSet(session) \cup told, child) =
         {"started", "delegated"} \cup (IF open THEN {operation} ELSE {})
    BY <1>10, <1>11, <1>14 DEF Told
<1>18. RunIsTold(run, Told(Agents!ToSet(session) \cup told, run.child), open')
  <2>1. PICK now : now = Told(Agents!ToSet(session) \cup told, child) OBVIOUS
  <2>2. CASE open /\ stop = "completed"
    <3>1. now = {"started", "delegated", "completed"} BY <1>3, <1>17, <2>1, <2>2
    <3> QED BY <1>2, <1>9, <1>13, <2>1, <2>2, <3>1 DEF RunIsTold
  <2>3. CASE open /\ stop # "completed"
    <3>1. now = {"started", "delegated", "interrupted"} BY <1>3, <1>17, <2>1, <2>3
    <3>2. run.outcome # "answered" /\ "completed" \notin now BY <1>2, <1>13, <2>3, <3>1
    <3> QED BY <1>9, <1>13, <2>1, <2>3, <3>1, <3>2 DEF RunIsTold
  <2>4. CASE ~open BY <1>2, <1>9, <1>13, <2>4 DEF RunIsTold
  <2> QED BY <2>2, <2>3, <2>4
<1>19. \A e \in told, m \in Nat : e.agent = <<"child", m>> => m = n /\ run.child # None
    BY <1>10, <1>11, <1>13, <1>14
<1>20. RunBecomes(n, run, told) BY <1>2, <1>9, <1>10, <1>13, <1>15, <1>18, <1>19 DEF RunBecomes
<1> QED BY <1>16, <1>20, RunChanges

LEMMA DisposeKeepsTold ==
  ASSUME ToldInv, AgentAssumption, NEW n \in 1..Len(delegations), NEW fails, Agents!DisposeChild(n, fails)
  PROVE  ToldInv'
<1>1. DelegationsTyped BY DEF ToldInv
<1>2. PICK old, outcome : old = delegations[n] /\ outcome = IF fails THEN "failed" ELSE delegations[n].outcome OBVIOUS
<1>3. PICK any : {outcome} \subseteq any /\ delegations \in Seq(Delegations(any)) /\ session \in Seq(SessionFacts(any))
    BY ONLY <1>1, TypesGrow
<1>4. PICK run : run = [old EXCEPT !.at = "settled", !.outcome = outcome] OBVIOUS
<1>5. old \in Delegations(any) BY <1>2, <1>3
<1>6. run \in Delegations(any) /\ run.child = old.child /\ run.at = "settled" /\ run.outcome = outcome
    BY <1>3, <1>4, <1>5 DEF Delegations
<1>7. /\ old.at = "disposing" /\ session' = session /\ open' = open
      /\ delegations' = [delegations EXCEPT ![n] = run]
    BY <1>2, <1>4 DEF Agents!DisposeChild
<1>8. DelegationsTyped' BY <1>3, <1>6, <1>7, RunsStayTyped
<1>9. RunIsTold(old, Told(Agents!ToSet(session), old.child), open) /\ old.child \in {None, <<"child", n>>}
    BY <1>2 DEF ToldInv
<1>10. RunIsTold(run, Told(Agents!ToSet(session) \cup {}, run.child), open')
    BY <1>2, <1>6, <1>7, <1>9 DEF RunIsTold
<1>11. RunBecomes(n, run, {}) BY <1>2, <1>6, <1>7, <1>9, <1>10 DEF RunBecomes
<1> QED BY <1>8, <1>11, RunChanges

LEMMA CloseKeepsTold == ASSUME ToldInv, open' => open, UNCHANGED <<delegations, session>> PROVE ToldInv'
BY DEF ToldInv, DelegationsTyped, RunIsTold

-----------------------------------------------------------------------------
(* What the strict fold knows of the children: it has an entry of every one *)
(* that is running, and none of a child that was not started.               *)
EntryFields == {"role", "parent", "status", "delegated"}
RunIsKnown(v, run) ==
  run.at = "running" =>
    LET key == <<run.turn, run.child>> IN
    /\ key \in DOMAIN v.agents /\ DOMAIN v.agents[key] = EntryFields
    /\ v.agents[key].status = "running" /\ v.agents[key].role = run.role /\ v.agents[key].parent = "parent"
ViewIsWhole(v) == v.ok = TRUE /\ DOMAIN v = DOMAIN Agents!EmptySession
ViewKnows(v, started) ==
  /\ ViewIsWhole(v)
  /\ \A key \in DOMAIN v.agents : \E n \in 1..Len(started) : key[2] = <<"child", n>> /\ started[n].child # None
  /\ \A n \in 1..Len(started) : RunIsKnown(v, started[n])
ReplayInv ==
  /\ \A n \in 1..Len(delegations) : delegations[n].at = "starting" => delegations[n].transport # None
  /\ ~Agents!Unstarted => ViewKnows(Agents!ProjectSession(session), delegations)

(* One fact changes the entry of its own child and nothing else.            *)
TellsOne(v, w, key, entry) ==
  /\ ViewIsWhole(w) /\ DOMAIN w.agents = DOMAIN v.agents \cup {key} /\ w.agents[key] = entry
  /\ \A k \in DOMAIN v.agents : k # key => w.agents[k] = v.agents[k]

(* A start makes an entry, and what is told later changes it, as long as it  *)
(* is running.                                                              *)
LEMMA StartIsFolded ==
  ASSUME NEW v, ViewIsWhole(v), NEW r, r.type = "agent", r.operation = "started",
         Agents!AgentKey(r) \notin DOMAIN v.agents
  PROVE  TellsOne(v, Agents!SessionStep(v, r), Agents!AgentKey(r),
                  [role |-> r.role, parent |-> r.parent, status |-> "running", delegated |-> FALSE])
<1>1. PICK key, entry, map :
        /\ key = Agents!AgentKey(r) /\ map = Agents!Put(v.agents, key, entry)
        /\ entry = [role |-> r.role, parent |-> r.parent, status |-> "running", delegated |-> FALSE]
    OBVIOUS
<1>2. v.ok = TRUE /\ {"ok", "agents"} \subseteq DOMAIN v BY DEF ViewIsWhole, Agents!EmptySession
<1>3. Agents!SessionStep(v, r) = [v EXCEPT !.agents = map]
  <2>1. Agents!SessionStep(v, r) = Agents!StartAgent(v, r)
      BY <1>2 DEF Agents!SessionStep, Agents!AgentStep
  <2>2. Agents!StartAgent(v, r) = [v EXCEPT !.agents = Agents!Put(v.agents, key, entry)]
      BY <1>1 DEF Agents!StartAgent, Agents!Admit
  <2> QED BY <1>1, <2>1, <2>2
<1>4. /\ DOMAIN map = DOMAIN v.agents \cup {key} /\ map[key] = entry
      /\ \A k \in DOMAIN v.agents : k # key => map[k] = v.agents[k]
    BY <1>1 DEF Agents!Put
<1>5. PICK w : w = [v EXCEPT !.agents = map] OBVIOUS
<1>6. DOMAIN w = DOMAIN v /\ w.agents = map /\ w.ok = TRUE BY <1>2, <1>5
<1>7. TellsOne(v, w, key, entry) BY <1>4, <1>6 DEF TellsOne, ViewIsWhole
<1> QED BY <1>1, <1>3, <1>5, <1>7, Zenon

Continues(v, r, key) ==
  /\ ViewIsWhole(v) /\ r.type = "agent" /\ r.operation \in {"delegated", "completed", "interrupted"}
  /\ key = Agents!AgentKey(r) /\ key \in DOMAIN v.agents /\ DOMAIN v.agents[key] = EntryFields
  /\ v.agents[key].status = "running" /\ v.agents[key].role = r.role /\ v.agents[key].parent = r.parent
  /\ r.operation = "delegated" => v.agents[key].delegated = FALSE
LEMMA UpdateIsFolded ==
  ASSUME NEW v, NEW r, NEW key, Continues(v, r, key)
  PROVE  \E entry : /\ TellsOne(v, Agents!SessionStep(v, r), key, entry)
                    /\ DOMAIN entry = EntryFields /\ entry.role = r.role /\ entry.parent = r.parent
                    /\ entry.status = IF r.operation = "delegated" THEN "running" ELSE r.operation
<1> USE DEF Continues
<1>1. PICK old, status : /\ old = v.agents[key]
                         /\ status = IF r.operation = "delegated" THEN "running" ELSE r.operation
    OBVIOUS
<1>2. PICK entry : entry = [old EXCEPT !.status = status, !.delegated = @ \/ r.operation = "delegated"] OBVIOUS
<1>3. PICK map : map = [v.agents EXCEPT ![key] = entry] OBVIOUS
<1>4. v.ok = TRUE /\ {"ok", "agents"} \subseteq DOMAIN v BY DEF ViewIsWhole, Agents!EmptySession
<1>5. Agents!SessionStep(v, r) = [v EXCEPT !.agents = map]
  <2>1. Agents!SessionStep(v, r) = Agents!UpdateAgent(v, r)
      BY <1>4 DEF Agents!SessionStep, Agents!AgentStep
  <2>2. Agents!UpdateAgent(v, r) =
          [v EXCEPT !.agents[key].status = status, !.agents[key].delegated = @ \/ r.operation = "delegated"]
      BY <1>1 DEF Agents!UpdateAgent, Agents!Admit
  <2>3. [v EXCEPT !.agents[key].status = status, !.agents[key].delegated = @ \/ r.operation = "delegated"]
          = [v EXCEPT !.agents = map]
      BY <1>1, <1>2, <1>3, <1>4
  <2> QED BY <2>1, <2>2, <2>3
<1>6. DOMAIN map = DOMAIN v.agents /\ map[key] = entry /\ \A k \in DOMAIN v.agents : k # key => map[k] = v.agents[k]
    BY <1>3
<1>7. DOMAIN entry = EntryFields /\ entry.role = r.role /\ entry.parent = r.parent /\ entry.status = status
    BY <1>1, <1>2 DEF EntryFields
<1>8. PICK w : w = [v EXCEPT !.agents = map] OBVIOUS
<1>9. DOMAIN w = DOMAIN v /\ w.agents = map /\ w.ok = TRUE BY <1>4, <1>8
<1>10. TellsOne(v, w, key, entry) BY <1>6, <1>9 DEF TellsOne, ViewIsWhole
<1> QED BY <1>1, <1>5, <1>7, <1>8, <1>10

(* The other runs are known as before, and the changed one anew.             *)
LEMMA KnowsOne ==
  ASSUME NEW v, ViewKnows(v, delegations), NEW w, NEW turn, NEW n \in 1..Len(delegations), NEW entry,
         TellsOne(v, w, <<turn, <<"child", n>>>>, entry),
         \A m \in 1..Len(delegations) : delegations[m].child \in {None, <<"child", m>>},
         \A m \in 1..Len(delegations) : delegations[m].at = "running" => delegations[m].child # None,
         Len(delegations') = Len(delegations), delegations'[n].child # None,
         \A m \in 1..Len(delegations) : m # n => delegations'[m] = delegations[m],
         RunIsKnown(w, delegations'[n])
  PROVE  ViewKnows(w, delegations')
<1>1. PICK key : key = <<turn, <<"child", n>>>> OBVIOUS
<1>2. /\ ViewIsWhole(w) /\ DOMAIN w.agents = DOMAIN v.agents \cup {key}
      /\ \A k \in DOMAIN v.agents : k # key => w.agents[k] = v.agents[k]
    BY <1>1 DEF TellsOne
<1>3. ASSUME NEW k \in DOMAIN w.agents
      PROVE  \E m \in 1..Len(delegations') : k[2] = <<"child", m>> /\ delegations'[m].child # None
  <2>1. CASE k = key BY <1>1, <2>1
  <2>2. CASE k \in DOMAIN v.agents
    <3>1. PICK m \in 1..Len(delegations) : k[2] = <<"child", m>> /\ delegations[m].child # None BY <2>2 DEF ViewKnows
    <3> QED BY <3>1
  <2> QED BY <1>2, <1>3, <2>1, <2>2
<1>4. ASSUME NEW m \in 1..Len(delegations), m # n PROVE RunIsKnown(w, delegations[m])
  <2>1. PICK k : k = <<delegations[m].turn, delegations[m].child>> OBVIOUS
  <2>2. SUFFICES ASSUME delegations[m].at = "running" PROVE RunIsKnown(w, delegations[m]) BY DEF RunIsKnown
  <2>3. k # key BY <1>1, <1>4, <2>1, <2>2
  <2>4. RunIsKnown(v, delegations[m]) BY DEF ViewKnows
  <2>5. k \in DOMAIN v.agents BY <2>1, <2>2, <2>4 DEF RunIsKnown
  <2> QED BY <1>2, <2>1, <2>2, <2>3, <2>4, <2>5 DEF RunIsKnown
<1>5. \A m \in 1..Len(delegations') : RunIsKnown(w, delegations'[m]) BY <1>4
<1> QED BY <1>2, <1>3, <1>5 DEF ViewKnows

(* Nothing is written, and no run begins to wait for its child.             *)
LEMMA KnowsSame ==
  ASSUME NEW v, NEW started, NEW next, ViewKnows(v, started), Len(started) \in Nat,
         Len(next) \in Nat, Len(next) >= Len(started),
         \A n \in 1..Len(started) : /\ next[n].turn = started[n].turn /\ next[n].role = started[n].role
                                    /\ started[n].child # None => next[n].child = started[n].child,
         \A n \in 1..Len(next) : next[n].at = "running" =>
           n \in 1..Len(started) /\ started[n].at = "running" /\ started[n].child # None
  PROVE  ViewKnows(v, next)
<1>1. ASSUME NEW n \in 1..Len(next) PROVE RunIsKnown(v, next[n])
  <2>1. SUFFICES ASSUME next[n].at = "running" PROVE RunIsKnown(v, next[n]) BY DEF RunIsKnown
  <2>2. n \in 1..Len(started) /\ started[n].at = "running" /\ started[n].child # None BY <2>1
  <2>3. next[n].turn = started[n].turn /\ next[n].role = started[n].role /\ next[n].child = started[n].child BY <2>2
  <2>4. RunIsKnown(v, started[n]) BY <2>2 DEF ViewKnows
  <2> QED BY <2>2, <2>3, <2>4 DEF RunIsKnown
<1>2. ASSUME NEW key \in DOMAIN v.agents
      PROVE  \E n \in 1..Len(next) : key[2] = <<"child", n>> /\ next[n].child # None
  <2>1. PICK n \in 1..Len(started) : key[2] = <<"child", n>> /\ started[n].child # None BY DEF ViewKnows
  <2>2. n \in 1..Len(next) BY <2>1
  <2> QED BY <2>1, <2>2
<1> QED BY <1>1, <1>2 DEF ViewKnows

(* A run that ended without its child stays so.                             *)
LEMMA UnstartedStays ==
  ASSUME Agents!Unstarted, Len(delegations) \in Nat, Len(delegations') \in Nat, Len(delegations') >= Len(delegations),
         \A n \in 1..Len(delegations) : delegations[n].at = "settled" => delegations'[n] = delegations[n]
  PROVE  Agents!Unstarted'
<1>1. PICK n \in 1..Len(delegations) :
        delegations[n].child = None /\ delegations[n].at = "settled" /\ delegations[n].transport # None
    BY DEF Agents!Unstarted
<1>2. n \in 1..Len(delegations') /\ delegations'[n] = delegations[n] BY <1>1
<1> QED BY <1>1, <1>2 DEF Agents!Unstarted

(* One run changes that has not settled.                                    *)
RunMoves(n, run) ==
  /\ n \in 1..Len(delegations) /\ delegations[n].at # "settled" /\ delegations' = [delegations EXCEPT ![n] = run]
  /\ run.turn = delegations[n].turn /\ run.role = delegations[n].role /\ run.transport = delegations[n].transport
  /\ run.at = "starting" => delegations[n].at = "starting"
LEMMA MovesAre ==
  ASSUME ToldInv, ReplayInv, NEW n, NEW run, RunMoves(n, run)
  PROVE  /\ Len(delegations) \in Nat /\ Len(delegations') = Len(delegations) /\ delegations'[n] = run
         /\ \A m \in 1..Len(delegations) : m # n => delegations'[m] = delegations[m]
         /\ Agents!Unstarted => Agents!Unstarted'
         /\ \A m \in 1..Len(delegations') : delegations'[m].at = "starting" => delegations'[m].transport # None
<1>1. /\ Len(delegations) \in Nat /\ Len(delegations') = Len(delegations) /\ delegations'[n] = run
      /\ \A m \in 1..Len(delegations) : m # n => delegations'[m] = delegations[m]
    BY DEF ToldInv, DelegationsTyped, RunMoves
<1>2. \A m \in 1..Len(delegations) : delegations[m].at = "settled" => delegations'[m] = delegations[m]
    BY <1>1 DEF RunMoves
<1>3. Agents!Unstarted => Agents!Unstarted' BY <1>1, <1>2, UnstartedStays
<1> QED BY <1>1, <1>3 DEF RunMoves, ReplayInv

(* A run that tells nothing is known as before.                             *)
LEMMA QuietKeeps ==
  ASSUME ToldInv, ReplayInv, NEW n, NEW run, RunMoves(n, run), session' = session,
         run.child = delegations[n].child \/ delegations[n].child = None,
         run.at = "running" => delegations[n].at = "running"
  PROVE  ReplayInv'
<1>1. /\ Len(delegations) \in Nat /\ Len(delegations') = Len(delegations) /\ delegations'[n] = run
      /\ \A m \in 1..Len(delegations) : m # n => delegations'[m] = delegations[m]
      /\ Agents!Unstarted => Agents!Unstarted'
      /\ \A m \in 1..Len(delegations') : delegations'[m].at = "starting" => delegations'[m].transport # None
    BY MovesAre
<1>2. PICK v : v = Agents!ProjectSession(session) OBVIOUS
<1>3. Agents!ProjectSession(session') = v BY <1>2
<1>4. ASSUME ViewKnows(v, delegations) PROVE ViewKnows(v, delegations')
  <2>1. \A m \in 1..Len(delegations) : delegations[m].at = "running" => delegations[m].child # None
      BY DEF ToldInv, RunIsTold
  <2>2. PICK old, new : old = delegations /\ new = delegations' OBVIOUS
  <2>3. \A m \in 1..Len(old) : /\ new[m].turn = old[m].turn /\ new[m].role = old[m].role
                               /\ old[m].child # None => new[m].child = old[m].child
      BY <1>1, <2>2 DEF RunMoves
  <2>4. \A m \in 1..Len(new) : new[m].at = "running" =>
          m \in 1..Len(old) /\ old[m].at = "running" /\ old[m].child # None
      BY <1>1, <2>1, <2>2
  <2>5. Len(old) \in Nat /\ Len(new) \in Nat /\ Len(new) >= Len(old) BY <1>1, <2>2
  <2>6. ViewKnows(v, new) BY ONLY <1>4, <2>2, <2>3, <2>4, <2>5, KnowsSame
  <2> QED BY <2>2, <2>6
<1> QED BY <1>1, <1>2, <1>3, <1>4 DEF ReplayInv

(* A child that starts is told of twice; the fold had no entry of it.       *)
LEMMA StartReplays ==
  ASSUME ToldInv, AgentAssumption, ReplayInv, NEW n \in 1..Len(delegations), Agents!StartChild(n)
  PROVE  ReplayInv'
<1>1. DelegationsTyped BY DEF ToldInv
<1>2. PICK any : delegations \in Seq(Delegations(any)) /\ session \in Seq(SessionFacts(any)) BY <1>1 DEF DelegationsTyped
<1>3. PICK old, child : old = delegations[n] /\ child = <<"child", n>> OBVIOUS
<1>4. PICK first, second : first = Agents!Fact(n, child, "started") /\ second = Agents!Fact(n, child, "delegated") OBVIOUS
<1>5. PICK run : run = [old EXCEPT !.child = child, !.at = IF open THEN "running" ELSE "disposing",
                                    !.outcome = IF open THEN None ELSE "failed"]
    OBVIOUS
<1>6. /\ old.at = "starting" /\ Agents!Write(<<first, second>>)
      /\ delegations' = [delegations EXCEPT ![n] = run]
    BY <1>3, <1>4, <1>5 DEF Agents!StartChild
<1>7. /\ run.child = child /\ run.at = (IF open THEN "running" ELSE "disposing")
      /\ run.turn = old.turn /\ run.role = old.role /\ run.transport = old.transport
  <2>1. old \in Delegations(any) BY <1>2, <1>3
  <2> QED BY <1>5, <2>1 DEF Delegations
<1>8. RunMoves(n, run) BY <1>3, <1>6, <1>7 DEF RunMoves
<1>9. old.child = None /\ child # None
  <2>1. n \in Nat BY <1>2
  <2>2. child \in Children BY <1>3, <2>1 DEF Children
  <2> QED BY <1>3, <1>6, <2>2 DEF ToldInv, RunIsTold, AgentAssumption
<1>10. CASE ~open
  <2>1. session' = session BY <1>6, <1>10 DEF Agents!Write
  <2>2. run.at = "disposing" BY <1>7, <1>10
  <2> QED BY <1>3, <1>8, <1>9, <2>1, <2>2, QuietKeeps
<1>11. CASE open
  <2>1. /\ Len(delegations) \in Nat /\ Len(delegations') = Len(delegations) /\ delegations'[n] = run
        /\ \A m \in 1..Len(delegations) : m # n => delegations'[m] = delegations[m]
        /\ Agents!Unstarted => Agents!Unstarted'
        /\ \A m \in 1..Len(delegations') : delegations'[m].at = "starting" => delegations'[m].transport # None
      BY <1>8, MovesAre
  <2>2. PICK v, w, x : /\ v = Agents!ProjectSession(session) /\ w = Agents!SessionStep(v, first)
                       /\ x = Agents!SessionStep(w, second)
      OBVIOUS
  <2>3. Agents!ProjectSession(session') = x
    <3>1. PICK S : S = SessionFacts(any) \cup {first, second} OBVIOUS
    <3>2. PICK more : more = Append(session, first) OBVIOUS
    <3>3. session \in Seq(S) /\ first \in S /\ second \in S
      <4>1. SessionFacts(any) \subseteq S BY <3>1
      <4> HIDE DEF SessionFacts
      <4> QED BY <1>2, <3>1, <4>1
    <3>4. more \in Seq(S) BY <3>2, <3>3
    <3>5. session' = Append(more, second)
      <4>1. session' = session \o <<first, second>> BY <1>6, <1>11 DEF Agents!Write
      <4> QED BY <3>2, <3>3, <4>1
    <3>6. Agents!ProjectSession(more) = w BY <2>2, <3>2, <3>3, Agents!ProjectSessionAppends
    <3>7. Agents!ProjectSession(Append(more, second)) = x BY <2>2, <3>4, <3>6, Agents!ProjectSessionAppends
    <3> QED BY <3>5, <3>7
  <2>4. ASSUME ViewKnows(v, delegations) PROVE ViewKnows(x, delegations')
    <3>1. PICK key : key = <<old.turn, child>> OBVIOUS
    <3>2. /\ first.type = "agent" /\ first.operation = "started" /\ Agents!AgentKey(first) = key
          /\ first.role = old.role /\ first.parent = "parent"
          /\ second.type = "agent" /\ second.operation = "delegated" /\ Agents!AgentKey(second) = key
          /\ second.role = old.role /\ second.parent = "parent"
        BY <1>3, <1>4, <3>1 DEF Agents!Fact, Agents!AgentKey
    <3>3. key \notin DOMAIN v.agents
      <4>1. SUFFICES ASSUME key \in DOMAIN v.agents PROVE FALSE OBVIOUS
      <4>2. PICK m \in 1..Len(delegations) : key[2] = <<"child", m>> /\ delegations[m].child # None
          BY <2>4, <4>1 DEF ViewKnows
      <4>3. m = n BY <1>3, <3>1, <4>2
      <4> QED BY <1>3, <1>9, <4>2, <4>3
    <3>4. PICK begun : begun = [role |-> old.role, parent |-> "parent", status |-> "running", delegated |-> FALSE]
        OBVIOUS
    <3>5. ViewIsWhole(v) BY <2>4 DEF ViewKnows
    <3>6. TellsOne(v, w, key, begun)
      <4> HIDE DEF ViewIsWhole, TellsOne
      <4>1. TellsOne(v, Agents!SessionStep(v, first), Agents!AgentKey(first),
                     [role |-> first.role, parent |-> first.parent, status |-> "running", delegated |-> FALSE])
          BY ONLY <3>2, <3>3, <3>5, StartIsFolded
      <4> QED BY <2>2, <3>2, <3>4, <4>1
    <3>7. PICK entry : /\ TellsOne(w, x, key, entry) /\ DOMAIN entry = EntryFields
                       /\ entry.role = old.role /\ entry.parent = "parent" /\ entry.status = "running"
      <4>1. /\ ViewIsWhole(w) /\ key \in DOMAIN w.agents /\ w.agents[key] = begun BY <3>6 DEF TellsOne
      <4>2. /\ DOMAIN begun = EntryFields /\ begun.role = old.role /\ begun.parent = "parent"
            /\ begun.status = "running" /\ begun.delegated = FALSE
          BY <3>4 DEF EntryFields
      <4> HIDE DEF ViewIsWhole, TellsOne, EntryFields
      <4>3. \E entry : /\ TellsOne(w, Agents!SessionStep(w, second), key, entry)
                       /\ DOMAIN entry = EntryFields /\ entry.role = second.role /\ entry.parent = second.parent
                       /\ entry.status = IF second.operation = "delegated" THEN "running" ELSE second.operation
        <5>1. Continues(w, second, key) BY <3>2, <4>1, <4>2 DEF Continues
        <5> QED BY <5>1, UpdateIsFolded
      <4> QED BY <2>2, <3>2, <4>3
    <3>8. TellsOne(v, x, key, entry) BY <3>6, <3>7 DEF TellsOne
    <3>9. RunIsKnown(x, delegations'[n]) BY <1>7, <2>1, <3>1, <3>7 DEF RunIsKnown, TellsOne
    <3>10. TellsOne(v, x, <<old.turn, <<"child", n>>>>, entry) BY <1>3, <3>1, <3>8
    <3>11. \A m \in 1..Len(delegations) :
             /\ delegations[m].child \in {None, <<"child", m>>}
             /\ delegations[m].at = "running" => delegations[m].child # None
        BY DEF ToldInv, RunIsTold
    <3> HIDE DEF ViewKnows, TellsOne
    <3> QED BY <1>7, <1>9, <2>1, <2>4, <3>9, <3>10, <3>11, KnowsOne
  <2> QED BY <2>1, <2>2, <2>3, <2>4 DEF ReplayInv
<1> QED BY <1>10, <1>11

(* The end of a running child is told once.                                 *)
LEMMA SettleReplays ==
  ASSUME ToldInv, AgentAssumption, ReplayInv, NEW n \in 1..Len(delegations), NEW stop, Agents!ChildSettles(n, stop)
  PROVE  ReplayInv'
<1>1. DelegationsTyped BY DEF ToldInv
<1>2. PICK any : delegations \in Seq(Delegations(any)) /\ session \in Seq(SessionFacts(any)) BY <1>1 DEF DelegationsTyped
<1>3. PICK old, child, operation, outcome :
        /\ old = delegations[n] /\ child = delegations[n].child /\ operation = Agents!Operation(stop)
        /\ outcome = IF open /\ stop = "completed" THEN "answered" ELSE "failed"
    OBVIOUS
<1>4. PICK fact, run : fact = Agents!Fact(n, child, operation)
                       /\ run = [old EXCEPT !.at = "disposing", !.outcome = outcome]
    OBVIOUS
<1>5. old.at = "running" /\ Agents!Write(<<fact>>) /\ delegations' = [delegations EXCEPT ![n] = run]
    BY <1>3, <1>4 DEF Agents!ChildSettles
<1>6. /\ run.child = child /\ run.at = "disposing" /\ run.turn = old.turn /\ run.role = old.role
      /\ run.transport = old.transport /\ old.child = child
  <2>1. old \in Delegations(any) BY <1>2, <1>3
  <2> QED BY <1>3, <1>4, <2>1 DEF Delegations
<1>7. RunMoves(n, run) BY <1>3, <1>5, <1>6 DEF RunMoves
<1>8. child = <<"child", n>> /\ child # None BY <1>3, <1>5 DEF ToldInv, RunIsTold
<1>9. CASE ~open
  <2>1. session' = session BY <1>5, <1>9 DEF Agents!Write
  <2> QED BY <1>3, <1>6, <1>7, <2>1, QuietKeeps
<1>10. CASE open
  <2>1. /\ Len(delegations) \in Nat /\ Len(delegations') = Len(delegations) /\ delegations'[n] = run
        /\ \A m \in 1..Len(delegations) : m # n => delegations'[m] = delegations[m]
        /\ Agents!Unstarted => Agents!Unstarted'
        /\ \A m \in 1..Len(delegations') : delegations'[m].at = "starting" => delegations'[m].transport # None
      BY <1>7, MovesAre
  <2>2. PICK v, w : v = Agents!ProjectSession(session) /\ w = Agents!SessionStep(v, fact) OBVIOUS
  <2>3. Agents!ProjectSession(session') = w
    <3>1. PICK S : S = SessionFacts(any) \cup {fact} OBVIOUS
    <3>2. session \in Seq(S) /\ fact \in S
      <4>1. SessionFacts(any) \subseteq S BY <3>1
      <4> HIDE DEF SessionFacts
      <4> QED BY <1>2, <3>1, <4>1
    <3>3. session' = Append(session, fact)
      <4>1. session' = session \o <<fact>> BY <1>5, <1>10 DEF Agents!Write
      <4> QED BY <3>2, <4>1
    <3>4. Agents!ProjectSession(Append(session, fact)) = w BY <2>2, <3>2, Agents!ProjectSessionAppends
    <3> QED BY <3>3, <3>4
  <2>4. ASSUME ViewKnows(v, delegations) PROVE ViewKnows(w, delegations')
    <3>1. PICK key : key = <<old.turn, child>> OBVIOUS
    <3>2. /\ fact.type = "agent" /\ fact.operation \in {"completed", "interrupted"}
          /\ Agents!AgentKey(fact) = key /\ fact.role = old.role /\ fact.parent = "parent"
        BY <1>3, <1>4, <3>1 DEF Agents!Fact, Agents!AgentKey, Agents!Operation
    <3>3. RunIsKnown(v, old) /\ ViewIsWhole(v) BY <1>3, <2>4 DEF ViewKnows
    <3>4. /\ key \in DOMAIN v.agents /\ DOMAIN v.agents[key] = EntryFields
          /\ v.agents[key].status = "running" /\ v.agents[key].role = old.role /\ v.agents[key].parent = "parent"
        BY <1>5, <1>6, <3>1, <3>3 DEF RunIsKnown
    <3>5. PICK entry : TellsOne(v, w, key, entry)
      <4> HIDE DEF ViewIsWhole, TellsOne, EntryFields
      <4>1. \E entry : TellsOne(v, Agents!SessionStep(v, fact), key, entry)
        <5>1. Continues(v, fact, key) BY <3>2, <3>3, <3>4 DEF Continues
        <5> QED BY <5>1, UpdateIsFolded
      <4> QED BY <2>2, <4>1
    <3>6. RunIsKnown(w, delegations'[n]) BY <1>6, <2>1 DEF RunIsKnown
    <3>7. TellsOne(v, w, <<old.turn, <<"child", n>>>>, entry) BY <1>8, <3>1, <3>5
    <3>8. \A m \in 1..Len(delegations) :
            /\ delegations[m].child \in {None, <<"child", m>>}
            /\ delegations[m].at = "running" => delegations[m].child # None
        BY DEF ToldInv, RunIsTold
    <3>9. delegations'[n].child # None BY <1>6, <1>8, <2>1
    <3> HIDE DEF ViewKnows, TellsOne
    <3> QED BY <2>1, <2>4, <3>6, <3>7, <3>8, <3>9, KnowsOne
  <2> QED BY <2>1, <2>2, <2>3, <2>4 DEF ReplayInv
<1> QED BY <1>9, <1>10

(* A child that was asked for and does not start leaves its interruption in  *)
(* the log, which the fold then may refuse.                                 *)
LEMMA StartFailsReplays ==
  ASSUME ToldInv, ReplayInv, NEW n \in 1..Len(delegations), Agents!StartFails(n)
  PROVE  ReplayInv'
<1>1. PICK any : delegations \in Seq(Delegations(any)) BY DEF ToldInv, DelegationsTyped
<1>2. PICK old, run : old = delegations[n] /\ run = [old EXCEPT !.at = "settled", !.outcome = "failed"] OBVIOUS
<1>3. old.at = "starting" /\ delegations' = [delegations EXCEPT ![n] = run] BY <1>2 DEF Agents!StartFails
<1>4. /\ run.child = old.child /\ run.at = "settled" /\ run.turn = old.turn /\ run.role = old.role
      /\ run.transport = old.transport
  <2>1. old \in Delegations(any) BY <1>1, <1>2
  <2> QED BY <1>2, <2>1 DEF Delegations
<1>5. RunMoves(n, run) BY <1>2, <1>3, <1>4 DEF RunMoves
<1>6. /\ Len(delegations') = Len(delegations) /\ delegations'[n] = run
      /\ \A m \in 1..Len(delegations') : delegations'[m].at = "starting" => delegations'[m].transport # None
    BY <1>5, MovesAre
<1>7. old.child = None /\ old.transport # None BY <1>2, <1>3 DEF ToldInv, RunIsTold, ReplayInv
<1>8. Agents!Unstarted' BY <1>4, <1>6, <1>7 DEF Agents!Unstarted
<1> QED BY <1>6, <1>8 DEF ReplayInv

(* An aborted run, and one whose child is disposed of, tell nothing.         *)
LEMMA OtherwiseReplays ==
  ASSUME ToldInv, ReplayInv, NEW n \in 1..Len(delegations), NEW fails, Agents!Abort(n) \/ Agents!DisposeChild(n, fails)
  PROVE  ReplayInv'
<1>1. PICK any : delegations \in Seq(Delegations(any)) BY DEF ToldInv, DelegationsTyped
<1>2. PICK old, outcome : old = delegations[n] /\ outcome = IF fails THEN "failed" ELSE delegations[n].outcome OBVIOUS
<1>3. old \in Delegations(any) BY <1>1, <1>2
<1>4. CASE Agents!Abort(n)
  <2>1. PICK run : run = [old EXCEPT !.aborted = TRUE] OBVIOUS
  <2>2. /\ run.child = old.child /\ run.at = old.at /\ run.turn = old.turn /\ run.role = old.role
        /\ run.transport = old.transport
      BY <1>3, <2>1 DEF Delegations
  <2>3. /\ old.at \in {"starting", "running"} /\ delegations' = [delegations EXCEPT ![n] = run] /\ session' = session
      BY <1>2, <1>4, <2>1 DEF Agents!Abort
  <2>4. RunMoves(n, run) BY <1>2, <2>2, <2>3 DEF RunMoves
  <2> QED BY <1>2, <2>2, <2>3, <2>4, QuietKeeps
<1>5. CASE Agents!DisposeChild(n, fails)
  <2>1. PICK run : run = [old EXCEPT !.at = "settled", !.outcome = outcome] OBVIOUS
  <2>2. /\ run.child = old.child /\ run.at = "settled" /\ run.turn = old.turn /\ run.role = old.role
        /\ run.transport = old.transport
      BY <1>3, <2>1 DEF Delegations
  <2>3. /\ old.at = "disposing" /\ delegations' = [delegations EXCEPT ![n] = run] /\ session' = session
      BY <1>2, <1>5, <2>1 DEF Agents!DisposeChild
  <2>4. RunMoves(n, run) BY <1>2, <2>2, <2>3 DEF RunMoves
  <2> QED BY <1>2, <2>2, <2>3, <2>4, QuietKeeps
<1> QED BY <1>4, <1>5

(* A new run waits for its child only if there is a transport for it.       *)
LEMMA InvokeReplays ==
  ASSUME ToldInv, ReplayInv, NEW id, NEW input, NEW initiated, NEW json, Agents!Invoke(id, input, initiated, json)
  PROVE  ReplayInv'
<1>1. PICK any : delegations \in Seq(Delegations(any)) BY DEF ToldInv, DelegationsTyped
<1>2. PICK provider, transport : provider = Agents!SelectProvider(roles[id]) /\ transport = Agents!SelectTransport(roles[id])
    OBVIOUS
<1>3. PICK run :
        /\ delegations' = Append(delegations, run) /\ run.child = None /\ run.at \in {"starting", "settled"}
        /\ IF run.at = "starting" THEN run.transport # None ELSE run.transport = None
  <2>1. PICK entry, refused : entry = Agents!Entry(id, provider, transport, input)
                              /\ refused = Agents!Entry(id, provider, None, input)
      OBVIOUS
  <2>2. CASE provider = "harness" /\ initiated /\ transport # None
    <3>1. delegations' = Append(delegations, entry) BY <1>2, <2>1, <2>2 DEF Agents!Invoke
    <3>2. entry.child = None /\ entry.at = "starting" /\ entry.transport = transport BY <2>1 DEF Agents!Entry
    <3> QED BY <2>2, <3>1, <3>2
  <2>3. CASE ~(provider = "harness" /\ initiated /\ transport # None)
    <3>1. PICK outcome : outcome = IF provider = "harness" THEN "failed" ELSE Agents!Detached(json) OBVIOUS
    <3>2. PICK run : run = [refused EXCEPT !.at = "settled", !.outcome = outcome] OBVIOUS
    <3>3. delegations' = Append(delegations, run) BY <1>2, <2>1, <2>3, <3>1, <3>2 DEF Agents!Invoke
    <3>4. run.child = None /\ run.at = "settled" /\ run.transport = None BY <2>1, <3>2 DEF Agents!Entry
    <3> QED BY <3>3, <3>4
  <2> QED BY <2>2, <2>3
<1>4. PICK old, new : old = delegations /\ new = delegations' OBVIOUS
<1>5. /\ Len(old) \in Nat /\ Len(new) = Len(old) + 1 /\ new[Len(old) + 1] = run
      /\ \A m \in 1..Len(old) : new[m] = old[m]
    BY <1>1, <1>3, <1>4
<1>6. \A m \in 1..Len(new) : m \in 1..Len(old) \/ m = Len(old) + 1 BY <1>5
<1>7. session' = session BY DEF Agents!Invoke
<1>8. Agents!Unstarted => Agents!Unstarted'
  <2>1. Len(new) >= Len(old) /\ Len(new) \in Nat BY <1>5
  <2> QED BY <1>4, <1>5, <2>1, UnstartedStays
<1>9. PICK v : v = Agents!ProjectSession(session) /\ v = Agents!ProjectSession(session') BY <1>7
<1>10. ASSUME ViewKnows(v, old) PROVE ViewKnows(v, new)
  <2>1. \A m \in 1..Len(new) : new[m].at = "running" =>
          m \in 1..Len(old) /\ old[m].at = "running" /\ old[m].child # None
      BY <1>3, <1>4, <1>5, <1>6 DEF ToldInv, RunIsTold
  <2>2. Len(new) >= Len(old) /\ Len(new) \in Nat BY <1>5
  <2> QED BY ONLY <1>5, <1>10, <2>1, <2>2, KnowsSame
<1>11. \A m \in 1..Len(new) : new[m].at = "starting" => new[m].transport # None
    BY <1>3, <1>4, <1>5, <1>6 DEF ReplayInv
<1> QED BY <1>4, <1>8, <1>9, <1>10, <1>11 DEF ReplayInv

(* Registrations and the end of the Session leave both as they are.         *)
LEMMA NothingReplays == ASSUME ReplayInv, UNCHANGED <<delegations, session>> PROVE ReplayInv'
<1>1. Agents!Unstarted' <=> Agents!Unstarted BY DEF Agents!Unstarted
<1>2. PICK v : v = Agents!ProjectSession(session) /\ v = Agents!ProjectSession(session') OBVIOUS
<1> QED BY <1>1, <1>2 DEF ReplayInv

-----------------------------------------------------------------------------
(* However roles and Providers come and go, starts fail, children stop and   *)
(* the Session closes: the Catalog offers exactly the roles that can be      *)
(* routed; a child is told of once from its start to one end, which is the   *)
(* one that its caller hears of; and the strict fold takes the Session's log *)
(* as long as every child that was asked for was started.                   *)
THEOREM AgentsAreSafe ==
  ASSUME AgentAssumption
  PROVE  Agents!Spec => []AgentsAreSound
<1>1. Agents!Init => RolesInv /\ ToldInv /\ ReplayInv
  <2> SUFFICES ASSUME Agents!Init PROVE RolesInv /\ ToldInv /\ ReplayInv OBVIOUS
  <2>1. /\ roles = Agents!Map0 /\ roleCatalog = Agents!Map0 /\ roleHandles = {} /\ delegations = <<>> /\ session = <<>>
      BY DEF Agents!Init
  <2>2. DOMAIN Agents!Map0 = {} BY DEF Agents!Map0
  <2>3. RolesInv BY <2>1, <2>2 DEF RolesInv, Agents!CatalogIsRouted, Agents!Range
  <2>4. DelegationsTyped BY <2>1 DEF DelegationsTyped
  <2>5. PICK v : v = Agents!EmptySession OBVIOUS
  <2>6. v.ok = TRUE /\ DOMAIN v = DOMAIN Agents!EmptySession /\ DOMAIN v.agents = {}
      BY <2>2, <2>5 DEF Agents!EmptySession
  <2>7. ViewKnows(v, delegations) BY <2>1, <2>6 DEF ViewKnows, ViewIsWhole
  <2>8. Agents!ProjectSession(session) = v BY <2>1, <2>5, Agents!NothingIsProjected
  <2>9. ReplayInv BY <2>1, <2>7, <2>8 DEF ReplayInv
  <2> QED BY <2>1, <2>3, <2>4, <2>9 DEF ToldInv, Agents!ToSet
<1>2. AgentAssumption /\ RolesInv /\ ToldInv /\ ReplayInv /\ [Agents!Next]_(Agents!arVars) => (RolesInv /\ ToldInv /\ ReplayInv)'
  <2> SUFFICES ASSUME AgentAssumption, RolesInv, ToldInv, ReplayInv, [Agents!Next]_(Agents!arVars)
               PROVE (RolesInv /\ ToldInv /\ ReplayInv)'
      OBVIOUS
  <2>1. CASE \E role \in RoleDefs : Agents!RegisterRole(role) \/ Agents!DisposeRole(role)
      BY <2>1, RolesKeep, CloseKeepsTold, NothingReplays DEF Agents!RegisterRole, Agents!DisposeRole, Agents!Change
  <2>2. ASSUME UNCHANGED <<roles, roleCatalog, roleHandles>> PROVE RolesInv'
      BY <2>2 DEF RolesInv, Agents!CatalogIsRouted
  <2>3. CASE \E provider \in ProviderDefs : Agents!RegisterProvider(provider) \/ Agents!DisposeProvider(provider)
      BY <2>2, <2>3, CloseKeepsTold, NothingReplays DEF Agents!RegisterProvider, Agents!DisposeProvider, Agents!Change
  <2>4. CASE \E id \in DOMAIN roles, input \in Inputs, initiated, json \in BOOLEAN : Agents!Invoke(id, input, initiated, json)
    <3>1. ToldInv' /\ ReplayInv' BY <2>4, DelegateKeeps, InvokeReplays
    <3>2. UNCHANGED <<roles, roleCatalog, roleHandles>> BY <2>4 DEF Agents!Invoke, Agents!registry
    <3> QED BY <2>2, <3>1, <3>2
  <2>5. CASE \E n \in 1..Len(delegations) :
               \/ Agents!Abort(n) \/ Agents!StartChild(n) \/ Agents!StartFails(n)
               \/ \E stop \in Agents!Stops : Agents!ChildSettles(n, stop)
               \/ \E fails \in BOOLEAN : Agents!DisposeChild(n, fails)
    <3>1. ToldInv' BY <2>5, AbortKeeps, StartKeepsTold, StartFailsKeeps, SettleKeeps, DisposeKeepsTold
    <3>2. UNCHANGED <<roles, roleCatalog, roleHandles>>
        BY <2>5 DEF Agents!Abort, Agents!StartChild, Agents!StartFails, Agents!ChildSettles, Agents!DisposeChild, Agents!registry
    <3>3. ReplayInv' BY <2>5, StartReplays, StartFailsReplays, SettleReplays, OtherwiseReplays
    <3> QED BY <2>2, <3>1, <3>2, <3>3
  <2>6. CASE Agents!CloseSession \/ UNCHANGED Agents!arVars
      BY <2>2, <2>6, CloseKeepsTold, NothingReplays DEF Agents!CloseSession, Agents!registry, Agents!arVars
  <2> QED BY <2>1, <2>3, <2>4, <2>5, <2>6 DEF Agents!Next
<1>3. RolesInv /\ ToldInv /\ ReplayInv => AgentsAreSound
    BY ToldIsTold DEF RolesInv, ReplayInv, ViewKnows, ViewIsWhole, AgentsAreSound, Agents!AgentsAreSound, Agents!DelegationIsTold
<1> QED BY <1>1, <1>2, <1>3, PTL DEF Agents!Spec
-----------------------------------------------------------------------------
(* The registry of Pipelines and the plans captured from it.               *)
Plans == INSTANCE PipelineRegistry WITH Pipelines <- PlannedPipelines, plan <- captured

(* A captured plan holds every Pipeline that it may invoke, whatever has     *)
(* been disposed of since, and running it cannot go on for ever.             *)
(* (pipeline-runtime: capturePlan)                                           *)
PlansAreSound == Plans!PlansAreSound

(* The registry counts as everybody does.                                   *)
LEMMA PlansCount == \A S : Plans!Cardinality(S) = Cardinality(S)
BY DEF Plans!Cardinality, Cardinality

(* A set of numbers with 0 and every successor has every number: the form  *)
(* of induction that needs no operator as a parameter.                     *)
LEMMA Induction ==
  ASSUME NEW S, 0 \in S, \A n \in Nat : n \in S => n + 1 \in S
  PROVE  \A n \in Nat : n \in S
<1>1. SUFFICES ASSUME NEW n \in Nat, n \notin S PROVE FALSE OBVIOUS
<1>2. PICK m \in Nat \ S : \A k \in Nat \ S : m <= k
  <2>1. Nat \ S # {} /\ Nat \ S \subseteq Nat BY <1>1
  <2> QED BY <2>1, Least
<1>3. m # 0 /\ m - 1 \in Nat BY <1>2
<1>4. m - 1 \in S BY <1>2, <1>3
<1>5. (m - 1) + 1 \in S BY <1>3, <1>4
<1> QED BY <1>2, <1>5

(* A function can be applied again and again: what the recursive functions *)
(* of the model iterate exists.                                            *)
LEMMA Iteration ==
  ASSUME NEW S, NEW base \in S, NEW step \in [S -> S], NEW N \in Nat
  PROVE  \E f \in [0..N -> S] : f[0] = base /\ \A n \in 1..N : f[n] = step[f[n - 1]]
<1> DEFINE T == {m \in Nat : \E f \in [0..m -> S] : f[0] = base /\ \A n \in 1..m : f[n] = step[f[n - 1]]}
<1>1. 0 \in T
  <2>1. PICK f : f = [n \in 0..0 |-> base] OBVIOUS
  <2>2. f \in [0..0 -> S] /\ f[0] = base /\ 1..0 = {} BY <2>1
  <2> QED BY <2>2
<1>2. ASSUME NEW m \in Nat, m \in T PROVE m + 1 \in T
  <2>1. PICK f \in [0..m -> S] : f[0] = base /\ \A n \in 1..m : f[n] = step[f[n - 1]] BY <1>2
  <2>2. PICK g : g = [n \in 0..(m + 1) |-> IF n = m + 1 THEN step[f[m]] ELSE f[n]] OBVIOUS
  <2>3. g \in [0..(m + 1) -> S]
    <3>1. f[m] \in S BY <2>1
    <3>2. \A n \in 0..(m + 1) : (IF n = m + 1 THEN step[f[m]] ELSE f[n]) \in S BY <2>1, <3>1
    <3> QED BY <2>2, <3>2
  <2>4. g[0] = base BY <2>1, <2>2
  <2>5. \A n \in 1..(m + 1) : g[n] = step[g[n - 1]]
    <3>1. SUFFICES ASSUME NEW n \in 1..(m + 1) PROVE g[n] = step[g[n - 1]] OBVIOUS
    <3>2. CASE n = m + 1
      <4>1. g[n] = step[f[m]] /\ n - 1 = m BY <2>2, <3>2
      <4>2. g[m] = f[m] BY <2>2
      <4> QED BY <4>1, <4>2
    <3>3. CASE n # m + 1
      <4>1. n \in 1..m /\ n - 1 \in 0..m BY <3>3
      <4>2. g[n] = f[n] /\ g[n - 1] = f[n - 1] BY <2>2, <4>1
      <4> QED BY <2>1, <4>1, <4>2
    <3> QED BY <3>2, <3>3
  <2> QED BY <2>3, <2>4, <2>5
<1>3. \A m \in Nat : m \in T
  <2> HIDE DEF T
  <2> QED BY <1>1, <1>2, Induction
<1> QED BY <1>3

(* One round of captureNested(), from what is known of the ancestors.       *)
May(registry, ok, x) ==
  /\ x[1] \notin x[2]
  /\ registry[x[1]] # None
  /\ \A q \in Plans!Invoked(registry[x[1]]) : q \in DOMAIN registry /\ <<q, x[2] \cup {x[1]}>> \in ok
Visits(r) == (DOMAIN r) \X SUBSET DOMAIN r

(* A visit is a Pipeline and the ancestors above it.                       *)
LEMMA VisitsAre ==
  ASSUME NEW reg, NEW x \in Visits(reg)
  PROVE  /\ x[1] \in DOMAIN reg /\ x[2] \in SUBSET DOMAIN reg /\ x = <<x[1], x[2]>>
         /\ \A q \in DOMAIN reg : <<q, x[2] \cup {x[1]}>> \in Visits(reg)
<1>1. PICK D : D = DOMAIN reg OBVIOUS
<1>2. Visits(reg) = D \X SUBSET D BY <1>1, Zenon DEF Visits
<1>3. x \in D \X SUBSET D BY <1>2
<1>4. x[1] \in D /\ x[2] \in SUBSET D /\ x = <<x[1], x[2]>> BY <1>3
<1>5. \A q \in D : <<q, x[2] \cup {x[1]}>> \in D \X SUBSET D BY <1>4
<1> QED BY <1>1, <1>2, <1>4, <1>5, Zenon

(* Knowing more of the ancestors never takes a visit back.                 *)
LEMMA MayGrows ==
  ASSUME NEW reg, NEW s, NEW t, s \subseteq t, NEW x, May(reg, s, x)
  PROVE  May(reg, t, x)
BY DEF May

(* captureNested() answers as a fixed point of one round of it; the least  *)
(* fixed point shows that there is one.                                    *)
LEMMA CapturesUnfolds ==
  ASSUME NEW reg, NEW top \in DOMAIN reg
  PROVE  \E ok \in SUBSET Visits(reg) :
            /\ \A x \in Visits(reg) : x \in ok <=> May(reg, ok, x)
            /\ Plans!Captures(reg, top) <=> <<top, {}>> \in ok
<1> DEFINE V == Visits(reg)
           Grows(s) == \A x \in V : May(reg, s, x) => x \in s
           least == {x \in V : \A s \in SUBSET V : Grows(s) => x \in s}
<1>2. Grows(least)
  <2>1. SUFFICES ASSUME NEW x \in V, May(reg, least, x), NEW s \in SUBSET V, Grows(s) PROVE x \in s OBVIOUS
  <2>2. least \subseteq s BY <2>1
  <2> HIDE DEF least
  <2>3. May(reg, s, x) BY <2>1, <2>2, MayGrows
  <2> QED BY <2>1, <2>3
<1>3. \A x \in V : x \in least => May(reg, least, x)
  <2> DEFINE next == {x \in V : May(reg, least, x)}
  <2>1. next \subseteq least BY <1>2
  <2>2. Grows(next)
    <3>1. SUFFICES ASSUME NEW x \in V, May(reg, next, x) PROVE x \in next OBVIOUS
    <3>2. May(reg, least, x)
      <4> HIDE DEF next, least
      <4> QED BY <2>1, <3>1, MayGrows
    <3> QED BY <3>2
  <2>3. next \in SUBSET V OBVIOUS
  <2>4. least \subseteq next
    <3> HIDE DEF next
    <3> QED BY <2>2, <2>3
  <2> QED BY <2>4
<1>4. least \in SUBSET V OBVIOUS
<1> HIDE DEF least, V
<1> DEFINE Body(g, x) ==
             /\ x[1] \notin x[2]
             /\ reg[x[1]] # None
             /\ \A q \in Plans!Invoked(reg[x[1]]) : q \in DOMAIN reg /\ g[<<q, x[2] \cup {x[1]}>>]
<1>5. PICK g : g = [x \in V |-> x \in least] OBVIOUS
<1>6. \A x \in V : g[x] <=> Body(g, x)
  <2>1. SUFFICES ASSUME NEW x \in V PROVE g[x] <=> Body(g, x) OBVIOUS
  <2>2. g[x] <=> May(reg, least, x) BY <1>2, <1>3, <1>5
  <2>3. \A q \in DOMAIN reg : <<q, x[2] \cup {x[1]}>> \in V BY VisitsAre DEF V
  <2>4. \A q \in DOMAIN reg : g[<<q, x[2] \cup {x[1]}>>] <=> <<q, x[2] \cup {x[1]}>> \in least BY <1>5, <2>3
  <2> QED BY <2>2, <2>4 DEF May
<1>7. g = [x \in V |-> Body(g, x)]
  <2> HIDE DEF Body
  <2>1. \A x \in V : g[x] \in BOOLEAN BY <1>5
  <2>2. \A x \in V : Body(g, x) \in BOOLEAN BY DEF Body
  <2>3. \A x \in V : g[x] = Body(g, x) BY <1>6, <2>1, <2>2
  <2>4. g = [x \in V |-> g[x]] BY <1>5
  <2> QED BY <2>3, <2>4, Zenon
<1>8. PICK ok : ok = [x \in V |-> Body(ok, x)] /\ Plans!Captures(reg, top) = ok[<<top, {}>>]
  <2> DEFINE c == CHOOSE f : f = [x \in V |-> Body(f, x)]
  <2>1. c = [x \in V |-> Body(c, x)]
    <3> HIDE DEF Body
    <3> QED BY <1>7, Zenon
  <2>2. Plans!Captures(reg, top) = c[<<top, {}>>] BY DEF Plans!Captures, V, Visits
  <2> QED BY <2>1, <2>2
<1>9. PICK may : may = {x \in V : ok[x]} OBVIOUS
<1>10. \A x \in V : x \in may <=> May(reg, may, x)
  <2>1. SUFFICES ASSUME NEW x \in V PROVE x \in may <=> May(reg, may, x) OBVIOUS
  <2>2. ok[x] <=> Body(ok, x)
    <3> HIDE DEF Body
    <3> QED BY <1>8
  <2>3. \A q \in DOMAIN reg : <<q, x[2] \cup {x[1]}>> \in V BY VisitsAre DEF V
  <2>4. \A q \in DOMAIN reg : ok[<<q, x[2] \cup {x[1]}>>] <=> <<q, x[2] \cup {x[1]}>> \in may BY <1>9, <2>3
  <2> QED BY <1>9, <2>2, <2>4 DEF May
<1>11. <<top, {}>> \in V BY DEF V, Visits
<1>12. Plans!Captures(reg, top) <=> <<top, {}>> \in may BY <1>8, <1>9, <1>11
<1> QED BY <1>9, <1>10, <1>12 DEF V

(* Numbers for the Pipelines that may be captured: how many ancestors a      *)
(* Pipeline has at most room for.                                           *)
LEMMA DepthsExist ==
  ASSUME NEW reg, IsFiniteSet(DOMAIN reg), NEW may \in SUBSET Visits(reg),
         \A x \in Visits(reg) : x \in may <=> May(reg, may, x),
         NEW C, \A p \in C : p \in DOMAIN reg /\ \E a \in SUBSET DOMAIN reg : <<p, a>> \in may,
         \A p \in C : Plans!Invoked(reg[p]) \subseteq C
  PROVE  \E depth \in [C -> 0..Cardinality(DOMAIN reg)] :
           \A p \in C : \A q \in Plans!Invoked(reg[p]) : depth[q] < depth[p]
<1>1. PICK ids, N : ids = DOMAIN reg /\ N = Cardinality(ids) OBVIOUS
<1>2. N \in Nat BY <1>1, FS_CardinalityType
<1>3. \A a \in SUBSET ids : IsFiniteSet(a) /\ Cardinality(a) \in Nat /\ Cardinality(a) <= N
    BY <1>1, FS_Subset, FS_CardinalityType
<1> DEFINE Room(p) == {N - Cardinality(a) : a \in {b \in SUBSET ids : <<p, b>> \in may}}
<1>4. \A p \in C : Room(p) \subseteq 0..N /\ Room(p) # {}
  <2>1. SUFFICES ASSUME NEW p \in C PROVE Room(p) \subseteq 0..N /\ Room(p) # {} OBVIOUS
  <2>2. \A a \in SUBSET ids : N - Cardinality(a) \in 0..N
    <3>1. SUFFICES ASSUME NEW a \in SUBSET ids PROVE N - Cardinality(a) \in 0..N OBVIOUS
    <3>2. Cardinality(a) \in Nat /\ Cardinality(a) <= N BY <1>3
    <3> QED BY <1>2, <3>2
  <2>3. PICK a \in SUBSET ids : <<p, a>> \in may BY <1>1
  <2> QED BY <2>2, <2>3
<1>5. \A p \in C : \E m \in Room(p) : \A k \in Room(p) : m <= k
  <2>1. SUFFICES ASSUME NEW p \in C PROVE \E m \in Room(p) : \A k \in Room(p) : m <= k OBVIOUS
  <2> HIDE DEF Room
  <2>2. Room(p) \subseteq Nat /\ Room(p) # {} BY <1>2, <1>4
  <2> QED BY <2>2, Least
<1>6. PICK depth : depth = [p \in C |-> CHOOSE m \in Room(p) : \A k \in Room(p) : m <= k] OBVIOUS
<1>7. \A p \in C : depth[p] \in Room(p) /\ \A k \in Room(p) : depth[p] <= k
  <2> HIDE DEF Room
  <2>1. SUFFICES ASSUME NEW p \in C PROVE depth[p] \in Room(p) /\ \A k \in Room(p) : depth[p] <= k OBVIOUS
  <2>2. depth[p] = CHOOSE m \in Room(p) : \A k \in Room(p) : m <= k BY <1>6
  <2>3. PICK m : m \in Room(p) /\ \A k \in Room(p) : m <= k BY <1>5
  <2> QED BY <2>2, <2>3, Zenon
<1>8. depth \in [C -> 0..N]
  <2>1. \A p \in C : depth[p] \in 0..N BY <1>4, <1>7
  <2> HIDE DEF Room
  <2> QED BY <1>6, <2>1
<1>9. \A p \in C : \A q \in Plans!Invoked(reg[p]) : depth[q] < depth[p]
  <2>1. SUFFICES ASSUME NEW p \in C, NEW q \in Plans!Invoked(reg[p]) PROVE depth[q] < depth[p] OBVIOUS
  <2>2. q \in C BY <2>1
  <2>3. PICK a \in SUBSET ids : <<p, a>> \in may /\ depth[p] = N - Cardinality(a) BY <1>7
  <2>4. PICK x : x = <<p, a>> OBVIOUS
  <2>5. x \in Visits(reg) /\ x[1] = p /\ x[2] = a BY <1>1, <2>3, <2>4 DEF Visits
  <2>6. p \notin a /\ <<q, a \cup {p}>> \in may BY <2>3, <2>4, <2>5 DEF May
  <2>7. p \in ids /\ a \cup {p} \in SUBSET ids BY <1>1
  <2>8. Cardinality(a \cup {p}) = Cardinality(a) + 1 BY <1>3, <2>6, FS_AddElement
  <2>9. N - Cardinality(a \cup {p}) \in Room(q) BY <2>6, <2>7
  <2>10. depth[q] <= N - Cardinality(a \cup {p}) BY <1>7, <2>2, <2>9
  <2>11. Cardinality(a) \in Nat /\ depth[q] \in 0..N BY <1>3, <1>8, <2>2
  <2> QED BY <1>2, <2>3, <2>8, <2>10, <2>11
<1> QED BY <1>1, <1>8, <1>9

(* What captureNested() gathers.                                            *)
LEMMA ClosureIs ==
  ASSUME NEW reg, IsFiniteSet(DOMAIN reg), NEW top \in DOMAIN reg, Plans!Captures(reg, top)
  PROVE  /\ Plans!Closure(reg, top) \subseteq DOMAIN reg /\ top \in Plans!Closure(reg, top)
         /\ \A p \in Plans!Closure(reg, top) : reg[p] # None /\ Plans!Invoked(reg[p]) \subseteq Plans!Closure(reg, top)
         /\ \E depth \in [Plans!Closure(reg, top) -> 0..Cardinality(DOMAIN reg)] :
              \A p \in Plans!Closure(reg, top) : \A q \in Plans!Invoked(reg[p]) : depth[q] < depth[p]
<1>1. PICK may \in SUBSET Visits(reg) :
        (\A x \in Visits(reg) : x \in may <=> May(reg, may, x)) /\ (Plans!Captures(reg, top) <=> <<top, {}>> \in may)
    BY CapturesUnfolds
<1>2. PICK ids, N : ids = DOMAIN reg /\ N = Cardinality(ids) OBVIOUS
<1>3. N \in Nat BY <1>2, FS_CardinalityType
<1> DEFINE Good == {p \in ids : \E a \in SUBSET ids : <<p, a>> \in may}
           Onward(X) == X \cup UNION {Plans!Invoked(reg[p]) : p \in X}
<1>4. \A p \in Good : reg[p] # None /\ Plans!Invoked(reg[p]) \subseteq Good
  <2>1. SUFFICES ASSUME NEW p \in Good PROVE reg[p] # None /\ Plans!Invoked(reg[p]) \subseteq Good OBVIOUS
  <2>2. PICK a \in SUBSET ids : <<p, a>> \in may OBVIOUS
  <2>3. PICK x : x = <<p, a>> OBVIOUS
  <2>4. x \in Visits(reg) /\ x[1] = p /\ x[2] = a BY <1>2, <2>2, <2>3 DEF Visits
  <2>5. reg[p] # None /\ \A q \in Plans!Invoked(reg[p]) : q \in ids /\ <<q, a \cup {p}>> \in may
      BY <1>1, <1>2, <2>2, <2>3, <2>4 DEF May
  <2> QED BY <2>5
<1>5. top \in Good /\ Good \subseteq ids BY <1>1, <1>2
<1> HIDE DEF Good
<1>6. \A X \in SUBSET Good : Onward(X) \in SUBSET Good BY <1>4
<1>7. PICK f : f = [n \in 0..N |-> IF n = 0 THEN {top} ELSE Onward(f[n - 1])]
  <2>1. PICK step : step = [X \in SUBSET Good |-> Onward(X)] OBVIOUS
  <2>2. step \in [SUBSET Good -> SUBSET Good] /\ \A X \in SUBSET Good : step[X] = Onward(X) BY <1>6, <2>1
  <2>3. {top} \in SUBSET Good BY <1>5
  <2>4. PICK g \in [0..N -> SUBSET Good] : g[0] = {top} /\ \A n \in 1..N : g[n] = step[g[n - 1]]
    <3>1. PICK S : S = SUBSET Good OBVIOUS
    <3>2. PICK base : base = {top} OBVIOUS
    <3>3. step \in [S -> S] /\ base \in S BY <2>2, <2>3, <3>1, <3>2
    <3>4. \E g \in [0..N -> S] : g[0] = base /\ \A n \in 1..N : g[n] = step[g[n - 1]]
        BY ONLY <1>3, <3>3, Iteration
    <3> QED BY <3>1, <3>2, <3>4
  <2>5. \A n \in 0..N : g[n] = IF n = 0 THEN {top} ELSE Onward(g[n - 1])
    <3>1. SUFFICES ASSUME NEW n \in 0..N, n # 0 PROVE g[n] = Onward(g[n - 1]) BY <2>4
    <3>2. n \in 1..N /\ n - 1 \in 0..N BY <1>3, <3>1
    <3>3. g[n - 1] \in SUBSET Good BY <2>4, <3>2
    <3> QED BY <2>2, <2>4, <3>2, <3>3
  <2> HIDE DEF Onward
  <2>6. g = [n \in 0..N |-> IF n = 0 THEN {top} ELSE Onward(g[n - 1])] BY <2>4, <2>5
  <2> QED BY <2>6
<1>8. PICK c : c = [n \in 0..N |-> IF n = 0 THEN {top} ELSE Onward(c[n - 1])] /\ Plans!Closure(reg, top) = c[N]
  <2> DEFINE e == CHOOSE g : g = [n \in 0..N |-> IF n = 0 THEN {top} ELSE Onward(g[n - 1])]
  <2>1. e = [n \in 0..N |-> IF n = 0 THEN {top} ELSE Onward(e[n - 1])]
    <3> HIDE DEF Onward
    <3> QED BY <1>7, Zenon
  <2>2. Plans!Closure(reg, top) = e[N]
    <3>1. e[N] = (CHOOSE g : g = [n \in 0..N |-> IF n = 0 THEN {top}
                                 ELSE g[n - 1] \cup UNION {Plans!Invoked(reg[p]) : p \in g[n - 1]}])[N]
        OBVIOUS
    <3>2. Plans!Cardinality(DOMAIN reg) = N /\ DOMAIN reg = ids BY <1>2, PlansCount
    <3> QED BY ONLY <1>2, <3>1, <3>2, Zenon DEF Plans!Closure
  <2> QED BY <2>1, <2>2
<1>9. c[0] = {top} /\ \A n \in 0..N : n # 0 => c[n] = Onward(c[n - 1])
  <2> HIDE DEF Onward
  <2>1. \A n \in 0..N : c[n] = IF n = 0 THEN {top} ELSE Onward(c[n - 1]) BY <1>8, Zenon
  <2>2. 0 \in 0..N BY <1>3
  <2> QED BY <2>1, <2>2
<1> DEFINE Rounds == {n \in Nat : n <= N => c[n] \subseteq Good /\ top \in c[n] /\ (Onward(c[n]) = c[n] \/ Cardinality(c[n]) >= n + 1)}
<1>10. 0 \in Rounds
  <2>1. Cardinality({top}) = 1 BY FS_Singleton
  <2> QED BY <1>5, <1>9, <2>1
<1>11. ASSUME NEW n \in Nat, n \in Rounds PROVE n + 1 \in Rounds
  <2>1. SUFFICES ASSUME n + 1 <= N
                 PROVE  /\ c[n + 1] \subseteq Good /\ top \in c[n + 1]
                        /\ Onward(c[n + 1]) = c[n + 1] \/ Cardinality(c[n + 1]) >= n + 2
      OBVIOUS
  <2>2. c[n] \subseteq Good /\ top \in c[n] /\ (Onward(c[n]) = c[n] \/ Cardinality(c[n]) >= n + 1)
      BY <1>3, <1>11, <2>1
  <2>3. c[n + 1] = Onward(c[n])
    <3>1. n + 1 \in 0..N /\ n + 1 # 0 /\ (n + 1) - 1 = n BY <1>3, <2>1
    <3> HIDE DEF Onward
    <3> QED BY <1>9, <3>1
  <2>4. c[n + 1] \in SUBSET Good BY <1>6, <2>2, <2>3
  <2>5. c[n] \subseteq c[n + 1] BY <2>3
  <2>6. CASE c[n + 1] = c[n] BY <2>2, <2>3, <2>6
  <2>7. CASE c[n + 1] # c[n]
    <3>1. PICK y \in c[n + 1] : y \notin c[n] BY <2>5, <2>7
    <3>2. IsFiniteSet(c[n]) /\ IsFiniteSet(c[n + 1])
      <4>1. c[n] \in SUBSET ids /\ c[n + 1] \in SUBSET ids BY <1>5, <2>2, <2>4
      <4> QED BY <1>2, <4>1, FS_Subset
    <3>3. Cardinality(c[n] \cup {y}) = Cardinality(c[n]) + 1 /\ IsFiniteSet(c[n] \cup {y}) BY <3>1, <3>2, FS_AddElement
    <3>4. c[n] \cup {y} \in SUBSET c[n + 1] BY <2>5, <3>1
    <3>5. Cardinality(c[n] \cup {y}) <= Cardinality(c[n + 1]) BY <3>2, <3>4, FS_Subset
    <3>6. Cardinality(c[n]) \in Nat /\ Cardinality(c[n + 1]) \in Nat BY <3>2, FS_CardinalityType
    <3>7. Cardinality(c[n]) >= n + 1 BY <2>2, <2>3, <2>7
    <3>8. Cardinality(c[n + 1]) >= n + 2
      <4> HIDE DEF Onward, Rounds
      <4> QED BY <3>3, <3>5, <3>6, <3>7
    <3> QED BY <2>2, <2>4, <2>5, <3>8
  <2> QED BY <2>6, <2>7
<1>12. N \in Rounds
  <2> HIDE DEF Rounds
  <2> QED BY <1>3, <1>10, <1>11, Induction
<1>13. c[N] \subseteq Good /\ top \in c[N] /\ Onward(c[N]) = c[N]
  <2>1. c[N] \subseteq Good /\ top \in c[N] /\ (Onward(c[N]) = c[N] \/ Cardinality(c[N]) >= N + 1) BY <1>3, <1>12
  <2>2. Cardinality(c[N]) <= N /\ Cardinality(c[N]) \in Nat
    <3>1. c[N] \in SUBSET ids BY <1>5, <2>1
    <3> QED BY <1>2, <3>1, FS_Subset, FS_CardinalityType
  <2> HIDE DEF Onward, Rounds
  <2> QED BY <1>3, <2>1, <2>2
<1>14. PICK C : C = Plans!Closure(reg, top) OBVIOUS
<1>15. C \subseteq Good /\ top \in C /\ \A p \in C : Plans!Invoked(reg[p]) \subseteq C
  <2> HIDE DEF Rounds
  <2>1. C = c[N] BY <1>8, <1>14
  <2>2. C \subseteq Good /\ top \in C /\ Onward(C) = C BY <1>13, <2>1
  <2>3. ASSUME NEW p \in C, NEW q \in Plans!Invoked(reg[p]) PROVE q \in C
    <3>1. q \in Onward(C) BY <2>3
    <3> HIDE DEF Onward
    <3> QED BY <2>2, <3>1
  <2> QED BY <2>2, <2>3
<1>16. \A p \in C : p \in DOMAIN reg /\ \E a \in SUBSET DOMAIN reg : <<p, a>> \in may BY <1>2, <1>15 DEF Good
<1>17. \E depth \in [C -> 0..Cardinality(DOMAIN reg)] : \A p \in C : \A q \in Plans!Invoked(reg[p]) : depth[q] < depth[p]
    BY <1>1, <1>15, <1>16, DepthsExist
<1> QED BY <1>2, <1>4, <1>5, <1>14, <1>15, <1>17

(* The inductive invariant: what is registered compiles, and a captured    *)
(* plan is closed and terminates.                                          *)
PlansInv ==
  /\ definitions = [p \in PlannedPipelines |-> definitions[p]]
  /\ \A p \in PlannedPipelines : definitions[p] # None => Plans!Compiles(definitions[p])
  /\ Plans!PlanIsClosed /\ Plans!PlanTerminates

(* register(), its disposer and capture() preserve it.                     *)
LEMMA PlansInductive == IsFiniteSet(PlannedPipelines) /\ PlansInv /\ [Plans!Next]_(Plans!vars) => PlansInv'
<1>1. SUFFICES ASSUME IsFiniteSet(PlannedPipelines), PlansInv, [Plans!Next]_(Plans!vars) PROVE PlansInv' OBVIOUS
<1>2. ASSUME UNCHANGED captured PROVE Plans!PlanIsClosed' /\ Plans!PlanTerminates'
    BY <1>1, <1>2 DEF PlansInv, Plans!PlanIsClosed, Plans!PlanTerminates
<1>3. ASSUME NEW p \in PlannedPipelines, NEW d, d = None \/ Plans!Compiles(d), definitions' = [definitions EXCEPT ![p] = d]
      PROVE  /\ definitions' = [q \in PlannedPipelines |-> definitions'[q]]
             /\ \A q \in PlannedPipelines : definitions'[q] # None => Plans!Compiles(definitions'[q])
  <2>1. definitions = [q \in PlannedPipelines |-> definitions[q]] /\ \A q \in PlannedPipelines : definitions[q] # None => Plans!Compiles(definitions[q])
      BY <1>1 DEF PlansInv
  <2> HIDE DEF Plans!Compiles
  <2>2. DOMAIN definitions = PlannedPipelines BY <2>1
  <2>3. definitions' = [q \in PlannedPipelines |-> IF q = p THEN d ELSE definitions[q]] BY <1>3, <2>2
  <2>4. \A q \in PlannedPipelines : definitions'[q] = IF q = p THEN d ELSE definitions[q] BY <2>3
  <2>5. definitions' = [q \in PlannedPipelines |-> definitions'[q]] BY <2>3
  <2> QED BY <1>3, <2>1, <2>4, <2>5
<1>4. ASSUME NEW p \in PlannedPipelines, NEW d, Plans!Register(p, d) PROVE PlansInv'
  <2>1. CASE definitions' = definitions BY <1>1, <1>2, <1>4, <2>1 DEF Plans!Register, PlansInv
  <2>2. CASE definitions' # definitions
    <3>1. Plans!Compiles(d) /\ definitions' = [definitions EXCEPT ![p] = d]
        BY <1>4, <2>2 DEF Plans!Register, Plans!CompileResult, Plans!Compiles
    <3> QED BY <1>2, <1>3, <1>4, <3>1 DEF Plans!Register, PlansInv
  <2> QED BY <2>1, <2>2
<1>5. ASSUME NEW p \in PlannedPipelines, Plans!Dispose(p) PROVE PlansInv'
    BY <1>2, <1>3, <1>5 DEF Plans!Dispose, PlansInv
<1>6. ASSUME NEW p \in PlannedPipelines, Plans!Capture(p) PROVE PlansInv'
  <2>1. CASE ~Plans!Captures(definitions, p) BY <1>1, <1>2, <1>6, <2>1 DEF Plans!Capture, PlansInv
  <2>2. CASE Plans!Captures(definitions, p)
    <3>1. DOMAIN definitions = PlannedPipelines
      <4>1. definitions = [q \in PlannedPipelines |-> definitions[q]] BY <1>1 DEF PlansInv
      <4> QED BY <4>1
    <3>2. PICK C : C = Plans!Closure(definitions, p) OBVIOUS
    <3>3. captured' = [id |-> p, graph |-> [q \in C |-> definitions[q]]] /\ definitions' = definitions
        BY <1>6, <2>2, <3>2 DEF Plans!Capture
    <3>4. /\ C \subseteq PlannedPipelines /\ p \in C
          /\ \A q \in C : definitions[q] # None /\ Plans!Invoked(definitions[q]) \subseteq C
          /\ \E depth \in [C -> 0..Cardinality(PlannedPipelines)] :
               \A q \in C : \A r \in Plans!Invoked(definitions[q]) : depth[r] < depth[q]
        BY <1>1, <1>6, <2>2, <3>1, <3>2, ClosureIs
    <3>5. captured'.id = p /\ DOMAIN captured'.graph = C /\ \A q \in C : captured'.graph[q] = definitions[q] BY <3>3
    <3>6. \A q \in C : Plans!Compiles(definitions[q]) BY <1>1, <3>4 DEF PlansInv
    <3>7. Plans!PlanIsClosed' BY <3>4, <3>5, <3>6 DEF Plans!PlanIsClosed
    <3>8. Plans!PlanTerminates'
      <4>1. PICK depth \in [C -> 0..Cardinality(PlannedPipelines)] :
              \A q \in C : \A r \in Plans!Invoked(definitions[q]) : depth[r] < depth[q]
          BY <3>4
      <4>2. \A q \in C : Plans!Invoked(captured'.graph[q]) = Plans!Invoked(definitions[q]) BY <3>5
      <4>3. \E d \in [DOMAIN captured'.graph -> 0..Cardinality(PlannedPipelines)] :
              \A q \in DOMAIN captured'.graph : \A r \in Plans!Invoked(captured'.graph[q]) : d[r] < d[q]
          BY <3>5, <4>1, <4>2
      <4>4. Plans!Cardinality(PlannedPipelines) = Cardinality(PlannedPipelines) BY PlansCount
      <4> QED BY <4>3, <4>4 DEF Plans!PlanTerminates
    <3> QED BY <1>1, <3>3, <3>7, <3>8 DEF PlansInv
  <2> QED BY <2>1, <2>2
<1>7. CASE UNCHANGED Plans!vars BY <1>1, <1>2, <1>7 DEF Plans!vars, PlansInv
<1> QED BY <1>1, <1>4, <1>5, <1>6, <1>7 DEF Plans!Next

(* For any finite set of Pipelines and any definitions, a captured plan    *)
(* holds all that it may invoke, whatever is registered or disposed of     *)
(* afterwards, and running it invokes Pipelines only so deep.              *)
THEOREM PlansAreClosed == ASSUME IsFiniteSet(PlannedPipelines) PROVE Plans!Spec => []PlansAreSound
<1>1. Plans!Init => PlansInv BY DEF Plans!Init, PlansInv, Plans!PlanIsClosed, Plans!PlanTerminates
<1>2. PlansInv => PlansAreSound BY DEF PlansInv, PlansAreSound, Plans!PlansAreSound
<1> QED BY <1>1, <1>2, PlansInductive, PTL DEF Plans!Spec
=============================================================================
