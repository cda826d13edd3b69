---------------------------- MODULE RuntimeGraph ----------------------------
(***************************************************************************)
(* Package lifecycles (lifecycle-common, lifecycle-l0, -l1, -l2): an       *)
(* archive is checked against its evidence and manifest and becomes a      *)
(* prepared graph; activating the graph registers its components,          *)
(* Pipelines, UI Slots and capabilities in the four Host registries, in    *)
(* one synchronous step that takes everything back when one registration   *)
(* throws.  Other plugins register and dispose beside it.  Experiences     *)
(* are selected and compositions resolved from what is registered.         *)
(***************************************************************************)
EXTENDS RuntimeArchive, TLC

CONSTANTS
  Graphs,       \* preparations, identities
  Archives,     \* what is handed over: [manifest, archive, payload, entry evidence]
  Authored,     \* what authors build with the SDK: [package, files, size, signing]
  Limits,
  HostKeys,     \* registrations of other plugins: <<kind, id>>
  Requests      \* compositions asked for: [components, scope, granted]

G == INSTANCE PipelineGraph
C == INSTANCE ComponentRegistry

VARIABLES
  registry,     \* <<kind, id>> -> the graph or plugin that registered it
  graph,        \* graph -> None or what it was prepared from
  phase,        \* graph -> "none", "prepared", "active", "released" or "disposed"
  composition   \* the last composition resolved: [request, code, components]

graphVars == <<registry, graph, phase, composition>>
Host == "host"
Empty == [k \in {} |-> None]
NoComposition == [request |-> None, code |-> "none", components |-> <<>>]

Init ==
  /\ registry = Empty /\ graph = [g \in Graphs |-> None] /\ phase = [g \in Graphs |-> "none"]
  /\ composition = NoComposition

-----------------------------------------------------------------------------
(* prepare(): trust, evidence, archive, permissions.                        *)
ExecutablePermission(trust) ==
  CASE trust = "L0" -> None [] trust = "L1" -> "script.execute" [] OTHER -> "native.execute"
EvidenceRefused(a) ==
  LET m == a.manifest
  IN  \/ ~a.payload \/ ~m.sha \/ ~a.entry.sha \/ ~a.entry.verified
      \/ m.trust = "L2" /\ ~(m.key /\ m.sbom /\ a.sbom /\ a.entry.key /\ a.entry.sbom)
PermissionRefused(a) ==
  LET needed == ExecutablePermission(a.manifest.trust)
      capabilities == ToSet(a.archive.descriptor.capabilities)
  IN  \E c \in capabilities :
        \/ ~(c.permissions \subseteq a.manifest.permissions)
        \/ c.impl # None /\ needed # None
           /\ ~(needed \in a.manifest.permissions /\ needed \in c.permissions)
(* The native adapter compiles every source, which may be too long or       *)
(* malformed, before anything is published.                                *)
SourceRefused(a) == a.manifest.trust = "L2" /\ ~a.compiles

PrepareRefusal(a) ==
  LET code == ParseArchive(a.archive, a.manifest, Limits)
  IN  IF EvidenceRefused(a) THEN "EVIDENCE"
      ELSE IF code # "none" THEN code
      ELSE IF PermissionRefused(a) THEN "PERMISSION"
      ELSE IF SourceRefused(a) THEN "SOURCE" ELSE "none"

Prepare(g, a) ==
  /\ phase[g] = "none"
  /\ IF PrepareRefusal(a) = "none"
     THEN graph' = [graph EXCEPT ![g] = a] /\ phase' = [phase EXCEPT ![g] = "prepared"]
     ELSE UNCHANGED <<graph, phase>>
  /\ UNCHANGED <<registry, composition>>

(* buildRpPackage() of packages/rp/sdk: the descriptor and files of an author *)
(* become an archive, hash, SBOM and signature, which the reader checks.     *)
BuildRefusal(b) ==
  LET m == b.package.manifest
      code == CreateRefusal(b.files, b.package.archive.descriptor, b.size, m, Limits)
  IN  IF m.trust = "L2" /\ ~b.signing THEN "SIGNING"
      ELSE IF code # "none" THEN code
      ELSE IF PermissionRefused(b.package) THEN "PERMISSION" ELSE "none"
Built(b) ==
  [b.package EXCEPT
     !.archive = WrittenArchive(b.files, b.package.archive.descriptor, b.size),
     !.manifest.sha = TRUE, !.manifest.sbom = TRUE, !.manifest.key = b.signing,
     !.payload = TRUE, !.sbom = TRUE,
     !.entry = [sha |-> TRUE, verified |-> TRUE, key |-> b.signing, sbom |-> TRUE]]
Build(g, b) == phase[g] = "none" /\ BuildRefusal(b) = "none" /\ Prepare(g, Built(b))

-----------------------------------------------------------------------------
(* What a graph registers, in this order.                                   *)
Contributions(a) ==
  LET d == a.archive.descriptor
      keys(kind, seq) == [i \in DOMAIN seq |-> <<kind, seq[i].id>>]
      slots == [i \in DOMAIN d.slots |-> <<"slot", <<a.manifest.id, d.slots[i].id>> >>]
  IN  keys("component", d.components) \o keys("pipeline", d.pipelines) \o slots
      \o keys("capability", d.capabilities)

(* The UI registry has rules of its own for titles.                         *)
Unregistrable(a) ==
  {<<"slot", <<a.manifest.id, s.id>> >> : s \in {t \in ToSet(a.archive.descriptor.slots) : t.title = "unfit"}}
Release(keys, g) == [k \in {q \in DOMAIN registry : ~(q \in keys /\ registry[q] = g)} |-> registry[k]]

(* Slip: a registration that throws leaves what was registered before it.   *)
SlipActivated(g) ==
  LET keys == Contributions(graph[g])
      throwing == {i \in DOMAIN keys : keys[i] \in DOMAIN registry \cup Unregistrable(graph[g])}
      done == {keys[i] : i \in {k \in DOMAIN keys : \A t \in throwing : k < t}}
  IN  [ok |-> throwing = {}, registry |-> [k \in done |-> g] @@ registry]
Activated(g) ==
  LET keys == Contributions(graph[g])
      throwing == {i \in DOMAIN keys : keys[i] \in DOMAIN registry \cup Unregistrable(graph[g])}
  IN  [ok |-> throwing = {},
       registry |-> IF throwing = {} THEN [k \in ToSet(keys) |-> g] @@ registry ELSE registry]

(* A native graph may be activated once: what it compiled goes with it.      *)
Activate(g) ==
  /\ phase[g] = "prepared"
  /\ registry' = Activated(g).registry
  /\ phase' = [phase EXCEPT ![g] = IF Activated(g).ok THEN "active" ELSE "prepared"]
  /\ UNCHANGED <<graph, composition>>
Reactivate(g) ==
  /\ phase[g] = "released"
  /\ LET usable == \/ graph[g].manifest.trust # "L2"
                   \/ \A c \in ToSet(graph[g].archive.descriptor.capabilities) : c.impl = None
     IN  /\ registry' = IF usable THEN Activated(g).registry ELSE registry
         /\ phase' = [phase EXCEPT ![g] = IF usable /\ Activated(g).ok THEN "active" ELSE @]
  /\ UNCHANGED <<graph, composition>>

(* The disposer runs once; a second call does nothing.                      *)
Deactivate(g) ==
  /\ phase[g] = "active"
  /\ registry' = Release(ToSet(Contributions(graph[g])), g)
  /\ phase' = [phase EXCEPT ![g] = "released"]
  /\ UNCHANGED <<graph, composition>>
Discard(g) ==
  /\ phase[g] \in {"prepared", "released"}
  /\ phase' = [phase EXCEPT ![g] = "disposed"]
  /\ UNCHANGED <<registry, graph, composition>>

HostRegisters(k) ==
  /\ k \in HostKeys \ DOMAIN registry
  /\ registry' = (k :> Host) @@ registry
  /\ UNCHANGED <<graph, phase, composition>>
HostDisposes(k) ==
  /\ k \in DOMAIN registry /\ registry[k] = Host
  /\ registry' = Release({k}, Host)
  /\ UNCHANGED <<graph, phase, composition>>

-----------------------------------------------------------------------------
(* What rpComponents knows: the components of active graphs and the bare ones *)
(* that other plugins registered.                                           *)
HostComponent(id) == [id |-> id, version |-> Host, scopes |-> {"turn"}, deps |-> <<>>, requires |-> {}]
Component(id) ==
  LET owner == registry[<<"component", id>>]
  IN  IF owner = Host THEN HostComponent(id)
      ELSE LET c == CHOOSE x \in ToSet(graph[owner].archive.descriptor.components) : x.id = id
           IN  [id |-> id, version |-> graph[owner].manifest.version, scopes |-> c.scopes,
                deps |-> c.deps, requires |-> c.requires]
Components ==
  LET ids == {key[2] : key \in {k \in DOMAIN registry : k[1] = "component"}}
  IN  [id \in ids |-> Component(id)]
ResolveComposition(request) == C!Resolve(Components, request)
Compose(request) ==
  /\ request \in Requests
  /\ composition' = ResolveComposition(request)
  /\ UNCHANGED <<registry, graph, phase>>

Next ==
  \/ \E g \in Graphs :
       \/ \E a \in Archives : Prepare(g, a)
       \/ \E b \in Authored : Build(g, b)
       \/ Activate(g) \/ Reactivate(g) \/ Deactivate(g) \/ Discard(g)
  \/ \E k \in HostKeys : HostRegisters(k) \/ HostDisposes(k)
  \/ \E r \in Requests : Compose(r)

Spec == Init /\ [][Next]_graphVars

-----------------------------------------------------------------------------
(* The registries hold what active graphs and other plugins registered, all  *)
(* of it and nothing else: an activation that throws in the middle and a    *)
(* disposer leave nothing behind and take nothing away from others.        *)
RegistriesAreActiveGraphs ==
  /\ phase \in [Graphs -> {"none", "prepared", "active", "released", "disposed"}]
  /\ \A g \in Graphs :
       {k \in DOMAIN registry : registry[k] = g} =
         IF phase[g] = "active" THEN ToSet(Contributions(graph[g])) ELSE {}

(* What a registered Pipeline looks like to the Pipeline runtime.           *)
Definition(p) ==
  LET stage(id) == p.stages[CHOOSE i \in DOMAIN p.stages : p.stages[i].id = id]
  IN  [stages |-> StageIds(p),
       after |-> [id \in StageIds(p) |-> stage(id).after],
       before |-> [id \in StageIds(p) |-> stage(id).before],
       invokes |-> [id \in StageIds(p) |-> IF stage(id).op.kind = "invoke-pipeline" THEN stage(id).op.target ELSE None]]

(* Whatever is active was warranted: its payload was verified (and signed    *)
(* when native), its Pipelines compile in the Pipeline runtime, and nothing *)
(* in it, no stage of a Pipeline included, asks for a permission or a trust *)
(* that its manifest does not state.                                       *)
ActiveIsWarranted ==
  \A g \in Graphs : phase[g] = "active" =>
    LET m == graph[g].manifest
        d == graph[g].archive.descriptor
    IN  /\ graph[g].entry.verified /\ (m.trust = "L2" => graph[g].entry.key)
        /\ \A c \in ToSet(d.capabilities) : c.permissions \subseteq m.permissions
        /\ \A p \in ToSet(d.pipelines) :
             /\ G!Compiles(Definition(p))
             /\ \A s \in ToSet(p.stages) :
                  s.op.kind = "invoke-capability" =>
                    /\ s.op.permissions \subseteq m.permissions
                    /\ s.op.trust # None => TrustRank(s.op.trust) <= TrustRank(m.trust)

(* A composition holds what its components require, each before the one      *)
(* that requires it, all of them in the scope and within the grants asked   *)
(* for: resolution never returns half a composition.                       *)
CompositionIsClosed == C!Closed(composition)

(* What the SDK builds, the Host prepares: author and Host judge descriptor, *)
(* declarations, permissions and evidence alike, but for the compilation of *)
(* native sources.                                                          *)
BuiltIsAccepted ==
  \A b \in Authored : BuildRefusal(b) = "none" => PrepareRefusal(Built(b)) \in {"none", "SOURCE"}
=============================================================================
