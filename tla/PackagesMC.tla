----------------------------- MODULE PackagesMC -----------------------------
(***************************************************************************)
(* How packages come to run, for TLC: the registry of a Host with its      *)
(* installations, the reference registry server, the sources from which a  *)
(* package is acquired, and the runtime that package lifecycles activate.  *)
(* What they hand to each other is an input of the next one, so a behaviour *)
(* is one of one of them, its focus; Foci names those that a run looks at. *)
(***************************************************************************)
EXTENDS PackageRegistry, PackagesProofs

CONSTANTS
  Foci,
  app, lib, app1, app2, lib1, lib2, k1,
  Unsafe, g1, g2,
  c1, c2, p1,
  h1, h2, v1, v2, mirror

VARIABLES
  focus,
  registry, graph, phase, composition

serverVars == <<index, dirs, lock, req, mishaps>>
runtimeVars == <<registry, graph, phase, composition>>
sourceVars == <<place, acq, files, temps, writer, stored, admitted, count>>

-----------------------------------------------------------------------------
(* The registry: an application that needs a library, or only wants it, and *)
(* a library that comes as a release and as the pre-release of the next.    *)
AnyVersion == [op |-> "any", base |-> Release(0, 0, 0)]
Caret(v) == [op |-> "caret", base |-> v]
Needs(id, range) == [id |-> id, range |-> range, optional |-> FALSE]
Wants(id, range) == [id |-> id, range |-> range, optional |-> TRUE]

Releases == {app1, app2, lib1, lib2}
MCHashes == Releases
Table ==
     app1 :> [id |-> app, version |-> Release(1, 0, 0), source |-> app, trust |-> "L1",
              deps |-> <<Needs(lib, Caret(Release(1, 0, 0)))>>,
              sha |-> TRUE, key |-> None, sbom |-> FALSE, runtime |-> TRUE,
              claims |-> {app}, rank |-> 1]
  @@ app2 :> [id |-> app, version |-> Release(1, 1, 0), source |-> app, trust |-> "L1",
              deps |-> <<Wants(lib, AnyVersion)>>,
              sha |-> FALSE, key |-> k1, sbom |-> FALSE, runtime |-> TRUE,
              claims |-> {app, "panel"}, rank |-> 1]
  @@ lib1 :> [id |-> lib, version |-> Release(1, 0, 0), source |-> lib, trust |-> "L0",
              deps |-> <<>>, sha |-> FALSE, key |-> None, sbom |-> FALSE,
              runtime |-> TRUE, claims |-> {lib}, rank |-> 2]
  @@ lib2 :> [id |-> lib, source |-> lib, trust |-> "L0",
              version |-> [core |-> <<2, 0, 0>>, pre |-> <<[numeric |-> FALSE, rank |-> 1]>>],
              deps |-> <<>>, sha |-> FALSE, key |-> None, sbom |-> FALSE,
              runtime |-> TRUE, claims |-> {lib, "panel"}, rank |-> 2]
MCManifest == Table
MCPolicies == {[appliesTo |-> {"L1", "L2"}, requires |-> {"payload"}]}
MCRevocable == {[id |-> lib, version |-> Release(1, 0, 0)]}
MCServices == {"provider", "cache", "L0", "L1"}
MCDeliveries == {[payload |-> "good", sbom |-> "absent"], [payload |-> "absent", sbom |-> "absent"]}

(* Installations, ownership, the runtime and the durable store agree, and    *)
(* no call activates a package that was revoked when it was made.  (registry *)
(* and registry-durable)                                                     *)
PackagesAreSound == focus = "registry" => Consistent /\ RevokedStaysOut

-----------------------------------------------------------------------------
(* The server: two publishers of one release, of which one differs, a        *)
(* pre-release of it, and a revocation with two reasons.                     *)
Stable == Release(1, 0, 0)
Coming == [core |-> <<1, 0, 0>>, pre |-> <<[numeric |-> TRUE, rank |-> 1]>>]
Published(version, bytes, key) ==
  [release |-> <<p1, version>>, content |-> bytes, valid |-> TRUE, hashes |-> TRUE,
   trust |-> IF key = Nil THEN "L0" ELSE "L2", key |-> key, signed |-> key # Nil, archive |-> TRUE]
OnOffer ==
  {Published(Stable, 1, Nil), Published(Stable, 2, k1), Published(Coming, 1, k1),
   [Published(Stable, 3, Nil) EXCEPT !.trust = "L2"]}
TargetsOnOffer == {[id |-> p1, version |-> Stable]}
VersionsOnOffer == {Stable, Coming}

-----------------------------------------------------------------------------
(* Lifecycles: an application with a tool, a Pipeline and a panel, the       *)
(* library whose component it depends on in two versions, a native package, *)
(* and archives each with one thing wrong.                                   *)
Plain(name) == <<FALSE, name>>
Code == Plain("code")
Page == Plain("panel.html")
Descriptor == Plain("rp.runtime.json")
File(path, size) == [path |-> path, type |-> "file", declared |-> size, size |-> size]
Operation(kind, target, permissions, trust) ==
  [kind |-> kind, target |-> target, permissions |-> permissions, trust |-> trust]
Stage(id, does, after, before) == [id |-> id, shape |-> TRUE, op |-> does, after |-> after, before |-> before]
ComponentOf(id, deps) == [id |-> id, shape |-> TRUE, scopes |-> {"turn"}, deps |-> deps, requires |-> {}]
DependsOn(id, version, optional) == [id |-> id, version |-> version, optional |-> optional]
CapabilityOf(id, kind, permissions, impl) ==
  [id |-> id, shape |-> TRUE, kind |-> kind, scopes |-> {"turn"}, permissions |-> permissions, impl |-> impl]
Panel ==
  [id |-> "panel", shape |-> TRUE, script |-> "none", entry |-> Page, assets |-> {Page}, title |-> "fit",
   documents |-> (Page :> [forbidden |-> FALSE, refs |-> <<[kind |-> "path", path |-> Page, navigates |-> TRUE]>>])]
Flow ==
  [id |-> "flow", shape |-> TRUE, stages |->
     <<Stage("a", Operation("invoke-capability", "tool", {"net"}, "L0"), {}, {"b"}),
       Stage("b", Operation("invoke-pipeline", "other", {}, None), {}, {})>>]
App ==
  [manifest |-> [id |-> "app", version |-> "1", trust |-> "L1", permissions |-> {"net", "script.execute"},
                 components |-> {"app"}, capabilities |-> {"tool", "flow"}, slots |-> {"panel"},
                 assets |-> {Page}, runtime |-> TRUE, sha |-> TRUE, key |-> FALSE, sbom |-> FALSE],
   payload |-> TRUE, sbom |-> FALSE, compiles |-> TRUE,
   entry |-> [sha |-> TRUE, verified |-> TRUE, key |-> FALSE, sbom |-> FALSE],
   archive |->
     [entries |-> <<File(Descriptor, 1), File(Code, 1), File(Page, 1)>>,
      descriptor |->
        [shape |-> TRUE,
         components |-> <<ComponentOf("app", <<DependsOn("lib", "1", FALSE), DependsOn("extra", None, TRUE)>>)>>,
         capabilities |-> <<CapabilityOf("tool", "tool", {"script.execute"}, [kind |-> "quickjs", path |-> Code]),
                            CapabilityOf("flow", "pipeline", {"net"}, None)>>,
         pipelines |-> <<Flow>>, slots |-> <<Panel>>]]]
Lib(version) ==
  [App EXCEPT
     !.manifest.id = "lib", !.manifest.version = version, !.manifest.trust = "L0",
     !.manifest.permissions = {}, !.manifest.components = {"lib", "peer"},
     !.manifest.capabilities = {}, !.manifest.slots = {}, !.manifest.assets = {},
     !.archive.entries = <<File(<<TRUE, "rp.runtime.json">>, 1)>>,
     !.archive.descriptor =
        [shape |-> TRUE, capabilities |-> <<>>, pipelines |-> <<>>, slots |-> <<>>,
         components |-> <<ComponentOf("lib", <<>>), ComponentOf("peer", <<DependsOn("lib", version, FALSE)>>)>>]]
Native ==
  [App EXCEPT
     !.manifest.id = "native", !.manifest.trust = "L2", !.manifest.permissions = {"native.execute"},
     !.manifest.components = {}, !.manifest.capabilities = {"tool"}, !.manifest.slots = {},
     !.manifest.key = TRUE, !.manifest.sbom = TRUE, !.sbom = TRUE, !.entry.key = TRUE, !.entry.sbom = TRUE,
     !.archive.descriptor.components = <<>>, !.archive.descriptor.pipelines = <<>>, !.archive.descriptor.slots = <<>>,
     !.archive.descriptor.capabilities = <<CapabilityOf("tool", "tool", {"native.execute"}, [kind |-> "native", path |-> Code])>>]
Broken ==
  {[App EXCEPT !.entry.verified = FALSE], [Native EXCEPT !.entry.key = FALSE], [Native EXCEPT !.compiles = FALSE],
   [App EXCEPT !.archive.entries = Append(@, File(Code, 1))],
   [App EXCEPT !.archive.entries = Append(@, File(Plain(Unsafe), 1))],
   [App EXCEPT !.archive.entries = Append(@, File(Plain("big"), 3))],
   [App EXCEPT !.archive.entries = @ \o <<File(Plain("x"), 2), File(Plain("y"), 2)>>],
   [App EXCEPT !.archive.entries = SubSeq(@, 2, 3)], [App EXCEPT !.archive.entries = SubSeq(@, 1, 2)],
   [App EXCEPT !.archive.descriptor.capabilities[1].impl.kind = "native"],
   [App EXCEPT !.archive.descriptor.capabilities[1].permissions = {}],
   [App EXCEPT !.archive.descriptor.capabilities[2].permissions = {"file"}],
   [App EXCEPT !.archive.descriptor.pipelines[1].stages[1].op.permissions = {"net", "file"}],
   [App EXCEPT !.archive.descriptor.pipelines[1].stages[1].op.trust = "L2"],
   [App EXCEPT !.archive.descriptor.pipelines[1].stages[2].op.target = "flow"],
   [App EXCEPT !.archive.descriptor.pipelines[1].stages[2].before = {"a"}],
   [App EXCEPT !.archive.descriptor.pipelines[1].stages[1].after = {"z"}],
   [App EXCEPT !.archive.descriptor.pipelines = <<>>],
   [App EXCEPT !.archive.descriptor.slots[1].script = "sandbox"],
   [App EXCEPT !.archive.descriptor.slots[1].documents[Page].forbidden = TRUE],
   [App EXCEPT !.archive.descriptor.slots[1].documents[Page].refs[1].path = Code],
   [App EXCEPT !.archive.descriptor.components[1].scopes = {}],
   [App EXCEPT !.manifest.components = {"app", "peer"}]}
Untitled == [App EXCEPT !.archive.descriptor.slots[1].title = "unfit"]
HandedOver == {App, Lib("1"), Lib("2"), Native, Untitled} \cup Broken
Author(package, bundled, signing) == [package |-> package, files |-> bundled, size |-> 1, signing |-> signing]
Sized(path, size) == [path |-> path, size |-> size]
Works ==
  {Author(App, <<Sized(Code, 1), Sized(Page, 2)>>, FALSE), Author(App, <<Sized(Code, 1), Sized(Code, 1)>>, FALSE),
   Author(App, <<Sized(Code, 1), Sized(Page, 3)>>, FALSE), Author(App, <<Sized(Code, 1), Sized(Plain(Unsafe), 1)>>, TRUE),
   Author(Native, <<Sized(Code, 1), Sized(Page, 1)>>, TRUE), Author(Native, <<Sized(Code, 1), Sized(Page, 1)>>, FALSE),
   Author([App EXCEPT !.archive.descriptor.capabilities[1].permissions = {}], <<Sized(Code, 1), Sized(Page, 1)>>, TRUE)}
Sizes == [maxFiles |-> 4, maxFileBytes |-> 2, maxUnpackedBytes |-> 5]
TakenIds == {<<"capability", "flow">>, <<"component", "lib">>, <<"component", "extra">>}
Compositions ==
  {[components |-> <<"peer", "app">>, scope |-> "turn", granted |-> {}],
   [components |-> <<"app">>, scope |-> "turn", granted |-> {}],
   [components |-> <<"peer">>, scope |-> "scene", granted |-> {}]}
Runtime ==
  INSTANCE RuntimeGraph WITH
    Html <- {"panel.html"}, Graphs <- {g1, g2}, Archives <- HandedOver, Authored <- Works, Limits <- Sizes,
    HostKeys <- TakenIds, Requests <- Compositions

WorksAreAccepted == Runtime!BuiltIsAccepted

(* The registries of the runtime hold what active graphs and other plugins   *)
(* registered and nothing else; what is active was verified and asks for     *)
(* nothing that its manifest does not state, and its Pipelines compile in    *)
(* the Pipeline runtime; a composition holds what its components require, in *)
(* order; and what the SDK builds, the Host prepares.  (lifecycle packages,  *)
(* package-runtime, component-runtime, sdk)                                  *)
RuntimeIsSound ==
  focus = "runtime" =>
    /\ Runtime!RegistriesAreActiveGraphs /\ Runtime!ActiveIsWarranted
    /\ Runtime!CompositionIsClosed /\ WorksAreAccepted

-----------------------------------------------------------------------------
(* Sources: two Hosts, and two versions of which one is too large for the    *)
(* cache.                                                                    *)
SourceOf(name, kind, ref, inline) == [name |-> name, kind |-> kind, ref |-> ref, inline |-> inline]
Sourced ==
  {SourceOf("a", "local", "none", FALSE), SourceOf("b", "npm", "exact", FALSE),
   SourceOf("c", "registry", "none", TRUE), SourceOf("d", "bare", "none", FALSE)}
SourcesAllowed == [k \in {"local", "git", "npm", "registry"} |-> {mirror}]
SourcesDeclare == [v \in {v1, v2} |-> IF v = v1 THEN {"payload", "sbom"} ELSE {"payload"}]
SizeOf == [v \in {v1, v2} |-> IF v = v1 THEN 1 ELSE 3]

-----------------------------------------------------------------------------
(* These constants are such as the theorems of PackagesProofs are about.     *)
ASSUME PackagesAssumption == ServerAssumption /\ SourcesAssumption

FocusInit ==
  /\ focus \in Foci
  /\ Init /\ Server!Init /\ Runtime!Init /\ Acquisition!Init
FocusNext ==
  /\ UNCHANGED focus
  /\ \/ focus = "registry" /\ Next /\ used'.faults + used'.changes <= 2 /\ UNCHANGED <<serverVars, runtimeVars, sourceVars>>
     \/ focus = "server" /\ Server!Next /\ UNCHANGED <<vars, runtimeVars, sourceVars>>
     \/ focus = "runtime" /\ Runtime!Next /\ UNCHANGED <<vars, serverVars, sourceVars>>
     \/ focus = "sources" /\ Acquisition!Next /\ UNCHANGED <<vars, serverVars, runtimeVars>>
FocusSpec == FocusInit /\ [][FocusNext]_<<focus, vars, serverVars, runtimeVars, sourceVars>>
=============================================================================
