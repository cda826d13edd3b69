# A TLA+ model of the RP distribution

This directory holds TLA+ modules that model `dsh-rp-distribution`, TLC
configurations that check them on small instances, and proofs that TLAPS checks
for every instance. The repository is a set of plugins for a host (the
DeepSeek Harness) that run role-play *turns*: a user's input goes through a
graph of stages (a *Pipeline*), and what comes out is published as one event of
the Session's log. Everything else the system shows is a fold of that log.

Paths below are relative to `src/packages/rp/`. `PROJECT.json` maps every
definition to the lines it stands for.

1. [The system](#1-the-system) - components, state, interactions, what is hard
2. [The modules](#2-the-modules) - which module stands for which code
3. [The runs](#3-the-runs) - what is checked, on which instances, what it shows
4. [Fairness](#4-fairness)
5. [The proofs](#5-the-proofs)
6. [Disagreements between code and documents](#6-disagreements-between-code-and-documents)
7. [What is not modelled](#7-what-is-not-modelled)
8. [Plan](#8-plan)

## 1. The system

### Components

A turn and what publishes it:

| component | state it keeps | operations | correct when |
|---|---|---|---|
| `journal` | none; it appends to the Session's log | append, commitTurn, abortTurn | a required fact is one event, or an exception |
| `turn-runtime` | `states` (turn id to phase), `plans` (turn id to frozen plan) | prepare, execute, validate, commit, abort, run | a turn has at most one terminal event; a commit publishes all of a turn's effects at once, and they fit the snapshot that the turn was shown |
| `projection` | none; two folds of the log | projectRpSession (strict, whole Session), projectRpScope (one scope's domain) | every log that the services write can be folded |
| `pipeline-runtime` | `definitions` (id to compiled graph) | register and its disposer, capture, run, runPlan | stages start after what they wait for; a run ends once; a captured plan stays executable; the journal can be replayed |
| `web/src/turn-api.ts` | none of its own; the Session's log and the Agent's maintenance phase | executeRpTurn | a request id stands for one turn; an acknowledged turn is durable |
| `web/src/client/turn-controller.ts` | per Session: retry lock, draft, the request in flight | submit, cancel, loadTimeline, prune, dispose | a message is said once; what is shown as delivered was said |
| `outbox` | entries by idempotency key (status, attempts, result), handlers, in memory | register, enqueue, dispatch, drain, saga with compensation | an intent is never executed twice at once nor after it settled, at most `maxAttempts` times; a saga that fails compensates what it completed |

What a turn calls:

| component | state it keeps | operations | correct when |
|---|---|---|---|
| `capability-catalog`, `policy`, `tool-capability` | registered capabilities, authorizers and ceilings | register, authorize, invoke; intersection of authority layers | authority only narrows along a chain of calls |
| `agent-runtime`, `agent-provider-harness` | registered roles and providers; child Agents | register, invoke | a child that started is told of from its start to one end |
| `sidecar-jobs` | published capabilities, active Jobs | start, execute, cancelAndDrain | nothing outlives its plugin; a stage gets no more than its Job was given |
| `workflow-router`, `workflow-backends-local`, `-sandbox`, `lifecycle-l1`, `-l2` | registered backends; per run a timer and an abort signal | register, start, cancel | a run settles once, with the outcome that happened; code runs only where its trust allows |
| `experience-registry`, `first-party` | registered Experiences and what they consist of | register, select, run | whatever is selected is complete |
| `harness-bridge` | five mirrors of Harness registries | start, synchronise, invoke, dispose | the catalog offers what the Harness has |

What a turn reads:

| component | state it keeps | operations | correct when |
|---|---|---|---|
| `branches`, `state`, `relationship`, `scene` | revisioned documents and graphs by scope | edits against an expected revision, release | no update is lost; parents and the active branch stay in their graph |
| `memory-basic`, `memory-durable`, `memory-vector` | live facts by scope, a table, a chain of jobs, retrievers | append, hydrate, search, release | an accepted fact is durable, and found |
| `library`, `preset` | one durable document each, a chain of jobs | save, remove, activate, capture | what is shown is what is stored; what is selected exists |
| `character`, `persona`, `lore`, `rules`, `prompt` | tables by scope | register and its disposer, project, match, compose, roll | what plugins registered and did not take back is composed within its bounds |
| `media`, `media-input-attachment` | adapters and providers | register, ingest, generate | a batch is answered whole, by adapters that may |
| `product` | one JSON document and its file, a chain of mutations with effects on Sessions | upsert, remove, bind, fork, speak, commit, import, audit | document, file and Session log agree |
| `web` resources | the rail's and the Creator's view of the Host's catalogs | load, bind, save, import, edit | what is shown as ready is what the Host has |

What gets a package to run:

| component | state it keeps | operations | correct when |
|---|---|---|---|
| `registry`, `registry-durable` | releases, revocations, policies; installations, active packages and their owners; the installation store | publish, revoke, install, update, uninstall, restore | a failed mutation leaves what it found; a revoked package is not activated; restart restores what was acknowledged |
| `registry-server` | directories of releases, an index, a file lock | publish, revoke, get, list, rotate keys | what the index lists is whole, for ever |
| `registry-sources`, `registry-artifacts-local` | a shared cache | resolve, acquire, put, get | what is acquired is one version |
| `package-runtime`, `lifecycle-common`, `-l0`, `-l1`, `-l2`, `component-runtime`, `ui-slot-runtime`, `sdk` | prepared graphs, four registries | build, prepare, activate, dispose, resolve | the registries hold what active graphs registered; a graph asks for no more than its manifest says |

The rest: `contracts` (types and validators), `distribution*` (composition of
plugins by configuration), `compat-*` (parsers and an interpreter), `cli`, `eval`.
`PROJECT.json` lists each of them with its status.

### How a turn goes through them

    browser                 turn-api              turn-runtime        pipeline-runtime
    turn-controller          executeRpTurn         run()               runPlan()
       | POST requestId+draft   |                     |                    |
       |----------------------->| look the id up in the log                |
       |                        | take the Agent's maintenance phase       |
       |                        | ingest media        |                    |
       |                        |-------------------->| prepare: context   |
       |                        |                     |------------------->| started
       |                        |                     |   (await)          | stages, level by level
       |                        |                     |<-------------------| completed / failed
       |                        |                     | validate, commit (or abort)
       |                        |<--------------------|                    |
       |                        | six Chat events                          |
       |                        | flush, and await it                      |
       |<-----------------------| response            |                    |

All of the Host is one JavaScript process. Code between two `await`s runs to
its end, so an action of a model is what happens from one suspension to the
next. Actors interleave at the `await`s: several runs of turns, the stages of a
level, nested Pipelines, timers, the caller's cancellation, the persistence of
the log, requests of several clients, the browser.

The one shared, durable thing is the Session's log, which only grows. Services
keep maps in memory beside it. The journal's append may throw (the Session
rejects an event, or is closed), and the code has a path for most of those
throws.

### What is hard here

- **A phase read before an `await`.** `execute()` checks `prepared`, awaits the
  Pipeline, and sets `executed`. Who touches the map in between?
- **A snapshot validated late.** Effects are held against the log as `prepare()`
  saw it, and other turns may have committed since.
- **Two folds of one log.** What `validate` accepts must be foldable for ever: a
  scope that cannot be projected refuses every later turn.
- **Concurrency in a level.** `Promise.all` rejects with the first stage that
  throws. The others go on, and so does an operation whose timer has fired.
- **Failing while failing.** The append of the abort throws, the observer throws
  when it is told of the end.
- **Uncertain delivery.** A broken connection says nothing about the turn. A
  retry may meet the first request still in progress, committed, aborted, or
  lost in a crash.
- **Crash between commit, Chat projection, flush and response.**
- **Mutations made of many awaits.** An update of a package deactivates the old
  graph, activates the new one and persists. Anything may fail between, and
  releases, revocations and adapters change meanwhile.
- **Writers that share files.** Registry servers share an index, Hosts share a
  cache, and each may crash with the lock in hand.
- **Put, then publish.** Catalogs, the memory table and the product's document
  are written before they are shown, and the process may stop in between. The
  product then has an effect on a Session, and writes back when it fails.
- **Registries under running work.** A backend, provider, authorizer or Pipeline
  is disposed of while a run holds it.
- **An answer that comes late.** A timer and an answer race; a Job starts while
  its plugin drains; a page shows the answer to a question it has given up.

`PROJECT.json` lists these and others under `hazards`, at the line where each
one bites, with the properties about it.

## 2. The modules

| module | code | kind |
|---|---|---|
| `SessionProjection` | `projection/src/index.ts` | pure: the two folds, with lemmas about the strict one |
| `TurnRuntime` | `turn-runtime/src/index.ts`, the public operations | state machine over `SessionProjection` |
| `TurnRun` | the same, through `run()` | composes `TurnRuntime`'s actions |
| `TurnTransaction` | what `turn-runtime` promises | abstract specification |
| `TurnRunMC` | - | the effects used by TLC, where one service is run alone |
| `TurnRunProofs` | - | theorems about `TurnRun` and `TurnRuntime` |
| `PipelineGraph` | `compile`, `captureNested` of `pipeline-runtime/src/index.ts` | pure |
| `PipelineRegistry` | `register`, the disposer, `capture` | state machine |
| `PipelineRun` | `runPlan`, `executeStage`, `runStage`, and the observer of `turn-runtime` | state machine |
| `PipelineRunMC` | - | graphs used by TLC |
| `PipelineRunProofs` | - | theorems about `PipelineRun` |
| `TurnApi` | `web/src/turn-api.ts` and the `/turn` route | state machine with crashes |
| `RequestRegister` | what a request id promises | abstract specification |
| `TurnDelivery` | `web/src/client/turn-controller.ts` | composes `TurnApi` with a browser and a network |
| `TurnDeliveryProofs` | - | theorems |
| `Outbox` | `outbox/src/index.ts` | state machine |
| `JournalsMC` | - | the turns and the outbox for TLC: effects and sagas |
| `OutboxProofs` | - | theorems |
| `PackageRegistry` | `registry/src/index.ts` (mutations, catalog), `registry-durable` | state machine over `PackageLock` |
| `PackageLock`, `SemVer` | `registry/src/index.ts` (lock, evidence, versions, ranges) | pure |
| `RegistryServer` | `registry-server/src` | state machine with crashes |
| `PackageSources` | `registry-sources`, `registry-artifacts-local` | state machine with crashes |
| `RuntimeArchive` | `package-runtime/src` | pure: what is accepted |
| `ComponentRegistry` | `component-runtime/src` | pure: the walk |
| `RuntimeGraph` | `lifecycle-common`, `-l0`, `-l1`, `-l2`, `ui-slot-runtime`, `sdk` | state machine over `RuntimeArchive`, `PipelineGraph`, `ComponentRegistry` |
| `PackagesMC` | - | packages, publications, archives for TLC |
| `PackagesProofs` | - | theorems about `RegistryServer` and `PackageSources` |
| `AssetCatalog` | `library`, `preset` | state machine with restarts |
| `MemoryStore` | `memory-basic`, `memory-durable`, `memory-vector` | state machine with restarts |
| `ScopeStores` | `branches`, `state`, `scene`, `relationship` | state machine |
| `SceneContent` | `prompt`, `lore`, `character`, `persona`, `rules` | state machine |
| `MediaIntake` | `media`, `media-input-attachment` | state machine |
| `ProductModel` | `product/src/model.ts` | pure: document to document |
| `ProductStore` | `product/src/store.ts`, `index.ts`, `agent.ts` | state machine over `ProductModel`, with crashes |
| `WebResources` | `web/src/index.ts`, `web/src/client/resource-controller.ts`, `client/index.tsx` | Host, rail and Creator |
| `ContentMC` | - | instances of the eight above for TLC |
| `ContentProofs` | - | theorems about `MemoryStore`, `SceneContent`, `AssetCatalog`, `MediaIntake` and `WebResources` |
| `Authority` | `capability-catalog`, `policy`, `tool-capability` | state machine |
| `FirstParty` | `first-party`, `experience-registry` | state machine over `ComponentRegistry` |
| `AgentRuns` | `agent-runtime`, `agent-provider-harness` | state machine over `SessionProjection` |
| `SidecarJobs` | `sidecar-jobs`, `executeStage` of `pipeline-runtime` | state machine over `SessionProjection` |
| `WorkflowRouter` | `workflow-router`, `workflow-backends-*`, calls of `lifecycle-l1`, `-l2` | state machine over a pure parser of bytes (`validateWasmLayout`) |
| `HarnessBridge` | `harness-bridge`, the capabilities of `first-party` | state machine |
| `ExecutionProofs` | - | theorems about `Authority`, `HarnessBridge`, `SidecarJobs`, `AgentRuns` and `PipelineRegistry` |
| `ExecutionMC` | - | instances of the above for TLC, and of `TurnRun`, `TurnRuntime`, `PipelineRegistry` |

**The log** is a sequence of records in every module. An event keeps its type
(without the prefix `rp/`), its turn, and what the folds or the properties look
at.

**SessionProjection.** `ProjectSession(events)` and `ProjectScope(events, scope)`
are folds whose value carries a field `ok`: FALSE where the code throws. Maps
(JavaScript `Map`s) are functions with a growing domain.

**TurnRuntime.** `states`, `plans`, `log` are the code's. `drafts` is what
`prepare()` returned (its scope, and the length of the log that it read: the
snapshot is recomputed from that prefix). `calls` holds the activations of
`execute()`/`run()` and where each one is suspended: at the Pipeline, after it,
with an outcome, in the catch clause, settled. `Prepare`, `ExecuteStart`,
`PipelineCompletes`/`PipelineFails`, `ExecuteReturns`/`ExecuteRejects`,
`Commit`, `Abort` are the operations, split at the `await`. `Spec` lets anybody
call anything with a draft or an outcome that they hold, as the service is
public. `PrepareTorn` is a `prepare()` one of whose appends throws. A fresh
UUID is "a turn id whose phase is still none".

**TurnRun.** The same service when its only callers are activations of `run()`.
`run()` does `prepare()` and the first part of `execute()` in one step, and has
a catch clause whose abort may throw as well. `MaxActive` bounds the concurrent
activations: 1 is the web's use of it (the Agent's maintenance phase serializes
turns), 2 is a host that calls `run()` directly. A Pipeline that fails may do so
with an observer that throws, and then nothing is journaled of its end
(`PipelineFailsUnseen`).

**PipelineGraph, PipelineRegistry, PipelineRun.** Levels are computed as the
loop of `compile()` does. A run's record holds its level, the place of each
stage, the number of attempts, and the frame keys written so far. A nested run
is named by the stage and attempt that called it; starting a level starts the
first level of those Pipelines in the same step, because nothing is awaited in
between. The code begins the stages of a level by their ids, which the model
lets be any order. Authority, budgets and the content of stages appear as choices: a
nested run may be refused, an operation may succeed, fail, or never settle. The
observer may throw when it is told of the start (`StartThrows`), of the end, and
again of the failure that the first throw makes of the end (`Complete`).

**TurnApi.** A call of `executeRpTurn` walks through the places of
`executeWithHost`: look-up, maintenance phase, ingestion, the turn (open, then
committed or aborted), Chat projection, barrier, response. The persistence of
the Session is external: `durable` is how much of the log is on disk, `Persist`
advances it, `Crash` cuts the log to it and loses every call. The Agent's own
work competes for the phase (`AgentWorks`). A payload's fingerprint is the
payload.

**TurnDelivery.** One browser Session, with `submit()`, `cancel()` and the
retry lock. A message is one thing the user wants said: after a failure it is
back in the composer, and may be sent again or replaced. Connections break
before or after the request arrives, an answer may be unreadable
(`AnswerIsUnreadable`: `response.json()` throws, and the page reads the status
alone), and other clients may post (ids of the browser's in `Reused`, payloads
of their own in `Foreign`).

**Outbox.** `entries`, `handlers` are the maps of `RpOutbox`. A task is one
activation of `saga()`, `drain()` or `dispatch()`, suspended where it awaits a
handler, or the return of the `dispatch()` it called: another task may run
between an entry's update and the continuation of the saga that waits for it.
`carried` counts the effects carried out, which the code cannot see. Whether
an attempt fails or succeeds is a choice; an aborted signal fails it before
the handler is called. Entries are immutable objects that `update()` replaces
after comparing identities, for which equality of records stands. `drain()`
takes the pending entries in any order: it sorts them by their creation times,
which callers give to `enqueue()` as they like. A saga's compensations are
recorded as positions of its completed steps. `saga()` takes a dispatch for a
success if its status is `completed` and its result is not `undefined`; the type
of `execute()` promises a JSON value, so that the second half only narrows an
optional field, and the model has the first.

**PackageRegistry.** `releases`, `revocations`, `policies`, the services that
plugins register, `installations`, `active` (package and its owners) and
`durable`. `op` is the mutation under way: the code serializes them, and a
mutation runs from one `await` to the next, as a phase of `op` with what it has
collected. Sources, adapters and the store may fail; everything that is not a
mutation may happen between two phases; the process may crash, and `restore`
goes through what the store has. The `await`s within one acquisition (lock,
bytes, evidence) are one step: what they read is judged when it ends. `lost` says
that an adapter failed on the way back from a failure; `stranded` names the root
and the packages of an update that failed after its lock was written
(section 6), after which only an end of the process is considered. A hash or
signature is a token that fits or does not.

**RegistryServer.** A request is suspended at each file operation: temporary
directory, rename, index, lock. A crash leaves what is on disk. The index is one
file, replaced by a rename.

**PackageSources.** A provider reads manifest, payload and SBOM one after the
other from a place that is edited meanwhile. The cache's `put` is lock, existence,
temporary file, rename; two Hosts do it at once.

**RuntimeArchive, RuntimeGraph.** An archive is its entries and its descriptor,
and the judgement is the sequence of the code's checks. Activation registers
everything in one synchronous step, or takes all back. `Build` is what the
SDK makes of an author's files.

**AssetCatalog, MemoryStore, ProductStore.** A chain (the code's promise chain)
is a sequence of jobs of which the head is under way, split where it awaits the
table or the file. `Restart`, `Crash` and `Load` are the end of the process and its next start.
`ProductModel` gives for each mutation the next document or the code of its
refusal; `ProductStore` has the effect on the Session and its write-back. An
effect that fails may have appended a part of its events (`EffectFails`).

**ScopeStores.** The stores are synchronous. Callers read a revision, and write
on it later; JSON Patch is applied to trees, whole or not at all.

**SceneContent.** The table of a registry has an identity: a disposer holds the
table it was made with, and a table that became empty is replaced by a new one.

**MediaIntake.** A batch chooses its adapters before its first `await`.

**WebResources.** Requests and answers are messages on `wire`. The rail aborts
the request before when it makes one (the Host may have done it nevertheless),
the Creator does not.

**Authority.** `Invoke` picks the capability and the authorizers in their
order; `Authorize` is one turn of the loop, which has no `await`, and `Start` runs
the adapter, unless the caller's `onAuthorized` throws. An adapter may be
running while its authorizers are disposed of. An answer of another plugin's
authorizer is a choice of the environment: it may ask for more, and the call is
then denied.

**FirstParty.** The bundle's tables are written out as the code has them
(components, roles, Pipelines with their stages' reads and writes, Experiences),
and a selected Experience is run stage by stage over the set of keys.

**AgentRuns, SidecarJobs, HarnessBridge, WorkflowRouter.** Each operation is
split at its `await`s. The journals that the first two write are folded by
`SessionProjection`. What a workflow's executor does (answer, throw, overflow,
hang, die) is a choice; timers and signals are actions. `ValidateWasmLayout` reads bytes
with cursors as the code does, LEB128 numbers included.

Operators named `Slip...` are not part of any specification. Each is a plausible
mistake in the definition that follows it (a guard dropped, a bound off by one,
a step left out), kept so that every property can be seen to fail when the code
is wrong: `mutants` in `PROJECT.json` pairs them with the properties.

## 3. The runs

A passing run named X is `X.cfg`. Sizes are of TLC's complete state space.

| run | specification | instance | states |
|---|---|---|---|
| `journals` | `JournalsMC!FairFocusSpec` | 2 foci. `turns`: 2 overlapping runs, 2 turns, 1 scope, one throwing append. `effects`: 2 sagas of 3 and 2 steps over 3 keys, one of them shared and one reused for other work; a drain or dispatch; 2 handlers, one without a compensator; one disposal | 100 thousand |
| `pipeline_run` | `FairSpec` | 320 graphs of 3 stages and 3 graphs with retries, timers and nesting; two throwing observer calls | 77 thousand |
| `web_delivery` | `FairDeliverySpec` | 2 calls, 2 request ids, 2 messages, 2 mishaps of six kinds | 340 thousand |
| `packages` | `PackagesMC!FocusSpec` | 4 foci: `registry`, `server`, `runtime`, `sources` | 1 million |
| `host_content` | `ContentMC!Spec` | 14 foci: `library`, `presets`, `memory`, `branches`, `documents`, `relations`, `content`, `media`, `talk`, `edit`, `pair`, `page`, `rail`, `creator` | 390 thousand |
| `host_execution` | `ExecutionMC!FocusSpec` | 12 foci: `serial`, `api`, `plans`, `bundle`, `authority`, `agents`, `sidecars`, `deploys`, `workflows`, `backends`, `bridge`, `doors` | 810 thousand |
| `turn_abort_race`, `turn_memory_conflict`, `pipeline_late_stage`, `outbox_saga`, `web_second_turn`, `packages_update` | - | the smallest instances that show a disagreement, section 6 | - |

A *focus* is a subsystem with an instance for it. `journals` and the last three
passing runs ask one question of several subsystems that do not share state: what one hands
to another (an archive, a plan, a grant) is an input of the other, drawn from a
set that the MC module spells out. A behaviour chooses its focus at the start
and is then a behaviour of that subsystem alone; the others stay as they began.
A property that theorems state is defined in the proof module, which the MC
module extends and whose constants its configuration gives; the others say
`focus = ... =>` what they are about. Interleaving two that share nothing would multiply the
states and reach nothing else. Where subsystems do share state, they are
composed: `TurnRun` with `TurnRuntime` and the folds, `TurnDelivery` with
`TurnApi`, `RuntimeGraph` with the Pipeline compiler and component resolution,
`PackageRegistry` with its store.

**journals.** `turns` asks whether concurrent runs stay transactions. `PhaseMatchesLog`
relates the in-memory phase to the log; `AtMostOneTerminal` says that a turn
ends once; `LogIsHistory` that it does end when no append threw, and that the
strict fold takes every prefix ever written, half a preparation included;
`ImplementsTransaction` that it all is `TurnTransaction`; `EveryRunSettles` that
a started run ends; `IInv` is the inductive invariant of section 5. Two runs are
enough for every pairwise interleaving, and properties are about one turn or
about pairs of events. One throwing append can hit the preparation, the commit,
or the abort.

`effects` lets two sagas and a drain race for keys while handlers come
and go. `EntriesAreTrue`: an entry is completed exactly if its effect was
carried out, once; running exactly if one task executes it, and that task finds
the entry unchanged when its handler settles; failed only when its attempts are
used up. `SettledStays`: completed and failed entries are final.
`SagaUndoesInOrder`: a saga that reports `failed` has compensated for its
completed steps, each once, the last one first, but for steps without a
compensator or whose plugin went away; one that reports `completed` has had all
its effects carried out. `TaskEnds`: nobody waits for another task. One key has
two attempts, so that a saga meets a step that is pending after a failure, and
a drain that retries it.

**pipeline_run** checks `compile()` against its definition on every `after`
relation over three stages with a few `before` entries, cyclic and dangling
ones among them, and then runs what compiles (`OrderIsKept`: levels are the
least that the declarations allow, and stages wait for what they must). A run
completes only when whole, ends once, and fails for a reason
(`EndsAreJustified`); it begins nothing after cancellation
(`CancelStartsNothing`), and, with a timer on every stage, ends
(`RunEnds`). `SequentialJournalReplays` puts the observer's output through
`SessionProjection`: a chain of stages, each invoking at most one Pipeline,
always leaves a log that the strict fold accepts. It excludes stages side by
side and repeated nested Pipelines, since both can leave a log that the fold
rejects (section 6). Nesting deeper than two is not instantiated: a nested run
is a run whose caller awaits it, and the caller's view of it is its status.

**web_delivery** runs the browser against the API. `RequestsAreWhole` (a request
id is one turn, its Chat is whole, what was acknowledged is durable) and
`DeliveredIsSaid` are the safety of delivery; `ImplementsRegister` states it as
the register `RequestRegister`, which may lose what it has not acknowledged, and
nothing else. `CallsAndSubmissionsEnd` is its liveness. Two calls allow a retry or
a competing client; two mishaps allow a crash after a broken connection, a fault
in the Chat followed by a replay, and so on. Two messages allow the draft to be
changed, and an id to be reused for another payload.

**packages.**
`registry`: an application that needs a library, or only wants it, each in two
versions; a payload policy; one revocation; adapters that go away; two failures,
crashes or changes of any kind in one behaviour. `PackagesAreSound`: owners are
installations, the runtime runs what is active, the store has what was
acknowledged, and nothing that is revoked when the call begins is activated by
it. `FailsWhole`: a mutation that fails leaves what it found, at whatever `await`
it failed. Two things are excluded, and from the conjuncts of `PackagesAreSound`
as well: everything, when an adapter also fails on the way back; and, when an
update strands its packages (`packages_update`, section 6), the packages of its
two locks and what the store has for its root, nothing else.
`server`: two publishers, a release, its pre-release, a differing copy, two
faults. `ListedIsWhole`: what is listed was verified, is there, and is listed
once; `ListingsAreForEver`: nothing leaves the index.
`runtime`: two graphs; an application with a tool, a Pipeline and a panel; a
library in two versions; a native package; some twenty archives with one thing
wrong each; seven works of an author; three compositions. `RuntimeIsSound`: the
registries hold what active graphs and other plugins registered, what is active
was verified and its Pipelines compile, compositions are closed and ordered,
and what the SDK builds the Host prepares.
`sources`: two Hosts, four places, two versions, three edits, one fault.
`SourcesAreSound`: an acquired package is of one version although its place was
edited while it was read, from an allowed origin, and the cache holds nothing
half written under a name.

**host_content.**
`library`, `presets`: a chain of two jobs, one stop. `CatalogIsSound`: the
document shown is the one stored, selections exist, no capture holds an asset
that is gone, and the catalog's own assertion is never tripped.
`memory`: four calls, one failure of the store. `MemoryIsDurable`: an accepted
fact survives until it is released, and a search that raced with writes, a
release and a restart finds what it owes.
`branches`, `documents`, `relations`: two writers, three revisions.
`StoresAreSound`: the graph of branches stays a tree with an active branch, no
commit replaces a value that its writer had not read in the same life of the
scope.
`content`: four tables of plugins that come and go. `ContentIsSound`: what is
composed is what is registered, in an order that satisfies every constraint
and within its bounds; a dice throw is within its notation.
`media`: batches over two adapters and one failure. `IntakeIsSound`: a batch
is answered with one artifact for each input, by adapters that its authority
covered; no image is saved before every image of its group passed.
`talk`, `edit`, `pair`: one session and its fork; one or two requests, two
failures, one crash. `ProductIsSound`: file and document agree, queued speakers
exist, a ledger follows its session's log, a prompt has its seats, and what is
recommended can be bound.
`page`, `rail`, `creator`: one request each, three of one, three of the other.
`ShownIsTrue`: a rail that is ready shows what the Host has, an import it
reports is saved and bound as a whole, the editor holds a document.

**host_execution.**
`serial`: three runs, one after another, over two scopes, with a document that
is initialized, replaced and patched. `api`: two calls of `execute()` and any
public call at any time, one throwing append. `TurnsAreSound`: serialized turns
lose no update, are committed on the snapshot that they were shown, and poison no
scope; and any commit follows a completed Pipeline and fits its snapshot.
`plans`: three Pipelines with every way to invoke each other, registered and
disposed of. `PlansAreSound`: a captured plan has all it may invoke, and cannot
go on for ever.
`bundle`: every Experience by name, and selections by hints.
`ExperiencesAreClosed`: its components compose, its stages find what they read
and share no key, its roles exist, and a turn ends with effects.
`authority`: two ceilings, three capabilities, four authorizers (one of which
throws and one asks for more), two calls, four changes. `AuthorityNeverWidens`:
what an adapter runs under is within its caller, every ceiling due, and the
capability.
`agents`: two calls, four changes, one failure. `AgentsAreSound`: what the
catalog offers can be routed; a child that started is told of once, with the end
that its caller hears of.
`sidecars` (two Jobs, one edit), `deploys` (one Job, three edits).
`SidecarsAreSound`: what is published is registered, stages stay within the
grant of their Job, outputs are bounded, the journal replays, and an unload that
reports no failure leaves none of the Jobs that it found.
`workflows` (two runs, two changes of the backends), `backends` (one run, four
changes). `WorkflowsAreSound`: nothing
runs above its trust, each outcome is what happened to the run, and a WASM
module is admitted if and only if each of its sections is modest.
`bridge`, `doors` (each capability of the bridge under each authority).
`BridgeIsSound`: the catalog offers what the Harness has, whatever
order its news come in, and there is no way around a permission.

`CHECK_DEADLOCK FALSE` is set where the system may stop: all runs settled, all
turn ids drawn, all calls answered, or the bounded changes used up.

Bounds, all of them: `MaxFaults`, `MaxMediaFaults`, `MaxFailures`,
`MaxServerFaults`, `MaxMishaps` (operations that throw, crashes, broken connections,
cancellations), `MaxCrashes` and `MaxStops` (ends of the process), `MaxChanges`,
`MaxEdits`, `MaxDisposals`, `MaxContests` (registrations and edits from
outside), `MaxActive`, `MaxRuns`, `MaxJobs`, `MaxBegun`, `MaxRequests`, `MaxTurns`,
`MaxOps`, `MaxCreatorOps` (activations), `MaxQueue` (a chain), `MaxLog`,
`MaxRevision`, `MaxVersion`, `MaxTables` (what a behaviour makes), `Abortable`
and `Intents` (tasks with a signal; what others enqueue), and the sizes of the
sets of turns, calls, requests and messages. Two actors and one or two mishaps
are enough for every pair of steps that the code does not order, and the
properties relate two actors, two documents, or a state to one that it came
from. In `packages`, failures and changes are at most two together.

## 4. Fairness

`journals` has the fairness of `FairRunSpec` and of `FairOutboxSpec`.

- `FairRunSpec`: weak fairness of each run's continuation. A suspended run
  resumes, since the event loop runs every settled promise, and its Pipeline
  settles. The latter is an assumption about stages, discharged by
  `pipeline_run` where they have timers. That a run starts is not assumed.
- `PipelineRun!FairSpec`: `register()` and `runPlan()` are called; timers fire;
  a level whose stages have settled is processed. **Nothing** is assumed of
  operations: they may hang for ever, which is why `RunEnds` is about graphs
  whose stages all have a timer.
- `FairOutboxSpec`: handlers settle, and the tasks that await them go on. The
  code has no timer here; a handler that hangs holds its task for ever.
- `FairDeliverySpec`: calls that arrived proceed (their awaits are bounded or
  belong to the turn); persistence advances while somebody waits for a flush;
  the browser hears of the end of its call, one way or the other. Nothing makes
  the Agent release its own work, the user cancel, or another client post, and
  a submission still ends, since a held phase is answered BUSY and never waited for.

The other specifications state no fairness and no liveness. Their operations end
when what they await ends (a file system, an adapter, a native function without
a timer), and nothing in the code bounds that.

## 5. The proofs

Theorems state the very properties that runs check. Where a run has several
foci, the theorem is about the specification of the component (`Server!Spec`,
for example) and any values of its constants. Its assumptions about them are
operators (`ServerAssumption`), which the MC module that extends the proofs
assumes of the values that it gives, so that TLC evaluates them.

### Turns

`TurnRunProofs` proves, for arbitrary sets of turns, scopes, calls and effects,
any number of overlapping runs or of callers of the public operations, and any
number of throwing appends:

| theorem | says |
|---|---|
| `TypeCorrectness` | `RunSpec => []TypeOK` |
| `Invariance` | `RunSpec => []IInv` |
| `TerminalUniqueness` | `RunSpec => []AtMostOneTerminal` |
| `PhaseAgreement` | `RunSpec => []PhaseMatchesLog` |
| `Refinement` | `RunSpec => ImplementsTransaction` |
| `LegalHistory` | `RunSpec => []LogIsHistory` |
| `CommitsAreJustified` | `Spec => [](CommitFollowsPipeline /\ CommitFitsSnapshot)` |

The only assumptions are the named ones of the modules: `MaxFaults` and
`MaxActive` are natural numbers. Only `LegalHistory` uses what a fold computes,
and only the strict one: elsewhere, and for the fold of a scope everywhere,
`ok` is a guard, and the proofs hold whether or not it is TRUE.

`AtMostOneTerminal` is not inductive. From a state where a turn is committed
while some call still stands before its `ExecuteReturns`, that call would set
the phase back to `executed`, and a second terminal event could follow; this is
what does happen to arbitrary callers. Under `run()` it cannot, for two
reasons, which are the strengthening:

- `CallInv`: a call's place decides the phase of its turn. Before
  `ExecuteReturns` it is `prepared`, with an outcome it is `executed`, in the
  catch clause it is one of the two.
- `OneCallPerTurn`: no two calls share a turn, as `prepare()` draws fresh ids.

`IInv` is their conjunction with `TypeOK`, `PhaseMatchesLog` and
`AtMostOneTerminal`; `journals` checks it as an invariant. A step either is
*quiet* (it adds no terminal event, and leaves final phases alone) or ends one
live turn with one event; `QuietStepKeepsPhases` and `TerminalStepKeepsPhases`
deal with the two kinds once, and `CallMoves` and `CallStarts` with the
bookkeeping of calls. `StepIInv` has one case for each action.

For `Refinement`, `Status` maps phases to the transaction's status. Opening a
turn opens it, a commit publishes exactly its own pair of turn and effects
(`CommitPublishes`), an abort publishes nothing, and everything else stutters.

For `LegalHistory` the strict fold has to accept every log that overlapping
runs can write. `SessionProjection` defines it as a function over the prefixes
of a log and proves, by least counterexample, that such a function exists
(`ViewsExist`) and is the only one (`ViewsAgree`), so that the fold takes one
event after the other (`ProjectSessionAppends`). `HistoryInv` then says what
the view of the log knows: nothing of a turn that is still to be opened; of a
live turn no terminal event and no rejected state change; of a turn with a call
the composition of its draft, and its Pipeline running or completed as the
call's place says; and that a call that settled without a fault left a final
phase. There is one lemma for each event (`FoldComposes` and the others), which
says what the fold makes of it and that it sees only its own turn, and
`ViewMoves` carries the rest of the view over.

`CommitsAreJustified` is about `Spec`, where anybody may call anything in any
order with whatever draft or outcome they hold, and a turn may even commit
after it aborted (section 6). What nobody can do is publish effects that did
not go through the Pipeline and the validation. The invariant `JustInv` says
why: the draft of a turn that was drawn never changes and its snapshot is of a
prefix of a log that only grows, so that what was valid against it stays so
(`FrozenStays`); a call behind its Pipeline has the start and the completion of
it in the log, in this order, and one with an outcome has effects that are
valid for its turn; and so does every commit. The fold of a scope is not
opened: whatever it computes of the prefix, it computes the same again.

### Execution

`ExecutionProofs` proves, for arbitrary capabilities, authorizers, ceilings,
budgets, resources, names, grants, Sidecars, roles, providers and numbers of
calls and changes:

| theorem | says |
|---|---|
| `AuthorityInductive` | `IInv /\ [Next]_auVars => IInv'` |
| `AuthorityIsNarrow` | `Spec => []AuthorityNeverWidens` |
| `BridgeInductive` | `BridgeInv /\ Bridge!NoOtherWay` is kept by every step |
| `BridgeIsSafe` | `Bridge!Spec => []BridgeIsSound` |
| `SidecarsAreSafe` | `Sidecars!Spec => []SidecarsAreSound` |
| `AgentsAreSafe` | `Agents!Spec => []AgentsAreSound` |
| `PlansAreClosed` | `Plans!Spec => []PlansAreSound` |

*Authority.* The assumptions are the named ones of `Authority`: the sets hold
records of the right shapes, and a limit of a budget is a positive number,
which `None` is not. `AuthorityNeverWidens` speaks of adapters that run, and a
call gets there after a loop over the authorizers; `LoopInv` is what holds
between two turns of that loop: the authority is within the caller and the
capability, and the ceilings that are due are either still to be heard, by a
policy's authorizer that has not had its turn, or respected. An authorizer that
comes after the policy cannot undo it, since whatever it returns is required to
be narrower, and "narrower" keeps a ceiling (`NarrowerKeeps`, from
`BudgetTransitive` and `IntersectionWithin`). `ResolveFits` is that the
intersection of ceilings is within each. The order in which authorizers are
heard is not used.

*The bridge.* It is assumed that trust is one of the code's three levels, that
no backend is called "any", and that a call names a capability that the catalog
can hold (`BridgeAssumption`). The mirrors of the groups that are read as they
change agree with the Harness after every step. That of the Skills has to ask,
and `SkillsAreAsked` accounts for the news under way: an answer in the chain
that is not what the Harness has now is followed by another question, and the
first question, asked outside the chain, is answered with what the Harness has
unless something changed since. `BridgeInductive` then has one case for each
change, answer and disposal.

*Sidecars.* It is assumed that `None` is no permission set and no trust, and
that trust levels are integers (`SidecarAssumption`). `SyncFollows` shows that
the catalog entry of one Pipeline is brought up to date as the map changes,
whether it becomes a Sidecar, remains or stops being one. `DrainIsWhole` is
what an unload knows while it waits: a Job that was running when it began has
ended, is still waited for, or is among the failures.
`JournalsInv` relates each Session to its Jobs: the view that the strict fold
has of it holds no run but of the turns of Jobs, and `JobIsTold` says what it
holds of each Job: while it runs, an entry that is running, with the stages
before the present one, and nothing yet of the Pipelines that stages to come
invoke. Two Jobs with turns of their own cannot write to one entry
(`JournalGoesOn`), and what each kind of fact does to the view is a lemma of its
own (`RunStartFolds`, `RunMoveFolds`, `MarkTells`). It is assumed that no two
stages of one Pipeline invoke the same Pipeline, since the code would journal
the start of the nested run twice under one key, and that the version a nested
run is written with here (0) is no Pipeline's own (`NestsAssumption`).
`OutputFits` is about any text whose characters have a byte at least and any
limit and notice, the notice being cut when it alone is over the limit
(`OutputAssumption`).

*Agents.* It is assumed that `None` is no child and not the answer
(`AgentAssumption`). `RolesInv` relates the roles to the catalog entries that
they publish, in both directions. `RunIsTold` says of each delegation which
facts of its child the Session holds, by the place where it stands: none before
the start, a start and no end while it runs, then one end of the kind that its
caller hears of. `ReplayInv` says what the strict fold knows of each child, as
long as no child failed to start: an entry, running or ended as told.

*Plans.* `PlansAreClosed` is about any finite set of Pipelines and any
definitions, registrations and disposals. `captureNested` recurses with
the path so far as its guard against cycles, and `Captures` is a recursive
function of a Pipeline and its ancestors. That there is such a function, and
that it is a fixed point of one round of the recursion, comes from the least
set of visits that a round leaves alone (`CapturesUnfolds`). A visit has fewer
Pipelines left than the one that led to it, which gives each captured Pipeline
a depth above those of what it invokes (`DepthsExist`): that is termination.
The plan itself is a copy, which no disposal reaches.

### Pipelines

`PipelineRunProofs` proves, for whatever definitions are registered, with any
number of stages, edges, retries and writes, and any number of throwing
observers:

| theorem | says |
|---|---|
| `Invariance` | `Spec => []IInv` |
| `StagesKeepOrder` | `Spec => []OrderIsKept` |
| `RunsEndOnce` | `Spec => []EndsAreJustified` |
| `CancellationHolds` | `Spec => CancelStartsNothing` |
| `JournalsReplay` | `Spec => []SequentialJournalReplays` |

The assumptions are the named ones of `PipelineRun`. A registered definition
has stages, finitely many, and what it invokes was captured with it
(`GraphsAssumption`); `MaxFaults` is a natural number; and a nested Pipeline
compiles, as `captureNested` requires, and invokes nothing itself
(`NestingAssumption`: the depth is two, in the proofs as in the runs).

Half of the module is about `PipelineGraph`. `Remaining(d, n)`, what is left
after n levels, counts down in a function over the natural numbers, which
`CountdownExists` and `CountdownIsUnique` justify. Inductions are by the least
counterexample (`Least`). A graph that can be ordered always has a stage that
is ready (`OrderableHasReady`), so each round shrinks it and as many rounds as
there are stages empty it; conversely, what is left of a graph that does not
compile is a set where each stage waits for another, which no order allows
(`CyclicIsNotOrderable`). `LevelsAreLeast` is the part of `OrderIsKept` that
says a stage beyond the first level depends on one of the level before.

`EndsAreJustified` is not inductive: whether a run may complete depends on the
levels that it left long before. `RunIsSound` says that the stages behind the
level are settled, and that those completed wrote disjoint keys, all of them in
the frame; that those ahead still wait; and that a failed run has a reason that
lasts. `JournalTells` says what is in the journal of a run: a start, a report
of each settled stage and of no other, and one end, after its start, and after
every report if the run completed. `NestedAreSound` bounds the attempt in the
name of a nested run by that of its stage, which makes the names of runs that a
level opens fresh. A step changes one run and appends what it says of it;
`StepIsSound` states what such a step owes, the lemmas before it
(`StageSettles` to `RunIsRefused`) what each kind of change does to
`RunIsSound`, those on journals what each kind of record does to
`JournalTells`, and there is a lemma for each action. Beginning a level is the
hard case, for its attempts open nested runs, each with its own records, in an
order of the model's choice (`OpeningIsTold`, `AttemptIsSound`).

`JournalsReplay` needs more of the invariant. With as many levels as stages,
each level is one stage, for no level is empty (`LevelIsNotEmpty`) and a
surjection between sets of one size is an injection (`OneStagePerLevel`). So a
run that has ended has no busy stage, and no report follows its end, which is
what fails when stages share a level (`pipeline_late_stage`, section 6). `IInv`
also says that the start of a run is its first record, and that every record
names the Pipeline and the turn of its run and a stage that the Pipeline has.
The keys of runs are distinct when no Pipeline starts twice. `LegalIsReplayed`
is about logs alone: the fold accepts any log in which each key starts once, is
then heard of until it ends, and reports no stage twice; it rests on the lemmas
of `SessionProjection` about the fold.

### Outbox

`OutboxProofs` proves, for any sets of keys, handlers, sagas and dispatchers,
steps of any number, and any attempts that an entry is given:

| theorem | says |
|---|---|
| `Invariance` | `Spec => []IInv` |
| `EntriesTellTheTruth` | `Spec => []EntriesAreTrue` |
| `SettledIsTerminal` | `Spec => SettledStays` |
| `SagasUndoInOrder` | `Spec => []SagaUndoesInOrder` |

The assumptions are the named ones of `Outbox`: attempts are positive, a saga
is not a dispatcher, steps name keys and handlers, and `None` is no entry and
no outcome. That the entries of a drain are finitely many, which makes an order
of them exist, is not assumed: it is the conjunct `FinitelyMany` of the
invariant, since entries come in one at a time.

`EntriesAreTrue` is not inductive, for it does not say what a task knows while
it waits. `EntryInv` adds that a task that awaits a handler holds its entry as
it was when its attempt began (`ExecutingHolds`), that no two such tasks have
one key (`OneExecutes`), that a running entry has such a task
(`RunningIsExecuted`), and that the entry which a returned `dispatch()` carries
is what the map held then, with a settled one still there (`ReturnedHolds`).
The last is what a saga relies on that finds its step completed when another
task runs before it goes on. `SagasAreSound` follows the two loops of a saga:
`done` is a prefix of its steps, all of them carried out; while it compensates,
the undone positions go down, lie above everything left to undo, and every owed
position above it is among them. A position is passed over only if it is not
owed (`PassedOverIsNotOwed`), which stays so, as a disposed handler does not
come back. A step either ends a dispatch, or leaves entries alone;
`DispatchEnds`, `DispatchKeeps` and `QuietStepKeeps` deal with the kinds once,
and `NextIsSound` has one case for each action. `SettledIsTerminal` is read off
the same invariant: who updates an entry holds it, and nobody holds a settled
one.

### The Turn API and the browser

`TurnDeliveryProofs` proves, for any numbers of calls, request ids, messages,
turns and mishaps, and whatever other callers post:

| theorem | says |
|---|---|
| `Invariance` | `DeliverySpec => []IInv` |
| `RequestIdempotence` | `DeliverySpec => []RequestsAreWhole` |
| `DeliveredStaysSaid` | `DeliverySpec => []DeliveredIsSaid` |
| `RegisterRefinement` | `DeliverySpec => ImplementsRegister` |

The assumptions are the named ones of `TurnApi` and `TurnDelivery`: a bound on
mishaps is a natural number, other callers post requests, `None` is no call, no
request and not the answer "ok", and the Agent is not a call.

None of the four properties is inductive. Two contexts of one request id are
excluded because a call writes one only while no other is there, and what makes
that last from the check to the write is the maintenance phase: `CallIsSound`
says that a call that ingests, runs or has committed holds `lock`, that there
is no context of its request while it ingests, and that the log holds its
context, its commit if it has committed, and no Chat of its turn after that. A
call that flushes has its commit below its mark, and one that answered `ok` has
it in the durable prefix. `WellTold` is what a log says by itself, and is a
predicate of a sequence, so that the lemmas `AppendKeepsWellTold` and
`PrefixIsWellTold` serve both a step that appends and a crash that cuts.
`CallKeeps` is the interleaving argument: while a call stands still, the others
append only if it is not in its phase. `CallStepKeeps` has a lemma for each
action of a call, `CrashKeeps` deals with the crash, which loses every call
that had begun and keeps what was durable. `ClientIsSound` ties the submission
in flight to what its call carries, without which a response could be taken for
another message's.

For `RegisterRefinement`, the outcome of a request id is the turn of its
context, if that is committed. A commit is the register's `Commit`
(`CommitGivesOutcome`), a response is `Acknowledge`, and a crash is `Lose` of
the ids whose outcome was in the lost part, none of which was acknowledged; all
other steps stutter. `SaidOnce` is false (section 6), so that the register is a
promise about request ids and not about messages.

### Packages

`PackagesProofs` proves, for any publishers, publications, keys, sources, Hosts
and numbers of failures, edits and crashes:

| theorem | says |
|---|---|
| `ServerInductive` | `ServerInv` is kept by every step of the server |
| `ListingsAreWhole` | `Server!Spec => []ListedIsWhole` |
| `NothingLeavesTheIndex` | `Server!Spec => ListingsAreForEver` |
| `SourcesInductive` | `SourcesInv` is kept by every step of an acquisition |
| `AcquisitionsAreSound` | `Acquisition!Spec => []SourcesAreSound` |

`ServerAssumption`: `Nil`, the None of both, is no publisher, the bound on faults is a natural
number, and publications are of the shape that `RegistryServer` gives them.
`SourcesAssumption`: `Nil` and "dead" are no Hosts, versions or acquisitions.

*The server* reads the index, decides, renames a directory, and writes the
index, each an action between which others run or the process dies.
`HolderIsRight` is the argument that this is safe: only the holder of the lock
is past waiting for it, and what it has read or prepared is still what the disk
says (`StagedIsFresh`, `PublishIsFresh`, `RevokeIsFresh`): nobody else writes
the index, and no listed release has the directory that it put in place. So the
next index is the present one and one more entry, which gives both theorems.
`ClientStep` carries everything else through a step of a client that only moves
on. A crash is where the invariant must not depend on the lock holder: a
directory without an entry is allowed.

*Acquisition.* `Reads` says what a read has established at its place in the
loop (its origins are allowed, nothing is read that the manifest does not
declare, and what goes to the cache was found to be of the manifest's version).
`Writers` says that the lock of a name, its holder and its temporary file come
together, so that the rename puts a whole archive under a name even though
other Hosts work on the same cache, and died there.

### Content

`ContentProofs` proves, for any facts, scopes, callers, registries, items,
assets, presets, adapters, batches, resources, files and numbers of operations,
failures and restarts:

| theorem | says |
|---|---|
| `MemoryInductive` | `MemoryInv` is kept by every step of the memory |
| `MemoryOutlivesCrashes` | `Memory!Spec => []MemoryIsDurable` |
| `ReadersSeeRegistrations` | `Scene!Spec => []Scene!RegistrationsAreSeen`, the first conjunct of `ContentIsSound` |
| `CatalogInductive` | `CatalogInv` is kept by every step of both catalogs |
| `CatalogsAreSafe` | `Assets!Spec => []CatalogIsSound` |
| `MediaInductive` | `MediaInv` is kept by every step of media intake and generation |
| `IntakesAreSafe` | `Media!Spec => []IntakeIsSound` |
| `PageInductive` | `PageInv` is kept by every handler of the rail, the Creator and the Host |
| `PageIsTrue` | `Page!Spec => []ShownIsTrue` |

`MemoryOutlivesCrashes` assumes nothing of its constants,
`ReadersSeeRegistrations` that `None` is no natural number. `MemoryIsDurable`
says what a search found; what makes it find what it owes is `AcceptedIsShown`:
wherever a search would read the projection, which is a scope that was
hydrated, or one whose job a caller waits for and that is not loading, every
accepted fact is live. A job of another caller may come between the end
of a load and the search that waited for it, and a restart empties the
projection but not the table, so this has to hold at each step of the chain. `ShownIsDurable` covers the other direction: a fact that is
live and not stored is in a scope under release, or there was a failure.

`SceneInv` says how disposers, tables and registries relate: a table holds
exactly what its undisposed registrations put there, all of a registry's
disposers hold its present table, and two of one table have different ids. The
last is what makes it safe to delete by id, and the second what makes it safe
to drop an empty table.

`CatalogsAreSafe` assumes `CatalogAssumption`: there are finitely many scopes,
each with a parent or none, calls have arguments of the types that the two
services declare, and `None` is no id, content or reply. `CatalogInv` says of
each catalog (`InStep`) that document and table are whole, that a write is of a
whole document and belongs to the first call of the chain, and that document
and table differ only while the write that is in the table has yet to be
published. `LibraryFine` and `PresetsFine` go through the calls: whatever one
makes of a whole document is whole, so that `assertState` never answers
`STATE`. A removal filters the selections, which takes `KeptIsPart`: what a
filter keeps is in the sequence, and in different places of it. It and the
line of scopes that a capture looks along (`AncestryIsScopes`) are recursions,
for which `RoundsExist` gives the function and a least counterexample what
holds of it. A selection may be empty in one scope and not in a wider one, and
`NearestHas` is why a capture does not read the empty one.

`IntakesAreSafe` assumes `MediaAssumption`: adapters have a place in the order
of ids, and `None` is no adapter and no artifact. `MediaInv` follows a batch
(`UnderWay`): each input is in a group to come or has its artifact, made by an
adapter that supports it and that the caller's authority covers, which was
decided before the first wait and may since have been disposed of; every image
that has been checked is sound, and every one that has been saved is in the
attachment store. So when the checked images are the whole group, each of its
saved images stands for a group that passed, and when all are saved the
artifacts stand for them. An answer takes all of it over at once (`Complete`).

`PageIsTrue` assumes `PageAssumption`: a resource is of one family, a file is of
one family, and the file of a preset holds that preset alone, which is what
`importFile` saves and activates. That is needed: a second preset would take
the place of the first, and the import would report both as bound. `ShownIsTrue`
speaks of a rail at rest; `PageInv` says what its operation may rely on before.
`RailPlan` is what each operation asks for, in which order. `RailInTurn` says
that a request of the present operation has no answer yet for itself or what
comes after, so that only the two requests of `load()` are ever out together,
and neither changes anything. `RailKnows` says that an answer, from the moment
the Host gave it to the moment the operation uses it, tells what the Host has,
unless the Creator or a request that was given up has come between; and that an
import has done what it was told it has done. `RailShows` leaves out the family
that the operation is changing: until it ends, the rail shows it as it was.
`CreatorInv` says of a family of which the Creator had one request at a time
that what it shows is so, or that an answer is on its way that will tell; for
assets that were saved or removed this is the catalog that is read next, as the
first answer does not name the Session.

### What is only model-checked

- Liveness (out of the prover's reach): that runs of Pipelines (`RunEnds`),
  runs of turns, the outbox's tasks, calls and submissions end.
- What the fold of a scope computes: that it accepts what serialized turns
  write (`ScopeProjectable`) and that no update is lost.
- `PackageRegistry`, `RuntimeGraph`, `FirstParty`, `ScopeStores`,
  `WorkflowRouter`. `ComponentRegistry`, `PackageLock`, `ScopeStores` and
  `WorkflowRouter` have recursive operators (walks of graphs, trees, bytes and
  expressions), which the prover's SMT backend does not take, here or in a
  module that uses them.
- Of scene content, orders, bounds and dice.
- `ProductStore`.

Induction over data cannot be cited from the library here, since its theorems
have an operator as a parameter. Where a recursion is a function or an
iteration, as in `PipelineGraph`, in `AssetCatalog` and in the strict fold, the
proofs use least counterexamples or sets instead.

## 6. Disagreements between code and documents

Six runs end with a counterexample, each against a sentence of the repository.

- `turn_abort_race` - `abort()` during `execute()`. The phase `aborted` is
  overwritten with `executed`, `commit()` accepts the outcome, and the log
  holds a commit after an abort. `turn-runtime/README.md`: "neither path can
  follow another terminal operation for the same live transaction". `run()`
  itself is safe, which is proved.
- `turn_memory_conflict` - two overlapping runs accept different contents under
  one memory id, each against its own snapshot. From then on `projectScope()`
  of that scope throws, and so does every `prepare()`. Serialized runs are safe
  (focus `serial` of `host_execution`).
- `pipeline_late_stage` - two stages in a level, the first throws. The failure
  is reported at once, and the second stage is reported when it settles,
  after the end of its run. `pipeline-runtime/src/invariant.ts` asserts the
  contrary, and the strict fold rejects the log.
- `outbox_saga` - the second step's handler is not registered, and `dispatch()`
  throws out of `saga()`: the first step stays carried out.
  `outbox/README.md`: sagas "compensate successful steps in reverse order after
  a failure". BUSY (another task is dispatching the step) and DUPLICATE do the same.
- `web_second_turn` - the connection breaks, the locked retry meets the first
  request still in progress and is answered BUSY, which releases the lock. The
  next send has a fresh id, and the message becomes two turns. `web/README.md`:
  the lock prevents "a second semantic Turn while the first delivery is
  uncertain".
- `packages_update` - no fault, no revocation, no adapter that goes away. A root is
  updated, and the new lock keeps, in its version, a package that the root alone
  owns: a dependency, or the root itself. `update()` has taken the root out of
  that package's owners, and drops it (`registry/src/index.ts:836`); as its
  version is the same it was not activated anew either, so that line 847 throws.
  The new lock was written to the store at line 831. `installations` holds the
  old lock and the store the new one; the lifecycles of the new lock stay active,
  and those they replaced are put back beside them. The comment at
  `registry/src/index.ts:770` says "Atomically replace one installed root with a
  newly acquired exact graph". The repository's test of an atomic update has one
  package, whose version changes. `UpdatesAreAtomic` is `FailsWhole` for updates
  without its exception.

Seen while modelling, and not the subject of a run:

- A commit that describes a known branch with another message passes
  validation, and `projectScope()` then throws for ever (`putBranch`). The
  instances of `serial` have no branch effects for that reason.
- A step that is `pending` after one failed attempt fails its saga, which
  compensates for the steps before it; a later drain may carry the step out.
  Two sagas that share a completed step may both compensate for it.
- A nested Pipeline started twice in one turn, by a retry or by two stages, is
  journaled twice under one key, which the strict fold rejects.
- If the observer throws on `completed`, it is then told `failed`, and may throw
  again. The model has both (`Complete`), and counts ends that were journaled.
- A fault between commit and Chat answers `EXECUTION_FAILED`, and the replay
  of the request reports success with the Chat never projected. `ChatIsWhole`
  therefore says that what is there is whole, not that it is there.
- A crash may leave a context without a terminal event. Its request id is
  answered BUSY from then on.
- The retry lock lives in the page; a reload forgets it.

In the registry and its server:

- A failure after the old graph was deactivated may be followed by a failure of an
  adapter to activate it again (`lost` in the model). The registry then has
  lost what ran, and `FailsWhole` says nothing.
- `component-runtime/README.md` says that resolution validates exact dependencies.
  A component that was resolved before in the same walk is not looked at again,
  so a second, different requirement passes. `CompositionIsClosed` therefore
  speaks of presence and order.
- The JSDoc of `resolve()` promises the highest release that is not revoked; the
  code takes the highest that matches, and throws when that one is revoked.
- The providers of `registry-sources` return bytes or throw when a manifest
  declares a payload, so the cache's copy never answers through them, and a
  rotten entry of the cache makes installations fail until it is removed.

In content and product:

- A fact whose publication is refused, after the table took it, stays in the table.
  The limit of a scope counts a loaded fact that is live already a second time.
- A scene or document may be released and made again between a reading and a
  write, with the same revision. `StoresAreSound` speaks of one life of a scope.
- An event that a product command appended to a Session, or some of the events
  of an imported history, stay there when the
  mutation that should describe it fails or is cut off by a crash. One of
  two cast members of a multi-character binding cannot be removed from the catalog.
- `docs/compatibility.md:18` says that a Session that is not blank refuses a change
  of its Agent preset. The command looks before its mutation's turn in the
  chain, and a turn may begin in between.
- After a preset is saved, the Creator shows none as active; what it shows as
  a preview may differ from what it then saves, if a request is under way.
- An import that supersedes the first load of the rail leaves its presets
  undefined, in phase `ready`. `closeEditor` cancels whatever request is current.

In execution:

- A TRPG workflow that gets no rules request writes `rules.skipped`, and the stages
  after it ask for `rules.result`. `ExperiencesAreClosed` excuses that case.
- A child Agent that could not be started is journaled as interrupted, under the
  id of the run and without a start, which the strict fold rejects.
  `AgentsAreSound` excludes that case.
- A Sidecar Job that starts while its plugin drains is neither killed nor awaited.
  Two Jobs that run one Pipeline under one turn id, their own or one that it
  invokes, journal one key twice, and `SidecarsAreSound` excludes them.
- The first question for the Harness's Skills is asked outside the chain, and its
  answer may replace that of a later one. `MirrorIsTrue` excludes it (`overlapped`).
- A native function whose caller aborts it with the reason "timeout" goes on: the
  code takes that reason for its own timer's.

## 7. What is not modelled

- `contracts`, `distribution*`: types, validators and composition of plugins by
  configuration, without behaviour of their own.
- `compat-sillytavern`, `compat-stscript`: parsers of card formats and an
  interpreter of strings. A file that is read or refused stands for an import.
- `cli`, `eval`: input and output around the registry and the SDK; one pure pass over
  recorded Sessions.
- The content of turns, prompts, media and stages, beyond what validation and
  the folds compare. Formatting, rendering, parsing of tar, JSON and TypeScript, HTTP.
  Hashes and signatures are tokens that fit or do not.
- The scores of `memory-vector`, the slot data of `ui-slot-runtime`, the streams and
  exit codes of `workflow-backends-*`: given, not computed.
- Listeners of the events that services emit. They are assumed not to throw.
- In `PipelineRun`, authority and budgets are a refusal that may happen; what
  they compute is in `SidecarJobs` and `Authority`.
- `preset` and `component` resolution in `prepare()`: a refusal before anything
  is registered, which is a stuttering step.
- Capability, standalone state, branch, memory and media events are translated
  in `SessionProjection`, but no run feeds them to the folds. Those of turns,
  Pipelines, agents and Sidecars are fed.
- `loadTimeline`, modes, `prune` and `dispose` of the browser's turn controller,
  and the product's client: they read, or discard what they hold.

## 8. Plan

The order followed what a failure would cost: first what is published and never
taken back, then effects outside, then what is installed, then the rest. All of
that is modelled. What is left is mostly proof:

1. The registry: `OwnersAreInstallations` and `RuntimeMatches` as an inductive
   invariant over an arbitrary lock, with the recursive walk of `PackageLock`
   given as a constant operator.
2. `ProductIsSound`, which has the shape of `CatalogIsSound`: a chain of jobs
   between a document and its file.
3. An abstract document with revisions that `ScopeStores`, `AssetCatalog` and
   `ProductStore` all implement.
4. Both folds over an alphabet of all event types, with the claim that a
   strict fold that accepts implies scope folds that accept.
