----------------------------- MODULE SidecarJobs -----------------------------
(***************************************************************************)
(* Background work: packages/rp/sidecar-jobs publishes every registered    *)
(* Sidecar Pipeline as a capability, starts each accepted call as a Job    *)
(* that an Agent owns, writes the run into that Agent's Session, and       *)
(* cancels and drains its Jobs when the plugin unloads.  The operations of *)
(* a stage (executeStage of packages/rp/pipeline-runtime) are here with    *)
(* the authority that they pass on.                                        *)
(*                                                                         *)
(* A Pipeline is [id, kind, version, permissions, trust, stages], a stage  *)
(* [kind, permissions, trust, pipeline]; an authority is [permissions,     *)
(* trust], with None for what a request does not say.                      *)
(***************************************************************************)
EXTENDS SessionProjection, Integers, FiniteSetsExt

CONSTANTS
  PipelineDefs,     \* the definitions that may be registered
  Owners, Grants,   \* the Agents, and the authorities a call may have
  TurnIds,          \* the turn ids a model input may name, or None
  Results,          \* rendered results: the bytes of each character
  OutputLimit, NoticeSize,
  MaxJobs, MaxEdits \* bounds: Jobs, changes of the registered Pipelines

VARIABLES
  pipelines,        \* id -> the registered definition
  published,        \* id -> the definition its capability was made from
  calls,            \* authorized calls that have not reached start() yet
  jobs,             \* every Job accepted, in order
  active,           \* the Jobs in the active map
  journals,         \* owner -> its Session
  phase,            \* "live", "draining", "unloaded" or "failed"
  drain,            \* Jobs to wait for, and those that were given up
  requested,        \* what stages asked the Catalog for: [job, grant]
  edits

sjVars == <<pipelines, published, calls, jobs, active, journals, phase, drain, requested, edits>>

Init ==
  /\ pipelines = Map0 /\ published = Map0 /\ calls = {} /\ jobs = <<>> /\ active = {}
  /\ journals = [o \in Owners |-> <<>>] /\ phase = "live"
  /\ drain = [waiting |-> {}, taken |-> {}, failures |-> {}] /\ requested = {} /\ edits = 0

-----------------------------------------------------------------------------
(* syncCapability(): the old capability is released, and a new one made if *)
(* the Pipeline is a Sidecar still.                                        *)
IsSidecar(map, id) == id \in DOMAIN map /\ map[id].kind = "sidecar"
SyncCapability(map, id) ==
  IF IsSidecar(map, id) THEN Put(published, id, map[id]) ELSE Drop(published, id)

EditPipelines(map, id) ==
  /\ phase = "live" /\ edits < MaxEdits
  /\ edits' = edits + 1 /\ pipelines' = map /\ published' = SyncCapability(map, id)
  /\ UNCHANGED <<calls, jobs, active, journals, phase, drain, requested>>
ReplacePipeline(p) == EditPipelines(Put(pipelines, p.id, p), p.id)
RemovePipeline(id) == id \in DOMAIN pipelines /\ EditPipelines(Drop(pipelines, id), id)

(* The Catalog authorizes a call of a published capability, whose          *)
(* permissions are the Pipeline's and "rp.sidecar.start".                  *)
Contribution(p) == [permissions |-> p.permissions \cup {"rp.sidecar.start"}, trust |-> p.trust]
Authorize(id, owner, grant, turn) ==
  /\ id \in DOMAIN published /\ phase = "live" /\ calls = {}
  /\ Contribution(published[id]).permissions \subseteq grant.permissions
  /\ published[id].trust <= grant.trust
  /\ calls' = {[id |-> id, owner |-> owner, grant |-> grant, turn |-> turn]}
  /\ UNCHANGED <<pipelines, published, jobs, active, journals, phase, drain, requested, edits>>

-----------------------------------------------------------------------------
Key(p) == <<p.id, p.version>>
Event(j, type) == [type |-> type, turn |-> jobs[j].turn, pipeline |-> Key(jobs[j].plan)]
Write(j, facts) == journals' = [journals EXCEPT ![jobs[j].owner] = @ \o facts]

(* start(): the plan is captured, the Job accepted and its Pipeline begun  *)
(* in one step; what the plan needs and the call does not grant fails the  *)
(* Job before anything is written.                                         *)
Granted(p, grant) == p.permissions \subseteq grant.permissions /\ p.trust <= grant.trust
Start(c) ==
  LET n == Len(jobs) + 1
      plan == pipelines[c.id]
      turn == IF c.turn = None THEN <<"rp-sidecar", n>> ELSE c.turn
      runs == Granted(plan, c.grant)
  IN /\ n <= MaxJobs
     /\ IF IsSidecar(pipelines, c.id)
        THEN /\ jobs' = Append(jobs, [owner |-> c.owner, plan |-> plan, turn |-> turn, grant |-> c.grant,
                                      stage |-> 1, aborted |-> FALSE, late |-> phase # "live",
                                      status |-> IF runs THEN "running" ELSE "failed", output |-> None])
             /\ active' = IF runs THEN active \cup {n} ELSE active
             /\ journals' = IF ~runs THEN journals ELSE
                  [journals EXCEPT ![c.owner] =
                     Append(@, [type |-> "pipeline-started", turn |-> turn, pipeline |-> Key(plan)])]
        ELSE UNCHANGED <<jobs, active, journals>>
     /\ calls' = calls \ {c}
     /\ UNCHANGED <<pipelines, published, phase, drain, requested, edits>>

-----------------------------------------------------------------------------
(* executeStage(): the authority of a capability call.                     *)
Lesser(m, n) == IF m < n THEN m ELSE n
GrantedPermissions(request, stage) ==
  LET constrained == request.permissions # None \/ request.trust # None
      caller == IF request.permissions # None THEN request.permissions
                ELSE IF stage.permissions # None THEN stage.permissions ELSE {}
  IN IF stage.permissions = None THEN caller
     ELSE IF constrained THEN caller \cap stage.permissions ELSE stage.permissions
GrantedTrust(request, stage) ==
  IF request.trust = None THEN IF stage.trust = None THEN 0 ELSE stage.trust
  ELSE IF stage.trust = None THEN request.trust ELSE Lesser(request.trust, stage.trust)
StageGrant(request, stage) ==
  [permissions |-> GrantedPermissions(request, stage), trust |-> GrantedTrust(request, stage)]

(* Custom and conditional stages ask for nothing; a nested Pipeline is     *)
(* written under the same turn and passes the whole request on.            *)
Facts(j, stage) ==
  LET nested == [type |-> "pipeline-started", turn |-> jobs[j].turn, pipeline |-> <<stage.pipeline, 0>>]
      done == [type |-> "pipeline-stage", turn |-> jobs[j].turn, pipeline |-> Key(jobs[j].plan), stage |-> jobs[j].stage]
  IN IF stage.kind = "invoke-pipeline" THEN <<nested, [nested EXCEPT !.type = "pipeline-completed"], done>>
     ELSE <<done>>
ExecuteStage(j) ==
  LET job == jobs[j]
      stage == job.plan.stages[job.stage]
  IN /\ job.status = "running" /\ job.stage <= Len(job.plan.stages) /\ ~job.aborted
     /\ Write(j, Facts(j, stage))
     /\ requested' = CASE stage.kind = "invoke-capability" -> requested \cup {[job |-> j, grant |-> StageGrant(job.grant, stage)]}
                       [] stage.kind = "invoke-pipeline" -> requested \cup {[job |-> j, grant |-> job.grant]}
                       [] OTHER -> requested
     /\ jobs' = [jobs EXCEPT ![j].stage = @ + 1]
     /\ UNCHANGED <<pipelines, published, calls, active, phase, drain, edits>>

(* boundedOutput(): as many whole characters as leave room for the notice. *)
Bytes(text) ==
  LET sum[n \in 0..Len(text)] == IF n = 0 THEN 0 ELSE sum[n - 1] + text[n]
  IN  sum[Len(text)]
BoundedOutput(text) ==
  IF Bytes(text) <= OutputLimit THEN [kept |-> Len(text), size |-> Bytes(text)]
  ELSE LET room == IF OutputLimit > NoticeSize THEN OutputLimit - NoticeSize ELSE 0
           fits == {n \in 0..Len(text) : Bytes(SubSeq(text, 1, n)) <= room}
           kept == CHOOSE n \in fits : \A m \in fits : m <= n
           all == Bytes(SubSeq(text, 1, kept)) + NoticeSize
       IN [kept |-> kept, size |-> IF kept = 0 THEN Lesser(NoticeSize, OutputLimit) ELSE all]

(* The Pipeline ends; `done` resolves and the Job leaves the active map.   *)
Settle(j, status, output) ==
  /\ jobs' = [jobs EXCEPT ![j].status = status, ![j].output = output]
  /\ active' = active \ {j}
  /\ UNCHANGED <<pipelines, published, calls, phase, drain, requested, edits>>
Complete(j, text) ==
  /\ jobs[j].status = "running" /\ jobs[j].stage > Len(jobs[j].plan.stages)
  /\ Write(j, <<Event(j, "pipeline-completed")>>)
  /\ Settle(j, "completed", BoundedOutput(text))
Fails(j) ==
  /\ jobs[j].status = "running"
  /\ Write(j, <<Event(j, "pipeline-failed")>>)
  /\ Settle(j, IF jobs[j].aborted THEN "killed" ELSE "failed", None)

(* The caller's signal, or the owner through the Job controls.             *)
Cancel(j) ==
  /\ jobs[j].status = "running" /\ ~jobs[j].aborted
  /\ jobs' = [jobs EXCEPT ![j].aborted = TRUE]
  /\ UNCHANGED <<pipelines, published, calls, active, journals, phase, drain, requested, edits>>

-----------------------------------------------------------------------------
(* Unloading: the capabilities go first, then every active Job is killed   *)
(* and waited for, each within the grace; a kill may be refused.           *)
Unload(refused) ==
  /\ phase = "live"
  /\ phase' = "draining" /\ published' = Map0
  /\ drain' = [waiting |-> active, taken |-> active, failures |-> refused]
  /\ jobs' = [j \in DOMAIN jobs |-> IF j \in active \ refused THEN [jobs[j] EXCEPT !.aborted = TRUE] ELSE jobs[j]]
  /\ UNCHANGED <<pipelines, calls, active, journals, requested, edits>>
Drained(j) ==
  /\ j \in drain.waiting /\ jobs[j].status # "running"
  /\ drain' = [drain EXCEPT !.waiting = @ \ {j}]
  /\ UNCHANGED <<pipelines, published, calls, jobs, active, journals, phase, requested, edits>>
(* A plausible slip: the grace that ran out is not counted as a failure.   *)
SlipGraceEnds(j) ==
  /\ j \in drain.waiting /\ jobs[j].status = "running"
  /\ drain' = [drain EXCEPT !.waiting = @ \ {j}]
  /\ UNCHANGED <<pipelines, published, calls, jobs, active, journals, phase, requested, edits>>
GraceEnds(j) ==
  /\ j \in drain.waiting /\ jobs[j].status = "running"
  /\ drain' = [drain EXCEPT !.waiting = @ \ {j}, !.failures = @ \cup {j}]
  /\ UNCHANGED <<pipelines, published, calls, jobs, active, journals, phase, requested, edits>>
Unloaded ==
  /\ phase = "draining" /\ drain.waiting = {}
  /\ phase' = IF drain.failures = {} THEN "unloaded" ELSE "failed"
  /\ UNCHANGED <<pipelines, published, calls, jobs, active, journals, drain, requested, edits>>

Next ==
  \/ \E p \in PipelineDefs : ReplacePipeline(p)
  \/ \E id \in DOMAIN pipelines : RemovePipeline(id)
  \/ \E id \in DOMAIN published, owner \in Owners, grant \in Grants, turn \in TurnIds : Authorize(id, owner, grant, turn)
  \/ \E c \in calls : Start(c)
  \/ \E j \in DOMAIN jobs :
       \/ ExecuteStage(j) \/ Fails(j) \/ Cancel(j) \/ Drained(j) \/ GraceEnds(j)
       \/ \E text \in Results : Complete(j, text)
  \/ \E refused \in SUBSET active : Unload(refused)
  \/ Unloaded

Spec == Init /\ [][Next]_sjVars

-----------------------------------------------------------------------------
(* The capabilities follow the Pipelines, and the active map holds the     *)
(* Jobs that run.                                                          *)
SidecarsArePublished ==
  /\ phase = "live" => published = [id \in {i \in DOMAIN pipelines : IsSidecar(pipelines, i)} |-> pipelines[id]]
  /\ active = {j \in DOMAIN jobs : jobs[j].status = "running"}

(* No stage asks the Catalog for more than its Job was given.              *)
StagesStayWithin ==
  \A r \in requested : Granted(r.grant, jobs[r.job].grant)

(* An output keeps within the limit, and is cut between two characters and *)
(* only when it must be.                                                   *)
OutputsAreBounded ==
  \A j \in DOMAIN jobs : jobs[j].output # None => jobs[j].output.size <= OutputLimit

(* Each owner's Session can be replayed, unless two Jobs that run one      *)
(* Pipeline, as their own or as one they invoke, were given one turn id;   *)
(* each run that ended says so once, as it ended.                          *)
PlanRuns(plan) ==
  {Key(plan)} \cup {<<plan.stages[i].pipeline, 0>> :
                      i \in {k \in 1..Len(plan.stages) : plan.stages[k].kind = "invoke-pipeline"}}
Shared(o) ==
  \E i, j \in DOMAIN jobs : /\ i # j /\ jobs[i].owner = o /\ jobs[j].owner = o
                            /\ jobs[i].turn = jobs[j].turn
                            /\ PlanRuns(jobs[i].plan) \cap PlanRuns(jobs[j].plan) # {}
RunsAreTold ==
  \A o \in Owners : Shared(o) \/
    LET view == ProjectSession(journals[o])
    IN /\ view.ok
       /\ \A j \in DOMAIN jobs :
            LET key == <<jobs[j].turn, Key(jobs[j].plan)>> IN
            (jobs[j].owner = o /\ key \in DOMAIN view.pipelines) =>
              view.pipelines[key].status = IF jobs[j].status = "killed" THEN "failed" ELSE jobs[j].status

(* An unload that reports no failure leaves none of the Jobs that ran when *)
(* it began.                                                               *)
UnloadIsWhole == phase = "unloaded" => \A j \in DOMAIN jobs : jobs[j].late \/ jobs[j].status # "running"

SidecarsAreSound ==
  SidecarsArePublished /\ StagesStayWithin /\ OutputsAreBounded /\ RunsAreTold /\ UnloadIsWhole

=============================================================================
