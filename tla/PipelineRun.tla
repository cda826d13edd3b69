---------------------------- MODULE PipelineRun ----------------------------
(***************************************************************************)
(* runPlan() and runStage() of packages/rp/pipeline-runtime: one frozen    *)
(* plan executed level by level, its stages concurrent within a level,     *)
(* each with timeout, bounded retries and a failure policy; the nested     *)
(* Pipelines it invokes; cooperative cancellation; and the observer that   *)
(* journals the run (pipelineJournalObserver of turn-runtime).             *)
(*                                                                         *)
(* A nested run is known by the stage and the attempt that invoked it: the *)
(* top-level run is <<>>, a nested one <<stage, attempt>>.  Nested         *)
(* Pipelines invoke none themselves (NestingAssumption), which bounds the  *)
(* depth at two.  Each action is what the event loop does between two      *)
(* awaits: starting a level starts all its stages and, synchronously, the  *)
(* first level of the Pipelines that they invoke.                          *)
(***************************************************************************)
EXTENDS PipelineGraph, Sequences, SequencesExt

CONSTANTS
  Root,         \* the Pipeline that is registered and run
  Experiences,  \* what may be registered: functions from Pipeline ids to records
                \* [stages, after, before, invokes, retries, failure, timed, writes]
  MaxFaults     \* bound on the observer calls that throw

Settled == {"completed", "continued"}
Places == Settled \cup {"waiting", "busy", "thrown"}
Statuses == {"running", "completed", "failed"}

(* What runPlan() keeps of a run of d.                                     *)
RunOf(d) ==
  [level : 0..Cardinality(d.stages), status : Statuses,
   keys : SUBSET UNION {d.writes[s] : s \in d.stages},
   at : [d.stages -> Places], attempt : [d.stages -> Nat]]

(* register() requires a stage; what a plan invokes was captured with it,  *)
(* and is not the plan itself.                                             *)
ASSUME GraphsAssumption ==
  \A graphs \in Experiences :
    /\ Root \in DOMAIN graphs
    /\ \A p \in DOMAIN graphs :
         LET d == graphs[p] IN
         /\ IsFiniteSet(d.stages) /\ d.stages # {}
         /\ d.retries \in [d.stages -> Nat]
         /\ Invoked(d) \subseteq DOMAIN graphs \ {Root}
         /\ None \notin RunOf(d)
ASSUME FaultsAssumption == MaxFaults \in Nat
ASSUME NestingAssumption ==
  \A graphs \in Experiences : \A p \in DOMAIN graphs \ {Root} :
    Compiles(graphs[p]) /\ Invoked(graphs[p]) = {}

VARIABLES
  graphs,     \* the definitions, frozen by register() and capture()
  compiled,   \* "none", then what compile() said of the top-level definition
  runs,       \* run -> its record, or None before runPlan() is called
  cancelled,  \* request.signal is aborted
  journal,    \* what the observer appended to the Session log
  faults      \* observer calls that have thrown

vars == <<graphs, compiled, runs, cancelled, journal, faults>>

Top == <<>>
Nested == {s \in graphs[Root].stages : graphs[Root].invokes[s] # None}
RunIdsOf(root) ==
  {Top} \cup UNION {{<<s, a>> : a \in 1..(root.retries[s] + 1)} :
                     s \in {x \in root.stages : root.invokes[x] # None}}
RunIds == RunIdsOf(graphs[Root])
PipelineOf(r) == IF r = Top THEN Root ELSE graphs[Root].invokes[r[1]]
G(r) == graphs[PipelineOf(r)]

(* Journal records name the Pipeline, not the run; "run" is kept for the   *)
(* properties only.  The turn is the same for all.                         *)
Record(r, type) == [type |-> type, turn |-> Root, pipeline |-> PipelineOf(r), run |-> r]
StageRecord(r, s) ==
  [type |-> "pipeline-stage", turn |-> Root, pipeline |-> PipelineOf(r), run |-> r, stage |-> s]

Fault == faults < MaxFaults /\ faults' = faults + 1

-----------------------------------------------------------------------------
Busy(run, S) ==
  [run EXCEPT !.at = [s \in DOMAIN @ |-> IF s \in S THEN "busy" ELSE @[s]],
              !.attempt = [s \in DOMAIN @ |-> IF s \in S THEN @[s] + 1 ELSE @[s]]]

NewRun(r) ==
  [level |-> 0, status |-> "running", keys |-> {},
   at |-> [s \in G(r).stages |-> "waiting"], attempt |-> [s \in G(r).stages |-> 0]]

NestedStart(r) == [Busy(NewRun(r), Level(G(r), 1)) EXCEPT !.level = 1]

(* Begin one attempt of each stage of S in run r, whose record becomes     *)
(* "run".  A nested Pipeline may be refused: its caller lacks authority,   *)
(* or the observer throws on its start; then nothing is recorded of it.    *)
(* Stages begin in the order of their ids, which can be any.               *)
Attempt(r, run, S, events) ==
  LET next == Busy(run, S)
      ids  == IF r = Top THEN {<<s, next.attempt[s]>> : s \in S \cap Nested} ELSE {}
  IN  \E opened \in SUBSET ids : \E order \in SetToSeqs(opened) :
        /\ runs' = [q \in RunIds |-> IF q = r THEN next
                                     ELSE IF q \in opened THEN NestedStart(q)
                                     ELSE runs[q]]
        /\ journal' = journal \o events \o
             [i \in 1..Len(order) |-> Record(order[i], "pipeline-started")]

(* The catch clause of runPlan().                                          *)
Fail(r, run, events) ==
  \/ /\ runs' = [runs EXCEPT ![r] = [run EXCEPT !.status = "failed"]]
     /\ journal' = journal \o Append(events, Record(r, "pipeline-failed"))
     /\ UNCHANGED faults
  \/ /\ Fault
     /\ runs' = [runs EXCEPT ![r] = [run EXCEPT !.status = "failed"]]
     /\ journal' = journal \o events

(* If the observer throws on the completion, the catch clause fails the    *)
(* run, and tells the observer, which may throw again.                     *)
Complete(r, run) ==
  \/ /\ runs' = [runs EXCEPT ![r] = [run EXCEPT !.status = "completed"]]
     /\ journal' = Append(journal, Record(r, "pipeline-completed"))
     /\ UNCHANGED faults
  \/ /\ Fault
     /\ runs' = [runs EXCEPT ![r] = [run EXCEPT !.status = "failed"]]
     /\ journal' = Append(journal, Record(r, "pipeline-failed"))
  \/ /\ faults + 2 <= MaxFaults
     /\ faults' = faults + 2
     /\ runs' = [runs EXCEPT ![r] = [run EXCEPT !.status = "failed"]]
     /\ UNCHANGED journal

(* The head of the loop over levels; cancellation is looked at here only.  *)
EnterLevel(r, run, n, events) ==
  IF cancelled THEN Fail(r, run, events)
  ELSE /\ Attempt(r, [run EXCEPT !.level = n], Level(G(r), n), events)
       /\ UNCHANGED faults

-----------------------------------------------------------------------------
Init ==
  /\ graphs \in Experiences
  /\ compiled = "none"
  /\ runs = [r \in RunIds |-> None]
  /\ cancelled \in BOOLEAN
  /\ journal = <<>>
  /\ faults = 0

(* register() compiles the definition and keeps it only if that succeeds.  *)
Register ==
  /\ compiled = "none"
  /\ compiled' = CompileResult(graphs[Root])
  /\ UNCHANGED <<graphs, runs, cancelled, journal, faults>>

(* A slip: the run's start is not journaled.                               *)
SlipStartsUnseen ==
  /\ compiled = "ok"
  /\ runs[Top] = None
  /\ EnterLevel(Top, NewRun(Top), 1, <<>>)
  /\ UNCHANGED <<graphs, compiled, cancelled>>

Start ==
  /\ compiled = "ok"
  /\ runs[Top] = None
  /\ EnterLevel(Top, NewRun(Top), 1, <<Record(Top, "pipeline-started")>>)
  /\ UNCHANGED <<graphs, compiled, cancelled>>

(* The observer throws on the start: run() throws before anything is done  *)
(* or recorded of a run, and its caller may call it again.                 *)
StartThrows ==
  /\ compiled = "ok"
  /\ runs[Top] = None
  /\ Fault
  /\ UNCHANGED <<graphs, compiled, runs, cancelled, journal>>

IsBusy(r, s) == runs[r] # None /\ runs[r].at[s] = "busy"

(* The stage is reported whether or not its run still goes on.             *)
Settle(r, s, outcome) ==
  \/ /\ runs' = [runs EXCEPT ![r].at[s] = outcome]
     /\ journal' = Append(journal, StageRecord(r, s))
     /\ UNCHANGED faults
  \/ /\ Fault
     /\ runs' = [runs EXCEPT ![r].at[s] = "thrown"]
     /\ UNCHANGED journal

(* How far the run is that the current attempt of a nested stage awaits; a *)
(* run that was refused is a failure to its caller.                        *)
Awaited(s) ==
  LET run == runs[<<s, runs[Top].attempt[s]>>]
  IN  IF run = None THEN "failed" ELSE run.status
IsNested(r, s) == r = Top /\ s \in Nested

OperationSucceeds(r, s) ==
  /\ IsBusy(r, s)
  /\ IsNested(r, s) => Awaited(s) = "completed"
  /\ Settle(r, s, "completed")
  /\ UNCHANGED <<graphs, compiled, cancelled>>

(* A slip: one retry too many, also after cancellation.                    *)
SlipRetriesOnceMore(r, s) ==
  IF runs[r].attempt[s] <= G(r).retries[s] + 1
  THEN Attempt(r, runs[r], {s}, <<>>) /\ UNCHANGED faults
  ELSE IF G(r).failure[s] = "continue"
  THEN Settle(r, s, "continued")
  ELSE /\ runs' = [runs EXCEPT ![r].at[s] = "thrown"]
       /\ UNCHANGED <<journal, faults>>

(* The catch clause of the attempt loop, and what runPlan() makes of the   *)
(* last error.                                                             *)
AttemptFails(r, s) ==
  IF ~cancelled /\ runs[r].attempt[s] <= G(r).retries[s]
  THEN Attempt(r, runs[r], {s}, <<>>) /\ UNCHANGED faults
  ELSE IF G(r).failure[s] = "continue"
  THEN Settle(r, s, "continued")
  ELSE /\ runs' = [runs EXCEPT ![r].at[s] = "thrown"]
       /\ UNCHANGED <<journal, faults>>

OperationFails(r, s) ==
  /\ IsBusy(r, s)
  /\ IsNested(r, s) => Awaited(s) = "failed"
  /\ AttemptFails(r, s)
  /\ UNCHANGED <<graphs, compiled, cancelled>>

(* A slip: a retry has no timer.                                           *)
SlipTimesFirstAttempt(r, s) ==
  /\ IsBusy(r, s)
  /\ G(r).timed[s]
  /\ runs[r].attempt[s] = 1
  /\ AttemptFails(r, s)
  /\ UNCHANGED <<graphs, compiled, cancelled>>

(* The timer wins the race; the operation goes on, a nested run included.  *)
StageTimesOut(r, s) ==
  /\ IsBusy(r, s)
  /\ G(r).timed[s]
  /\ AttemptFails(r, s)
  /\ UNCHANGED <<graphs, compiled, cancelled>>

IsRunning(r) == runs[r] # None /\ runs[r].status = "running"
CurrentLevel(r) == Level(G(r), runs[r].level)

(* A slip: every stage that throws fails the run.                          *)
SlipThrowsAgain(r) ==
  /\ runs[r] # None
  /\ runs[r].level > 0
  /\ \E s \in CurrentLevel(r) : runs[r].at[s] = "thrown"
  /\ Fail(r, runs[r], <<>>)
  /\ UNCHANGED <<graphs, compiled, cancelled>>

(* Promise.all rejects with the first stage that throws.                   *)
LevelThrows(r) ==
  /\ IsRunning(r)
  /\ \E s \in CurrentLevel(r) : runs[r].at[s] = "thrown"
  /\ Fail(r, runs[r], <<>>)
  /\ UNCHANGED <<graphs, compiled, cancelled>>

Writers(r) == {s \in CurrentLevel(r) : runs[r].at[s] = "completed"}

Conflict(r) ==
  \E s \in Writers(r) :
    \/ G(r).writes[s] \cap runs[r].keys # {}
    \/ \E x \in Writers(r) \ {s} : G(r).writes[s] \cap G(r).writes[x] # {}

LevelSettles(r) ==
  LET merged == [runs[r] EXCEPT !.keys = @ \cup UNION {G(r).writes[s] : s \in Writers(r)}]
  IN  /\ IsRunning(r)
      /\ \A s \in CurrentLevel(r) : runs[r].at[s] \in Settled
      /\ IF Conflict(r) THEN Fail(r, runs[r], <<>>)
         ELSE IF runs[r].level = LevelCount(G(r)) THEN Complete(r, merged)
         ELSE EnterLevel(r, merged, runs[r].level + 1, <<>>)
      /\ UNCHANGED <<graphs, compiled, cancelled>>

Cancel ==
  /\ IsRunning(Top)
  /\ ~cancelled
  /\ cancelled' = TRUE
  /\ UNCHANGED <<graphs, compiled, runs, journal, faults>>

Next ==
  \/ Register
  \/ Start
  \/ StartThrows
  \/ Cancel
  \/ \E r \in RunIds : LevelThrows(r) \/ LevelSettles(r)
  \/ \E r \in RunIds : \E s \in G(r).stages :
       OperationSucceeds(r, s) \/ OperationFails(r, s) \/ StageTimesOut(r, s)

Spec == Init /\ [][Next]_vars

(* The event loop runs what is ready and timers fire; that an operation    *)
(* ever settles is not assumed.                                            *)
AllRuns == UNION {RunIdsOf(g[Root]) : g \in Experiences}
AllStages == UNION {UNION {g[p].stages : p \in DOMAIN g} : g \in Experiences}

LevelEnds(r) == r \in RunIds /\ (LevelThrows(r) \/ LevelSettles(r))
TimerFires(r, s) == r \in RunIds /\ s \in G(r).stages /\ StageTimesOut(r, s)

Fairness ==
  /\ WF_vars(Register)
  /\ WF_vars(Start)
  /\ \A r \in AllRuns : WF_vars(LevelEnds(r)) /\ \A s \in AllStages : WF_vars(TimerFires(r, s))

FairSpec == Spec /\ Fairness

-----------------------------------------------------------------------------
(* The type invariant: a run's level and attempts stay within its graph's  *)
(* levels and a stage's retries.                                           *)
TypeOK ==
  /\ graphs \in Experiences
  /\ compiled \in {"none", "ok", "MISSING", "CYCLE"}
  /\ DOMAIN runs = RunIds
  /\ \A r \in RunIds : runs[r] # None =>
       /\ runs[r] \in RunOf(G(r))
       /\ runs[r].level \in 0..LevelCount(G(r))
       /\ \A s \in G(r).stages : runs[r].attempt[s] \in 0..(G(r).retries[s] + 1)
  /\ cancelled \in BOOLEAN
  /\ faults \in 0..MaxFaults

Opened == {r \in RunIds : runs[r] # None}
EventsOf(r, types) == {i \in DOMAIN journal : journal[i].run = r /\ journal[i].type \in types}
Terminals(r) == EventsOf(r, {"pipeline-completed", "pipeline-failed"})
StageEvents(r, s) == {i \in EventsOf(r, {"pipeline-stage"}) : journal[i].stage = s}

(* No stage begins before all that it waits for has settled, through       *)
(* retries, continued failures and late siblings.                          *)
DependenciesSettled ==
  \A r \in Opened : \A s \in G(r).stages :
    runs[r].at[s] # "waiting" =>
      \A x \in Dependencies(G(r), s) : runs[r].at[x] \in Settled

(* A completed run has reported every stage exactly once, before its       *)
(* completion, and no key of its frame was written by two stages.          *)
CompletedIsWhole ==
  \A r \in Opened : runs[r].status = "completed" =>
    /\ \A s \in G(r).stages : Cardinality(StageEvents(r, s)) = 1
    /\ \A i \in Terminals(r) : \A j \in EventsOf(r, {"pipeline-stage", "pipeline-started"}) : j < i
    /\ \A s, x \in G(r).stages :
         s # x /\ runs[r].at[s] = "completed" /\ runs[r].at[x] = "completed" =>
           G(r).writes[s] \cap G(r).writes[x] = {}

(* The observer hears of an admitted run's end once: completed, or failed, *)
(* after its start; of no end only while the run goes on or when the       *)
(* observer threw.                                                         *)
OneJournaledEnd ==
  \A r \in Opened :
    /\ Cardinality(Terminals(r)) <= 1
    /\ (Terminals(r) = {}) => runs[r].status = "running" \/ faults > 0
    /\ \A i \in Terminals(r) : \E j \in EventsOf(r, {"pipeline-started"}) : j < i

(* A run fails for a reason: a stage without "continue" gave up, two       *)
(* stages wrote one key, the caller cancelled, or the observer threw.      *)
FailureIsJustified ==
  \A r \in Opened : runs[r].status = "failed" =>
    \/ cancelled
    \/ faults > 0
    \/ \E s \in G(r).stages : runs[r].at[s] = "thrown" /\ G(r).failure[s] # "continue"
    \/ Conflict(r)

(* After cancellation nothing new begins: no attempt, no level, no nested  *)
(* run.                                                                    *)
CancelStartsNothing ==
  [][cancelled => \A r \in RunIds :
       IF runs[r] = None
       THEN runs'[r] # None => r = Top /\ \A s \in G(r).stages : runs'[r].attempt[s] = 0
       ELSE runs'[r].attempt = runs[r].attempt]_vars

(* A stage is reported only inside an active run.                          *)
StageWithinRun ==
  \A r \in Opened : \A i \in EventsOf(r, {"pipeline-stage"}) : \A j \in Terminals(r) : i < j

(* What the observer wrote can be replayed by the strict Session fold,     *)
(* whatever fails, times out or is cancelled, as long as no two stages     *)
(* share a level and no Pipeline is started twice.                         *)
Projection == INSTANCE SessionProjection
JournalReplays == Projection!ProjectSession(journal).ok

Sequential ==
  \A p \in DOMAIN graphs :
    Compiles(graphs[p]) /\ LevelCount(graphs[p]) = Cardinality(graphs[p].stages)
StartsOnce ==
  /\ \A s \in Nested : graphs[Root].retries[s] = 0
  /\ \A s, x \in Nested : graphs[Root].invokes[s] = graphs[Root].invokes[x] => s = x

SequentialJournalReplays == Sequential /\ StartsOnce => StageWithinRun /\ JournalReplays

(* A numbering of the stages that puts each one after all it waits for.    *)
Orders(d, rank) == \A s \in d.stages : \A x \in Dependencies(d, s) : rank[x] < rank[s]
Orderable(d) == \E rank \in [d.stages -> 1..Cardinality(d.stages)] : Orders(d, rank)

LevelsOf(d) == [s \in d.stages |-> CHOOSE n \in 1..LevelCount(d) : s \in Level(d, n)]

(* A compiled graph has levels that contain every stage, put each stage    *)
(* after what it waits for, and no later than that forces; a graph whose   *)
(* names are all known is refused exactly when no numbering orders it.     *)
LevelsAreMinimalOrder ==
  LET d == graphs[Root] IN
  /\ compiled = "CYCLE" => ~Orderable(d)
  /\ compiled = "ok" =>
       LET levels == LevelsOf(d) IN
       /\ UNION {Level(d, n) : n \in 1..LevelCount(d)} = d.stages
       /\ Orders(d, levels)
       /\ \A s \in d.stages : levels[s] > 1 =>
            \E x \in Dependencies(d, s) : levels[x] = levels[s] - 1

(* When every stage of the top-level graph has a timeout, the run ends     *)
(* whatever its operations and nested runs do, retries included.           *)
RunEnds ==
  (\A s \in graphs[Root].stages : graphs[Root].timed[s]) =>
    <>(runs[Top] # None /\ runs[Top].status # "running")

(* Stages run in the order of the compiled graph: its levels are the least   *)
(* that the declared dependencies allow, and no stage begins before them.   *)
OrderIsKept == LevelsAreMinimalOrder /\ DependenciesSettled

(* An admitted run ends once, whole or for a reason, within its attempts.    *)
EndsAreJustified == TypeOK /\ CompletedIsWhole /\ OneJournaledEnd /\ FailureIsJustified
=============================================================================
