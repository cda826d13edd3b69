---------------------------- MODULE WorkflowRouter ----------------------------
(***************************************************************************)
(* Execution of workflows and of the code of packages.                     *)
(* packages/rp/workflow-router selects a                                   *)
(* backend by kind, trust and priority and follows one run to one outcome, *)
(* and its backends: the built-in evaluator of declarative expressions,    *)
(* the Worker Thread and the child process of workflow-backends-local, the *)
(* WASM worker and the QuickJS process of workflow-backends-sandbox, and   *)
(* any other that is registered ("remote"), which need not heed a signal.  *)
(* lifecycle-l1 sends the code of L1 packages to the sandboxes; native code *)
(* of L2 packages is run by lifecycle-l2 itself, in this process.           *)
(*                                                                         *)
(* Microtasks run before any timer or event, so a step goes on to the next *)
(* such await.  A request is [kind, backend, requires, trust, authority,   *)
(* timeout, payload]; None stands for what it leaves out.                  *)
(***************************************************************************)
EXTENDS Integers, Sequences, SequencesExt, FiniteSets, Functions

CONSTANTS
  None,
  BackendDefs,     \* [id, rank, kind, trust, priority, kinds]
  Requests,
  Invocations,     \* of L1 capabilities: [kind, backend, input, numbers, authority, timeout, payload]
  Natives,         \* requests for L2 capabilities, [payload |-> [function, result], ...]
  MaxTimeout,      \* MAX_TIMEOUT_MS of the sandbox backends
  DefaultTimeout,
  Modules,         \* WASM modules by their sections
  MaxWasmBytes, MaxMemoryPages, MaxTableElements,   \* ceilings of validateWasmLayout()
  MaxDepth, MaxCount,    \* limits of the evaluator
  MaxRuns, MaxChanges    \* bounds

VARIABLES
  backends,        \* id -> definition
  handles,         \* disposers not called yet
  runs,            \* what was started, in order
  changes

wrVars == <<backends, handles, runs, changes>>

Init == backends = <<>> /\ handles = {} /\ runs = <<>> /\ changes = 0

Register(b) ==
  /\ changes < MaxChanges /\ b.id \notin DOMAIN backends /\ b.kinds # {}
  /\ backends' = (b.id :> b) @@ backends
  /\ handles' = handles \cup {b} /\ changes' = changes + 1
  /\ UNCHANGED runs
Unregister(b) ==
  /\ b \in handles /\ changes < MaxChanges
  /\ handles' = handles \ {b} /\ changes' = changes + 1
  /\ backends' = IF backends[b.id] = b THEN Restrict(backends, DOMAIN backends \ {b.id}) ELSE backends
  /\ UNCHANGED runs

-----------------------------------------------------------------------------
(* Selection.                                                              *)
AuthorityAllows(request, b) == b.trust <= (IF request.authority = None THEN 0 ELSE request.authority.trust)
Before(b, c) == b.priority > c.priority \/ (b.priority = c.priority /\ b.rank < c.rank)
Meets(request, b) ==
  /\ request.requires \in {None, b.kind}
  /\ request.trust # None => request.trust <= b.trust
Candidates(request) ==
  {b \in Range(backends) : request.kind \in b.kinds /\ AuthorityAllows(request, b) /\ Meets(request, b)}
(* The backend selected, or the empty set for an error.                    *)
Select(request) ==
  IF request.backend = None
  THEN {b \in Candidates(request) : \A c \in Candidates(request) \ {b} : Before(b, c)}
  ELSE {b \in Candidates(request) : b.id = request.backend}

(* start(): nothing has run yet; the timer is armed with the time limit of *)
(* the request, or else of its authority.                                  *)
Timeout(request) ==
  IF request.timeout # None THEN request.timeout
  ELSE IF request.authority # None THEN request.authority.timeout ELSE None
Start(request, aborted) ==
  /\ Len(runs) < MaxRuns
  /\ \E b \in Select(request) :
       runs' = Append(runs, [request |-> request, backend |-> b, at |-> "queued", aborted |-> aborted,
                             timer |-> Timeout(request) # None, rang |-> FALSE, executor |-> "none", result |-> None])
  /\ UNCHANGED <<backends, handles, changes>>

(* lifecycle-l1: a capability names no other backend than its deployment    *)
(* does, and asks for the kind that its code is made for.                    *)
L1Request(call) ==
  [kind |-> "workflow", backend |-> call.backend, requires |-> call.kind, trust |-> 1,
   authority |-> call.authority, timeout |-> call.timeout, payload |-> call.payload]
InvokeL1(call, aborted) ==
  /\ call.kind = "wasm" => call.numbers
  /\ Start(L1Request(call), aborted)

-----------------------------------------------------------------------------
(* The evaluator.  A JSON value is [t |-> "atom", v], [t |-> "object", m]  *)
(* or [t |-> "array", s]; an expression is a value or a record with an op. *)
(* The count of evaluated nodes runs through the whole evaluation.         *)
Atom(v) == [t |-> "atom", v |-> v]
Truthy(value) == ~(value.t = "atom" /\ value.v \in {"null", "false", ""})
Failed(count) == [ok |-> FALSE, value |-> Atom("null"), count |-> count]
Got(value, count) == [ok |-> TRUE, value |-> value, count |-> count]
Field(value, key) ==
  IF value.t = "object" /\ key \in DOMAIN value.m THEN value.m[key] ELSE Atom("null")

RECURSIVE Evaluate(_, _, _, _)
RECURSIVE EvaluateAll(_, _, _, _)
Evaluate(e, input, depth, before) ==
  LET count == before + 1
      Sub(x, from) == Evaluate(x, input, depth + 1, from)
  IN IF depth > MaxDepth \/ count > MaxCount THEN Failed(count)
     ELSE IF "op" \notin DOMAIN e THEN Got(e, count)
     ELSE CASE e.op = "input" -> Got(input, count)
            [] e.op = "get" ->
                 LET source == Sub(e.from, count)
                 IN IF source.ok THEN Got(Field(source.value, e.key), source.count) ELSE source
            [] e.op = "if" ->
                 LET condition == Sub(e.condition, count)
                 IN IF ~condition.ok THEN condition
                    ELSE Sub(IF Truthy(condition.value) THEN e.then ELSE e.else, condition.count)
            [] e.op = "object" ->     \* the keys in their order
                 LET items == EvaluateAll(e.items, input, depth + 1, count)
                     Index(k) == CHOOSE i \in DOMAIN e.keys : e.keys[i] = k
                 IN IF ~items.ok THEN Failed(items.count)
                    ELSE Got([t |-> "object", m |-> [k \in ToSet(e.keys) |-> items.value[Index(k)]]], items.count)
            [] e.op = "array" ->
                 LET items == EvaluateAll(e.items, input, depth + 1, count)
                 IN IF items.ok THEN Got([t |-> "array", s |-> items.value], items.count) ELSE Failed(items.count)
            [] OTHER -> Failed(count)
EvaluateAll(items, input, depth, count) ==
  IF items = <<>> THEN Got(<<>>, count)
  ELSE LET first == Evaluate(Head(items), input, depth, count)
           rest == EvaluateAll(Tail(items), input, depth, first.count)
       IN IF ~first.ok THEN first
          ELSE IF ~rest.ok THEN rest
          ELSE Got(<<first.value>> \o rest.value, rest.count)

(* The payload must be an object with an expression.                       *)
Deterministic(payload) ==
  IF "expression" \in DOMAIN payload THEN Evaluate(payload.expression, payload.input, 0, 0) ELSE Failed(0)

-----------------------------------------------------------------------------
(* validateWasmLayout() of workflow-backends-sandbox: what a WebAssembly     *)
(* module may ask for is read off its bytes before anything compiles it.  A  *)
(* cursor is [at, stop, ok, value]: the next byte to read, the end of its    *)
(* section, whether it has failed, and what it read last; offsets count from *)
(* 1 here.  Numbers stay below 2^31.                                         *)
Header == <<0, 97, 115, 109, 1, 0, 0, 0>>
Cursor(at, stop) == [at |-> at, stop |-> stop, ok |-> TRUE, value |-> 0]
Fail(c) == [c EXCEPT !.ok = FALSE]
Check(c, holds) == IF c.ok /\ ~holds THEN Fail(c) ELSE c
Done(c) == c.at = c.stop

Byte(bytes, c) ==
  IF ~c.ok \/ c.at >= c.stop THEN Fail(c) ELSE [c EXCEPT !.at = @ + 1, !.value = bytes[c.at]]

(* u32(): seven bits of each byte, the lowest first, from at most five     *)
(* bytes, of which the last may hold four bits.                            *)
Top == 16
U32(bytes, c) ==
  LET reads[k \in 1..5] == Byte(bytes, IF k = 1 THEN c ELSE reads[k - 1])
      ends == {k \in 1..5 : reads[k].ok /\ reads[k].value < 128}
      last == CHOOSE k \in ends : \A j \in ends : k <= j
      Bits(k) == (reads[k].value % 128) * 2 ^ (7 * (k - 1))
  IN IF ends = {} \/ (last = 5 /\ reads[5].value >= Top) THEN Fail(c)
     ELSE [reads[last] EXCEPT !.value = FoldLeft(LAMBDA acc, k : acc + Bits(k), 0, [k \in 1..last |-> k])]

(* Limits must say a maximum (flag 1), in order and within the ceiling.    *)
Limits(bytes, c, ceiling) ==
  LET flags == U32(bytes, c)
      low == U32(bytes, Check(flags, flags.value = 1))
      high == U32(bytes, low)
  IN Check(high, low.value <= high.value /\ high.value <= ceiling)

(* Both sections hold one declaration at most and nothing after it.        *)
Ends(c) == c.ok /\ Done(c)
MemorySection(bytes, c) ==
  LET count == U32(bytes, c)
  IN Ends(CASE count.ok /\ count.value = 0 -> count
            [] count.ok /\ count.value = 1 -> Limits(bytes, count, MaxMemoryPages)
            [] OTHER -> Fail(count))
TableSection(bytes, c) ==
  LET count == U32(bytes, c)
      type == Byte(bytes, count)
  IN Ends(CASE count.ok /\ count.value = 0 -> count
            [] count.ok /\ count.value = 1 -> Limits(bytes, Check(type, type.value \in {112, 111}), MaxTableElements)
            [] OTHER -> Fail(count))

(* From the section at `at` to the end of the bytes.                       *)
RECURSIVE SectionsFrom(_, _)
SectionsFrom(bytes, at) ==
  LET id == Byte(bytes, Cursor(at, Len(bytes) + 1))
      size == U32(bytes, id)
      stop == size.at + size.value
      body == Cursor(size.at, stop)
  IN \/ at = Len(bytes) + 1
     \/ /\ size.ok /\ stop <= Len(bytes) + 1
        /\ id.value = 4 => TableSection(bytes, body)
        /\ id.value = 5 => MemorySection(bytes, body)
        /\ id.value # 8
        /\ SectionsFrom(bytes, stop)
ValidateWasmLayout(bytes) ==
  /\ Len(bytes) \in 8..MaxWasmBytes /\ SubSeq(bytes, 1, 8) = Header
  /\ SectionsFrom(bytes, 9)

(* A reference: modules as lists of sections [id, rows], a row of a table  *)
(* or memory [flags, low, high], written with `pad` bytes to spare in each *)
(* number.                                                                 *)
RECURSIVE Encoded(_, _)
Encoded(n, pad) ==
  IF n < 128 /\ pad = 0 THEN <<n>>
  ELSE <<128 + (n % 128)>> \o Encoded(n \div 128, IF pad = 0 THEN 0 ELSE pad - 1)
Body(s, pad) ==
  LET Row(r) == (IF s.id = 4 THEN <<112>> ELSE <<>>) \o Encoded(r.flags, pad) \o Encoded(r.low, pad)
                  \o (IF r.flags = 1 THEN Encoded(r.high, pad) ELSE <<>>)
  IN Encoded(Len(s.rows), pad) \o FlattenSeq([i \in DOMAIN s.rows |-> Row(s.rows[i])])
Written(sections, pad) ==
  Header \o FlattenSeq([i \in DOMAIN sections |->
              LET body == Body(sections[i], pad) IN <<sections[i].id>> \o Encoded(Len(body), pad) \o body])
(* Sections that ask for a bounded table and a bounded memory.             *)
Modest(s) ==
  /\ s.id # 8
  /\ s.id \in {4, 5} =>
       /\ Len(s.rows) <= 1
       /\ \A i \in DOMAIN s.rows :
            /\ s.rows[i].flags = 1 /\ s.rows[i].low <= s.rows[i].high
            /\ s.rows[i].high <= (IF s.id = 4 THEN MaxTableElements ELSE MaxMemoryPages)

-----------------------------------------------------------------------------
(* A run ends: the outcome is told, the timer cleared, the listener gone.  *)
Ended(run, status, value) ==
  [run EXCEPT !.at = "settled", !.timer = FALSE, !.result = [status |-> status, value |-> value]]
Status(run) == IF run.rang THEN "timed-out" ELSE IF run.aborted THEN "cancelled" ELSE "failed"
Rejected(run) == Ended(run, Status(run), None)
Update(n, run) == runs' = [runs EXCEPT ![n] = run] /\ UNCHANGED <<backends, handles, changes>>

Sandboxed(run) == run.backend.kind \in {"wasm", "quickjs"}
Local(run) == run.backend.kind \in {"worker-thread", "isolated-process"} \/ Sandboxed(run)
(* The payloads of the sandbox backends have nothing but their own fields. *)
WholeSource(payload) == payload.form = "quickjs" /\ payload.whole
WholeModule(payload) ==
  /\ payload.form = "wasm" /\ payload.whole
  /\ ValidateWasmLayout(Written(payload.sections, payload.pad))
(* authorize() and the parsers of the sandbox backends, encodePayload() of *)
(* the local ones.  A WASM module is written out by its sections.          *)
Admitted(run) ==
  IF Sandboxed(run)
  THEN /\ run.request.authority # None /\ run.request.authority.trust >= 1
       /\ "script.execute" \in run.request.authority.permissions
       /\ IF run.backend.kind = "wasm" THEN WholeModule(run.request.payload) ELSE WholeSource(run.request.payload)
  ELSE run.request.payload.whole

(* execute(): the evaluator answers at once, another backend begins.       *)
Execute(n) ==
  LET run == runs[n]
      answer == Deterministic(run.request.payload)
  IN /\ run.at = "queued"
     /\ Update(n,
          IF run.backend.kind = "deterministic"
          THEN IF run.aborted \/ ~answer.ok THEN Rejected(run) ELSE Ended(run, "completed", answer.value)
          ELSE IF Local(run) /\ (run.aborted \/ ~Admitted(run)) THEN Rejected(run)
          ELSE [run EXCEPT !.at = "executing", !.executor = IF Local(run) THEN "alive" ELSE "none"])

(* The signal of the run: a local executor is killed and the run rejected; *)
(* a remote one hears of it.                                               *)
(* A plausible slip: the executor is left to itself.                        *)
SlipSignal(run) == IF run.at = "executing" /\ Local(run) THEN Rejected(run) ELSE run
Signal(run) ==
  IF run.at = "executing" /\ Local(run) THEN Rejected([run EXCEPT !.executor = "killed"]) ELSE run
Abort(n) ==
  /\ runs[n].at # "settled" /\ ~runs[n].aborted
  /\ Update(n, Signal([runs[n] EXCEPT !.aborted = TRUE]))
TimerFires(n) ==
  /\ runs[n].timer
  /\ Update(n, Signal([runs[n] EXCEPT !.aborted = TRUE, !.rang = TRUE, !.timer = FALSE]))

(* resolveTimeout(): a sandbox keeps a clock of its own, which is set after *)
(* the router's and so rings first only with a smaller limit.              *)
ResolveTimeout(request) ==
  LET candidate == IF Timeout(request) = None THEN DefaultTimeout ELSE Timeout(request)
  IN IF candidate < MaxTimeout THEN candidate ELSE MaxTimeout
SandboxTimerFires(n) ==
  /\ runs[n].at = "executing" /\ Sandboxed(runs[n])
  /\ runs[n].timer => ResolveTimeout(runs[n].request) < Timeout(runs[n].request)
  /\ Update(n, Rejected([runs[n] EXCEPT !.executor = "killed"]))

(* What the executor does.  A worker that answers is terminated, a process *)
(* has closed; too much output kills a process.                            *)
Value(run) ==
  IF Sandboxed(run) THEN Got(run.request.payload.input, 0) ELSE Deterministic(run.request.payload)
Answers(n) ==
  LET run == [runs[n] EXCEPT !.executor = IF Local(runs[n]) THEN "gone" ELSE "none"]
      answer == Value(run)
  IN /\ runs[n].at = "executing"
     /\ Update(n, IF answer.ok THEN Ended(run, "completed", answer.value) ELSE Rejected(run))
Breaks(n) ==
  /\ runs[n].at = "executing"
  /\ Update(n, Rejected([runs[n] EXCEPT !.executor = IF Local(runs[n]) THEN "gone" ELSE "none"]))
Overflows(n) ==
  /\ runs[n].at = "executing" /\ runs[n].backend.kind \in {"isolated-process", "quickjs"}
  /\ Update(n, Rejected([runs[n] EXCEPT !.executor = "killed"]))
Exits(n) == runs[n].executor = "killed" /\ Update(n, [runs[n] EXCEPT !.executor = "gone"])

-----------------------------------------------------------------------------
(* executeNative(): the function of the package races its timer and the     *)
(* signal.  Nothing can stop it: it is told by a signal of its own, and may *)
(* go on after the race.                                                    *)
Native == [id |-> "native", rank |-> 0, kind |-> "native", trust |-> 2, priority |-> 0, kinds |-> {"workflow"}]
StartNative(request, aborted) ==
  /\ Len(runs) < MaxRuns /\ request.authority.trust = 2 /\ "native.execute" \in request.authority.permissions
  /\ LET run == [request |-> request, backend |-> Native, at |-> "executing", aborted |-> aborted, timer |-> TRUE,
                 rang |-> FALSE, executor |-> "none", result |-> None]
     IN runs' = Append(runs, IF aborted THEN Ended(run, "CANCELLED", None)
                             ELSE IF ~request.payload.function THEN Ended(run, "SOURCE", None)
                             ELSE [run EXCEPT !.executor = "alive"])
  /\ UNCHANGED <<backends, handles, changes>>
(* The signal is passed on with its reason, which may read "timeout".       *)
NativeAborts(n, reason) ==
  LET run == [runs[n] EXCEPT !.aborted = TRUE]
  IN /\ runs[n].backend = Native /\ runs[n].at = "executing" /\ ~runs[n].aborted
     /\ Update(n, IF reason = "timeout" THEN run ELSE Ended(run, "CANCELLED", None))
NativeTimer(run) == Ended([run EXCEPT !.rang = TRUE, !.aborted = TRUE], "TIMEOUT", None)
NativeTimerFires(n) ==
  /\ runs[n].backend = Native /\ runs[n].timer
  /\ Update(n, NativeTimer(runs[n]))
JsonResult(result) == CASE result = "json" -> "completed" [] result = "throws" -> "EXECUTION" [] OTHER -> "OUTPUT"
NativeEnds(n) ==
  LET run == [runs[n] EXCEPT !.executor = "gone"]
  IN /\ runs[n].backend = Native /\ runs[n].executor = "alive"
     /\ Update(n, IF run.at = "settled" THEN run ELSE Ended(run, JsonResult(run.request.payload.result), None))

Next ==
  \/ \E b \in BackendDefs : Register(b) \/ Unregister(b)
  \/ \E request \in Requests, aborted \in BOOLEAN : Start(request, aborted)
  \/ \E call \in Invocations, aborted \in BOOLEAN : InvokeL1(call, aborted)
  \/ \E request \in Natives, aborted \in BOOLEAN : StartNative(request, aborted)
  \/ \E n \in 1..Len(runs) :
       \/ NativeTimerFires(n) \/ NativeEnds(n) \/ \E reason \in {"timeout", "other"} : NativeAborts(n, reason)
  \/ \E n \in {m \in 1..Len(runs) : runs[m].backend # Native} :
       \/ Execute(n) \/ Abort(n) \/ TimerFires(n) \/ SandboxTimerFires(n)
       \/ Answers(n) \/ Breaks(n) \/ Overflows(n) \/ Exits(n)

Spec == Init /\ [][Next]_wrVars

-----------------------------------------------------------------------------
(* The value of an expression without limits.                              *)
RECURSIVE Meaning(_, _)
Meaning(e, input) ==
  IF "op" \notin DOMAIN e THEN e
  ELSE CASE e.op = "input" -> input
         [] e.op = "get" -> Field(Meaning(e.from, input), e.key)
         [] e.op = "if" -> Meaning(IF Truthy(Meaning(e.condition, input)) THEN e.then ELSE e.else, input)
         [] e.op = "object" ->
              [t |-> "object",
               m |-> [k \in ToSet(e.keys) |-> Meaning(e.items[CHOOSE i \in DOMAIN e.keys : e.keys[i] = k], input)]]
         [] e.op = "array" -> [t |-> "array", s |-> [i \in DOMAIN e.items |-> Meaning(e.items[i], input)]]

(* A workflow never runs with more trust than the request carries, and a   *)
(* script only with the permission to run scripts; a request that any      *)
(* backend may serve is served by the first of those that may; a WASM      *)
(* module that runs has bounded its memory and table and starts nothing;   *)
(* the code of an L1 package runs in a sandbox of its kind or not at all.   *)
RunsStayInTrust ==
  \A n \in DOMAIN runs : LET run == runs[n] IN
    /\ run.backend.trust <= (IF run.request.authority = None THEN 0 ELSE run.request.authority.trust)
    /\ (Sandboxed(run) /\ run.executor # "none") => "script.execute" \in run.request.authority.permissions
    /\ run.request.requires \in {None, run.backend.kind} /\ (run.request.trust = 1 => run.backend.trust >= 1)
    /\ (run.backend.kind = "wasm" /\ run.executor = "alive") =>
         \A i \in DOMAIN run.request.payload.sections : Modest(run.request.payload.sections[i])

(* An outcome says what happened, whatever races what: a value was given,  *)
(* the time was up, the run was called off, or it failed by itself; no     *)
(* worker or process of a settled run is left to itself; and native code   *)
(* that goes on after its run was told to stop.                            *)
OutcomesAreTrue ==
  \A n \in DOMAIN runs : LET run == runs[n] IN run.result # None =>
    /\ run.executor = "alive" => run.backend = Native /\ run.aborted
    /\ ~run.timer
    /\ CASE run.result.status = "completed" ->
              ~(Sandboxed(run) \/ run.backend = Native) => run.result.value = Meaning(run.request.payload.expression, run.request.payload.input)
         [] run.result.status = "timed-out" -> run.rang /\ Timeout(run.request) # None
         [] run.result.status = "TIMEOUT" -> run.rang
         [] run.result.status \in {"cancelled", "CANCELLED"} -> run.aborted /\ ~run.rang
         [] run.backend = Native -> ~run.rang /\ run.executor # "alive"
         [] OTHER -> ~run.aborted /\ ~run.rang

(* A WASM module is admitted exactly when each of its sections asks for no *)
(* more than it may, however its numbers are written.                      *)
ModulesAreJudged ==
  changes = 0 => \A m \in Modules, pad \in {0, 1, 4} :
    ValidateWasmLayout(Written(m, pad)) = \A i \in DOMAIN m : Modest(m[i])

WorkflowsAreSound == RunsStayInTrust /\ OutcomesAreTrue /\ ModulesAreJudged
=============================================================================
