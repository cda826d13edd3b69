------------------------------- MODULE Outbox -------------------------------
(***************************************************************************)
(* RpOutbox of packages/rp/outbox: intents with idempotency keys, the      *)
(* dispatches that carry them out, and sagas, which dispatch their steps   *)
(* one after another and compensate for them when one fails.               *)
(*                                                                         *)
(* A task is one activation of saga(), drain() or dispatch(): it runs to   *)
(* the next await, which is a handler's execute() or compensate(), or the  *)
(* return of its own dispatch().  Entries are immutable objects in the     *)
(* code, replaced by update(); as no update repeats a status with the same *)
(* number of attempts, equal records are one object.                       *)
(***************************************************************************)
EXTENDS Naturals, Sequences, SequencesExt, FiniteSets

CONSTANTS
  Nil,
  Keys,          \* idempotency keys
  Handlers,      \* handler ids
  Compensators,  \* handlers with a compensate() of their own
  MaxAttempts,   \* key -> maxAttempts of its intent
  Sagas,         \* activations of saga()
  StepsOf,       \* saga -> its steps, a sequence of [key, handler]
  Intents,       \* what others enqueue
  Dispatchers,   \* activations of drain() or dispatch()
  Abortable,     \* tasks whose caller passes a signal
  MaxDisposals   \* bound on how often a handler's plugin goes away

Settled == {"completed", "failed"}
Step == [key : Keys, handler : Handlers]
Entry == [handler : Handlers, status : Settled \cup {"pending", "running"}, attempts : Nat]
Outcome == Settled \cup {"compensation-failed", "DUPLICATE", "BUSY", "NO_HANDLER"}

ASSUME OutboxAssumption ==
  /\ Compensators \subseteq Handlers
  /\ MaxAttempts \in [Keys -> Nat \ {0}]
  /\ Sagas \cap Dispatchers = {}
  /\ StepsOf \in [Sagas -> Seq(Step)]
  /\ Intents \subseteq Step
  /\ MaxDisposals \in Nat

(* Nil is a value of its own.                                              *)
ASSUME NoneAssumption == Nil \notin Entry \cup Outcome

VARIABLES
  entries,    \* RpOutbox.entries: key -> Nil or [handler, status, attempts]
  handlers,   \* the keys of RpOutbox.handlers
  tasks,      \* where each task stands
  carried,    \* key -> how often its effect was carried out
  disposed    \* handlers that have been disposed of, one for each time

outboxVars == <<entries, handlers, tasks, carried, disposed>>

Tasks == Sagas \cup Dispatchers
TaskAt(p, place) == tasks[p].at = place

(* todo: steps whose dispatch has not returned; held: the entry in hand;   *)
(* done: the steps completed; undo, undone: the positions in "done" of     *)
(* those still to compensate and of those compensated.                     *)
NewTask(steps) ==
  [at |-> "idle", todo |-> steps, held |-> Nil, done |-> <<>>, undo |-> <<>>,
   undone |-> <<>>, harmed |-> FALSE, aborted |-> FALSE, outcome |-> Nil]

OutboxInit ==
  /\ entries = [k \in Keys |-> Nil]
  /\ handlers = {}
  /\ tasks = [p \in Tasks |-> NewTask(IF p \in Sagas THEN StepsOf[p] ELSE <<>>)]
  /\ carried = [k \in Keys |-> 0]
  /\ disposed = <<>>

Register(h) ==
  /\ h \notin handlers
  /\ handlers' = handlers \cup {h}
  /\ UNCHANGED <<entries, tasks, carried, disposed>>

(* The disposer that register() returned.                                  *)
Dispose(h) ==
  /\ h \in handlers
  /\ Len(disposed) < MaxDisposals
  /\ handlers' = handlers \ {h}
  /\ disposed' = Append(disposed, h)
  /\ UNCHANGED <<entries, tasks, carried>>

AbortTask(p) ==
  /\ p \in Abortable
  /\ ~TaskAt(p, "settled")
  /\ ~tasks[p].aborted
  /\ tasks' = [tasks EXCEPT ![p].aborted = TRUE]
  /\ UNCHANGED <<entries, handlers, carried, disposed>>

-----------------------------------------------------------------------------
(* What an attempt leaves behind when it fails.                            *)
Failed(k, entry) ==
  [entry EXCEPT !.status = IF entry.attempts >= MaxAttempts[k] THEN "failed" ELSE "pending"]

NewEntry(step) == [handler |-> step.handler, status |-> "pending", attempts |-> 0]
Enqueued(step) == IF entries[step.key] = Nil THEN NewEntry(step) ELSE entries[step.key]

Settle(task, outcome) == [task EXCEPT !.at = "settled", !.held = Nil, !.outcome = outcome]
Returned(task, entry) == [task EXCEPT !.at = "returned", !.held = entry]

(* A slip: a running entry is dispatched again.                            *)
SlipRefusal(step, entry) ==
  IF entry.handler # step.handler THEN "DUPLICATE"
  ELSE IF entry.status \notin Settled /\ entry.handler \notin handlers THEN "NO_HANDLER"
  ELSE Nil

(* Why enqueue() and dispatch() throw, if they do.                         *)
Refusal(step, entry) ==
  IF entry.handler # step.handler THEN "DUPLICATE"
  ELSE IF entry.status = "running" THEN "BUSY"
  ELSE IF entry.status \notin Settled /\ entry.handler \notin handlers THEN "NO_HANDLER"
  ELSE Nil

(* A slip: a failed entry is tried again.                                  *)
SlipReturnsAtOnce(entry) == entry.status = "completed"

ReturnsAtOnce(entry) == entry.status \in Settled

(* Task p, whose record becomes "task", enqueues and dispatches the first  *)
(* of its remaining steps: everything up to the await of execute().  With  *)
(* an aborted signal the attempt fails before the handler is called.       *)
Dispatch(p, task) ==
  LET step    == Head(task.todo)
      entry   == Enqueued(step)
      running == [entry EXCEPT !.status = "running", !.attempts = @ + 1]
      failed  == Failed(step.key, running)
      leave(next, e) ==
        /\ tasks' = [tasks EXCEPT ![p] = next]
        /\ entries' = [entries EXCEPT ![step.key] = e]
  IN  IF Refusal(step, entry) # Nil THEN leave(Settle(task, Refusal(step, entry)), entry)
      ELSE IF ReturnsAtOnce(entry) THEN leave(Returned(task, entry), entry)
      ELSE IF task.aborted THEN leave(Returned(task, failed), failed)
      ELSE leave([task EXCEPT !.at = "executing", !.held = running], running)

(* Go on with the remaining steps, or settle.                              *)
Proceed(p, task) ==
  IF task.todo = <<>>
  THEN tasks' = [tasks EXCEPT ![p] = Settle(task, "completed")] /\ UNCHANGED entries
  ELSE Dispatch(p, task)

BeginSaga(p) ==
  /\ p \in Sagas
  /\ TaskAt(p, "idle")
  /\ Proceed(p, tasks[p])
  /\ UNCHANGED <<handlers, carried, disposed>>

(* enqueue() by anyone, without a dispatch.                                *)
Enqueue(step) ==
  /\ entries[step.key] = Nil
  /\ entries' = [entries EXCEPT ![step.key] = NewEntry(step)]
  /\ UNCHANGED <<handlers, tasks, carried, disposed>>

(* A drain breaks off when its signal is aborted, and goes on whatever an  *)
(* attempt left.                                                           *)
DrainProceeds(p, task) ==
  IF task.aborted
  THEN tasks' = [tasks EXCEPT ![p] = Settle(task, "completed")] /\ UNCHANGED entries
  ELSE Proceed(p, task)

(* drain() takes a snapshot of what is pending (its limit is not reached), *)
(* sorted by the time of creation, which enqueue() is given: in any order. *)
(* dispatch() is called with one key.                                      *)
Existing == {k \in Keys : entries[k] # Nil}
Pending == {k \in Existing : entries[k].status = "pending"}
StepOf(k) == [key |-> k, handler |-> entries[k].handler]

BeginDispatch(p) ==
  /\ p \in Dispatchers
  /\ TaskAt(p, "idle")
  /\ \/ /\ Pending # {}
        /\ \E listed \in SetToSeqs(Pending) :
             DrainProceeds(p, [tasks[p] EXCEPT
               !.todo = [i \in DOMAIN listed |-> StepOf(listed[i])]])
     \/ \E k \in Existing : Dispatch(p, [tasks[p] EXCEPT !.todo = <<StepOf(k)>>])
  /\ UNCHANGED <<handlers, carried, disposed>>

-----------------------------------------------------------------------------
(* The handler's promise settles, and update() replaces the entry that     *)
(* this task set running.                                                  *)
Update(p, next) ==
  LET k == Head(tasks[p].todo).key IN
  IF entries[k] = tasks[p].held
  THEN /\ entries' = [entries EXCEPT ![k] = next]
       /\ tasks' = [tasks EXCEPT ![p] = Returned(@, next)]
  ELSE /\ tasks' = [tasks EXCEPT ![p] = Settle(@, "BUSY")]
       /\ UNCHANGED entries

ExecuteSucceeds(p) ==
  /\ TaskAt(p, "executing")
  /\ carried' = [carried EXCEPT ![Head(tasks[p].todo).key] = @ + 1]
  /\ Update(p, [tasks[p].held EXCEPT !.status = "completed"])
  /\ UNCHANGED <<handlers, disposed>>

ExecuteFails(p) ==
  /\ TaskAt(p, "executing")
  /\ Update(p, Failed(Head(tasks[p].todo).key, tasks[p].held))
  /\ UNCHANGED <<handlers, carried, disposed>>

(* A slip: a drain goes on with a step until it is completed.              *)
SlipDrainsAgain(p) ==
  /\ p \in Dispatchers
  /\ TaskAt(p, "returned")
  /\ DrainProceeds(p, [tasks[p] EXCEPT
       !.todo = IF tasks[p].held.status = "completed" THEN Tail(@) ELSE @])
  /\ UNCHANGED <<handlers, carried, disposed>>

DrainGoesOn(p) ==
  /\ p \in Dispatchers
  /\ TaskAt(p, "returned")
  /\ DrainProceeds(p, [tasks[p] EXCEPT !.todo = Tail(@)])
  /\ UNCHANGED <<handlers, carried, disposed>>

(* A completed entry of a saga carries its result: execute() promises one.  *)
SagaGoesOn(p) ==
  /\ p \in Sagas
  /\ TaskAt(p, "returned")
  /\ tasks[p].held.status = "completed"
  /\ Proceed(p, [tasks[p] EXCEPT !.done = Append(@, Head(tasks[p].todo)), !.todo = Tail(@)])
  /\ UNCHANGED <<handlers, carried, disposed>>

-----------------------------------------------------------------------------
(* The loop over completed steps calls the next compensator that is        *)
(* registered now, and passes over the steps that have none.               *)
CanUndo(step) == step.handler \in handlers \cap Compensators

NextUndo(p, task) ==
  LET waiting == {i \in DOMAIN task.undo : CanUndo(task.done[task.undo[i]])}
      nearest == CHOOSE i \in waiting : \A j \in waiting : i <= j
  IN  tasks' = [tasks EXCEPT ![p] =
        IF waiting = {}
        THEN [Settle(task, IF task.harmed THEN "compensation-failed" ELSE "failed")
                EXCEPT !.undo = <<>>]
        ELSE [task EXCEPT !.at = "undoing", !.held = Nil,
                          !.undo = SubSeq(@, nearest, Len(@))]]

(* A slip: in the order in which the steps were completed.                 *)
SlipUndoOrder(done) == [i \in DOMAIN done |-> i]

UndoOrder(done) == [i \in DOMAIN done |-> Len(done) + 1 - i]

(* Every step but a completed one fails the saga, a step that could be     *)
(* tried again as well.                                                    *)
SagaFails(p) ==
  /\ p \in Sagas
  /\ TaskAt(p, "returned")
  /\ tasks[p].held.status # "completed"
  /\ NextUndo(p, [tasks[p] EXCEPT !.undo = UndoOrder(tasks[p].done)])
  /\ UNCHANGED <<entries, handlers, carried, disposed>>

CompensateSucceeds(p) ==
  /\ p \in Sagas
  /\ TaskAt(p, "undoing")
  /\ LET task == tasks[p] IN
     NextUndo(p, [task EXCEPT !.undone = Append(@, Head(task.undo)), !.undo = Tail(@)])
  /\ UNCHANGED <<entries, handlers, carried, disposed>>

CompensateFails(p) ==
  /\ p \in Sagas
  /\ TaskAt(p, "undoing")
  /\ NextUndo(p, [tasks[p] EXCEPT !.harmed = TRUE, !.undo = Tail(@)])
  /\ UNCHANGED <<entries, handlers, carried, disposed>>

TaskContinuation(p) ==
  \/ ExecuteSucceeds(p) \/ ExecuteFails(p)
  \/ DrainGoesOn(p) \/ SagaGoesOn(p) \/ SagaFails(p)
  \/ CompensateSucceeds(p) \/ CompensateFails(p)

OutboxNext ==
  \/ \E h \in Handlers : Register(h) \/ Dispose(h)
  \/ \E step \in Intents : Enqueue(step)
  \/ \E p \in Tasks : AbortTask(p) \/ BeginSaga(p) \/ BeginDispatch(p) \/ TaskContinuation(p)

OutboxSpec == OutboxInit /\ [][OutboxNext]_outboxVars

(* Handlers settle, and the tasks that await them go on.                   *)
FairOutboxSpec == OutboxSpec /\ \A p \in Tasks : WF_outboxVars(TaskContinuation(p))

-----------------------------------------------------------------------------
Task ==
  [at : {"idle", "executing", "returned", "undoing", "settled"},
   todo : Seq(Step), held : Entry \cup {Nil}, done : Seq(Step),
   undo : Seq(Nat), undone : Seq(Nat), harmed : BOOLEAN, aborted : BOOLEAN,
   outcome : Outcome \cup {Nil}]

(* The type invariant; an entry has never more attempts than its intent    *)
(* allows.                                                                 *)
OutboxTypeOK ==
  /\ entries \in [Keys -> Entry \cup {Nil}]
  /\ \A k \in Keys : entries[k] # Nil => entries[k].attempts <= MaxAttempts[k]
  /\ handlers \subseteq Handlers
  /\ tasks \in [Tasks -> Task]
  /\ carried \in [Keys -> Nat]
  /\ disposed \in Seq(Handlers)

(* "retries without duplicating a completed effect": whatever tasks race   *)
(* for a key, an entry says truthfully whether its effect was carried out, *)
(* is under way in exactly one task, or was given up; and that task finds  *)
(* the entry as it left it.                                                *)
EntryTellsEffect ==
  \A k \in Keys :
    LET status == IF entries[k] = Nil THEN "absent" ELSE entries[k].status
        busy   == {p \in Tasks : TaskAt(p, "executing") /\ Head(tasks[p].todo).key = k}
    IN  /\ carried[k] = IF status = "completed" THEN 1 ELSE 0
        /\ Cardinality(busy) = IF status = "running" THEN 1 ELSE 0
        /\ \A p \in busy : tasks[p].held = entries[k]
        /\ status = "failed" => entries[k].attempts = MaxAttempts[k]

(* A settled entry is explicit and terminal: no later dispatch, drain or   *)
(* saga that uses its key changes it.                                      *)
SettledStays ==
  [][\A k \in Keys :
       entries[k] # Nil /\ entries[k].status \in Settled => entries'[k] = entries[k]]_outboxVars

(* "Saga steps execute sequentially and compensate successful steps in     *)
(* reverse order": a saga that reports failure has compensated each of its *)
(* completed steps once, the last one first, unless the step has no        *)
(* compensator or its plugin went away; one that reports success has had   *)
(* all of its effects carried out.                                         *)
Owed(step) == step.handler \in Compensators \ ToSet(disposed)

(* What was compensated went backwards through "done", and left out no     *)
(* step that was owed it.                                                  *)
UndoneInOrder(task) ==
  /\ \A i, j \in DOMAIN task.undone : i < j => task.undone[i] > task.undone[j]
  /\ \A n \in DOMAIN task.done : Owed(task.done[n]) => n \in ToSet(task.undone)

SagaUndoesInOrder ==
  \A p \in Sagas :
    LET task == tasks[p] IN
    /\ task.outcome = "failed" => UndoneInOrder(task)
    /\ task.outcome = "completed" =>
         /\ task.done = StepsOf[p]
         /\ \A i \in DOMAIN task.done : carried[task.done[i].key] = 1

(* The same of every saga that has ended without success, thrown errors    *)
(* included, as long as no compensation failed.                            *)
FailedSagaIsUndone ==
  \A p \in Sagas :
    tasks[p].outcome \notin {Nil, "completed", "compensation-failed"} => UndoneInOrder(tasks[p])

(* A task that has begun ends: none waits for another, and neither an      *)
(* attempt nor a compensation that fails holds up what comes after it.     *)
TaskEnds == \A p \in Tasks : ~TaskAt(p, "idle") ~> TaskAt(p, "settled")

(* Entries stay within their attempts and say what became of their effects.  *)
EntriesAreTrue == OutboxTypeOK /\ EntryTellsEffect
=============================================================================
