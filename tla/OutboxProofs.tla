---------------------------- MODULE OutboxProofs ----------------------------
(***************************************************************************)
(* Proofs about Outbox, for any keys, handlers, sagas, drains and          *)
(* dispatches: an entry tells truthfully what became of its effect, a      *)
(* settled entry stays as it is, and a saga compensates in reverse order.  *)
(***************************************************************************)
EXTENDS Outbox, FiniteSetTheorems, SequenceTheorems, WellFoundedInduction, TLAPS

StepAt(p) == Head(tasks[p].todo)
HasStatus(k, status) == entries[k] # Nil /\ entries[k].status = status

-----------------------------------------------------------------------------
(* The inductive invariant.  A task that awaits execute() holds the entry  *)
(* as it is, running; two never hold the same; and every running entry is  *)
(* held by one.                                                            *)
ExecutingHolds ==
  \A p \in Tasks : TaskAt(p, "executing") =>
    /\ tasks[p].todo # <<>>
    /\ HasStatus(StepAt(p).key, "running")
    /\ tasks[p].held = entries[StepAt(p).key]
    /\ entries[StepAt(p).key].handler = StepAt(p).handler

OneExecutes ==
  \A p, q \in Tasks :
    TaskAt(p, "executing") /\ TaskAt(q, "executing") /\ StepAt(p).key = StepAt(q).key => p = q

RunningIsExecuted ==
  \A k \in Keys : HasStatus(k, "running") =>
    \E p \in Tasks : TaskAt(p, "executing") /\ StepAt(p).key = k

(* A task whose dispatch has returned holds what that left; if the step is *)
(* completed, the entry still says so.                                     *)
ReturnedHolds ==
  \A p \in Tasks : TaskAt(p, "returned") =>
    /\ tasks[p].todo # <<>>
    /\ tasks[p].held # Nil
    /\ entries[StepAt(p).key] # Nil
    /\ entries[StepAt(p).key].handler = StepAt(p).handler
    /\ tasks[p].held.status = "completed" => entries[StepAt(p).key] = tasks[p].held

(* What the entry of a key says by itself: its effect was carried out if   *)
(* it is completed, attempts are left while it is pending and only then,   *)
(* and its handler was there when it was first tried.                      *)
EntryIsSound(k) ==
  /\ carried[k] = IF HasStatus(k, "completed") THEN 1 ELSE 0
  /\ HasStatus(k, "pending") => entries[k].attempts < MaxAttempts[k]
  /\ HasStatus(k, "failed") => entries[k].attempts = MaxAttempts[k]
  /\ entries[k] # Nil /\ entries[k].status # "pending" =>
       entries[k].handler \in handlers \cup ToSet(disposed)
EntriesAreSound == \A k \in Keys : EntryIsSound(k)

FinitelyMany == IsFiniteSet(Existing)

(* A saga: what is done and what is still to do make up its steps, and     *)
(* what is done is completed.                                              *)
StepsAreKept(task, steps) ==
  task.at \in {"idle", "executing", "returned"} \/ task.outcome = "completed" =>
    /\ Len(task.done) + Len(task.todo) = Len(steps)
    /\ \A i \in 1..Len(task.done) : task.done[i] = steps[i]
    /\ \A i \in 1..Len(task.todo) : task.todo[i] = steps[Len(task.done) + i]

DoneIsCompleted(task) ==
  \A i \in 1..Len(task.done) :
    /\ HasStatus(task.done[i].key, "completed")
    /\ entries[task.done[i].key].handler = task.done[i].handler

(* While it compensates, the positions Len(undo), ..., 1 are still to go,  *)
(* and those above are behind it.                                          *)
Backwards(task, left) ==
  /\ \A i \in DOMAIN task.undone : task.undone[i] > left
  /\ \A i, j \in DOMAIN task.undone : i < j => task.undone[i] > task.undone[j]
  /\ ~task.harmed =>
       \A n \in DOMAIN task.done : n > left /\ Owed(task.done[n]) => n \in ToSet(task.undone)

UndoingIsInOrder(task) ==
  /\ Len(task.undo) <= Len(task.done)
  /\ \A i \in 1..Len(task.undo) : task.undo[i] = Len(task.undo) + 1 - i
  /\ Backwards(task, Len(task.undo))

SagaIsSound(task, steps) ==
  /\ task.outcome # Nil => task.at = "settled"
  /\ StepsAreKept(task, steps)
  /\ task.outcome = "completed" => task.todo = <<>>
  /\ DoneIsCompleted(task)
  /\ task.at \in {"idle", "executing", "returned"} => task.undone = <<>> /\ ~task.harmed
  /\ task.at = "undoing" => task.undo # <<>> /\ UndoingIsInOrder(task)
  /\ task.outcome = "failed" => UndoneInOrder(task)
SagasAreSound == \A p \in Sagas : SagaIsSound(tasks[p], StepsOf[p])

EntryInv ==
  /\ OutboxTypeOK /\ FinitelyMany /\ EntriesAreSound
  /\ ExecutingHolds /\ OneExecutes /\ RunningIsExecuted /\ ReturnedHolds

IInv == EntryInv /\ SagasAreSound

-----------------------------------------------------------------------------
(* What enqueue() returns or creates is an entry.                          *)
LEMMA EnqueuedIsEntry ==
  ASSUME OutboxTypeOK, NEW step \in Step
  PROVE  /\ Enqueued(step) \in Entry
         /\ entries[step.key] # Nil => Enqueued(step) = entries[step.key]
         /\ entries[step.key] = Nil =>
              Enqueued(step) = [handler |-> step.handler, status |-> "pending", attempts |-> 0]
BY DEF Enqueued, NewEntry, OutboxTypeOK, Entry, Step

LEMMA StepIsTyped ==
  ASSUME OutboxTypeOK, NEW q \in Tasks, tasks[q].todo # <<>>
  PROVE  StepAt(q) \in Step /\ StepAt(q).key \in Keys /\ StepAt(q).handler \in Handlers
<1>1. tasks[q] \in Task
  BY DEF OutboxTypeOK
<1>2. tasks[q].todo \in Seq(Step)
  BY <1>1 DEF Task
<1>3. StepAt(q) \in Step
  BY <1>2 DEF StepAt
<1> QED BY <1>3 DEF Step

(* The records that a task moves to are tasks.                             *)
LEMMA MovesAreTyped ==
  ASSUME NEW task \in Task
  PROVE  /\ \A o \in Outcome : Settle(task, o) \in Task
         /\ \A e \in Entry : Returned(task, e) \in Task
         /\ \A e \in Entry : [task EXCEPT !.at = "executing", !.held = e] \in Task
<1>1. \A o \in Outcome : Settle(task, o) \in Task
  BY DEF Settle, Task
<1>2. \A e \in Entry : Returned(task, e) \in Task
  BY DEF Returned, Task
<1>3. \A e \in Entry : [task EXCEPT !.at = "executing", !.held = e] \in Task
  BY DEF Task
<1> QED BY <1>1, <1>2, <1>3

(* How a dispatch by task p ends its synchronous part: the entry e it      *)
(* leaves, and the record "new" of the task.                               *)
Running(entry) == [entry EXCEPT !.status = "running", !.attempts = @ + 1]

Refuses(task, new, e, old) ==
  /\ \E o \in {"DUPLICATE", "BUSY", "NO_HANDLER"} : new = Settle(task, o)
  /\ e = old
Recalls(task, new, e, old) ==
  /\ old.handler = Head(task.todo).handler
  /\ old.status \in Settled
  /\ new = Returned(task, old)
  /\ e = old
Tries(task, new, e, old) ==
  /\ old.handler = Head(task.todo).handler
  /\ old.handler \in handlers
  /\ old.status = "pending"
  /\ \/ /\ e = Failed(Head(task.todo).key, Running(old))
        /\ new = Returned(task, e)
     \/ /\ e = Running(old)
        /\ new = [task EXCEPT !.at = "executing", !.held = e]

LEMMA DispatchEnds ==
  ASSUME OutboxTypeOK, NEW p \in Tasks, NEW task \in Task, task.todo # <<>>, Dispatch(p, task)
  PROVE  \E new, e :
           /\ tasks' = [tasks EXCEPT ![p] = new]
           /\ entries' = [entries EXCEPT ![Head(task.todo).key] = e]
           /\ LET old == Enqueued(Head(task.todo)) IN
              \/ Refuses(task, new, e, old)
              \/ Recalls(task, new, e, old)
              \/ Tries(task, new, e, old)
<1> DEFINE step == Head(task.todo)
           old == Enqueued(step)
<1>1. step \in Step
  BY DEF Task
<1>2. old \in Entry
  BY <1>1, EnqueuedIsEntry
<1>3. old.status \in {"pending", "running", "completed", "failed"}
  BY <1>2 DEF Entry, Settled
<1>4. Refusal(step, old) # Nil =>
        Refusal(step, old) \in {"DUPLICATE", "BUSY", "NO_HANDLER"}
  BY DEF Refusal
<1>5. Refusal(step, old) = Nil =>
        /\ old.handler = step.handler
        /\ old.status # "running"
        /\ old.status \in Settled \/ old.handler \in handlers
  BY NoneAssumption DEF Refusal, Outcome
<1>6. CASE Refusal(step, old) # Nil
  BY <1>4, <1>6 DEF Dispatch, Refuses
<1>7. CASE Refusal(step, old) = Nil /\ ReturnsAtOnce(old)
  BY <1>5, <1>7 DEF Dispatch, Recalls, ReturnsAtOnce
<1>8. CASE Refusal(step, old) = Nil /\ ~ReturnsAtOnce(old)
  <2>1. old.status = "pending" /\ old.handler \in handlers /\ old.handler = step.handler
    BY <1>3, <1>5, <1>8 DEF ReturnsAtOnce, Settled
  <2> QED BY <1>8, <2>1 DEF Dispatch, Tries, Running
<1> QED BY <1>6, <1>7, <1>8

-----------------------------------------------------------------------------
(* What a step may do to the entries: none disappears, changes its handler *)
(* or, once settled, changes at all.                                       *)
Grows ==
  \A k \in Keys : entries[k] # Nil =>
    /\ entries'[k] # Nil
    /\ entries'[k].handler = entries[k].handler
    /\ entries[k].status \in Settled => entries'[k] = entries[k]

(* An attempt counts, and what it leaves when it fails is in order.        *)
LEMMA AttemptCounts ==
  ASSUME NEW k \in Keys, NEW old \in Entry, old.attempts < MaxAttempts[k]
  PROVE  /\ Running(old) \in Entry
         /\ Running(old).status = "running"
         /\ Running(old).handler = old.handler
         /\ Running(old).attempts <= MaxAttempts[k]
<1>1. old.attempts \in Nat /\ MaxAttempts[k] \in Nat
  BY OutboxAssumption DEF Entry
<1>2. Running(old) = [handler |-> old.handler, status |-> "running", attempts |-> old.attempts + 1]
  <2>1. old = [handler |-> old.handler, status |-> old.status, attempts |-> old.attempts]
    BY DEF Entry
  <2> DEFINE r == [old EXCEPT !.status = "running"]
  <2>2. r = [handler |-> old.handler, status |-> "running", attempts |-> old.attempts]
    BY <2>1
  <2>3. Running(old) = [r EXCEPT !.attempts = old.attempts + 1]
    BY DEF Running
  <2> QED BY <2>2, <2>3
<1> QED BY <1>1, <1>2 DEF Entry

LEMMA FailedIsInOrder ==
  ASSUME NEW k \in Keys, NEW e \in Entry, e.attempts <= MaxAttempts[k]
  PROVE  /\ Failed(k, e) \in Entry
         /\ Failed(k, e).handler = e.handler
         /\ Failed(k, e).attempts = e.attempts
         /\ \/ Failed(k, e).status = "pending" /\ e.attempts < MaxAttempts[k]
            \/ Failed(k, e).status = "failed" /\ e.attempts = MaxAttempts[k]
<1>1. e.attempts \in Nat /\ MaxAttempts[k] \in Nat
  BY OutboxAssumption DEF Entry
<1>2. CASE e.attempts >= MaxAttempts[k]
  <2>1. Failed(k, e) = [handler |-> e.handler, status |-> "failed", attempts |-> e.attempts]
    BY <1>2 DEF Failed, Entry
  <2> QED BY <1>1, <1>2, <2>1 DEF Entry, Settled
<1>3. CASE ~(e.attempts >= MaxAttempts[k])
  <2>1. Failed(k, e) = [handler |-> e.handler, status |-> "pending", attempts |-> e.attempts]
    BY <1>3 DEF Failed, Entry
  <2> QED BY <1>1, <1>3, <2>1 DEF Entry, Settled
<1> QED BY <1>2, <1>3

(* A saga stays sound while others step: the entries of what it did are    *)
(* settled, and with a handler gone it owes less.                          *)
LEMMA OthersSteps ==
  ASSUME Grows, disposed \in Seq(Handlers), disposed' \in Seq(Handlers),
         ToSet(disposed) \subseteq ToSet(disposed'),
         NEW task, task \in Task, NEW steps, SagaIsSound(task, steps)
  PROVE  SagaIsSound(task, steps)'
<1>1. DoneIsCompleted(task)'
  <2> SUFFICES ASSUME NEW i \in 1..Len(task.done)
               PROVE  /\ HasStatus(task.done[i].key, "completed")'
                      /\ entries'[task.done[i].key].handler = task.done[i].handler
    BY DEF DoneIsCompleted
  <2>1. task.done[i] \in Step
    BY DEF Task
  <2>2. task.done[i].key \in Keys
    BY <2>1 DEF Step
  <2>3. /\ HasStatus(task.done[i].key, "completed")
        /\ entries[task.done[i].key].handler = task.done[i].handler
    BY DEF SagaIsSound, DoneIsCompleted
  <2> QED BY <2>2, <2>3 DEF Grows, HasStatus, Settled
<1>2. \A step : Owed(step)' => Owed(step)
  BY DEF Owed
<1>3. task.at = "undoing" => UndoingIsInOrder(task)'
  BY <1>2 DEF SagaIsSound, UndoingIsInOrder, Backwards
<1>4. task.outcome = "failed" => UndoneInOrder(task)'
  BY <1>2 DEF SagaIsSound, UndoneInOrder
<1> QED BY <1>1, <1>3, <1>4 DEF SagaIsSound, StepsAreKept

(* What an attempt changes in the record of its task.                      *)
SameButHeld(task, new) ==
  /\ new.todo = task.todo /\ new.done = task.done /\ new.undo = task.undo
  /\ new.undone = task.undone /\ new.harmed = task.harmed /\ new.aborted = task.aborted

(* The synchronous part of a dispatch keeps what entries and tasks say of  *)
(* each other, and loses nothing that an entry said.                       *)
LEMMA DispatchKeeps ==
  ASSUME EntryInv, NEW p \in Tasks, ~TaskAt(p, "executing"),
         NEW task \in Task, task.todo # <<>>, Dispatch(p, task),
         UNCHANGED <<handlers, carried, disposed>>
  PROVE  /\ EntryInv'
         /\ Grows
         /\ \E new \in Task :
              /\ tasks' = [tasks EXCEPT ![p] = new]
              /\ SameButHeld(task, new)
              /\ \/ new.at = "settled" /\ new.outcome \in {"DUPLICATE", "BUSY", "NO_HANDLER"}
                 \/ new.at \in {"returned", "executing"} /\ new.outcome = task.outcome
<1> DEFINE step == Head(task.todo)
           k == step.key
           old == Enqueued(step)
<1>1. /\ OutboxTypeOK /\ FinitelyMany /\ EntriesAreSound
      /\ ExecutingHolds /\ OneExecutes /\ RunningIsExecuted /\ ReturnedHolds
  BY DEF EntryInv
<1>2. /\ step \in Step /\ k \in Keys /\ step.handler \in Handlers
  <2>1. task.todo \in Seq(Step)
    BY DEF Task
  <2>2. step \in Step
    BY <2>1
  <2> QED BY <2>2 DEF Step
<1>3. old \in Entry /\ old.attempts \in Nat
  BY <1>1, <1>2, EnqueuedIsEntry DEF Entry
<1>4. /\ entries[k] # Nil => old = entries[k]
      /\ entries[k] = Nil => old.status = "pending" /\ old.attempts = 0 /\ old.handler = step.handler
  BY <1>1, <1>2, EnqueuedIsEntry
<1>5. MaxAttempts[k] \in Nat /\ MaxAttempts[k] > 0
  BY <1>2, OutboxAssumption
<1>6. old.status = "pending" => old.attempts < MaxAttempts[k]
  BY <1>1, <1>2, <1>4, <1>5 DEF EntriesAreSound, EntryIsSound, HasStatus
<1>7. old.attempts <= MaxAttempts[k]
  BY <1>1, <1>2, <1>3, <1>4, <1>5 DEF OutboxTypeOK
<1>8. PICK new, e :
        /\ tasks' = [tasks EXCEPT ![p] = new]
        /\ entries' = [entries EXCEPT ![k] = e]
        /\ \/ Refuses(task, new, e, old)
           \/ Recalls(task, new, e, old)
           \/ Tries(task, new, e, old)
  BY <1>1, DispatchEnds
<1> HIDE DEF k, old
<1>9. \/ new.at = "settled" /\ e = old
      \/ /\ new.at = "returned" /\ new.held = e
         /\ e = old /\ old.status \in Settled /\ old.handler = step.handler
      \/ /\ new.at = "returned" /\ new.held = e
         /\ old.status = "pending" /\ old.handler = step.handler /\ old.handler \in handlers
         /\ e = Failed(k, Running(old))
      \/ /\ new.at = "executing" /\ new.held = e
         /\ old.status = "pending" /\ old.handler = step.handler /\ old.handler \in handlers
         /\ e = Running(old)
  BY <1>8 DEF Refuses, Recalls, Tries, Settle, Returned, Task, k
<1>10. /\ SameButHeld(task, new)
       /\ \/ new.at = "settled" /\ new.outcome \in {"DUPLICATE", "BUSY", "NO_HANDLER"}
          \/ new.at \in {"returned", "executing"} /\ new.outcome = task.outcome
  BY <1>8 DEF Refuses, Recalls, Tries, Settle, Returned, Task, SameButHeld
<1>11. old.status = "pending" =>
         /\ Running(old) \in Entry /\ Running(old).status = "running"
         /\ Running(old).handler = old.handler /\ Running(old).attempts <= MaxAttempts[k]
  BY <1>2, <1>3, <1>6, AttemptCounts
<1>12. old.status = "pending" =>
         /\ Failed(k, Running(old)) \in Entry
         /\ Failed(k, Running(old)).handler = old.handler
         /\ Failed(k, Running(old)).attempts <= MaxAttempts[k]
         /\ \/ /\ Failed(k, Running(old)).status = "pending"
               /\ Failed(k, Running(old)).attempts < MaxAttempts[k]
            \/ /\ Failed(k, Running(old)).status = "failed"
               /\ Failed(k, Running(old)).attempts = MaxAttempts[k]
  BY <1>2, <1>11, FailedIsInOrder
<1>13. e \in Entry /\ e # Nil /\ e.attempts <= MaxAttempts[k] /\ e.handler = old.handler
  BY <1>3, <1>7, <1>9, <1>11, <1>12, NoneAssumption
<1>14. new \in Task
  BY <1>8, <1>13, MovesAreTyped DEF Refuses, Recalls, Tries, Outcome
<1>15. /\ entries' \in [Keys -> Entry \cup {Nil}] /\ entries'[k] = e
       /\ \A kk \in Keys : kk # k => entries'[kk] = entries[kk]
       /\ tasks' \in [Tasks -> Task] /\ tasks'[p] = new
       /\ \A q \in Tasks : q # p => tasks'[q] = tasks[q]
  BY <1>1, <1>2, <1>8, <1>13, <1>14 DEF OutboxTypeOK
<1>16. OutboxTypeOK'
  BY <1>1, <1>13, <1>15 DEF OutboxTypeOK
<1>17. Grows
  BY <1>4, <1>9, <1>13, <1>15 DEF Grows, Settled
<1>18. FinitelyMany'
  <2>1. Existing' \subseteq Existing \cup {k}
    BY <1>15 DEF Existing
  <2> QED BY <1>1, <2>1, FS_AddElement, FS_Subset DEF FinitelyMany
<1>19. EntriesAreSound'
  <2> SUFFICES ASSUME NEW kk \in Keys PROVE EntryIsSound(kk)'
    BY DEF EntriesAreSound
  <2>1. EntryIsSound(kk) /\ EntryIsSound(k)
    BY <1>1, <1>2 DEF EntriesAreSound
  <2>2. CASE kk # k
    BY <1>15, <2>1, <2>2 DEF EntryIsSound, HasStatus
  <2>3. CASE kk = k /\ e = old
    BY <1>4, <1>5, <1>15, <2>1, <2>3 DEF EntryIsSound, HasStatus
  <2>4. CASE kk = k /\ e # old
    <3>1. carried[k] = 0
      BY <1>4, <1>9, <2>1, <2>4 DEF EntryIsSound, HasStatus
    <3> QED BY <1>9, <1>11, <1>12, <1>13, <1>15, <2>4, <3>1 DEF EntryIsSound, HasStatus
  <2> QED BY <2>2, <2>3, <2>4
<1>20. ~(\E q \in Tasks : TaskAt(q, "executing") /\ StepAt(q).key = k) \/ (entries[k] # Nil /\ e = old /\ new.at # "executing")
  BY <1>1, <1>4, <1>9 DEF ExecutingHolds, HasStatus, Settled
<1>21. new.at = "executing" => Head(new.todo) = step /\ new.todo # <<>> /\ new.held = e /\ e.status = "running"
  BY <1>9, <1>10, <1>11 DEF SameButHeld
<1>22. ExecutingHolds'
  <2> SUFFICES ASSUME NEW q \in Tasks, TaskAt(q, "executing")'
               PROVE  /\ tasks'[q].todo # <<>>
                      /\ HasStatus(StepAt(q).key, "running")'
                      /\ tasks'[q].held = entries'[StepAt(q).key']
                      /\ entries'[StepAt(q).key'].handler = StepAt(q).handler'
    BY DEF ExecutingHolds
  <2>1. CASE q = p
    BY <1>9, <1>13, <1>15, <1>21, <2>1 DEF TaskAt, StepAt, HasStatus, k
  <2>2. CASE q # p
    <3>1. tasks'[q] = tasks[q] /\ TaskAt(q, "executing")
      BY <1>15, <2>2 DEF TaskAt
    <3>2. StepAt(q)' = StepAt(q) /\ StepAt(q).key \in Keys
      <4>1. tasks[q].todo # <<>>
        BY <1>1, <3>1 DEF ExecutingHolds
      <4> QED BY <1>1, <3>1, <4>1, StepIsTyped DEF StepAt
    <3>3. entries'[StepAt(q).key] = entries[StepAt(q).key]
      BY <1>4, <1>15, <1>20, <3>1, <3>2
    <3> QED BY <1>1, <3>1, <3>2, <3>3 DEF ExecutingHolds, HasStatus
  <2> QED BY <2>1, <2>2
<1>23. OneExecutes'
  <2> SUFFICES ASSUME NEW q \in Tasks, NEW r \in Tasks, TaskAt(q, "executing")', TaskAt(r, "executing")',
                      StepAt(q).key' = StepAt(r).key'
               PROVE  q = r
    BY DEF OneExecutes
  <2>1. \A x \in Tasks : x # p /\ TaskAt(x, "executing")' => TaskAt(x, "executing") /\ StepAt(x)' = StepAt(x)
    BY <1>15 DEF TaskAt, StepAt
  <2>2. TaskAt(p, "executing")' => new.at = "executing" /\ StepAt(p).key' = k
    BY <1>15, <1>21 DEF TaskAt, StepAt, k
  <2> QED BY <1>1, <1>20, <2>1, <2>2 DEF OneExecutes
<1>24. RunningIsExecuted'
  <2> SUFFICES ASSUME NEW kk \in Keys, HasStatus(kk, "running")'
               PROVE  \E q \in Tasks : TaskAt(q, "executing")' /\ StepAt(q).key' = kk
    BY DEF RunningIsExecuted
  <2>1. CASE HasStatus(kk, "running")
    <3>1. PICK q \in Tasks : TaskAt(q, "executing") /\ StepAt(q).key = kk
      BY <1>1, <2>1 DEF RunningIsExecuted
    <3>2. TaskAt(q, "executing")' /\ StepAt(q).key' = kk
      BY <1>15, <3>1 DEF TaskAt, StepAt
    <3> QED BY <3>2
  <2>2. CASE ~HasStatus(kk, "running")
    <3>1. kk = k /\ new.at = "executing"
      BY <1>4, <1>9, <1>12, <1>13, <1>15, <2>2 DEF HasStatus, Settled
    <3> QED BY <1>15, <1>21, <3>1 DEF TaskAt, StepAt, k
  <2> QED BY <2>1, <2>2
<1>25. ReturnedHolds'
  <2> SUFFICES ASSUME NEW q \in Tasks, TaskAt(q, "returned")'
               PROVE  /\ tasks'[q].todo # <<>>
                      /\ tasks'[q].held # Nil
                      /\ entries'[StepAt(q).key'] # Nil
                      /\ entries'[StepAt(q).key'].handler = StepAt(q).handler'
                      /\ tasks'[q].held.status = "completed" =>
                           entries'[StepAt(q).key'] = tasks'[q].held
    BY DEF ReturnedHolds
  <2>1. CASE q = p
    BY <1>9, <1>10, <1>13, <1>15, <2>1 DEF TaskAt, StepAt, SameButHeld, k
  <2>2. CASE q # p
    <3>1. tasks'[q] = tasks[q] /\ TaskAt(q, "returned")
      BY <1>15, <2>2 DEF TaskAt
    <3>2. StepAt(q)' = StepAt(q) /\ StepAt(q).key \in Keys
      <4>1. tasks[q].todo # <<>>
        BY <1>1, <3>1 DEF ReturnedHolds
      <4> QED BY <1>1, <3>1, <4>1, StepIsTyped DEF StepAt
    <3> QED BY <1>1, <1>17, <3>1, <3>2 DEF ReturnedHolds, Grows, Settled
  <2> QED BY <2>1, <2>2
<1> QED
  BY <1>8, <1>10, <1>14, <1>16, <1>17, <1>18, <1>19, <1>22, <1>23, <1>24, <1>25 DEF EntryInv

(* A step that touches no entry: one task settles, compensates or hears of *)
(* its signal, or handlers come and go.                                    *)
LEMMA QuietStepKeeps ==
  ASSUME EntryInv, OutboxTypeOK', UNCHANGED <<entries, carried>>,
         handlers \cup ToSet(disposed) \subseteq handlers' \cup ToSet(disposed'),
         \A q \in Tasks :
           \/ tasks'[q].at = tasks[q].at /\ tasks'[q].todo = tasks[q].todo /\ tasks'[q].held = tasks[q].held
           \/ tasks[q].at # "executing" /\ tasks'[q].at \notin {"executing", "returned"}
  PROVE  EntryInv' /\ Grows
<1>1. /\ OutboxTypeOK /\ FinitelyMany /\ EntriesAreSound
      /\ ExecutingHolds /\ OneExecutes /\ RunningIsExecuted /\ ReturnedHolds
  BY DEF EntryInv
<1>2. FinitelyMany'
  BY <1>1 DEF FinitelyMany, Existing
<1>3. EntriesAreSound'
  BY <1>1 DEF EntriesAreSound, EntryIsSound, HasStatus
<1>4. \A q \in Tasks : (TaskAt(q, "executing")' <=> TaskAt(q, "executing"))
  BY DEF TaskAt
<1>5. \A q \in Tasks : TaskAt(q, "executing") =>
        StepAt(q)' = StepAt(q) /\ tasks'[q].held = tasks[q].held /\ tasks'[q].todo = tasks[q].todo
  BY DEF TaskAt, StepAt
<1>6. ExecutingHolds'
  BY <1>1, <1>4, <1>5 DEF ExecutingHolds, HasStatus
<1>7. OneExecutes'
  BY <1>1, <1>4, <1>5 DEF OneExecutes
<1>8. RunningIsExecuted'
  BY <1>1, <1>4, <1>5 DEF RunningIsExecuted, HasStatus
<1>9. \A q \in Tasks : TaskAt(q, "returned")' =>
        /\ TaskAt(q, "returned")
        /\ StepAt(q)' = StepAt(q) /\ tasks'[q].held = tasks[q].held /\ tasks'[q].todo = tasks[q].todo
  BY DEF TaskAt, StepAt
<1>10. ReturnedHolds'
  BY <1>1, <1>9 DEF ReturnedHolds
<1>11. Grows
  BY DEF Grows
<1> QED BY <1>2, <1>3, <1>6, <1>7, <1>8, <1>10, <1>11 DEF EntryInv

(* enqueue() alone: no task has to do with the key yet.                    *)
LEMMA EnqueueKeeps ==
  ASSUME EntryInv, NEW step \in Intents, Enqueue(step)
  PROVE  EntryInv' /\ Grows
<1> DEFINE k == step.key
           e == NewEntry(step)
<1>1. /\ OutboxTypeOK /\ FinitelyMany /\ EntriesAreSound
      /\ ExecutingHolds /\ OneExecutes /\ RunningIsExecuted /\ ReturnedHolds
  BY DEF EntryInv
<1>2. step \in Step /\ k \in Keys /\ MaxAttempts[k] \in Nat /\ MaxAttempts[k] > 0
  BY OutboxAssumption DEF Step
<1>3. e \in Entry /\ e # Nil /\ e.status = "pending" /\ e.attempts = 0
  BY <1>2, NoneAssumption DEF NewEntry, Entry, Step
<1>4. /\ entries[k] = Nil
      /\ entries' \in [Keys -> Entry \cup {Nil}] /\ entries'[k] = e
      /\ \A kk \in Keys : kk # k => entries'[kk] = entries[kk]
      /\ UNCHANGED <<handlers, tasks, carried, disposed>>
  BY <1>1, <1>2, <1>3 DEF Enqueue, OutboxTypeOK
<1> HIDE DEF k, e
<1>5. OutboxTypeOK'
  BY <1>1, <1>2, <1>3, <1>4 DEF OutboxTypeOK
<1>6. FinitelyMany'
  <2>1. Existing' \subseteq Existing \cup {k}
    BY <1>4 DEF Existing
  <2> QED BY <1>1, <2>1, FS_AddElement, FS_Subset DEF FinitelyMany
<1>7. EntriesAreSound'
  BY <1>1, <1>2, <1>3, <1>4 DEF EntriesAreSound, EntryIsSound, HasStatus
<1>8. Grows
  BY <1>4 DEF Grows
<1>9. \A q \in Tasks : TaskAt(q, "executing") => StepAt(q).key \in Keys /\ StepAt(q).key # k
  BY <1>1, <1>4, StepIsTyped DEF ExecutingHolds, HasStatus
<1>10. ExecutingHolds'
  BY <1>1, <1>4, <1>9 DEF ExecutingHolds, HasStatus, TaskAt, StepAt
<1>11. OneExecutes'
  BY <1>1, <1>4 DEF OneExecutes, TaskAt, StepAt
<1>12. RunningIsExecuted'
  BY <1>1, <1>3, <1>4 DEF RunningIsExecuted, HasStatus, TaskAt, StepAt
<1>13. \A q \in Tasks : TaskAt(q, "returned") => StepAt(q).key \in Keys /\ StepAt(q).key # k
  BY <1>1, <1>4, StepIsTyped DEF ReturnedHolds
<1>14. ReturnedHolds'
  BY <1>1, <1>4, <1>13 DEF ReturnedHolds, TaskAt, StepAt
<1> QED BY <1>5, <1>6, <1>7, <1>8, <1>10, <1>11, <1>12, <1>14 DEF EntryInv

(* The promise of execute() settles: the entry is still the one the task   *)
(* set running, so update() never throws, and the effect is counted when   *)
(* the entry says so.                                                      *)
LEMMA UpdateKeeps ==
  ASSUME EntryInv, NEW p \in Tasks, TaskAt(p, "executing"),
         NEW next \in Entry, Update(p, next),
         next.handler = tasks[p].held.handler, next.attempts = tasks[p].held.attempts,
         \/ /\ next.status = "completed"
            /\ carried' = [carried EXCEPT ![StepAt(p).key] = @ + 1]
         \/ /\ \/ next.status = "pending" /\ next.attempts < MaxAttempts[StepAt(p).key]
               \/ next.status = "failed" /\ next.attempts = MaxAttempts[StepAt(p).key]
            /\ carried' = carried,
         UNCHANGED <<handlers, disposed>>
  PROVE  /\ EntryInv'
         /\ Grows
         /\ tasks' = [tasks EXCEPT ![p] = Returned(tasks[p], next)]
<1> DEFINE k == StepAt(p).key
           new == Returned(tasks[p], next)
<1>1. /\ OutboxTypeOK /\ FinitelyMany /\ EntriesAreSound
      /\ ExecutingHolds /\ OneExecutes /\ RunningIsExecuted /\ ReturnedHolds
  BY DEF EntryInv
<1>2. /\ tasks[p].todo # <<>> /\ HasStatus(k, "running")
      /\ tasks[p].held = entries[k] /\ entries[k].handler = StepAt(p).handler
  BY <1>1 DEF ExecutingHolds
<1>3. k \in Keys /\ MaxAttempts[k] \in Nat
  BY <1>1, <1>2, StepIsTyped, OutboxAssumption
<1>4. entries' = [entries EXCEPT ![k] = next] /\ tasks' = [tasks EXCEPT ![p] = new]
  BY <1>2 DEF Update, StepAt
<1>5. tasks[p] \in Task
  BY <1>1 DEF OutboxTypeOK
<1>6. /\ new \in Task /\ new.at = "returned" /\ new.held = next
      /\ new.todo = tasks[p].todo
  BY <1>5, MovesAreTyped DEF Returned, Task
<1>7. entries[k] \in Entry /\ next.attempts <= MaxAttempts[k] /\ next # Nil
      /\ next.handler = entries[k].handler
  BY <1>1, <1>2, <1>3, NoneAssumption DEF OutboxTypeOK, HasStatus
<1> HIDE DEF k, new
<1>8. /\ entries' \in [Keys -> Entry \cup {Nil}] /\ entries'[k] = next
      /\ \A kk \in Keys : kk # k => entries'[kk] = entries[kk]
      /\ tasks' \in [Tasks -> Task] /\ tasks'[p] = new
      /\ \A q \in Tasks : q # p => tasks'[q] = tasks[q]
  BY <1>1, <1>3, <1>4, <1>6 DEF OutboxTypeOK
<1>9. carried' \in [Keys -> Nat] /\ \A kk \in Keys : kk # k => carried'[kk] = carried[kk]
  BY <1>1 DEF OutboxTypeOK, k
<1>10. OutboxTypeOK'
  <2>1. \A kk \in Keys : entries[kk] # Nil => entries[kk].attempts <= MaxAttempts[kk]
    BY <1>1 DEF OutboxTypeOK
  <2>2. \A kk \in Keys : entries'[kk] # Nil => entries'[kk].attempts <= MaxAttempts[kk]
    BY <1>7, <1>8, <2>1
  <2>3. handlers' \subseteq Handlers /\ disposed' \in Seq(Handlers)
    BY <1>1 DEF OutboxTypeOK
  <2> QED BY <1>8, <1>9, <2>2, <2>3 DEF OutboxTypeOK
<1>11. Grows
  BY <1>2, <1>7, <1>8 DEF Grows, HasStatus, Settled
<1>12. FinitelyMany'
  <2>1. Existing' \subseteq Existing \cup {k}
    BY <1>8 DEF Existing
  <2> QED BY <1>1, <2>1, FS_AddElement, FS_Subset DEF FinitelyMany
<1>13. EntriesAreSound'
  <2> SUFFICES ASSUME NEW kk \in Keys PROVE EntryIsSound(kk)'
    BY DEF EntriesAreSound
  <2>1. EntryIsSound(kk)
    BY <1>1 DEF EntriesAreSound
  <2>2. CASE kk # k
    BY <1>8, <1>9, <2>1, <2>2 DEF EntryIsSound, HasStatus
  <2>3. CASE kk = k
    <3>1. carried[k] = 0 /\ entries[k].handler \in handlers \cup ToSet(disposed)
      BY <1>2, <2>1, <2>3 DEF EntryIsSound, HasStatus
    <3>2. carried'[k] = IF next.status = "completed" THEN 1 ELSE 0
      BY <1>1, <1>3, <3>1 DEF OutboxTypeOK, k
    <3> QED BY <1>7, <1>8, <2>3, <3>1, <3>2 DEF EntryIsSound, HasStatus, k
  <2> QED BY <2>2, <2>3
<1>14. \A q \in Tasks : TaskAt(q, "executing")' =>
         q # p /\ TaskAt(q, "executing") /\ StepAt(q)' = StepAt(q) /\ tasks'[q] = tasks[q]
  BY <1>6, <1>8 DEF TaskAt, StepAt
<1>15. \A q \in Tasks : TaskAt(q, "executing")' => StepAt(q).key \in Keys /\ StepAt(q).key # k
  BY <1>1, <1>14, StepIsTyped DEF ExecutingHolds, OneExecutes, k
<1>16. ExecutingHolds'
  BY <1>1, <1>8, <1>14, <1>15 DEF ExecutingHolds, HasStatus
<1>17. OneExecutes'
  BY <1>1, <1>14 DEF OneExecutes
<1>18. RunningIsExecuted'
  <2> SUFFICES ASSUME NEW kk \in Keys, HasStatus(kk, "running")'
               PROVE  \E q \in Tasks : TaskAt(q, "executing")' /\ StepAt(q).key' = kk
    BY DEF RunningIsExecuted
  <2>1. kk # k /\ HasStatus(kk, "running")
    BY <1>8 DEF HasStatus, k
  <2>2. PICK q \in Tasks : TaskAt(q, "executing") /\ StepAt(q).key = kk
    BY <1>1, <2>1 DEF RunningIsExecuted
  <2>3. TaskAt(q, "executing")' /\ StepAt(q).key' = kk
    BY <1>8, <2>1, <2>2 DEF TaskAt, StepAt, k
  <2> QED BY <2>3
<1>19. ReturnedHolds'
  <2> SUFFICES ASSUME NEW q \in Tasks, TaskAt(q, "returned")'
               PROVE  /\ tasks'[q].todo # <<>>
                      /\ tasks'[q].held # Nil
                      /\ entries'[StepAt(q).key'] # Nil
                      /\ entries'[StepAt(q).key'].handler = StepAt(q).handler'
                      /\ tasks'[q].held.status = "completed" =>
                           entries'[StepAt(q).key'] = tasks'[q].held
    BY DEF ReturnedHolds
  <2>1. CASE q = p
    BY <1>2, <1>6, <1>7, <1>8, <2>1 DEF StepAt, k
  <2>2. CASE q # p
    <3>1. tasks'[q] = tasks[q] /\ TaskAt(q, "returned")
      BY <1>8, <2>2 DEF TaskAt
    <3>2. StepAt(q)' = StepAt(q) /\ StepAt(q).key \in Keys
      <4>1. tasks[q].todo # <<>>
        BY <1>1, <3>1 DEF ReturnedHolds
      <4> QED BY <1>1, <3>1, <4>1, StepIsTyped DEF StepAt
    <3> QED BY <1>1, <1>11, <3>1, <3>2 DEF ReturnedHolds, Grows, Settled
  <2> QED BY <2>1, <2>2
<1> QED
  BY <1>4, <1>10, <1>11, <1>12, <1>13, <1>16, <1>17, <1>18, <1>19 DEF EntryInv, new

-----------------------------------------------------------------------------
(* Sagas.  What a saga's record says is kept by the steps of others.       *)
LEMMA RecordIsSound ==
  ASSUME NEW p \in Sagas, NEW new, tasks'[p] = new, SagaIsSound(new, StepsOf[p])'
  PROVE  SagaIsSound(tasks[p], StepsOf[p])'
BY DEF SagaIsSound, StepsAreKept, DoneIsCompleted, HasStatus, UndoingIsInOrder, Backwards,
       UndoneInOrder, Owed

LEMMA OthersAreSound ==
  ASSUME IInv, Grows, OutboxTypeOK', ToSet(disposed) \subseteq ToSet(disposed'),
         NEW p \in Sagas, tasks'[p] = tasks[p]
  PROVE  SagaIsSound(tasks[p], StepsOf[p])'
<1>1. PICK task : task = tasks[p]
  OBVIOUS
<1>2. task \in Task /\ disposed \in Seq(Handlers) /\ disposed' \in Seq(Handlers)
  BY <1>1 DEF IInv, EntryInv, OutboxTypeOK, Tasks
<1>3. SagaIsSound(task, StepsOf[p])
  BY <1>1 DEF IInv, SagasAreSound
<1>4. SagaIsSound(task, StepsOf[p])'
  BY <1>2, <1>3, OthersSteps
<1> QED BY <1>1, <1>4, RecordIsSound

(* A task goes on to its next step, or settles because there is none.      *)
LEMMA ProceedKeeps ==
  ASSUME IInv, NEW p \in Tasks, ~TaskAt(p, "executing"), NEW task \in Task, Proceed(p, task),
         UNCHANGED <<handlers, carried, disposed>>
  PROVE  /\ EntryInv' /\ Grows
         /\ \A q \in Tasks : q # p => tasks'[q] = tasks[q]
         /\ p \in Sagas /\ SagaIsSound(task, StepsOf[p])
              /\ task.at \in {"idle", "executing", "returned"} =>
              SagaIsSound(tasks[p], StepsOf[p])'
<1>1. EntryInv /\ OutboxTypeOK
  BY DEF IInv, EntryInv
<1>2. CASE task.todo = <<>>
  <2> DEFINE new == Settle(task, "completed")
  <2>1. UNCHANGED entries /\ tasks' = [tasks EXCEPT ![p] = new]
    BY <1>2 DEF Proceed
  <2>2. /\ new \in Task /\ new.at = "settled" /\ new.outcome = "completed"
        /\ SameButHeld(task, new)
    BY MovesAreTyped DEF Settle, Task, Outcome, Settled, SameButHeld
  <2> HIDE DEF new
  <2>3. tasks' \in [Tasks -> Task] /\ tasks'[p] = new /\ \A q \in Tasks : q # p => tasks'[q] = tasks[q]
    BY <1>1, <2>1, <2>2 DEF OutboxTypeOK
  <2>4. OutboxTypeOK'
    BY <1>1, <2>1, <2>3 DEF OutboxTypeOK
  <2>5. EntryInv' /\ Grows
    BY <1>1, <2>1, <2>2, <2>3, <2>4, QuietStepKeeps DEF TaskAt
  <2>6. ASSUME p \in Sagas, SagaIsSound(task, StepsOf[p]), task.at \in {"idle", "executing", "returned"}
        PROVE  SagaIsSound(new, StepsOf[p])'
    <3>1. DoneIsCompleted(new)'
      BY <2>1, <2>2, <2>6 DEF SagaIsSound, DoneIsCompleted, SameButHeld, HasStatus
    <3>2. StepsAreKept(new, StepsOf[p])'
      BY <2>2, <2>6 DEF SagaIsSound, StepsAreKept, SameButHeld
    <3> QED BY <1>2, <2>2, <3>1, <3>2 DEF SagaIsSound, SameButHeld
  <2> QED BY <2>3, <2>5, <2>6, RecordIsSound
<1>3. CASE task.todo # <<>>
  <2>1. Dispatch(p, task)
    BY <1>3 DEF Proceed
  <2>2. PICK new \in Task :
          /\ tasks' = [tasks EXCEPT ![p] = new]
          /\ SameButHeld(task, new)
          /\ \/ new.at = "settled" /\ new.outcome \in {"DUPLICATE", "BUSY", "NO_HANDLER"}
             \/ new.at \in {"returned", "executing"} /\ new.outcome = task.outcome
    BY <1>1, <1>3, <2>1, DispatchKeeps
  <2>3. EntryInv' /\ Grows
    BY <1>1, <1>3, <2>1, DispatchKeeps
  <2>4. tasks'[p] = new /\ \A q \in Tasks : q # p => tasks'[q] = tasks[q]
    BY <1>1, <2>2 DEF OutboxTypeOK
  <2>5. ASSUME p \in Sagas, SagaIsSound(task, StepsOf[p]), task.at \in {"idle", "executing", "returned"}
        PROVE  SagaIsSound(new, StepsOf[p])'
    <3>1. SagaIsSound(task, StepsOf[p])'
      BY <1>1, <2>3, <2>5, OthersSteps DEF EntryInv, OutboxTypeOK
    <3>2. DoneIsCompleted(new)'
      BY <2>2, <3>1 DEF SagaIsSound, DoneIsCompleted, SameButHeld, HasStatus
    <3>3. task.outcome = Nil
      BY <2>5 DEF SagaIsSound
    <3>4. StepsAreKept(new, StepsOf[p])'
      BY <2>2, <2>5, <3>3 DEF SagaIsSound, StepsAreKept, SameButHeld
    <3>5. new.outcome # "completed" /\ new.outcome # "failed"
      BY <2>2, <3>3, NoneAssumption DEF Outcome, Settled
    <3> QED BY <2>2, <2>5, <3>2, <3>3, <3>4, <3>5 DEF SagaIsSound, SameButHeld
  <2> QED BY <2>3, <2>4, <2>5, RecordIsSound
<1> QED BY <1>2, <1>3

(* A nonempty set of numbers has a least one.                              *)
LEMMA Least ==
  ASSUME NEW S \in SUBSET Nat, S # {}
  PROVE  \E i \in S : \A j \in S : i <= j
<1> DEFINE R == OpToRel(<, Nat)
<1>1. IsWellFoundedOn(R, Nat)
  BY NatLessThanWellFounded
<1>2. \A x, y \in Nat : y < x => <<y, x>> \in R
  BY DEF OpToRel
<1> HIDE DEF R
<1>3. \E x \in S : \A y \in S : <<y, x>> \notin R
  BY <1>1, WFMin
<1>4. PICK x \in S : \A y \in S : <<y, x>> \notin R
  BY <1>3
<1>5. \A y \in S : x <= y
  <2> TAKE y \in S
  <2>1. x \in Nat /\ y \in Nat /\ ~(y < x)
    BY <1>2, <1>4
  <2> QED BY <2>1
<1> QED BY <1>5

(* The compensator of a completed step that is not there was never there,  *)
(* or was disposed of: the handler was there when the step was tried.      *)
LEMMA PassedOverIsNotOwed ==
  ASSUME OutboxTypeOK, EntriesAreSound, NEW task \in Task, DoneIsCompleted(task),
         NEW n \in 1..Len(task.done), ~CanUndo(task.done[n])
  PROVE  ~Owed(task.done[n])
<1>1. task.done[n] \in Step
  BY DEF Task
<1>2. task.done[n].key \in Keys
  BY <1>1 DEF Step
<1>3. task.done[n].handler \in handlers \cup ToSet(disposed)
  BY <1>2 DEF DoneIsCompleted, EntriesAreSound, EntryIsSound, HasStatus
<1> QED BY <1>3 DEF CanUndo, Owed

(* What is left of a sequence of steps to undo.                            *)
RestIs(rest, left, undo, first) ==
  /\ rest \in Seq(Nat) /\ Len(rest) = left /\ left \in Nat /\ left > 0
  /\ left <= Len(undo)
  /\ \A i \in 1..left : /\ rest[i] = undo[first + i - 1]
                        /\ first + i - 1 \in 1..Len(undo)
  /\ \A n \in 1..Len(undo) : n > left => Len(undo) + 1 - n < first

LEMMA RestFacts ==
  ASSUME NEW undo \in Seq(Nat), NEW first \in 1..Len(undo),
         NEW rest, rest = SubSeq(undo, first, Len(undo)),
         NEW left, left = Len(undo) - first + 1
  PROVE  RestIs(rest, left, undo, first)
<1>1. PICK total \in Nat : total = Len(undo)
  OBVIOUS
<1>2. /\ first \in 1..total /\ first \in Nat /\ left = total - first + 1
      /\ rest = SubSeq(undo, first, total)
  BY <1>1
<1>3. /\ left \in Nat /\ left > 0 /\ left <= total
      /\ \A i \in 1..left : first + i - 1 \in 1..total
      /\ \A n \in 1..total : n > left => total + 1 - n < first
  BY <1>2
<1>4. /\ rest \in Seq(Nat) /\ Len(rest) = left
      /\ \A i \in 1..left : rest[i] = undo[first + i - 1]
  BY <1>1, <1>2, <1>3, SubSeqProperties
<1> QED BY <1>1, <1>3, <1>4 DEF RestIs

(* The loop over completed steps, from any point of it.                    *)
LEMMA NextUndoKeeps ==
  ASSUME IInv, NEW p \in Sagas, TaskAt(p, "returned") \/ TaskAt(p, "undoing"),
         NEW task \in Task, task.outcome = Nil, DoneIsCompleted(task), UndoingIsInOrder(task),
         NextUndo(p, task), UNCHANGED <<entries, handlers, carried, disposed>>
  PROVE  EntryInv' /\ Grows /\ SagasAreSound'
<1> DEFINE waiting == {i \in DOMAIN task.undo : CanUndo(task.done[task.undo[i]])}
           nearest == CHOOSE i \in waiting : \A j \in waiting : i <= j
           over == [Settle(task, IF task.harmed THEN "compensation-failed" ELSE "failed")
                      EXCEPT !.undo = <<>>]
           on == [task EXCEPT !.at = "undoing", !.held = Nil,
                              !.undo = SubSeq(@, nearest, Len(@))]
           new == IF waiting = {} THEN over ELSE on
<1>1. /\ EntryInv /\ OutboxTypeOK /\ EntriesAreSound /\ SagasAreSound
      /\ p \in Tasks /\ tasks \in [Tasks -> Task]
  BY DEF IInv, EntryInv, OutboxTypeOK, Tasks
<1>2. tasks' = [tasks EXCEPT ![p] = new]
  BY DEF NextUndo
<1>3. /\ task.undo \in Seq(Nat) /\ task.undone \in Seq(Nat) /\ task.done \in Seq(Step)
      /\ Len(task.undo) \in Nat /\ Len(task.done) \in Nat /\ task.harmed \in BOOLEAN
      /\ DOMAIN task.undo = 1..Len(task.undo) /\ DOMAIN task.done = 1..Len(task.done)
      /\ DOMAIN task.undone = 1..Len(task.undone)
  BY DEF Task
<1>4. \A n \in 1..Len(task.undo) :
        Len(task.undo) + 1 - n \notin waiting => ~Owed(task.done[n])
  <2> TAKE n \in 1..Len(task.undo)
  <2> HAVE Len(task.undo) + 1 - n \notin waiting
  <2>1. Len(task.undo) + 1 - n \in 1..Len(task.undo) /\ n \in 1..Len(task.done)
    BY <1>3 DEF UndoingIsInOrder
  <2>2. task.undo[Len(task.undo) + 1 - n] = n
    BY <1>3, <2>1 DEF UndoingIsInOrder
  <2>3. ~CanUndo(task.done[n])
    BY <1>3, <2>1, <2>2
  <2> QED BY <1>1, <2>1, <2>3, PassedOverIsNotOwed
<1>5. /\ waiting # {} => /\ nearest \in 1..Len(task.undo)
                         /\ \A j \in waiting : nearest <= j
      /\ waiting \in SUBSET Nat
  <2>1. waiting \in SUBSET Nat
    BY <1>3
  <2> QED BY <1>3, <2>1, Least
<1> HIDE DEF waiting, nearest
<1>6. CASE waiting = {}
  <2>0. PICK ended : ended = over
    OBVIOUS
  <2>1. ended = [at |-> "settled", todo |-> task.todo, held |-> Nil, done |-> task.done,
                undo |-> <<>>, undone |-> task.undone, harmed |-> task.harmed,
                aborted |-> task.aborted,
                outcome |-> IF task.harmed THEN "compensation-failed" ELSE "failed"]
    BY <2>0 DEF Settle, Task
  <2> HIDE DEF over
  <2>2. ended \in Task
    BY <1>3, <2>1 DEF Task, Outcome, Settled
  <2>3. tasks'[p] = ended /\ ended.at = "settled" /\ \A q \in Tasks : q # p => tasks'[q] = tasks[q]
    BY <1>1, <1>2, <1>6, <2>0, <2>1
  <2>4. OutboxTypeOK'
    BY <1>1, <1>2, <1>6, <2>0, <2>2 DEF OutboxTypeOK
  <2>5. EntryInv' /\ Grows
    BY <1>1, <2>3, <2>4, QuietStepKeeps DEF TaskAt
  <2>6. ended.outcome = "failed" => UndoneInOrder(ended)'
    <3> HAVE ended.outcome = "failed"
    <3>1. ~task.harmed
      BY <2>1
    <3>2. \A n \in 1..Len(task.done) : Owed(task.done[n]) => n \in ToSet(task.undone)
      <4> TAKE n \in 1..Len(task.done)
      <4>1. CASE n > Len(task.undo)
        BY <1>3, <3>1, <4>1 DEF UndoingIsInOrder, Backwards
      <4>2. CASE ~(n > Len(task.undo))
        <5>1. n \in 1..Len(task.undo)
          BY <1>3, <4>2
        <5> QED BY <1>4, <1>6, <5>1
      <4> QED BY <4>1, <4>2
    <3>3. \A i, j \in DOMAIN task.undone : i < j => task.undone[i] > task.undone[j]
      BY DEF UndoingIsInOrder, Backwards
    <3> QED BY <1>3, <2>1, <3>2, <3>3 DEF UndoneInOrder, Owed
  <2>7. SagaIsSound(ended, StepsOf[p])'
    <3>1. DoneIsCompleted(ended)'
      BY <2>1 DEF DoneIsCompleted, HasStatus
    <3>2. ended.outcome # "completed" /\ ended.at = "settled"
      BY <2>1
    <3> QED BY <2>6, <3>1, <3>2 DEF SagaIsSound, StepsAreKept
  <2> QED BY <1>1, <2>3, <2>4, <2>5, <2>7, RecordIsSound, OthersAreSound DEF SagasAreSound, Tasks
<1>7. CASE waiting # {}
  <2>0. PICK left, rest, next :
          /\ left = Len(task.undo) - nearest + 1
          /\ rest = SubSeq(task.undo, nearest, Len(task.undo))
          /\ next = on
    OBVIOUS
  <2>1. /\ rest \in Seq(Nat) /\ Len(rest) = left /\ left \in Nat /\ left > 0
        /\ left <= Len(task.undo)
        /\ \A i \in 1..left : /\ rest[i] = task.undo[nearest + i - 1]
                              /\ nearest + i - 1 \in 1..Len(task.undo)
        /\ \A n \in 1..Len(task.undo) : n > left => Len(task.undo) + 1 - n < nearest
    <3>1. task.undo \in Seq(Nat) /\ nearest \in 1..Len(task.undo)
      BY <1>3, <1>5, <1>7
    <3>2. RestIs(rest, left, task.undo, nearest)
      BY <2>0, <3>1, RestFacts
    <3> QED BY <3>2 DEF RestIs
  <2>2. \A i \in 1..left : rest[i] = left + 1 - i
    <3> TAKE i \in 1..left
    <3>1. PICK total \in Nat : total = Len(task.undo)
      BY <1>3
    <3>2. left = total - nearest + 1 /\ nearest \in 1..total
      BY <1>5, <1>7, <2>0, <3>1
    <3>3. nearest + i - 1 \in 1..total /\ rest[i] = total + 1 - (nearest + i - 1)
      BY <2>1, <3>1 DEF UndoingIsInOrder
    <3> QED BY <2>1, <3>2, <3>3
  <2>3. next = [at |-> "undoing", todo |-> task.todo, held |-> Nil, done |-> task.done,
              undo |-> rest, undone |-> task.undone, harmed |-> task.harmed,
              aborted |-> task.aborted, outcome |-> task.outcome]
    BY <2>0 DEF Task
  <2> HIDE DEF on
  <2>4. next \in Task
    BY <1>3, <2>1, <2>3 DEF Task
  <2>5. tasks'[p] = next /\ next.at = "undoing" /\ \A q \in Tasks : q # p => tasks'[q] = tasks[q]
    BY <1>1, <1>2, <1>7, <2>0, <2>3
  <2>6. OutboxTypeOK'
    BY <1>1, <1>2, <1>7, <2>0, <2>4 DEF OutboxTypeOK
  <2>7. EntryInv' /\ Grows
    BY <1>1, <2>5, <2>6, QuietStepKeeps DEF TaskAt
  <2>8. ~task.harmed => \A n \in 1..Len(task.done) :
                          n > left /\ Owed(task.done[n]) => n \in ToSet(task.undone)
    <3> HAVE ~task.harmed
    <3> TAKE n \in 1..Len(task.done)
    <3> HAVE n > left /\ Owed(task.done[n])
    <3>1. CASE n > Len(task.undo)
      BY <1>3, <3>1 DEF UndoingIsInOrder, Backwards
    <3>2. CASE ~(n > Len(task.undo))
      <4>1. n \in 1..Len(task.undo)
        BY <1>3, <3>2
      <4>2. Len(task.undo) + 1 - n < nearest /\ Len(task.undo) + 1 - n \in Nat
        BY <1>3, <2>1, <4>1
      <4>3. Len(task.undo) + 1 - n \notin waiting
        <5> DEFINE place == Len(task.undo) + 1 - n
        <5>1. place < nearest /\ place \in Nat
          BY <4>2
        <5> HIDE DEF place
        <5>2. nearest \in Nat
          BY <1>5, <1>7
        <5>3. place \in waiting => nearest <= place
          BY <1>5, <1>7
        <5> QED BY <5>1, <5>2, <5>3 DEF place
      <4> QED BY <1>4, <4>1, <4>3
    <3> QED BY <3>1, <3>2
  <2>9. Backwards(next, left)'
    <3>1. \A i \in DOMAIN task.undone : task.undone[i] > left
      <4> TAKE i \in DOMAIN task.undone
      <4>1. task.undone[i] > Len(task.undo)
        BY DEF UndoingIsInOrder, Backwards
      <4>2. task.undone[i] \in Nat /\ Len(task.undo) \in Nat /\ left \in Nat /\ left <= Len(task.undo)
        <5>1. task.undone[i] \in Nat
          BY <1>3
        <5> QED BY <2>1, <5>1
      <4> QED BY <4>1, <4>2
    <3>2. \A i, j \in DOMAIN task.undone : i < j => task.undone[i] > task.undone[j]
      BY DEF UndoingIsInOrder, Backwards
    <3> QED BY <1>3, <2>3, <2>8, <3>1, <3>2 DEF Backwards, Owed
  <2>10. UndoingIsInOrder(next)' /\ next.undo # <<>>
    <3>1. next.undo = rest /\ Len(next.undo) = left /\ next.done = task.done
      BY <2>1, <2>3
    <3>2. left <= Len(task.done)
      BY <1>3, <2>1 DEF UndoingIsInOrder
    <3>3. rest # <<>>
      <4>1. Len(rest) > 0
        BY <2>1
      <4> QED BY <4>1
    <3>4. \A i \in 1..Len(rest) : rest[i] = Len(rest) + 1 - i
      <4>1. Len(rest) = left
        BY <2>1
      <4> QED BY <2>2, <4>1
    <3>5. Backwards(next, Len(next.undo))'
      BY <2>9, <3>1
    <3> QED BY <3>1, <3>2, <3>3, <3>4, <3>5 DEF UndoingIsInOrder
  <2>11. SagaIsSound(next, StepsOf[p])'
    <3>1. DoneIsCompleted(next)'
      BY <2>3 DEF DoneIsCompleted, HasStatus
    <3>2. next.outcome = Nil /\ next.at = "undoing"
      BY <2>3
    <3> QED BY <2>10, <3>1, <3>2, NoneAssumption DEF SagaIsSound, StepsAreKept, Outcome, Settled
  <2> QED BY <1>1, <2>5, <2>6, <2>7, <2>11, RecordIsSound, OthersAreSound DEF SagasAreSound, Tasks
<1> QED BY <1>6, <1>7

-----------------------------------------------------------------------------
(* The actions, one by one.                                                *)

LEMMA HandlerSteps ==
  ASSUME IInv, NEW h \in Handlers, Register(h) \/ Dispose(h)
  PROVE  IInv' /\ Grows
<1>1. EntryInv /\ OutboxTypeOK
  BY DEF IInv, EntryInv
<1>2. /\ UNCHANGED <<entries, carried, tasks>>
      /\ handlers' \subseteq Handlers /\ disposed' \in Seq(Handlers)
  <2>1. handlers \subseteq Handlers /\ disposed \in Seq(Handlers)
    BY <1>1 DEF OutboxTypeOK
  <2>2. Append(disposed, h) \in Seq(Handlers)
    BY <2>1
  <2> QED BY <2>1, <2>2 DEF Register, Dispose
<1>3. /\ handlers \cup ToSet(disposed) \subseteq handlers' \cup ToSet(disposed')
      /\ ToSet(disposed) \subseteq ToSet(disposed')
  <2>1. CASE Register(h)
    BY <2>1 DEF Register
  <2>2. CASE Dispose(h)
    <3>1. /\ handlers' = handlers \ {h}
          /\ disposed' = Append(disposed, h)
          /\ disposed \in Seq(Handlers)
      BY <1>1, <2>2 DEF Dispose, OutboxTypeOK
    <3>2. ToSet(disposed') = ToSet(disposed) \cup {h}
      <4>1. /\ Len(disposed') = Len(disposed) + 1 /\ Len(disposed) \in Nat
            /\ \A i \in 1..Len(disposed) : disposed'[i] = disposed[i]
            /\ disposed'[Len(disposed) + 1] = h
            /\ DOMAIN disposed = 1..Len(disposed) /\ DOMAIN disposed' = 1..(Len(disposed) + 1)
        BY <3>1, AppendProperties
      <4> QED BY <4>1 DEF ToSet
    <3> QED BY <3>1, <3>2
  <2> QED BY <2>1, <2>2
<1>4. OutboxTypeOK'
  BY <1>1, <1>2 DEF OutboxTypeOK
<1>5. EntryInv' /\ Grows
  BY <1>1, <1>2, <1>3, <1>4, QuietStepKeeps
<1>6. SagasAreSound'
  BY <1>2, <1>3, <1>4, <1>5, OthersAreSound DEF SagasAreSound
<1> QED BY <1>5, <1>6 DEF IInv

LEMMA EnqueueStep ==
  ASSUME IInv, NEW step \in Intents, Enqueue(step)
  PROVE  IInv' /\ Grows
<1>1. EntryInv' /\ Grows /\ OutboxTypeOK'
  BY EnqueueKeeps DEF IInv, EntryInv
<1>2. SagasAreSound'
  BY <1>1, OthersAreSound DEF SagasAreSound, Enqueue
<1> QED BY <1>1, <1>2 DEF IInv

LEMMA AbortStep ==
  ASSUME IInv, NEW p \in Tasks, AbortTask(p)
  PROVE  IInv' /\ Grows
<1> DEFINE rec == [tasks[p] EXCEPT !.aborted = TRUE]
<1>1. EntryInv /\ OutboxTypeOK /\ SagasAreSound /\ tasks[p] \in Task /\ tasks \in [Tasks -> Task]
  BY DEF IInv, EntryInv, OutboxTypeOK
<1>2. /\ rec \in Task
      /\ rec.at = tasks[p].at /\ rec.held = tasks[p].held /\ rec.outcome = tasks[p].outcome
      /\ rec.todo = tasks[p].todo /\ rec.done = tasks[p].done /\ rec.undo = tasks[p].undo
      /\ rec.undone = tasks[p].undone /\ rec.harmed = tasks[p].harmed
  BY <1>1 DEF Task
<1>3. PICK new : new = rec
  OBVIOUS
<1>4. /\ tasks' = [tasks EXCEPT ![p] = new]
      /\ UNCHANGED <<entries, handlers, carried, disposed>>
  BY <1>3 DEF AbortTask
<1> HIDE DEF rec
<1>5. tasks'[p] = new /\ \A q \in Tasks : q # p => tasks'[q] = tasks[q]
  BY <1>1, <1>4
<1>6. OutboxTypeOK'
  BY <1>1, <1>2, <1>3, <1>4 DEF OutboxTypeOK
<1>7. EntryInv' /\ Grows
  BY <1>1, <1>2, <1>3, <1>4, <1>5, <1>6, QuietStepKeeps
<1>8. ASSUME p \in Sagas PROVE SagaIsSound(new, StepsOf[p])'
  <2>1. PICK old : old = tasks[p]
    OBVIOUS
  <2>2. /\ new.at = old.at /\ new.outcome = old.outcome /\ new.todo = old.todo
        /\ new.done = old.done /\ new.undo = old.undo /\ new.undone = old.undone
        /\ new.harmed = old.harmed
    BY <1>2, <1>3, <2>1
  <2>3. SagaIsSound(old, StepsOf[p])'
    <3>1. SagaIsSound(old, StepsOf[p]) /\ old \in Task
      BY <1>1, <1>8, <2>1 DEF SagasAreSound
    <3> QED BY <1>1, <1>4, <1>6, <1>7, <3>1, OthersSteps DEF OutboxTypeOK
  <2>4. DoneIsCompleted(new)'
    BY <2>2, <2>3 DEF SagaIsSound, DoneIsCompleted, HasStatus
  <2>5. StepsAreKept(new, StepsOf[p])
    BY <2>2, <2>3 DEF SagaIsSound, StepsAreKept
  <2>6. new.at = "undoing" => new.undo # <<>> /\ UndoingIsInOrder(new)'
    BY <2>2, <2>3 DEF SagaIsSound, UndoingIsInOrder, Backwards, Owed
  <2>7. new.outcome = "failed" => UndoneInOrder(new)'
    BY <2>2, <2>3 DEF SagaIsSound, UndoneInOrder, Owed
  <2> QED BY <2>2, <2>3, <2>4, <2>5, <2>6, <2>7 DEF SagaIsSound, StepsAreKept
<1>9. SagasAreSound'
  BY <1>4, <1>5, <1>6, <1>7, <1>8, RecordIsSound, OthersAreSound DEF SagasAreSound, Tasks
<1> QED BY <1>7, <1>9 DEF IInv

(* What the lemmas about one saga give for all of them.                    *)
LEMMA OneMoves ==
  ASSUME IInv, EntryInv', Grows, UNCHANGED disposed, NEW p \in Tasks,
         \A q \in Tasks : q # p => tasks'[q] = tasks[q],
         p \in Sagas => SagaIsSound(tasks[p], StepsOf[p])'
  PROVE  IInv'
<1>1. OutboxTypeOK'
  BY DEF EntryInv
<1>2. \A q \in Sagas : q # p => SagaIsSound(tasks[q], StepsOf[q])'
  BY <1>1, OthersAreSound DEF Tasks
<1> QED BY <1>2 DEF IInv, SagasAreSound

LEMMA BeginSagaStep ==
  ASSUME IInv, NEW p \in Tasks, BeginSaga(p)
  PROVE  IInv' /\ Grows
<1>1. PICK task : task = tasks[p]
  OBVIOUS
<1>2. /\ p \in Sagas /\ task \in Task /\ ~TaskAt(p, "executing") /\ Proceed(p, task)
      /\ UNCHANGED <<handlers, carried, disposed>>
  BY <1>1 DEF BeginSaga, TaskAt, IInv, EntryInv, OutboxTypeOK
<1>3. SagaIsSound(task, StepsOf[p]) /\ task.at \in {"idle", "executing", "returned"}
  BY <1>1, <1>2 DEF BeginSaga, TaskAt, IInv, SagasAreSound
<1>4. /\ EntryInv' /\ Grows /\ \A q \in Tasks : q # p => tasks'[q] = tasks[q]
      /\ SagaIsSound(tasks[p], StepsOf[p])'
  BY <1>2, <1>3, ProceedKeeps
<1> QED BY <1>2, <1>4, OneMoves

(* A drain goes on, or breaks off with its signal aborted.                 *)
LEMMA DrainKeeps ==
  ASSUME IInv, NEW p \in Dispatchers, ~TaskAt(p, "executing"), NEW task \in Task,
         DrainProceeds(p, task), UNCHANGED <<handlers, carried, disposed>>
  PROVE  IInv' /\ Grows
<1>1. /\ EntryInv /\ OutboxTypeOK /\ tasks \in [Tasks -> Task]
      /\ p \in Tasks /\ p \notin Sagas
  BY OutboxAssumption DEF IInv, EntryInv, OutboxTypeOK, Tasks
<1>2. CASE task.aborted
  <2> DEFINE new == Settle(task, "completed")
  <2>1. UNCHANGED entries /\ tasks' = [tasks EXCEPT ![p] = new]
    BY <1>2 DEF DrainProceeds
  <2>2. new \in Task /\ new.at = "settled"
    BY MovesAreTyped DEF Settle, Task, Outcome, Settled
  <2> HIDE DEF new
  <2>3. /\ tasks' \in [Tasks -> Task] /\ tasks'[p] = new
        /\ \A q \in Tasks : q # p => tasks'[q] = tasks[q]
    BY <1>1, <2>1, <2>2
  <2>4. OutboxTypeOK'
    BY <1>1, <2>1, <2>3 DEF OutboxTypeOK
  <2>5. EntryInv' /\ Grows
    BY <1>1, <2>1, <2>2, <2>3, <2>4, QuietStepKeeps DEF TaskAt
  <2> QED BY <1>1, <2>3, <2>5, OneMoves
<1>3. CASE ~task.aborted
  <2>1. EntryInv' /\ Grows /\ \A q \in Tasks : q # p => tasks'[q] = tasks[q]
    BY <1>1, <1>3, ProceedKeeps DEF DrainProceeds
  <2> QED BY <1>1, <2>1, OneMoves
<1> QED BY <1>2, <1>3

LEMMA BeginDispatchStep ==
  ASSUME IInv, NEW p \in Tasks, BeginDispatch(p)
  PROVE  IInv' /\ Grows
<1>1. /\ EntryInv /\ OutboxTypeOK /\ FinitelyMany /\ p \in Dispatchers /\ p \notin Sagas
      /\ tasks[p] \in Task /\ ~TaskAt(p, "executing")
      /\ UNCHANGED <<handlers, carried, disposed>>
  BY OutboxAssumption DEF IInv, EntryInv, OutboxTypeOK, BeginDispatch, TaskAt
<1>2. \A k \in Existing : StepOf(k) \in Step
  BY <1>1 DEF Existing, StepOf, Step, OutboxTypeOK, Entry
<1>3. ASSUME NEW todo \in Seq(Step)
      PROVE  /\ [tasks[p] EXCEPT !.todo = todo] \in Task
             /\ [tasks[p] EXCEPT !.todo = todo].todo = todo
  BY <1>1 DEF Task
<1>4. ASSUME NEW listed \in SetToSeqs(Pending),
             DrainProceeds(p, [tasks[p] EXCEPT !.todo = [i \in DOMAIN listed |-> StepOf(listed[i])]])
      PROVE  IInv' /\ Grows
  <2>1. Pending \subseteq Existing /\ IsFiniteSet(Pending)
    BY <1>1, FS_Subset DEF Pending, FinitelyMany
  <2>2. Cardinality(Pending) \in Nat
    BY <2>1, FS_CardinalityType
  <2>3. listed \in [1..Cardinality(Pending) -> Pending]
    BY DEF SetToSeqs
  <2>4. [i \in DOMAIN listed |-> StepOf(listed[i])] \in [1..Cardinality(Pending) -> Step]
    BY <1>2, <2>1, <2>3
  <2>5. [i \in DOMAIN listed |-> StepOf(listed[i])] \in Seq(Step)
    BY <2>2, <2>4
  <2>6. PICK task : task = [tasks[p] EXCEPT !.todo = [i \in DOMAIN listed |-> StepOf(listed[i])]]
    OBVIOUS
  <2>7. task \in Task /\ DrainProceeds(p, task)
    BY <1>3, <1>4, <2>5, <2>6
  <2> QED BY <1>1, <2>7, DrainKeeps
<1>5. ASSUME NEW k \in Existing, Dispatch(p, [tasks[p] EXCEPT !.todo = <<StepOf(k)>>])
      PROVE  IInv' /\ Grows
  <2>1. <<StepOf(k)>> \in Seq(Step) /\ <<StepOf(k)>> # <<>>
    BY <1>2
  <2>2. PICK task : task = [tasks[p] EXCEPT !.todo = <<StepOf(k)>>]
    OBVIOUS
  <2>3. task \in Task /\ task.todo # <<>> /\ Dispatch(p, task)
    BY <1>3, <1>5, <2>1, <2>2
  <2>4. EntryInv' /\ Grows
    BY <1>1, <2>3, DispatchKeeps
  <2>5. \A q \in Tasks : q # p => tasks'[q] = tasks[q]
    BY <1>1, <2>3, DispatchKeeps DEF OutboxTypeOK
  <2> QED BY <1>1, <2>4, <2>5, OneMoves
<1> QED BY <1>4, <1>5 DEF BeginDispatch

LEMMA DrainGoesOnStep ==
  ASSUME IInv, NEW p \in Tasks, DrainGoesOn(p)
  PROVE  IInv' /\ Grows
<1>1. /\ p \in Dispatchers /\ TaskAt(p, "returned") /\ tasks[p] \in Task
      /\ UNCHANGED <<handlers, carried, disposed>>
  BY DEF DrainGoesOn, IInv, EntryInv, OutboxTypeOK
<1>2. tasks[p].todo \in Seq(Step) /\ tasks[p].todo # <<>>
  BY <1>1 DEF Task, IInv, EntryInv, ReturnedHolds
<1>3. Tail(tasks[p].todo) \in Seq(Step)
  BY <1>2
<1>4. PICK task : task = [tasks[p] EXCEPT !.todo = Tail(tasks[p].todo)]
  OBVIOUS
<1>5. task \in Task /\ DrainProceeds(p, task) /\ ~TaskAt(p, "executing")
  BY <1>1, <1>3, <1>4 DEF Task, DrainGoesOn, TaskAt
<1> QED BY <1>1, <1>5, DrainKeeps

LEMMA SagaGoesOnStep ==
  ASSUME IInv, NEW p \in Tasks, SagaGoesOn(p)
  PROVE  IInv' /\ Grows
<1> DEFINE todo == tasks[p].todo
           done == tasks[p].done
           steps == StepsOf[p]
<1>1. /\ p \in Sagas /\ TaskAt(p, "returned") /\ tasks[p].held.status = "completed"
      /\ tasks[p] \in Task /\ SagaIsSound(tasks[p], steps)
      /\ UNCHANGED <<handlers, carried, disposed>>
  BY DEF SagaGoesOn, IInv, SagasAreSound, EntryInv, OutboxTypeOK
<1>2. /\ todo \in Seq(Step) /\ done \in Seq(Step) /\ todo # <<>>
      /\ tasks[p].held # Nil
      /\ entries[StepAt(p).key] = tasks[p].held
      /\ entries[StepAt(p).key].handler = StepAt(p).handler
  BY <1>1 DEF Task, IInv, EntryInv, ReturnedHolds
<1>3. /\ Head(todo) \in Step /\ Tail(todo) \in Seq(Step)
      /\ Len(todo) \in Nat /\ Len(todo) > 0 /\ Len(Tail(todo)) = Len(todo) - 1
      /\ \A i \in 1..Len(Tail(todo)) : Tail(todo)[i] = todo[i + 1]
      /\ Head(todo) = todo[1]
  BY <1>2
<1>4. PICK next, rest :
        /\ next = Append(done, Head(todo))
        /\ rest = Tail(todo)
  OBVIOUS
<1>5. /\ next \in Seq(Step) /\ Len(done) \in Nat /\ Len(next) = Len(done) + 1
      /\ \A i \in 1..Len(done) : next[i] = done[i]
      /\ next[Len(done) + 1] = Head(todo)
  BY <1>2, <1>3, <1>4, AppendProperties
<1>6. PICK task : task = [tasks[p] EXCEPT !.done = next, !.todo = rest]
  OBVIOUS
<1>7. /\ task \in Task /\ task.at = "returned" /\ task.outcome = tasks[p].outcome
      /\ task.done = next /\ task.todo = rest
      /\ task.undone = tasks[p].undone /\ task.harmed = tasks[p].harmed
  BY <1>1, <1>3, <1>4, <1>5, <1>6 DEF Task, TaskAt
<1>8. Proceed(p, task) /\ ~TaskAt(p, "executing")
  BY <1>1, <1>4, <1>6 DEF SagaGoesOn, TaskAt
<1>9. tasks[p].outcome = Nil /\ tasks[p].undone = <<>> /\ ~tasks[p].harmed
  BY <1>1 DEF SagaIsSound, TaskAt
<1>10. /\ Len(done) + Len(todo) = Len(steps)
       /\ \A i \in 1..Len(done) : done[i] = steps[i]
       /\ \A i \in 1..Len(todo) : todo[i] = steps[Len(done) + i]
  BY <1>1 DEF SagaIsSound, StepsAreKept, TaskAt
<1>11. DoneIsCompleted(task)
  <2>1. DoneIsCompleted(tasks[p])
    BY <1>1 DEF SagaIsSound
  <2>2. HasStatus(Head(todo).key, "completed") /\ entries[Head(todo).key].handler = Head(todo).handler
    BY <1>1, <1>2 DEF HasStatus, StepAt
  <2>3. \A i \in 1..(Len(done) + 1) : i \in 1..Len(done) \/ i = Len(done) + 1
    BY <1>5
  <2> QED BY <1>5, <1>7, <2>1, <2>2, <2>3 DEF DoneIsCompleted
<1> HIDE DEF todo, done, steps
<1>12. StepsAreKept(task, steps)
  <2>1. Len(next) + Len(rest) = Len(steps)
    BY <1>3, <1>4, <1>5, <1>10
  <2>2. \A i \in 1..Len(next) : next[i] = steps[i]
    <3> TAKE i \in 1..Len(next)
    <3>1. CASE i \in 1..Len(done)
      BY <1>5, <1>10, <3>1
    <3>2. CASE i = Len(done) + 1
      BY <1>3, <1>5, <1>10, <3>2
    <3> QED BY <1>5, <3>1, <3>2
  <2>3. \A i \in 1..Len(rest) : rest[i] = steps[Len(next) + i]
    <3> TAKE i \in 1..Len(rest)
    <3>1. i + 1 \in 1..Len(todo) /\ rest[i] = todo[i + 1]
      BY <1>3, <1>4
    <3>2. rest[i] = steps[Len(done) + (i + 1)]
      BY <1>10, <3>1
    <3>3. Len(done) + (i + 1) = Len(next) + i
      BY <1>5, <3>1
    <3> QED BY <3>2, <3>3
  <2> QED BY <1>7, <2>1, <2>2, <2>3 DEF StepsAreKept
<1>13. SagaIsSound(task, steps)
  BY <1>7, <1>9, <1>11, <1>12, NoneAssumption DEF SagaIsSound, Outcome, Settled
<1>14. /\ EntryInv' /\ Grows /\ \A q \in Tasks : q # p => tasks'[q] = tasks[q]
       /\ SagaIsSound(tasks[p], StepsOf[p])'
  BY <1>1, <1>7, <1>8, <1>13, ProceedKeeps DEF steps
<1> QED BY <1>1, <1>14, OneMoves

(* After the promise of execute() has settled, the record of its task is   *)
(* as it was but for the entry in hand.                                    *)
LEMMA ReturnKeeps ==
  ASSUME IInv, EntryInv', Grows, UNCHANGED disposed, NEW p \in Tasks, TaskAt(p, "executing"),
         NEW next \in Entry, tasks' = [tasks EXCEPT ![p] = Returned(tasks[p], next)]
  PROVE  IInv'
<1>1. /\ tasks \in [Tasks -> Task] /\ tasks[p] \in Task
      /\ disposed \in Seq(Handlers) /\ OutboxTypeOK'
  BY DEF IInv, EntryInv, OutboxTypeOK
<1>2. PICK old, new : old = tasks[p] /\ new = Returned(tasks[p], next)
  OBVIOUS
<1>3. /\ new.at = "returned" /\ new.outcome = old.outcome /\ new.todo = old.todo
      /\ new.done = old.done /\ new.undone = old.undone /\ new.harmed = old.harmed
      /\ old.at = "executing"
  BY <1>1, <1>2 DEF Returned, Task, TaskAt
<1>4. tasks'[p] = new /\ \A q \in Tasks : q # p => tasks'[q] = tasks[q]
  BY <1>1, <1>2
<1>5. ASSUME p \in Sagas PROVE SagaIsSound(new, StepsOf[p])'
  <2>1. SagaIsSound(old, StepsOf[p])
    BY <1>2, <1>5 DEF IInv, SagasAreSound
  <2>2. SagaIsSound(old, StepsOf[p])'
    BY <1>1, <1>2, <2>1, OthersSteps DEF OutboxTypeOK
  <2>3. DoneIsCompleted(new)'
    BY <1>3, <2>2 DEF SagaIsSound, DoneIsCompleted, HasStatus
  <2>4. StepsAreKept(new, StepsOf[p])
    BY <1>3, <2>1 DEF SagaIsSound, StepsAreKept
  <2>5. new.outcome = Nil
    BY <1>3, <2>1 DEF SagaIsSound
  <2> QED BY <1>3, <2>1, <2>3, <2>4, <2>5, NoneAssumption
          DEF SagaIsSound, StepsAreKept, Outcome, Settled
<1> QED BY <1>4, <1>5, RecordIsSound, OneMoves

LEMMA ExecuteStep ==
  ASSUME IInv, NEW p \in Tasks, ExecuteSucceeds(p) \/ ExecuteFails(p)
  PROVE  IInv' /\ Grows
<1> DEFINE k == StepAt(p).key
           held == tasks[p].held
<1>1. /\ EntryInv /\ OutboxTypeOK /\ TaskAt(p, "executing") /\ UNCHANGED <<handlers, disposed>>
  BY DEF IInv, EntryInv, ExecuteSucceeds, ExecuteFails
<1>2. /\ k \in Keys /\ held = entries[k] /\ entries[k] # Nil /\ held.status = "running"
      /\ MaxAttempts[k] \in Nat
  BY <1>1, StepIsTyped, OutboxAssumption DEF EntryInv, ExecutingHolds, HasStatus
<1>3. held \in Entry /\ held.attempts <= MaxAttempts[k]
  BY <1>1, <1>2 DEF OutboxTypeOK
<1>4. CASE ExecuteSucceeds(p)
  <2>1. PICK next : next = [held EXCEPT !.status = "completed"]
    OBVIOUS
  <2>2. /\ next \in Entry /\ next.status = "completed"
        /\ next.handler = held.handler /\ next.attempts = held.attempts
    BY <1>3, <2>1 DEF Entry, Settled
  <2>3. Update(p, next) /\ carried' = [carried EXCEPT ![k] = @ + 1]
    BY <1>4, <2>1 DEF ExecuteSucceeds, StepAt
  <2>4. EntryInv' /\ Grows /\ tasks' = [tasks EXCEPT ![p] = Returned(tasks[p], next)]
    BY <1>1, <2>2, <2>3, UpdateKeeps
  <2> QED BY <1>1, <2>2, <2>4, ReturnKeeps
<1>5. CASE ExecuteFails(p)
  <2>1. PICK next : next = Failed(k, held)
    OBVIOUS
  <2>2. /\ next \in Entry /\ next.handler = held.handler /\ next.attempts = held.attempts
        /\ \/ next.status = "pending" /\ next.attempts < MaxAttempts[k]
           \/ next.status = "failed" /\ next.attempts = MaxAttempts[k]
    BY <1>2, <1>3, <2>1, FailedIsInOrder
  <2>3. Update(p, next) /\ carried' = carried
    BY <1>5, <2>1 DEF ExecuteFails, StepAt
  <2>4. EntryInv' /\ Grows /\ tasks' = [tasks EXCEPT ![p] = Returned(tasks[p], next)]
    BY <1>1, <2>2, <2>3, UpdateKeeps
  <2> QED BY <1>1, <2>2, <2>4, ReturnKeeps
<1> QED BY <1>4, <1>5

LEMMA SagaFailsStep ==
  ASSUME IInv, NEW p \in Tasks, SagaFails(p)
  PROVE  IInv' /\ Grows
<1> DEFINE done == tasks[p].done
           order == UndoOrder(done)
<1>1. /\ p \in Sagas /\ TaskAt(p, "returned") /\ tasks[p] \in Task
      /\ SagaIsSound(tasks[p], StepsOf[p])
      /\ UNCHANGED <<entries, handlers, carried, disposed>>
  BY DEF SagaFails, IInv, SagasAreSound, EntryInv, OutboxTypeOK
<1>2. done \in Seq(Step) /\ Len(done) \in Nat /\ DOMAIN done = 1..Len(done)
  BY <1>1 DEF Task
<1>3. /\ order \in Seq(Nat) /\ Len(order) = Len(done)
      /\ \A i \in 1..Len(done) : order[i] = Len(done) + 1 - i
  <2>1. order = [i \in 1..Len(done) |-> Len(done) + 1 - i]
    BY <1>2 DEF UndoOrder
  <2>2. order \in [1..Len(done) -> Nat]
    BY <1>2, <2>1
  <2> QED BY <1>2, <2>1, <2>2
<1>4. PICK task : task = [tasks[p] EXCEPT !.undo = order]
  OBVIOUS
<1>5. /\ task \in Task /\ task.outcome = tasks[p].outcome /\ task.done = done
      /\ task.undo = order /\ task.undone = tasks[p].undone /\ task.harmed = tasks[p].harmed
  BY <1>1, <1>3, <1>4 DEF Task
<1>6. task.outcome = Nil /\ task.undone = <<>>
  BY <1>1, <1>5 DEF SagaIsSound, TaskAt
<1>7. DoneIsCompleted(task)
  BY <1>1, <1>5 DEF SagaIsSound, DoneIsCompleted
<1> HIDE DEF order, done
<1>8. Backwards(task, Len(done))
  <2>1. DOMAIN task.undone = {}
    BY <1>6
  <2> QED BY <1>2, <1>5, <2>1 DEF Backwards
<1>9. UndoingIsInOrder(task)
  BY <1>2, <1>3, <1>5, <1>8 DEF UndoingIsInOrder
<1>10. NextUndo(p, task)
  BY <1>4 DEF SagaFails, order, done
<1> QED BY <1>1, <1>5, <1>6, <1>7, <1>9, <1>10, NextUndoKeeps DEF IInv

LEMMA CompensateStep ==
  ASSUME IInv, NEW p \in Tasks, CompensateSucceeds(p) \/ CompensateFails(p)
  PROVE  IInv' /\ Grows
<1> DEFINE undo == tasks[p].undo
           undone == tasks[p].undone
           done == tasks[p].done
<1>1. /\ p \in Sagas /\ TaskAt(p, "undoing") /\ tasks[p] \in Task
      /\ SagaIsSound(tasks[p], StepsOf[p])
      /\ UNCHANGED <<entries, handlers, carried, disposed>>
  BY DEF CompensateSucceeds, CompensateFails, IInv, SagasAreSound, EntryInv, OutboxTypeOK
<1>2. /\ undo \in Seq(Nat) /\ undone \in Seq(Nat) /\ done \in Seq(Step) /\ undo # <<>>
      /\ UndoingIsInOrder(tasks[p]) /\ DoneIsCompleted(tasks[p]) /\ tasks[p].outcome = Nil
  BY <1>1 DEF SagaIsSound, Task, TaskAt
<1>3. /\ Len(undo) \in Nat /\ Len(undo) > 0
      /\ Head(undo) = Len(undo) /\ Tail(undo) \in Seq(Nat) /\ Len(Tail(undo)) = Len(undo) - 1
      /\ \A i \in 1..Len(Tail(undo)) : Tail(undo)[i] = Len(undo) - i
  <2>1. /\ Len(undo) \in Nat /\ Len(undo) > 0 /\ Head(undo) = undo[1]
        /\ Tail(undo) \in Seq(Nat) /\ Len(Tail(undo)) = Len(undo) - 1
        /\ \A i \in 1..Len(Tail(undo)) : Tail(undo)[i] = undo[i + 1]
    BY <1>2
  <2>2. \A i \in 1..Len(undo) : undo[i] = Len(undo) + 1 - i
    BY <1>2 DEF UndoingIsInOrder
  <2> HIDE DEF undo
  <2>3. undo[1] = Len(undo)
    BY <2>1, <2>2
  <2>4. \A i \in 1..Len(Tail(undo)) : undo[i + 1] = Len(undo) - i
    BY <2>1, <2>2
  <2> QED BY <2>1, <2>3, <2>4
<1>4. /\ DOMAIN undone = 1..Len(undone) /\ Len(undone) \in Nat
      /\ \A i \in 1..Len(undone) : undone[i] > Len(undo)
      /\ \A i, j \in 1..Len(undone) : i < j => undone[i] > undone[j]
      /\ Len(undo) <= Len(done)
      /\ DOMAIN done = 1..Len(done) /\ Len(done) \in Nat
      /\ \A i \in 1..Len(undone) : undone[i] \in Nat
      /\ ~tasks[p].harmed => \A n \in 1..Len(done) :
                               n > Len(undo) /\ Owed(done[n]) => n \in ToSet(undone)
  <2>1. /\ DOMAIN undone = 1..Len(undone) /\ Len(undone) \in Nat
        /\ DOMAIN done = 1..Len(done) /\ Len(done) \in Nat
        /\ \A i \in 1..Len(undone) : undone[i] \in Nat
    <3>1. undone \in Seq(Nat) /\ done \in Seq(Step)
      BY <1>2
    <3> HIDE DEF undone, done
    <3>2. \A i \in 1..Len(undone) : undone[i] \in Nat
      BY <3>1, ElementOfSeq
    <3> QED BY <3>1, <3>2, LenProperties
  <2>2. Len(undo) <= Len(done) /\ Backwards(tasks[p], Len(undo))
    BY <1>2 DEF UndoingIsInOrder
  <2> QED BY <2>1, <2>2 DEF Backwards
<1>5. CASE CompensateSucceeds(p)
  <2>1. PICK next : next = Append(undone, Head(undo))
    OBVIOUS
  <2>2. /\ next \in Seq(Nat) /\ Len(next) = Len(undone) + 1
        /\ DOMAIN next = 1..(Len(undone) + 1)
        /\ \A i \in 1..Len(undone) : next[i] = undone[i]
        /\ next[Len(undone) + 1] = Len(undo)
    <3>1. undone \in Seq(Nat) /\ Head(undo) = Len(undo) /\ Head(undo) \in Nat
      BY <1>2, <1>3
    <3> HIDE DEF undo, undone
    <3>2. next \in Seq(Nat) /\ Len(next) = Len(undone) + 1
      BY <2>1, <3>1, AppendProperties
    <3>3. /\ \A i \in 1..Len(undone) : next[i] = undone[i]
          /\ next[Len(undone) + 1] = Len(undo)
      BY <2>1, <3>1, AppendProperties
    <3> QED BY <3>2, <3>3, LenProperties
  <2>3. PICK task : task = [tasks[p] EXCEPT !.undone = next, !.undo = Tail(undo)]
    OBVIOUS
  <2>4. /\ task \in Task /\ task.outcome = Nil /\ task.done = done /\ task.undo = Tail(undo)
        /\ task.undone = next /\ task.harmed = tasks[p].harmed
    BY <1>1, <1>2, <1>3, <2>2, <2>3 DEF Task
  <2>5. NextUndo(p, task)
    BY <1>5, <2>1, <2>3 DEF CompensateSucceeds
  <2> HIDE DEF undo, undone, done
  <2>6. \A i \in DOMAIN next : next[i] > Len(undo) - 1
    <3> TAKE i \in DOMAIN next
    <3>1. i \in 1..Len(undone) \/ i = Len(undone) + 1
      BY <1>4, <2>2
    <3> QED BY <1>3, <1>4, <2>2, <3>1
  <2>7. \A i, j \in DOMAIN next : i < j => next[i] > next[j]
    <3> TAKE i, j \in DOMAIN next
    <3> HAVE i < j
    <3>1. i \in 1..Len(undone) /\ (j \in 1..Len(undone) \/ j = Len(undone) + 1)
      BY <1>4, <2>2
    <3> QED BY <1>3, <1>4, <2>2, <3>1
  <2>8. ToSet(undone) \subseteq ToSet(next) /\ Len(undo) \in ToSet(next)
    BY <1>4, <2>2 DEF ToSet
  <2>9. ~task.harmed => \A n \in 1..Len(done) :
                          n > Len(undo) - 1 /\ Owed(done[n]) => n \in ToSet(next)
    <3> SUFFICES ASSUME ~task.harmed, NEW n \in 1..Len(done), n > Len(undo) - 1, Owed(done[n])
                 PROVE  n \in ToSet(next)
      OBVIOUS
    <3>1. n > Len(undo) \/ n = Len(undo)
      <4>1. n \in Nat /\ Len(undo) \in Nat
        BY <1>3, <1>4
      <4> QED BY <4>1
    <3>2. n > Len(undo) => n \in ToSet(undone)
      BY <1>4, <2>4
    <3> QED BY <2>8, <3>1, <3>2
  <2>10. Backwards(task, Len(task.undo))
    BY <1>3, <1>4, <2>4, <2>6, <2>7, <2>9 DEF Backwards
  <2>11. UndoingIsInOrder(task)
    BY <1>3, <1>4, <2>4, <2>10 DEF UndoingIsInOrder
  <2>12. DoneIsCompleted(task)
    BY <1>2, <2>4 DEF DoneIsCompleted, done
  <2> QED BY <1>1, <2>4, <2>5, <2>11, <2>12, NextUndoKeeps DEF IInv
<1>6. CASE CompensateFails(p)
  <2>1. PICK task : task = [tasks[p] EXCEPT !.harmed = TRUE, !.undo = Tail(undo)]
    OBVIOUS
  <2>2. /\ task \in Task /\ task.outcome = Nil /\ task.done = done /\ task.undo = Tail(undo)
        /\ task.undone = undone /\ task.harmed
    BY <1>1, <1>2, <1>3, <2>1 DEF Task
  <2>3. NextUndo(p, task)
    BY <1>6, <2>1 DEF CompensateFails
  <2>4. DoneIsCompleted(task)
    BY <1>2, <2>2 DEF DoneIsCompleted
  <2> HIDE DEF undo, undone, done
  <2>5. Backwards(task, Len(task.undo))
    BY <1>3, <1>4, <2>2 DEF Backwards
  <2>6. UndoingIsInOrder(task)
    BY <1>3, <1>4, <2>2, <2>5 DEF UndoingIsInOrder
  <2> QED BY <1>1, <2>2, <2>3, <2>4, <2>6, NextUndoKeeps DEF IInv
<1> QED BY <1>5, <1>6

-----------------------------------------------------------------------------
(* No key exists at first, and no task has begun.                          *)
LEMMA InitIsSound == OutboxInit => IInv
<1> SUFFICES ASSUME OutboxInit PROVE IInv
  OBVIOUS
<1>1. \A p \in Tasks : tasks[p] = NewTask(IF p \in Sagas THEN StepsOf[p] ELSE <<>>)
  BY DEF OutboxInit
<1>2. \A p \in Tasks :
        /\ tasks[p] \in Task /\ tasks[p].at = "idle" /\ tasks[p].done = <<>>
        /\ tasks[p].undone = <<>> /\ tasks[p].harmed = FALSE /\ tasks[p].outcome = Nil
        /\ p \in Sagas => tasks[p].todo = StepsOf[p]
  <2> TAKE p \in Tasks
  <2> DEFINE steps == IF p \in Sagas THEN StepsOf[p] ELSE <<>>
  <2>1. steps \in Seq(Step)
    BY OutboxAssumption
  <2> HIDE DEF steps
  <2>2. NewTask(steps) \in Task
    BY <2>1 DEF NewTask, Task
  <2> QED BY <1>1, <2>2 DEF NewTask, steps
<1>3. OutboxTypeOK
  BY <1>2 DEF OutboxInit, OutboxTypeOK
<1>4. FinitelyMany
  <2>1. Existing = {}
    BY DEF OutboxInit, Existing
  <2> QED BY <2>1, FS_EmptySet DEF FinitelyMany
<1>5. EntriesAreSound
  BY DEF OutboxInit, EntriesAreSound, EntryIsSound, HasStatus
<1>6. ExecutingHolds /\ OneExecutes /\ RunningIsExecuted /\ ReturnedHolds
  BY <1>2 DEF OutboxInit, ExecutingHolds, OneExecutes, RunningIsExecuted, ReturnedHolds, TaskAt, HasStatus
<1>7. SagasAreSound
  <2> SUFFICES ASSUME NEW p \in Sagas PROVE SagaIsSound(tasks[p], StepsOf[p])
    BY DEF SagasAreSound
  <2>1. /\ tasks[p].at = "idle" /\ tasks[p].done = <<>> /\ tasks[p].undone = <<>>
        /\ tasks[p].harmed = FALSE /\ tasks[p].outcome = Nil /\ tasks[p].todo = StepsOf[p]
    BY <1>2 DEF Tasks
  <2>2. StepsOf[p] \in Seq(Step) /\ Len(StepsOf[p]) \in Nat
    BY OutboxAssumption
  <2>3. StepsAreKept(tasks[p], StepsOf[p])
    BY <2>1, <2>2 DEF StepsAreKept
  <2> QED BY <2>1, <2>3, NoneAssumption DEF SagaIsSound, DoneIsCompleted, Outcome, Settled
<1> QED BY <1>3, <1>4, <1>5, <1>6, <1>7 DEF IInv, EntryInv

LEMMA NextIsSound == IInv /\ [OutboxNext]_outboxVars => IInv' /\ Grows
<1> SUFFICES ASSUME IInv, [OutboxNext]_outboxVars PROVE IInv' /\ Grows
  OBVIOUS
<1>1. ASSUME NEW h \in Handlers, Register(h) \/ Dispose(h) PROVE IInv' /\ Grows
  BY <1>1, HandlerSteps
<1>2. ASSUME NEW step \in Intents, Enqueue(step) PROVE IInv' /\ Grows
  BY <1>2, EnqueueStep
<1>3. ASSUME NEW p \in Tasks, AbortTask(p) PROVE IInv' /\ Grows
  BY <1>3, AbortStep
<1>4. ASSUME NEW p \in Tasks, BeginSaga(p) PROVE IInv' /\ Grows
  BY <1>4, BeginSagaStep
<1>5. ASSUME NEW p \in Tasks, BeginDispatch(p) PROVE IInv' /\ Grows
  BY <1>5, BeginDispatchStep
<1>6. ASSUME NEW p \in Tasks, TaskContinuation(p) PROVE IInv' /\ Grows
  BY <1>6, ExecuteStep, DrainGoesOnStep, SagaGoesOnStep, SagaFailsStep, CompensateStep
     DEF TaskContinuation
<1>7. CASE UNCHANGED outboxVars
  <2>1. OutboxTypeOK' /\ EntryInv
    BY <1>7 DEF IInv, EntryInv, OutboxTypeOK, outboxVars
  <2>2. EntryInv' /\ Grows
    BY <1>7, <2>1, QuietStepKeeps DEF outboxVars
  <2>3. SagasAreSound'
    BY <1>7, <2>1, <2>2, OthersAreSound DEF SagasAreSound, outboxVars
  <2> QED BY <2>2, <2>3 DEF IInv
<1> QED BY <1>1, <1>2, <1>3, <1>4, <1>5, <1>6, <1>7 DEF OutboxNext

(* The inductive invariant: a task that awaits a handler is the only one   *)
(* that holds its entry, what a saga has done is settled for good, and its *)
(* compensation goes backwards.                                            *)
THEOREM Invariance == OutboxSpec => []IInv
BY InitIsSound, NextIsSound, PTL DEF OutboxSpec

(* "retries without duplicating a completed effect": whatever sagas,       *)
(* drains and dispatches race for a key, its entry says truthfully whether *)
(* the effect was carried out, is under way in exactly one task, or was    *)
(* given up after all its attempts.                                        *)
THEOREM EntriesTellTheTruth == OutboxSpec => []EntriesAreTrue
<1>1. IInv => EntriesAreTrue
  <2> SUFFICES ASSUME IInv PROVE EntriesAreTrue
    OBVIOUS
  <2>1. /\ OutboxTypeOK /\ EntriesAreSound
        /\ ExecutingHolds /\ OneExecutes /\ RunningIsExecuted
    BY DEF IInv, EntryInv
  <2>2. EntryTellsEffect
    <3> SUFFICES ASSUME NEW k \in Keys
                 PROVE  LET status == IF entries[k] = Nil THEN "absent" ELSE entries[k].status
                            busy == {p \in Tasks : TaskAt(p, "executing") /\ Head(tasks[p].todo).key = k}
                        IN  /\ carried[k] = IF status = "completed" THEN 1 ELSE 0
                            /\ Cardinality(busy) = IF status = "running" THEN 1 ELSE 0
                            /\ \A p \in busy : tasks[p].held = entries[k]
                            /\ status = "failed" => entries[k].attempts = MaxAttempts[k]
      BY DEF EntryTellsEffect
    <3> DEFINE status == IF entries[k] = Nil THEN "absent" ELSE entries[k].status
               busy == {p \in Tasks : TaskAt(p, "executing") /\ Head(tasks[p].todo).key = k}
    <3>1. \A s \in {"completed", "running", "failed"} : status = s <=> HasStatus(k, s)
      BY DEF HasStatus
    <3>2. \A p \in busy : tasks[p].held = entries[k] /\ HasStatus(k, "running")
      BY <2>1 DEF ExecutingHolds, StepAt
    <3>3. ASSUME HasStatus(k, "running")
          PROVE  Cardinality(busy) = IF status = "running" THEN 1 ELSE 0
      <4>1. PICK p \in Tasks : TaskAt(p, "executing") /\ StepAt(p).key = k
        BY <2>1, <3>3 DEF RunningIsExecuted
      <4>2. busy = {p}
        BY <2>1, <4>1 DEF OneExecutes, StepAt
      <4>3. Cardinality(busy) = 1
        BY <4>2, FS_Singleton
      <4> QED BY <4>3, <3>1, <3>3
    <3>4. ASSUME ~HasStatus(k, "running")
          PROVE  Cardinality(busy) = IF status = "running" THEN 1 ELSE 0
      <4>1. busy = {}
        BY <3>2, <3>4
      <4>2. Cardinality(busy) = 0
        BY <4>1, FS_EmptySet
      <4> QED BY <3>1, <3>4, <4>2
    <3>5. /\ carried[k] = IF status = "completed" THEN 1 ELSE 0
          /\ status = "failed" => entries[k].attempts = MaxAttempts[k]
      BY <2>1, <3>1 DEF EntriesAreSound, EntryIsSound
    <3>6. Cardinality(busy) = IF status = "running" THEN 1 ELSE 0
      BY <3>3, <3>4
    <3> QED BY <3>2, <3>5, <3>6
  <2> QED BY <2>1, <2>2 DEF EntriesAreTrue
<1> QED BY <1>1, Invariance, PTL

(* A settled entry is terminal: no later enqueue, dispatch, drain or saga  *)
(* that uses its key changes it.                                           *)
THEOREM SettledIsTerminal == OutboxSpec => SettledStays
<1>1. IInv /\ [OutboxNext]_outboxVars =>
        [\A k \in Keys : entries[k] # Nil /\ entries[k].status \in Settled => entries'[k] = entries[k]]_outboxVars
  BY NextIsSound DEF Grows
<1> QED BY <1>1, Invariance, PTL DEF OutboxSpec, SettledStays

(* "Saga steps execute sequentially and compensate successful steps in     *)
(* reverse order", for sagas of any length: one that reports success has   *)
(* had all its effects carried out, one that reports failure has undone    *)
(* them from the last to the first, but for those no one could undo.       *)
THEOREM SagasUndoInOrder == OutboxSpec => []SagaUndoesInOrder
<1>1. IInv => SagaUndoesInOrder
  <2> SUFFICES ASSUME IInv, NEW p \in Sagas
               PROVE  /\ tasks[p].outcome = "failed" => UndoneInOrder(tasks[p])
                      /\ tasks[p].outcome = "completed" =>
                           /\ tasks[p].done = StepsOf[p]
                           /\ \A i \in DOMAIN tasks[p].done : carried[tasks[p].done[i].key] = 1
    BY DEF SagaUndoesInOrder
  <2>1. SagaIsSound(tasks[p], StepsOf[p]) /\ EntriesAreSound
    BY DEF IInv, EntryInv, SagasAreSound
  <2>2. tasks[p].done \in Seq(Step) /\ tasks[p].todo \in Seq(Step) /\ StepsOf[p] \in Seq(Step)
    BY OutboxAssumption DEF IInv, EntryInv, OutboxTypeOK, Task, Tasks
  <2>3. ASSUME tasks[p].outcome = "completed"
        PROVE  /\ tasks[p].done = StepsOf[p]
               /\ \A i \in DOMAIN tasks[p].done : carried[tasks[p].done[i].key] = 1
    <3>1. tasks[p].todo = <<>> /\ StepsAreKept(tasks[p], StepsOf[p])
      BY <2>1, <2>3 DEF SagaIsSound
    <3>2. Len(tasks[p].todo) = 0 /\ Len(tasks[p].done) \in Nat
      BY <2>2, <3>1
    <3>3. /\ Len(tasks[p].done) = Len(StepsOf[p])
          /\ \A i \in 1..Len(tasks[p].done) : tasks[p].done[i] = StepsOf[p][i]
      BY <2>3, <3>1, <3>2 DEF StepsAreKept
    <3>4. tasks[p].done = StepsOf[p]
      BY <2>2, <3>3, SeqEqual
    <3>5. \A i \in 1..Len(tasks[p].done) : carried[tasks[p].done[i].key] = 1
      <4> TAKE i \in 1..Len(tasks[p].done)
      <4>1. tasks[p].done[i] \in Step
        BY <2>2
      <4>2. tasks[p].done[i].key \in Keys /\ HasStatus(tasks[p].done[i].key, "completed")
        BY <2>1, <4>1 DEF SagaIsSound, DoneIsCompleted, Step
      <4> QED BY <2>1, <4>2 DEF EntriesAreSound, EntryIsSound
    <3> QED BY <2>2, <3>4, <3>5
  <2> QED BY <2>1, <2>3 DEF SagaIsSound
<1> QED BY <1>1, Invariance, PTL

=============================================================================
