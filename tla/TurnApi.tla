------------------------------ MODULE TurnApi ------------------------------
(***************************************************************************)
(* The Turn API of packages/rp/web/src/turn-api.ts over one live Session   *)
(* and its Agent: idempotent request ids, the Agent's maintenance phase,   *)
(* the Chat projection of a committed turn and the durability barrier.     *)
(* Module TurnRun opens the turn itself, which is an open context and one  *)
(* terminal event here; module TurnDelivery adds the browser's side.       *)
(*                                                                         *)
(* The Session's persistence and the Agent are not part of the repository. *)
(* A flush makes the log durable event by event, returns when everything   *)
(* that was in the log when it was called is durable, and may fail at any  *)
(* time.  A crash keeps the durable prefix of the log and nothing else.    *)
(***************************************************************************)
EXTENDS Naturals, Sequences, FiniteSets

CONSTANTS
  None,
  Requests,    \* request ids
  Messages,    \* normalized payloads: two payloads have one fingerprint iff they are equal
  Turns,       \* the turn ids that prepare() may draw
  Calls,       \* activations of executeRpTurn()
  Mishaps,     \* the kinds of mishap that may happen: "denial", "fault", "crash", ...
  MaxMishaps   \* bound on how many of them happen

ASSUME MishapsAssumption == MaxMishaps \in Nat

Request == [req : Requests, fp : Messages]

(* None is a value of its own, and the Agent makes no calls of the API.    *)
ASSUME NamesAssumption == None \notin Calls \cup Request \cup {"ok"} /\ "agent" \notin Calls

VARIABLES
  wire,     \* call -> the request that is on its way to it: [req, fp], or None
  calls,    \* where each activation stands
  lock,     \* who is in the Agent's maintenance phase: a call, "agent", or None
  log,      \* the Session's events
  durable,  \* how many of them are persisted
  drawn,    \* turn ids drawn so far
  mishaps   \* mishaps so far

hostVars == <<calls, lock, log, durable, drawn, mishaps>>

Idle == [at |-> "idle", req |-> None, fp |-> None, turn |-> None, mark |-> 0, reply |-> None]
At(c, place) == calls[c].at = place

Mishap(kind) ==
  /\ kind \in Mishaps
  /\ mishaps < MaxMishaps
  /\ mishaps' = mishaps + 1

Context(r, fp, t) == [type |-> "context", turn |-> t, req |-> r, fp |-> fp]
Event(type, t) == [type |-> type, turn |-> t]
(* The six Chat events of a turn, cut down to the first and the last.      *)
ChatEvents(t) == <<Event("chat-start", t), Event("chat-end", t)>>

Holds(events, e) == \E i \in DOMAIN events : events[i] = e

-----------------------------------------------------------------------------
(* existingTurn(): what the log knows of a request id.                     *)
ContextsOf(r) == {i \in DOMAIN log : log[i].type = "context" /\ log[i].req = r}

Existing(r) ==
  LET context == log[CHOOSE i \in ContextsOf(r) : TRUE]
      state   == IF Holds(log, Event("committed", context.turn)) THEN "committed"
                 ELSE IF Holds(log, Event("aborted", context.turn)) THEN "aborted"
                 ELSE "open"
  IN  IF ContextsOf(r) = {} THEN [state |-> "none", fp |-> None, turn |-> None]
      ELSE IF Cardinality(ContextsOf(r)) > 1
      THEN [state |-> "ambiguous", fp |-> None, turn |-> None]
      ELSE [state |-> state, fp |-> context.fp, turn |-> context.turn]

(* A slip: the payload is not compared.                                    *)
SlipReplaysAny(r, fp) == Existing(r).state = "committed"

Replayable(r, fp) == Existing(r).state = "committed" /\ Existing(r).fp = fp

(* A slip: a request in progress is waited for.                            *)
SlipWaits(r, fp) ==
  LET existing == Existing(r) IN
  CASE existing.state = "ambiguous" -> "CONFLICT"
    [] existing.state = "none" -> IF lock = None THEN None ELSE "BUSY"
    [] OTHER -> IF existing.fp # fp \/ existing.state = "aborted" THEN "CONFLICT" ELSE None

(* The answer to a request that neither replays nor enters.                *)
Refusal(r, fp) ==
  LET existing == Existing(r) IN
  CASE existing.state = "ambiguous" -> "CONFLICT"
    [] existing.state = "none" -> IF lock = None THEN None ELSE "BUSY"
    [] OTHER -> IF existing.fp # fp \/ existing.state = "aborted" THEN "CONFLICT" ELSE "BUSY"

Init ==
  /\ wire = [c \in Calls |-> None]
  /\ calls = [c \in Calls |-> Idle]
  /\ lock = None
  /\ log = <<>>
  /\ durable = 0
  /\ drawn = {}
  /\ mishaps = 0

Arrived(c) == At(c, "idle") /\ wire[c] # None
New(c, place) == [Idle EXCEPT !.at = place, !.req = wire[c].req, !.fp = wire[c].fp]
Done(call, reply) == [call EXCEPT !.at = "done", !.reply = reply]

(* The promise of call c settles, and with it the maintenance phase that   *)
(* it held.                                                                *)
Answer(c, reply) ==
  /\ calls' = [calls EXCEPT ![c] = Done(@, reply)]
  /\ lock' = IF lock = c THEN None ELSE lock

(* A known request with a commit: no maintenance phase, the barrier again. *)
Replay(c) ==
  /\ Arrived(c)
  /\ Replayable(wire[c].req, wire[c].fp)
  /\ calls' = [calls EXCEPT ![c] =
       [New(c, "flushing") EXCEPT !.turn = Existing(wire[c].req).turn, !.mark = Len(log)]]
  /\ UNCHANGED <<lock, log, durable, drawn, mishaps>>

Refuse(c) ==
  /\ Arrived(c)
  /\ ~Replayable(wire[c].req, wire[c].fp)
  /\ Refusal(wire[c].req, wire[c].fp) # None
  /\ calls' = [calls EXCEPT ![c] = Done(New(c, "done"), Refusal(wire[c].req, wire[c].fp))]
  /\ UNCHANGED <<lock, log, durable, drawn, mishaps>>

(* The request is invalid or denied, or its transport is already aborted,  *)
(* or no such Session is live.                                             *)
Deny(c) ==
  /\ Arrived(c)
  /\ Mishap("denial")
  /\ calls' = [calls EXCEPT ![c] = Done(New(c, "done"), "failed")]
  /\ UNCHANGED <<lock, log, durable, drawn>>

(* A slip: the phase is entered although it is held.                       *)
SlipEntersHeld(c) ==
  /\ Arrived(c)
  /\ Existing(wire[c].req).state = "none"
  /\ calls' = [calls EXCEPT ![c] = New(c, "ingesting")]
  /\ lock' = c
  /\ UNCHANGED <<log, durable, drawn, mishaps>>

(* runMaintenance() takes the phase in the same step as the checks above.  *)
Enter(c) ==
  /\ Arrived(c)
  /\ Existing(wire[c].req).state = "none"
  /\ lock = None
  /\ calls' = [calls EXCEPT ![c] = New(c, "ingesting")]
  /\ lock' = c
  /\ UNCHANGED <<log, durable, drawn, mishaps>>

(* Media are rejected, or prepare() throws before the context is written.  *)
IngestFails(c) ==
  /\ At(c, "ingesting")
  /\ Answer(c, "failed")
  /\ UNCHANGED <<log, durable, drawn, mishaps>>

TurnOpens(c, t) ==
  /\ At(c, "ingesting")
  /\ t \notin drawn
  /\ drawn' = drawn \cup {t}
  /\ log' = Append(log, Context(calls[c].req, calls[c].fp, t))
  /\ calls' = [calls EXCEPT ![c].at = "running", ![c].turn = t]
  /\ UNCHANGED <<lock, durable, mishaps>>

TurnAborts(c) ==
  /\ At(c, "running")
  /\ log' = Append(log, Event("aborted", calls[c].turn))
  /\ Answer(c, "failed")
  /\ UNCHANGED <<durable, drawn, mishaps>>

(* The turn fails and so does the append of its abort.                     *)
TurnAbortIsLost(c) ==
  /\ At(c, "running")
  /\ Mishap("fault")
  /\ Answer(c, "failed")
  /\ UNCHANGED <<log, durable, drawn>>

TurnCommits(c) ==
  /\ At(c, "running")
  /\ log' = Append(log, Event("committed", calls[c].turn))
  /\ calls' = [calls EXCEPT ![c].at = "committed"]
  /\ UNCHANGED <<lock, durable, drawn, mishaps>>

(* projectCommittedTurnToChat(), and the call of flush() after it.         *)
ProjectChat(c) ==
  /\ At(c, "committed")
  /\ log' = log \o ChatEvents(calls[c].turn)
  /\ calls' = [calls EXCEPT ![c].at = "flushing", ![c].mark = Len(log')]
  /\ UNCHANGED <<lock, durable, drawn, mishaps>>

(* One of its appends throws: EXECUTION_FAILED, with the commit in the log.*)
ChatFails(c) ==
  /\ At(c, "committed")
  /\ Mishap("fault")
  /\ log' \in {log, Append(log, ChatEvents(calls[c].turn)[1])}
  /\ Answer(c, "failed")
  /\ UNCHANGED <<durable, drawn>>

FlushFails(c) ==
  /\ At(c, "flushing")
  /\ Answer(c, "DURABILITY")
  /\ UNCHANGED <<log, durable, drawn, mishaps>>

(* A slip: the flush is not awaited.                                       *)
SlipNotAwaited(c) == At(c, "flushing")

Flushed(c) == At(c, "flushing") /\ durable >= calls[c].mark

Respond(c) ==
  /\ Flushed(c)
  /\ Answer(c, "ok")
  /\ UNCHANGED <<log, durable, drawn, mishaps>>

(* response() throws: policy denies the replay, projectScope() rejects the *)
(* log.                                                                    *)
ResponseFails(c) ==
  /\ Flushed(c)
  /\ Mishap("fault")
  /\ Answer(c, "failed")
  /\ UNCHANGED <<log, durable, drawn>>

CallStep(c) ==
  \/ Replay(c) \/ Refuse(c) \/ Deny(c) \/ Enter(c)
  \/ IngestFails(c) \/ (\E t \in Turns : TurnOpens(c, t))
  \/ TurnAborts(c) \/ TurnAbortIsLost(c) \/ TurnCommits(c)
  \/ ProjectChat(c) \/ ChatFails(c)
  \/ FlushFails(c) \/ Respond(c) \/ ResponseFails(c)

(* The environment: persistence, the Agent's own turns, the Host process.  *)
Persist ==
  /\ durable < Len(log)
  /\ \E c \in Calls : At(c, "flushing")
  /\ durable' = durable + 1
  /\ UNCHANGED <<calls, lock, log, drawn, mishaps>>

AgentWorks ==
  /\ \/ lock = None /\ lock' = "agent"
     \/ lock = "agent" /\ lock' = None
  /\ UNCHANGED <<calls, log, durable, drawn, mishaps>>

Crash ==
  /\ Mishap("crash")
  /\ log' = SubSeq(log, 1, durable)
  /\ lock' = None
  /\ calls' = [c \in Calls |-> IF At(c, "idle") \/ At(c, "done") THEN calls[c]
                               ELSE [calls[c] EXCEPT !.at = "lost"]]
  /\ UNCHANGED <<durable, drawn>>

HostStep == (\E c \in Calls : CallStep(c)) \/ Persist \/ AgentWorks \/ Crash

-----------------------------------------------------------------------------
Places == {"idle", "ingesting", "running", "committed", "flushing", "done", "lost"}
Replies == {None, "ok", "BUSY", "CONFLICT", "DURABILITY", "failed"}
Call == [at : Places, req : Requests \cup {None}, fp : Messages \cup {None},
         turn : Turns \cup {None}, mark : Nat, reply : Replies]
LogEvent ==
  [type : {"context"}, turn : Turns, req : Requests, fp : Messages]
  \cup [type : {"committed", "aborted", "chat-start", "chat-end"}, turn : Turns]

(* The type invariant of the Host's side.                                  *)
HostTypeOK ==
  /\ wire \in [Calls -> Request \cup {None}]
  /\ calls \in [Calls -> Call]
  /\ lock \in Calls \cup {"agent", None}
  /\ log \in Seq(LogEvent)
  /\ durable \in 0..Len(log)
  /\ drawn \subseteq Turns
  /\ mishaps \in 0..MaxMishaps

Positions(type) == {i \in DOMAIN log : log[i].type = type}

(* "requestId is idempotent over the normalized payload": whatever calls   *)
(* race, are lost or are retried across a crash, the log never holds two   *)
(* turns of one request id, so that no retry is refused as ambiguous.      *)
OneTurnPerRequest ==
  \A i, j \in Positions("context") : log[i].req = log[j].req => i = j

(* The Chat of a turn follows its commit, in one piece, and is written at  *)
(* most once, by the call that committed it.                               *)
ChatIsWhole ==
  /\ \A i, j \in Positions("chat-start") : log[i].turn = log[j].turn => i = j
  /\ \A i \in Positions("chat-start") :
       \E j \in 1..(i - 1) : log[j] = Event("committed", log[i].turn)
  /\ \A i \in Positions("chat-end") : i > 1 /\ log[i - 1] = Event("chat-start", log[i].turn)

(* "A successful response is returned only after" persistence: the commit  *)
(* that a response reports survives every later crash.                     *)
AckedIsDurable ==
  \A c \in Calls :
    calls[c].reply = "ok" =>
      \E i, j \in 1..durable :
        /\ log[i] = Context(calls[c].req, calls[c].fp, calls[c].turn)
        /\ log[j] = Event("committed", calls[c].turn)

(* Every request that arrived is answered, unless the Host crashes.        *)
EveryCallAnswered == \A c \in Calls : (wire[c] # None) ~> (At(c, "done") \/ At(c, "lost"))

(* A request id answers for one committed turn: see RequestRegister.       *)
CommittedTurn(r) ==
  {log[i].turn : i \in {j \in ContextsOf(r) : Holds(log, Event("committed", log[j].turn))}}
Acknowledged == {<<calls[c].req, calls[c].turn>> : c \in {d \in Calls : calls[d].reply = "ok"}}

Register == INSTANCE RequestRegister
  WITH outcome <- [r \in Requests |-> CommittedTurn(r)], acknowledged <- Acknowledged

(* A request id commits at most one turn, an answer names that turn, and   *)
(* what was answered is never lost: the API implements RequestRegister.    *)
ImplementsRegister == Register!Spec
=============================================================================
