---------------------------- MODULE TurnDelivery ----------------------------
(***************************************************************************)
(* A browser Session that delivers the user's messages to the Turn API:    *)
(* RpWebTurnController.submit() and cancel() of                            *)
(* packages/rp/web/src/client/turn-controller.ts, over a network that may  *)
(* break a connection at any time, beside other callers of the API.        *)
(*                                                                         *)
(* A message is one thing that the user wants said once: a rejected        *)
(* submission restores it to the composer, from where it may be sent again *)
(* or replaced by another.                                                 *)
(***************************************************************************)
EXTENDS TurnApi

CONSTANTS
  Reused,    \* request ids that other callers of the API may use again
  Foreign    \* what they may post under them

ASSUME OthersAssumption == Reused \subseteq Requests /\ Foreign \subseteq Messages

Others == [req : Reused, fp : Foreign]

VARIABLES
  client,     \* [call, message, req, retry]: the submission in flight, and the retry lock
  ids,        \* request ids made so far
  delivered   \* messages whose submission succeeded, with the turn in the response

vars == <<wire, hostVars, client, ids, delivered>>

NoClient == [call |-> None, message |-> None, req |-> None, retry |-> None]
IsRunning == client.call # None
Unsent == {c \in Calls : wire[c] = None}

DeliveryInit ==
  /\ Init
  /\ client = NoClient
  /\ ids = {}
  /\ delivered = {}

(* A locked draft goes out unchanged under its old id; another draft is    *)
(* refused.                                                                *)
Submission(m, r) ==
  IF client.retry = None THEN r \notin ids
  ELSE client.retry = [req |-> r, message |-> m]

Submit(m, r, c) ==
  /\ ~IsRunning
  /\ \A d \in delivered : d.message # m
  /\ Submission(m, r)
  /\ c \in Unsent
  /\ client' = [client EXCEPT !.call = c, !.message = m, !.req = r]
  /\ ids' = ids \cup {r}
  /\ wire' = [wire EXCEPT ![c] = [req |-> r, fp |-> m]]
  /\ UNCHANGED <<hostVars, delivered>>

OtherPosts(c, request) ==
  /\ c \in Unsent
  /\ wire' = [wire EXCEPT ![c] = request]
  /\ UNCHANGED <<hostVars, client, ids, delivered>>

(* The submission has failed; "locked" says whether the failure keeps the  *)
(* request id and the draft together.                                      *)
Fail(locked) ==
  client' = [NoClient EXCEPT !.retry =
               IF locked THEN [req |-> client.req, message |-> client.message] ELSE None]

ReceiveSuccess ==
  /\ IsRunning
  /\ calls[client.call].reply = "ok"
  /\ client' = NoClient
  /\ delivered' = delivered \cup {[message |-> client.message, turn |-> calls[client.call].turn]}
  /\ UNCHANGED <<wire, hostVars, ids>>

(* publicTurnError() marks DURABILITY, and no other code, for a retry      *)
(* under the same id.                                                      *)
ReceiveFailure ==
  /\ IsRunning
  /\ At(client.call, "done")
  /\ calls[client.call].reply # "ok"
  /\ Fail(calls[client.call].reply = "DURABILITY")
  /\ UNCHANGED <<wire, hostVars, ids, delivered>>

(* fetch() rejects: TRANSPORT_UNCERTAIN.  The request may yet arrive.      *)
ConnectionBreaks ==
  /\ IsRunning
  /\ \/ At(client.call, "lost") /\ UNCHANGED mishaps
     \/ Mishap("drop")
  /\ Fail(TRUE)
  /\ UNCHANGED <<wire, calls, lock, log, durable, drawn, ids, delivered>>

(* The answer breaks off or is not JSON: it may be retried under its id if *)
(* its status was a success.                                               *)
AnswerIsUnreadable ==
  /\ IsRunning
  /\ At(client.call, "done")
  /\ Mishap("garble")
  /\ Fail(calls[client.call].reply = "ok")
  /\ UNCHANGED <<wire, calls, lock, log, durable, drawn, ids, delivered>>

UserCancels ==
  /\ IsRunning
  /\ Mishap("cancel")
  /\ Fail(FALSE)
  /\ UNCHANGED <<wire, calls, lock, log, durable, drawn, ids, delivered>>

ClientStep == ReceiveSuccess \/ ReceiveFailure \/ ConnectionBreaks \/ AnswerIsUnreadable \/ UserCancels

DeliveryNext ==
  \/ \E m \in Messages, r \in Requests, c \in Calls : Submit(m, r, c)
  \/ \E c \in Calls, request \in Others : OtherPosts(c, request)
  \/ ClientStep
  \/ HostStep /\ UNCHANGED <<wire, client, ids, delivered>>

DeliverySpec == DeliveryInit /\ [][DeliveryNext]_vars

(* Requests arrive, turns and flushes settle, and the browser hears of it. *)
(* Nobody owes the Host that the Agent is idle or that the user cancels.   *)
Quiet == UNCHANGED <<wire, client, ids, delivered>>
Fairness ==
  /\ \A c \in Calls : WF_vars(CallStep(c) /\ Quiet)
  /\ WF_vars(Persist /\ Quiet)
  /\ WF_vars(ReceiveSuccess \/ ReceiveFailure \/ ConnectionBreaks)

FairDeliverySpec == DeliverySpec /\ Fairness

-----------------------------------------------------------------------------
(* The type invariant: the retry lock holds a request id that was made, and*)
(* the draft that went out under it.                                       *)
TypeOK ==
  /\ HostTypeOK
  /\ client.call \in Calls \cup {None}
  /\ client.message \in Messages \cup {None}
  /\ client.req \in ids \cup {None}
  /\ client.retry = None \/ client.retry.req \in ids
  /\ ids \subseteq Requests
  /\ delivered \subseteq [message : Messages, turn : Turns]

TurnsOf(m) ==
  {log[i].turn : i \in {j \in Positions("context") :
     log[j].fp = m /\ Holds(log, Event("committed", log[j].turn))}}

(* What the browser shows as delivered is a turn of that very message, and *)
(* stays one through crashes of the Host and other uses of the same id.    *)
DeliveredIsSaid ==
  /\ \A d \in delivered : d.turn \in TurnsOf(d.message)
  /\ \A d, e \in delivered : d.turn = e.turn => d = e

(* "only an unchanged retry is admitted, preventing a second semantic Turn *)
(* while the first delivery is uncertain": no message is said twice.       *)
SaidOnce == \A m \in Messages : Cardinality(TurnsOf(m)) <= 1

(* Every submission ends, and the composer is usable again.                *)
SubmissionEnds == IsRunning ~> ~IsRunning

(* Whatever the browser and other callers do, a request id makes one turn,   *)
(* its Chat is whole, and what was acknowledged is durable.                 *)
RequestsAreWhole == TypeOK /\ OneTurnPerRequest /\ ChatIsWhole /\ AckedIsDurable

(* Every request is answered and every submission ends, unless the Host      *)
(* crashes under it.                                                        *)
CallsAndSubmissionsEnd == EveryCallAnswered /\ SubmissionEnds
=============================================================================
