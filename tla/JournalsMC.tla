----------------------------- MODULE JournalsMC -----------------------------
(***************************************************************************)
(* The two journals of effects, for TLC: the Session's log, to which run() *)
(* of the turn runtime appends, and the outbox, whose sagas, drains and    *)
(* dispatches carry effects out.  Neither calls the other, so a behaviour  *)
(* is one of one of them, its focus; Foci names those that a run looks at. *)
(***************************************************************************)
EXTENDS TurnRunMC, Outbox

CONSTANTS Foci, a, b, c, mail, audit, first, second

VARIABLE focus

-----------------------------------------------------------------------------
(* The outbox: two sagas that share a key.  The audit handler cannot        *)
(* compensate; the second saga uses key c for another handler than the      *)
(* first.                                                                   *)
Do(key, handler) == [key |-> key, handler |-> handler]
Shared ==
  [p \in Sagas |-> IF p = first THEN <<Do(a, mail), Do(b, mail), Do(c, audit)>>
                   ELSE <<Do(b, mail), Do(c, mail)>>]
Attempts == [k \in Keys |-> IF k = b THEN 2 ELSE 1]

Loose == {Do(b, mail)}
Nothing == {}

Alone == [p \in Sagas |-> <<Do(a, mail), Do(b, audit)>>]

-----------------------------------------------------------------------------
FocusInit == focus \in Foci /\ Init /\ OutboxInit
FocusNext ==
  /\ UNCHANGED focus
  /\ \/ focus = "turns" /\ RunNext /\ UNCHANGED outboxVars
     \/ focus = "effects" /\ OutboxNext /\ UNCHANGED vars
FocusSpec == FocusInit /\ [][FocusNext]_<<focus, vars, outboxVars>>

(* The fairness of both: a started run and a started task go on once what   *)
(* they await has settled.                                                 *)
FairFocusSpec ==
  /\ FocusSpec
  /\ \A r \in Calls : WF_vars(Continuation(r))
  /\ \A p \in Tasks : WF_outboxVars(TaskContinuation(p))
=============================================================================
