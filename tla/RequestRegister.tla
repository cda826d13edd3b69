-------------------------- MODULE RequestRegister --------------------------
(***************************************************************************)
(* What an idempotent request id promises: at most one turn is committed   *)
(* for it, an acknowledgement names that turn, and what has been           *)
(* acknowledged is never lost.  What has not may be lost with a crash, and *)
(* the id may then be used again.                                          *)
(***************************************************************************)
CONSTANTS Requests, Turns

VARIABLES
  outcome,       \* request -> the set that holds its committed turn, if there is one
  acknowledged   \* pairs of a request and the turn that was reported for it

Init ==
  /\ outcome = [r \in Requests |-> {}]
  /\ acknowledged = {}

Commit(r, t) ==
  /\ outcome[r] = {}
  /\ outcome' = [outcome EXCEPT ![r] = {t}]
  /\ UNCHANGED acknowledged

Acknowledge(r, t) ==
  /\ outcome[r] = {t}
  /\ acknowledged' = acknowledged \cup {<<r, t>>}
  /\ UNCHANGED outcome

Lose(S) ==
  /\ \A a \in acknowledged : a[1] \notin S
  /\ outcome' = [r \in Requests |-> IF r \in S THEN {} ELSE outcome[r]]
  /\ UNCHANGED acknowledged

Next ==
  \/ \E r \in Requests, t \in Turns : Commit(r, t) \/ Acknowledge(r, t)
  \/ \E S \in SUBSET Requests : Lose(S)

Spec == Init /\ [][Next]_<<outcome, acknowledged>>
=============================================================================
