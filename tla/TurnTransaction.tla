-------------------------- MODULE TurnTransaction --------------------------
(***************************************************************************)
(* What the turn runtime promises: a turn is opened once, and then either  *)
(* commits, publishing all of its effects in that one step, or aborts and  *)
(* publishes nothing.  Neither happens twice, or after the other.          *)
(***************************************************************************)
CONSTANTS Turns, EffectChoices

VARIABLES status, published

Init ==
  /\ status = [t \in Turns |-> "absent"]
  /\ published = {}

Move(t, from, to) ==
  /\ status[t] = from
  /\ status' = [status EXCEPT ![t] = to]

Open(t) == Move(t, "absent", "open") /\ UNCHANGED published

Commit(t, fx) ==
  /\ Move(t, "open", "committed")
  /\ published' = published \cup {<<t, fx>>}

Abort(t) == Move(t, "open", "aborted") /\ UNCHANGED published

Next ==
  \E t \in Turns : Open(t) \/ Abort(t) \/ \E fx \in EffectChoices : Commit(t, fx)

Spec == Init /\ [][Next]_<<status, published>>
=============================================================================
