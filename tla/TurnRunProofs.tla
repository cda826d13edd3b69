--------------------------- MODULE TurnRunProofs ---------------------------
(***************************************************************************)
(* Proofs about TurnRun, for any number of turns, scopes, calls and        *)
(* concurrent runs: the type invariant, the uniqueness of the terminal     *)
(* event, the agreement of the phases with the log, the refinement of      *)
(* TurnTransaction, and that the strict Session fold accepts every log.    *)
(* About TurnRuntime, whoever calls it and in whatever order: a commit     *)
(* follows its Pipeline and fits the snapshot it was prepared against.     *)
(***************************************************************************)
EXTENDS TurnRun, FiniteSetTheorems, SequenceTheorems, TLAPS

(* A step that journals no commit and no abort: log' extends log by events *)
(* of other types.                                                         *)
Quiet ==
  /\ Len(log) <= Len(log')
  /\ \A i \in 1..Len(log) : log'[i] = log[i]
  /\ \A i \in (Len(log) + 1)..Len(log') : ~IsTerminal(log'[i])

(* A quiet step neither adds nor moves a terminal event.                   *)
LEMMA QuietKeepsTerminals ==
  ASSUME log \in Seq(Event), log' \in Seq(Event), Quiet
  PROVE  /\ \A t \in Turns : CommitsOf(t)' = CommitsOf(t) /\ AbortsOf(t)' = AbortsOf(t)
         /\ AtMostOneTerminal => AtMostOneTerminal'
         /\ Published' = Published
<1>1. \A i \in DOMAIN log' : IsTerminal(log'[i]) => i \in DOMAIN log /\ log'[i] = log[i]
  BY DEF Quiet
<1>2. \A i \in DOMAIN log : i \in DOMAIN log' /\ log'[i] = log[i]
  BY DEF Quiet
<1>3. \A t \in Turns : CommitsOf(t)' = CommitsOf(t) /\ AbortsOf(t)' = AbortsOf(t)
  BY <1>1, <1>2 DEF CommitsOf, AbortsOf, IsTerminal, TerminalTypes
<1>4. AtMostOneTerminal => AtMostOneTerminal'
  BY <1>1 DEF AtMostOneTerminal, IsTerminal
<1>5. {j \in DOMAIN log' : log'[j].type = "turn-committed"}
        = {j \in DOMAIN log : log[j].type = "turn-committed"}
  BY <1>1, <1>2 DEF IsTerminal, TerminalTypes
<1>6. Published' = Published
  BY <1>2, <1>5 DEF Published
<1> QED BY <1>3, <1>4, <1>6

(* Appending events of other types is a quiet step.                        *)
LEMMA ConcatIsQuiet ==
  ASSUME log \in Seq(Event), NEW es \in Seq(Event),
         \A i \in 1..Len(es) : ~IsTerminal(es[i]),
         log' = log \o es
  PROVE  log' \in Seq(Event) /\ Quiet
<1>1. log' \in Seq(Event) /\ Len(log') = Len(log) + Len(es)
  BY ConcatProperties
<1>2. \A i \in 1..Len(log') : log'[i] = IF i <= Len(log) THEN log[i] ELSE es[i - Len(log)]
  BY ConcatProperties, <1>1
<1>3. Len(log) \in Nat /\ Len(es) \in Nat
  OBVIOUS
<1> HIDE DEF IsTerminal
<1> QED BY <1>1, <1>2, <1>3 DEF Quiet

(* So is appending one such event.                                         *)
LEMMA AppendIsQuiet ==
  ASSUME log \in Seq(Event), NEW e \in Event, ~IsTerminal(e), log' = Append(log, e)
  PROVE  log' \in Seq(Event) /\ Quiet
BY AppendProperties DEF Quiet

(* The events that prepare() and the Pipeline's observer write.            *)
LEMMA OpeningEvents ==
  ASSUME NEW t \in Turns, NEW s \in Scopes
  PROVE  /\ \A kind \in {"pipeline-started", "pipeline-completed", "pipeline-failed"} :
              PipelineEvent(t, kind) \in Event /\ ~IsTerminal(PipelineEvent(t, kind))
         /\ PrepareEvents(t, s) \in Seq(Event)
         /\ \A i \in 1..Len(PrepareEvents(t, s)) : ~IsTerminal(PrepareEvents(t, s)[i])
         /\ PrepareEvents(t, s)[1] \in Event /\ ~IsTerminal(PrepareEvents(t, s)[1])
         /\ StartEvents(t, s) \in Seq(Event)
         /\ \A i \in 1..Len(StartEvents(t, s)) : ~IsTerminal(StartEvents(t, s)[i])
<1>1. \A kind \in {"pipeline-started", "pipeline-completed", "pipeline-failed"} :
        PipelineEvent(t, kind) \in Event /\ ~IsTerminal(PipelineEvent(t, kind))
  BY DEF Event, PipelineEvent, IsTerminal, TerminalTypes
<1> DEFINE e1 == [type |-> "composition-resolved", turn |-> t, composition |-> CompositionOf(t, s)]
           e2 == [type |-> "context-activated", turn |-> t, context |-> t]
           e3 == PipelineEvent(t, "pipeline-started")
<1>2. e1 \in Event /\ ~IsTerminal(e1)
  BY DEF Event, CompositionOf, IsTerminal, TerminalTypes
<1>3. e2 \in Event /\ ~IsTerminal(e2)
  BY DEF Event, IsTerminal, TerminalTypes
<1>4. e3 \in Event /\ ~IsTerminal(e3)
  BY <1>1
<1>5. PrepareEvents(t, s) = <<e1, e2>>
  BY DEF PrepareEvents
<1>6. StartEvents(t, s) = Append(<<e1, e2>>, e3)
  BY <1>5 DEF StartEvents
<1> HIDE DEF e1, e2, e3
<1>7. <<e1, e2>> \in Seq(Event) /\ Len(<<e1, e2>>) = 2
  BY <1>2, <1>3
<1> DEFINE es == Append(<<e1, e2>>, e3)
<1>8. es \in Seq(Event) /\ Len(es) = 3 /\ es[3] = e3 /\ \A i \in 1..2 : es[i] = <<e1, e2>>[i]
  BY <1>4, <1>7, AppendProperties
<1>9. \A i \in 1..3 : i = 1 \/ i = 2 \/ i = 3
  OBVIOUS
<1>10. \A i \in 1..Len(es) : ~IsTerminal(es[i])
  <2> HIDE DEF es
  <2> QED BY <1>2, <1>3, <1>4, <1>8, <1>9
<1>11. es = StartEvents(t, s)
  BY <1>6
<1> QED BY <1>1, <1>2, <1>3, <1>4, <1>5, <1>6, <1>7, <1>8, <1>10, <1>11

-----------------------------------------------------------------------------
(* The two halves of the invariant that speak of the log, for the two      *)
(* kinds of step: those that journal no terminal event and leave the       *)
(* terminal phases alone, and those that settle one live turn.             *)

Final == {"committed", "aborted"}

(* A quiet step that ends no turn, and reopens none, keeps phases and log  *)
(* in agreement.                                                           *)
LEMMA QuietStepKeepsPhases ==
  ASSUME TypeOK, PhaseMatchesLog, AtMostOneTerminal,
         log' \in Seq(Event), Quiet,
         \A t \in Turns : states[t] \in Final \/ states'[t] \in Final => states'[t] = states[t]
  PROVE  PhaseMatchesLog' /\ AtMostOneTerminal'
<1>1. log \in Seq(Event)
  BY DEF TypeOK
<1>2. AtMostOneTerminal' /\ \A t \in Turns : CommitsOf(t)' = CommitsOf(t) /\ AbortsOf(t)' = AbortsOf(t)
  BY <1>1, QuietKeepsTerminals
<1>3. \A t \in Turns : /\ (states'[t] = "committed") <=> (states[t] = "committed")
                       /\ (states'[t] = "aborted") <=> (states[t] = "aborted")
  BY DEF Final
<1> QED BY <1>2, <1>3 DEF PhaseMatchesLog

(* A step that ends a live turn and appends its one terminal event keeps   *)
(* them in agreement, and terminal events unique.                          *)
LEMMA TerminalStepKeepsPhases ==
  ASSUME TypeOK, PhaseMatchesLog, AtMostOneTerminal,
         NEW t \in Turns, states[t] \in Live,
         NEW e \in Event, IsTerminal(e), e.turn = t,
         log' = Append(log, e),
         states' = [states EXCEPT ![t] = IF e.type = "turn-committed" THEN "committed" ELSE "aborted"]
  PROVE  PhaseMatchesLog' /\ AtMostOneTerminal'
<1>1. /\ log \in Seq(Event) /\ Len(log) \in Nat
      /\ states \in [Turns -> Phases]
  BY DEF TypeOK
<1>2. /\ Len(log') = Len(log) + 1
      /\ \A i \in 1..Len(log) : log'[i] = log[i]
      /\ log'[Len(log) + 1] = e
      /\ log' \in Seq(Event)
  BY <1>1, AppendProperties
<1>3. \A i : i \in DOMAIN log' <=> i \in DOMAIN log \/ i = Len(log) + 1
  BY <1>1, <1>2
<1>4. Len(log) + 1 \notin DOMAIN log /\ \A i \in DOMAIN log : log'[i] = log[i]
  BY <1>1, <1>2
<1>5. e.type = "turn-committed" \/ e.type = "turn-aborted"
  BY DEF IsTerminal, TerminalTypes
<1>6. CommitsOf(t) = {} /\ AbortsOf(t) = {}
  BY DEF PhaseMatchesLog, Live
<1>7. \A i \in DOMAIN log : ~(IsTerminal(log[i]) /\ log[i].turn = t)
  BY <1>6 DEF CommitsOf, AbortsOf, IsTerminal, TerminalTypes
<1>8. AtMostOneTerminal'
  <2> SUFFICES ASSUME NEW i \in DOMAIN log', NEW j \in DOMAIN log',
                      IsTerminal(log'[i]), IsTerminal(log'[j]), log'[i].turn = log'[j].turn
               PROVE  i = j
    BY DEF AtMostOneTerminal, IsTerminal
  <2>1. CASE i \in DOMAIN log /\ j \in DOMAIN log
    BY <1>4, <2>1 DEF AtMostOneTerminal
  <2>2. CASE i = Len(log) + 1 /\ j \in DOMAIN log
    BY <1>2, <1>4, <1>7, <2>2
  <2>3. CASE i \in DOMAIN log /\ j = Len(log) + 1
    BY <1>2, <1>4, <1>7, <2>3
  <2> QED BY <1>3, <2>1, <2>2, <2>3
<1>9. \A u \in Turns \ {t} : /\ CommitsOf(u)' = CommitsOf(u) /\ AbortsOf(u)' = AbortsOf(u)
                             /\ states'[u] = states[u]
  BY <1>1, <1>2, <1>3, <1>4 DEF CommitsOf, AbortsOf
<1>10. CASE e.type = "turn-committed"
  <2>1. CommitsOf(t)' # {} /\ AbortsOf(t)' = {} /\ states'[t] = "committed"
    BY <1>1, <1>2, <1>3, <1>4, <1>7, <1>10 DEF CommitsOf, AbortsOf, IsTerminal, TerminalTypes
  <2> QED BY <1>8, <1>9, <2>1 DEF PhaseMatchesLog
<1>11. CASE e.type = "turn-aborted"
  <2>1. CommitsOf(t)' = {} /\ AbortsOf(t)' # {} /\ states'[t] = "aborted"
    BY <1>1, <1>2, <1>3, <1>4, <1>7, <1>11 DEF CommitsOf, AbortsOf, IsTerminal, TerminalTypes
  <2> QED BY <1>8, <1>9, <2>1 DEF PhaseMatchesLog
<1> QED BY <1>5, <1>10, <1>11

-----------------------------------------------------------------------------
(* The half of the invariant that speaks of the calls.  A call that moves  *)
(* changes the phase of no turn but its own, and no other call has that    *)
(* turn.                                                                   *)

CallTypes ==
  /\ states \in [Turns -> Phases]
  /\ drafts \in [Turns -> Draft \cup {None}]
  /\ calls \in [Calls -> CallState]

(* A step that moves one call, and its turn, keeps the places of calls and *)
(* the phases of their turns in agreement.                                 *)
LEMMA CallMoves ==
  ASSUME CallTypes, CallInv, OneCallPerTurn,
         NEW c \in Calls, calls[c].at # "idle",
         calls'[c].turn = calls[c].turn,
         \A d \in Calls \ {c} : calls'[d] = calls[d],
         \A u \in Turns \ {calls[c].turn} : states'[u] = states[u],
         drafts' = drafts,
         states'[calls[c].turn] # "none",
         calls'[c].at \in {"pipeline", "returned"} => states'[calls[c].turn] = "prepared",
         calls'[c].at = "outcome" =>
           states'[calls[c].turn] = "executed" /\ calls'[c].effects \in EffectChoices,
         calls'[c].at = "failed" => states'[calls[c].turn] \in Live
  PROVE  CallInv' /\ OneCallPerTurn'
<1> DEFINE t == calls[c].turn
<1>1. t \in Turns /\ drafts[t] \in Draft
  BY DEF CallInv
<1>2. \A d \in Calls \ {c} : calls[d].at # "idle" => calls[d].turn \in Turns \ {t}
  BY DEF OneCallPerTurn, CallInv
<1>3. OneCallPerTurn'
  BY <1>2 DEF OneCallPerTurn
<1>4. CallInv'
  <2> SUFFICES ASSUME NEW d \in Calls
               PROVE  LET call == calls'[d] IN
                 /\ call.at # "idle" => /\ call.turn \in Turns
                                        /\ drafts'[call.turn] \in Draft
                                        /\ states'[call.turn] # "none"
                 /\ call.at \in {"pipeline", "returned"} => states'[call.turn] = "prepared"
                 /\ call.at = "outcome" => /\ states'[call.turn] = "executed"
                                           /\ call.effects \in EffectChoices
                 /\ call.at = "failed" => states'[call.turn] \in Live
    BY DEF CallInv, Live
  <2>1. CASE d = c
    BY <1>1, <2>1
  <2>2. CASE d # c
    BY <1>2, <2>2 DEF CallInv
  <2> QED BY <2>1, <2>2
<1> QED BY <1>3, <1>4

(* A call that starts on a fresh turn keeps them in agreement.             *)
LEMMA CallStarts ==
  ASSUME CallTypes, CallInv, OneCallPerTurn,
         NEW c \in Calls, NEW t \in Turns, states[t] = "none",
         NEW place \in {"pipeline", "failed"}, NEW draft \in Draft,
         calls' = [calls EXCEPT ![c] = [at |-> place, turn |-> t, effects |-> None]],
         states' = [states EXCEPT ![t] = "prepared"],
         drafts' = [drafts EXCEPT ![t] = draft]
  PROVE  CallTypes' /\ CallInv' /\ OneCallPerTurn'
<1> DEFINE next == [at |-> place, turn |-> t, effects |-> None]
<1>1. next \in CallState
  BY DEF CallState, Places
<1>2. CallTypes'
  BY <1>1 DEF CallTypes, Phases
<1>3. /\ calls'[c].at = place /\ calls'[c].turn = t
      /\ states'[t] = "prepared" /\ drafts'[t] = draft
      /\ \A u \in Turns \ {t} : states'[u] = states[u] /\ drafts'[u] = drafts[u]
      /\ \A d \in Calls \ {c} : calls'[d] = calls[d]
  BY DEF CallTypes
<1>4. \A d \in Calls : calls[d].at # "idle" => calls[d].turn \in Turns \ {t}
  BY DEF CallInv
<1>5. OneCallPerTurn'
  BY <1>3, <1>4 DEF OneCallPerTurn
<1>6. CallInv'
  <2> SUFFICES ASSUME NEW d \in Calls
               PROVE  LET call == calls'[d] IN
                 /\ call.at # "idle" => /\ call.turn \in Turns
                                        /\ drafts'[call.turn] \in Draft
                                        /\ states'[call.turn] # "none"
                 /\ call.at \in {"pipeline", "returned"} => states'[call.turn] = "prepared"
                 /\ call.at = "outcome" => /\ states'[call.turn] = "executed"
                                           /\ call.effects \in EffectChoices
                 /\ call.at = "failed" => states'[call.turn] \in Live
    BY DEF CallInv, Live
  <2>1. CASE d = c
    BY <1>3, <2>1 DEF Live
  <2>2. CASE d # c
    BY <1>3, <1>4, <2>2 DEF CallInv
  <2> QED BY <2>1, <2>2
<1> QED BY <1>2, <1>5, <1>6

-----------------------------------------------------------------------------
(* The inductive invariant.                                                *)

(* The initial state satisfies the invariant.                              *)
LEMMA InitIInv == Init => IInv
<1> SUFFICES ASSUME Init PROVE IInv
  OBVIOUS
<1>1. TypeOK
  BY FaultsAssumption DEF Init, TypeOK, Idle, CallState, Phases, Places
<1>2. CallInv /\ OneCallPerTurn
  BY DEF Init, Idle, CallInv, OneCallPerTurn
<1>3. PhaseMatchesLog /\ AtMostOneTerminal
  BY DEF Init, PhaseMatchesLog, CommitsOf, AbortsOf, AtMostOneTerminal
<1> QED BY <1>1, <1>2, <1>3 DEF IInv

(* Every step preserves it, one case for each action of run().             *)
LEMMA StepIInv == IInv /\ [RunNext]_vars => IInv'
<1> SUFFICES ASSUME IInv, [RunNext]_vars PROVE IInv'
  OBVIOUS
<1> USE DEF At
<1>0. /\ TypeOK /\ CallInv /\ OneCallPerTurn /\ PhaseMatchesLog /\ AtMostOneTerminal
      /\ CallTypes
      /\ plans \subseteq Turns /\ faults \in 0..MaxFaults /\ log \in Seq(Event)
  BY DEF IInv, TypeOK, CallTypes
<1>a. ASSUME CallTypes', CallInv', OneCallPerTurn', PhaseMatchesLog', AtMostOneTerminal',
             plans' \subseteq Turns, faults' \in 0..MaxFaults, log' \in Seq(Event)
      PROVE  IInv'
  BY <1>a DEF IInv, TypeOK, CallTypes
<1>b. Fault => faults' \in 0..MaxFaults
  BY <1>0, FaultsAssumption DEF Fault
<1>c. ASSUME NEW t \in Turns, NEW s \in Scopes
      PROVE  NewDraft(t, s) = [drafts EXCEPT ![t] = [scope |-> s, through |-> Len(log)]]
             /\ [scope |-> s, through |-> Len(log)] \in Draft
  BY <1>0 DEF NewDraft, Draft
<1>d. \A t \in Turns : states[t] = "none" /\ states' = [states EXCEPT ![t] = "prepared"]
        => \A u \in Turns : states[u] \in Final \/ states'[u] \in Final => states'[u] = states[u]
  BY <1>0 DEF CallTypes, Final
<1>1. ASSUME NEW c \in Calls, NEW t \in Turns, NEW s \in Scopes, RunStart(c, t, s)
      PROVE  IInv'
  <2>1. log' \in Seq(Event) /\ Quiet
    BY <1>0, <1>1, OpeningEvents, ConcatIsQuiet DEF RunStart
  <2>2. PhaseMatchesLog' /\ AtMostOneTerminal'
    BY <1>0, <1>1, <1>d, <2>1, QuietStepKeepsPhases DEF RunStart, Admitted
  <2>3. /\ states[t] = "none" /\ states' = [states EXCEPT ![t] = "prepared"]
        /\ calls' = [calls EXCEPT ![c] = [at |-> "pipeline", turn |-> t, effects |-> None]]
    BY <1>1 DEF RunStart, Admitted
  <2>4. PICK draft \in Draft : drafts' = [drafts EXCEPT ![t] = draft]
    BY <1>1, <1>c DEF RunStart, Admitted
  <2>5. CallTypes' /\ CallInv' /\ OneCallPerTurn'
    BY <1>0, <2>3, <2>4, CallStarts
  <2> QED BY <1>0, <1>1, <1>a, <2>1, <2>2, <2>5 DEF RunStart, Admitted
<1>2. ASSUME NEW c \in Calls, NEW t \in Turns, NEW s \in Scopes, RunRefused(c, t, s)
      PROVE  IInv'
  <2>1. log' \in Seq(Event) /\ Quiet
    BY <1>0, <1>2, OpeningEvents, ConcatIsQuiet DEF RunRefused
  <2>2. PhaseMatchesLog' /\ AtMostOneTerminal'
    BY <1>0, <1>2, <1>d, <2>1, QuietStepKeepsPhases DEF RunRefused, Admitted
  <2>3. /\ states[t] = "none" /\ states' = [states EXCEPT ![t] = "prepared"]
        /\ calls' = [calls EXCEPT ![c] = [at |-> "failed", turn |-> t, effects |-> None]]
    BY <1>2 DEF RunRefused, Admitted
  <2>4. PICK draft \in Draft : drafts' = [drafts EXCEPT ![t] = draft]
    BY <1>2, <1>c DEF RunRefused, Admitted
  <2>5. CallTypes' /\ CallInv' /\ OneCallPerTurn'
    BY <1>0, <2>3, <2>4, CallStarts
  <2> QED BY <1>0, <1>2, <1>a, <2>1, <2>2, <2>5 DEF RunRefused, Admitted
<1>3. ASSUME NEW c \in Calls, NEW t \in Turns, NEW s \in Scopes, RunTorn(c, t, s)
      PROVE  IInv'
  <2> USE DEF RunTorn, PrepareTorn
  <2>1. log' \in Seq(Event) /\ Quiet
    <3>1. CASE log' = log
      BY <1>0, <3>1 DEF Quiet
    <3>2. CASE log' = Append(log, PrepareEvents(t, s)[1])
      BY <1>0, <3>2, OpeningEvents, AppendIsQuiet
    <3> QED BY <1>3, <3>1, <3>2
  <2>2. PhaseMatchesLog' /\ AtMostOneTerminal'
    BY <1>0, <1>3, <1>d, <2>1, QuietStepKeepsPhases DEF Admitted
  <2>3. states[t] = "none" /\ states' = [states EXCEPT ![t] = "prepared"] /\ drafts' = drafts /\ calls' = calls
    BY <1>3 DEF Admitted
  <2>4. CallTypes'
    BY <1>0, <2>3 DEF CallTypes, Phases
  <2>5. OneCallPerTurn'
    BY <1>0, <2>3 DEF OneCallPerTurn
  <2>6. \A d \in Calls : calls[d].at # "idle" => states'[calls[d].turn] = states[calls[d].turn]
    BY <1>0, <2>3 DEF CallInv, CallTypes
  <2>7. CallInv'
    BY <1>0, <2>3, <2>6, Zenon DEF CallInv, Live
  <2> QED BY <1>0, <1>3, <1>a, <1>b, <2>1, <2>2, <2>4, <2>5, <2>7 DEF Admitted
<1>e. ASSUME NEW c \in Calls, calls[c].at # "idle"
      PROVE  /\ calls[c].turn \in Turns
             /\ drafts[calls[c].turn] \in Draft /\ drafts[calls[c].turn].scope \in Scopes
             /\ states[calls[c].turn] # "none"
  BY <1>0, <1>e DEF CallInv, Draft
<1>f. ASSUME NEW c \in Calls, NEW p \in Places \ {"idle"}, NEW q \in Places \ {"idle"},
             calls[c].at = q, calls' = [calls EXCEPT ![c].at = p], UNCHANGED <<states, drafts>>,
             p \in {"pipeline", "returned"} => q \in {"pipeline", "returned"},
             p # "outcome",
             p = "failed" => q \in {"pipeline", "returned", "outcome"}
      PROVE  CallTypes' /\ CallInv' /\ OneCallPerTurn'
  <2>1. /\ q \in {"pipeline", "returned"} => states[calls[c].turn] = "prepared"
        /\ q = "outcome" => states[calls[c].turn] = "executed"
    BY <1>0, <1>f DEF CallInv
  <2>2. CallTypes'
    BY <1>0, <1>f DEF CallTypes, CallState
  <2>3. calls'[c].at = p /\ calls'[c].turn = calls[c].turn /\ \A d \in Calls \ {c} : calls'[d] = calls[d]
    BY <1>0, <1>f DEF CallTypes, CallState
  <2>4. states'[calls[c].turn] # "none"
    BY <1>e, <1>f
  <2> QED BY <1>0, <1>f, <2>1, <2>2, <2>3, <2>4, CallMoves DEF Live
<1>i. ASSUME NEW c \in Calls, NEW p \in {"outcome", "settled"},
             NEW fx \in EffectChoices \cup {None}, NEW phase \in Phases \ {"none"},
             calls[c].at # "idle",
             calls' = [calls EXCEPT ![c].at = p, ![c].effects = fx],
             states' = [states EXCEPT ![calls[c].turn] = phase],
             UNCHANGED drafts,
             p = "outcome" => phase = "executed" /\ fx \in EffectChoices
      PROVE  CallTypes' /\ CallInv' /\ OneCallPerTurn'
  <2>1. calls[c].turn \in Turns
    BY <1>e, <1>i
  <2>2. CallTypes'
    <3>1. /\ calls \in [Calls -> CallState] /\ states \in [Turns -> Phases]
          /\ p \in Places
      BY <1>0, <1>i DEF CallTypes, Places
    <3>2. calls' \in [Calls -> CallState]
      BY <1>i, <3>1 DEF CallState
    <3>3. states' \in [Turns -> Phases]
      BY <1>i, <2>1, <3>1
    <3> QED BY <1>0, <1>i, <3>2, <3>3 DEF CallTypes
  <2>3. /\ calls'[c].at = p /\ calls'[c].turn = calls[c].turn /\ calls'[c].effects = fx
        /\ \A d \in Calls \ {c} : calls'[d] = calls[d]
    BY <1>0, <1>i DEF CallTypes, CallState
  <2>4. states'[calls[c].turn] = phase /\ \A u \in Turns \ {calls[c].turn} : states'[u] = states[u]
    BY <1>0, <1>i, <2>1 DEF CallTypes
  <2> QED BY <1>0, <1>i, <2>2, <2>3, <2>4, CallMoves
<1>j. ASSUME NEW c \in Calls, NEW p \in Places, calls' = [calls EXCEPT ![c].at = p]
      PROVE  /\ calls[c].effects \in EffectChoices \cup {None}
             /\ calls' = [calls EXCEPT ![c].at = p, ![c].effects = calls[c].effects]
  BY <1>0, <1>j DEF CallTypes, CallState
<1>g. ASSUME UNCHANGED log
      PROVE  log' \in Seq(Event) /\ Quiet
  BY <1>0, <1>g DEF Quiet
<1>h. ASSUME log' \in Seq(Event), Quiet, UNCHANGED states
      PROVE  PhaseMatchesLog' /\ AtMostOneTerminal'
  BY <1>0, <1>h, QuietStepKeepsPhases
<1>4. ASSUME NEW c \in Calls, PipelineCompletes(c)
      PROVE  IInv'
  <2> USE DEF PipelineCompletes
  <2>1. log' \in Seq(Event) /\ Quiet
    BY <1>0, <1>4, <1>e, OpeningEvents, AppendIsQuiet
  <2>2. CallTypes' /\ CallInv' /\ OneCallPerTurn'
    BY <1>4, <1>f DEF Places
  <2> QED BY <1>0, <1>4, <1>a, <1>h, <2>1, <2>2
<1>5. ASSUME NEW c \in Calls, PipelineFails(c)
      PROVE  IInv'
  <2> USE DEF PipelineFails
  <2>1. log' \in Seq(Event) /\ Quiet
    BY <1>0, <1>5, <1>e, OpeningEvents, AppendIsQuiet
  <2>2. CallTypes' /\ CallInv' /\ OneCallPerTurn'
    BY <1>5, <1>f DEF Places
  <2> QED BY <1>0, <1>5, <1>a, <1>h, <2>1, <2>2
<1>6. ASSUME NEW c \in Calls, NEW fx \in EffectChoices, ExecuteReturns(c, fx)
      PROVE  IInv'
  <2> USE DEF ExecuteReturns
  <2>1. calls[c].at = "returned" /\ states[calls[c].turn] = "prepared"
    BY <1>0, <1>6 DEF CallInv
  <2>2. CallTypes' /\ CallInv' /\ OneCallPerTurn'
    BY <1>6, <1>i, <2>1 DEF Phases
  <2>3. \A u \in Turns : states[u] \in Final \/ states'[u] \in Final => states'[u] = states[u]
    BY <1>0, <1>6, <1>e, <2>1 DEF CallTypes, Final
  <2>4. PhaseMatchesLog' /\ AtMostOneTerminal'
    BY <1>0, <1>6, <1>g, <2>3, QuietStepKeepsPhases
  <2> QED BY <1>0, <1>6, <1>a, <1>g, <2>2, <2>4
<1>7. ASSUME NEW c \in Calls, ExecuteRejects(c)
      PROVE  IInv'
  <2>1. CallTypes' /\ CallInv' /\ OneCallPerTurn'
    BY <1>7, <1>f DEF ExecuteRejects, Places
  <2> QED BY <1>0, <1>7, <1>a, <1>g, <1>h, <2>1 DEF ExecuteRejects
<1>8. ASSUME NEW c \in Calls, Commit(c)
      PROVE  IInv'
  <2> USE DEF Commit, Committed
  <2> DEFINE t == calls[c].turn
             e == CommitEvent(t, drafts[t].scope, calls[c].effects)
  <2>1. calls[c].at = "outcome" /\ t \in Turns /\ states[t] \in Live
        /\ drafts[t].scope \in Scopes /\ calls[c].effects \in EffectChoices
    BY <1>0, <1>8, <1>e DEF CallInv, Live
  <2>2. e \in Event /\ IsTerminal(e) /\ e.turn = t /\ e.type = "turn-committed"
    BY <2>1 DEF CommitEvent, CompositionOf, Event, IsTerminal, TerminalTypes
  <2>3. log' = Append(log, e) /\ log' \in Seq(Event)
    BY <1>0, <1>8, <2>2
  <2>4. CallTypes' /\ CallInv' /\ OneCallPerTurn'
    BY <1>8, <1>i, <1>j, <2>1 DEF Places, Phases
  <2>5. PhaseMatchesLog' /\ AtMostOneTerminal'
    <3>1. states' = [states EXCEPT ![t] = IF e.type = "turn-committed" THEN "committed" ELSE "aborted"]
      BY <1>8, <2>2
    <3> HIDE DEF e
    <3> QED BY <1>0, <2>1, <2>2, <2>3, <3>1, TerminalStepKeepsPhases
  <2> QED BY <1>0, <1>8, <1>a, <2>3, <2>4, <2>5
<1>9. ASSUME NEW c \in Calls, RunCommitFails(c)
      PROVE  IInv'
  <2>1. CallTypes' /\ CallInv' /\ OneCallPerTurn'
    BY <1>9, <1>f DEF RunCommitFails, Places
  <2> QED BY <1>0, <1>9, <1>a, <1>b, <1>g, <1>h, <2>1 DEF RunCommitFails
<1>10. ASSUME NEW c \in Calls, RunAborts(c)
       PROVE  IInv'
  <2> USE DEF RunAborts, Aborted
  <2> DEFINE t == calls[c].turn
             e == AbortEvent(t)
  <2>1. calls[c].at = "failed" /\ t \in Turns /\ states[t] \in Live
    BY <1>0, <1>10, <1>e DEF CallInv
  <2>2. e \in Event /\ IsTerminal(e) /\ e.turn = t /\ e.type = "turn-aborted"
    BY <2>1 DEF AbortEvent, Event, IsTerminal, TerminalTypes
  <2>3. log' = Append(log, e) /\ log' \in Seq(Event)
    BY <1>0, <1>10, <2>2
  <2>4. CallTypes' /\ CallInv' /\ OneCallPerTurn'
    BY <1>10, <1>i, <1>j, <2>1 DEF Places, Phases
  <2>5. PhaseMatchesLog' /\ AtMostOneTerminal'
    <3>1. states' = [states EXCEPT ![t] = IF e.type = "turn-committed" THEN "committed" ELSE "aborted"]
      BY <1>10, <2>2
    <3> HIDE DEF e
    <3> QED BY <1>0, <2>1, <2>2, <2>3, <3>1, TerminalStepKeepsPhases
  <2> QED BY <1>0, <1>10, <1>a, <2>3, <2>4, <2>5
<1>11. ASSUME NEW c \in Calls, RunAbortFails(c)
       PROVE  IInv'
  <2>1. CallTypes' /\ CallInv' /\ OneCallPerTurn'
    BY <1>11, <1>f DEF RunAbortFails, Places
  <2> QED BY <1>0, <1>11, <1>a, <1>b, <1>g, <1>h, <2>1 DEF RunAbortFails
<1>12. ASSUME NEW c \in Calls, PipelineFailsUnseen(c)
       PROVE  IInv'
  <2>1. CallTypes' /\ CallInv' /\ OneCallPerTurn'
    BY <1>12, <1>f DEF PipelineFailsUnseen, Places
  <2> QED BY <1>0, <1>12, <1>a, <1>b, <1>g, <1>h, <2>1 DEF PipelineFailsUnseen
<1>13. ASSUME UNCHANGED vars
       PROVE  IInv'
  <2>1. CallTypes' /\ CallInv' /\ OneCallPerTurn'
    BY <1>0, <1>13 DEF vars, CallTypes, CallInv, OneCallPerTurn
  <2> QED BY <1>0, <1>13, <1>a, <1>g, <1>h, <2>1 DEF vars
<1> QED
  BY <1>1, <1>2, <1>3, <1>4, <1>5, <1>6, <1>7, <1>8, <1>9, <1>10, <1>11, <1>12, <1>13 DEF RunNext

-----------------------------------------------------------------------------
(* The results.                                                            *)

(* The inductive invariant holds of every behaviour of concurrent runs.    *)
THEOREM Invariance == RunSpec => []IInv
<1>1. Init => IInv
  BY InitIInv
<1>2. IInv /\ [RunNext]_vars => IInv'
  BY StepIInv
<1> QED BY <1>1, <1>2, PTL DEF RunSpec

(* The variables keep their types.                                         *)
THEOREM TypeCorrectness == RunSpec => []TypeOK
<1>1. IInv => TypeOK
  BY DEF IInv
<1> QED BY <1>1, Invariance, PTL

(* run() never writes a second terminal event for a turn, however many     *)
(* runs interleave and whichever appends throw.                            *)
THEOREM TerminalUniqueness == RunSpec => []AtMostOneTerminal
<1>1. IInv => AtMostOneTerminal
  BY DEF IInv
<1> QED BY <1>1, Invariance, PTL

(* The phase map and the durable log never disagree about a turn's end.    *)
THEOREM PhaseAgreement == RunSpec => []PhaseMatchesLog
<1>1. IInv => PhaseMatchesLog
  BY DEF IInv
<1> QED BY <1>1, Invariance, PTL

-----------------------------------------------------------------------------
(* The refinement of TurnTransaction.                                      *)

Status == [t \in Turns |-> StatusOf(t)]

(* A step that changes no phase, or moves a turn between live phases, does *)
(* not change the status that the transaction sees.                        *)
LEMMA StatusSame ==
  ASSUME states \in [Turns -> Phases], states' \in [Turns -> Phases],
         \A t \in Turns : states'[t] = states[t] \/ (states[t] \in Live /\ states'[t] \in Live)
  PROVE  Status' = Status
<1>1. \A t \in Turns : StatusOf(t)' = StatusOf(t)
  BY DEF StatusOf, Live, Phases
<1> QED BY <1>1 DEF Status

(* A step that moves one turn's phase moves that turn's status alone.      *)
LEMMA StatusMoves ==
  ASSUME states \in [Turns -> Phases], NEW t \in Turns, NEW p \in Phases,
         states' = [states EXCEPT ![t] = p]
  PROVE  /\ Status' = [Status EXCEPT ![t] = StatusOf(t)']
         /\ Status[t] = StatusOf(t)
         /\ states[t] = "none" => StatusOf(t) = "absent"
         /\ states[t] \in Live => StatusOf(t) = "open"
         /\ p = "prepared" => StatusOf(t)' = "open"
         /\ p = "committed" => StatusOf(t)' = "committed"
         /\ p = "aborted" => StatusOf(t)' = "aborted"
<1>1. states'[t] = p /\ \A u \in Turns \ {t} : states'[u] = states[u]
  OBVIOUS
<1>2. \A u \in Turns \ {t} : StatusOf(u)' = StatusOf(u)
  BY <1>1 DEF StatusOf
<1>3. Status' = [Status EXCEPT ![t] = StatusOf(t)']
  BY <1>2 DEF Status
<1> QED BY <1>1, <1>3 DEF Status, StatusOf, Live

(* A commit adds exactly its own effects to what is published.             *)
LEMMA CommitPublishes ==
  ASSUME log \in Seq(Event), NEW e \in Event, e.type = "turn-committed", log' = Append(log, e)
  PROVE  Published' = Published \cup {<<e.turn, e.effects>>}
<1>1. /\ Len(log) \in Nat /\ Len(log') = Len(log) + 1
      /\ \A i \in 1..Len(log) : log'[i] = log[i]
      /\ log'[Len(log) + 1] = e
      /\ log' \in Seq(Event)
  BY AppendProperties
<1> DEFINE C == {j \in DOMAIN log : log[j].type = "turn-committed"}
           D == {j \in DOMAIN log' : log'[j].type = "turn-committed"}
<1>2. D = C \cup {Len(log) + 1}
  BY <1>1
<1>3. \A i \in C : log'[i] = log[i]
  BY <1>1
<1>4. Published = {<<log[i].turn, log[i].effects>> : i \in C}
      /\ Published' = {<<log'[i].turn, log'[i].effects>> : i \in D}
  BY DEF Published
<1> HIDE DEF C, D
<1> QED BY <1>1, <1>2, <1>3, <1>4

(* Appending an event that is no commit publishes nothing.                 *)
LEMMA AbortPublishesNothing ==
  ASSUME log \in Seq(Event), NEW e \in Event, e.type # "turn-committed", log' = Append(log, e)
  PROVE  Published' = Published
<1>1. /\ Len(log) \in Nat /\ Len(log') = Len(log) + 1
      /\ \A i \in 1..Len(log) : log'[i] = log[i]
      /\ log'[Len(log) + 1] = e
      /\ log' \in Seq(Event)
  BY AppendProperties
<1> DEFINE C == {j \in DOMAIN log : log[j].type = "turn-committed"}
           D == {j \in DOMAIN log' : log'[j].type = "turn-committed"}
<1>2. D = C
  BY <1>1
<1>3. \A i \in C : log'[i] = log[i]
  BY <1>1
<1>4. Published = {<<log[i].turn, log[i].effects>> : i \in C}
      /\ Published' = {<<log'[i].turn, log'[i].effects>> : i \in D}
  BY DEF Published
<1> HIDE DEF C, D
<1> QED BY <1>2, <1>3, <1>4

(* The initial state is one of the transaction.                            *)
LEMMA InitRefines == Init => Transaction!Init
<1> SUFFICES ASSUME Init PROVE Transaction!Init
  OBVIOUS
<1>1. [t \in Turns |-> StatusOf(t)] = [t \in Turns |-> "absent"]
  <2>1. \A t \in Turns : StatusOf(t) = "absent"
    BY DEF Init, StatusOf, Live
  <2> QED BY <2>1
<1>2. Published = {}
  BY DEF Init, Published
<1> QED BY <1>1, <1>2 DEF Transaction!Init

(* Every step is a step of the transaction or a stutter.                   *)
LEMMA StepRefines ==
  ASSUME IInv, [RunNext]_vars
  PROVE  Transaction!Next \/ (Status' = Status /\ Published' = Published)
<1> USE DEF At
<1>0. /\ states \in [Turns -> Phases] /\ log \in Seq(Event) /\ CallInv
      /\ TypeOK /\ drafts \in [Turns -> Draft \cup {None}]
  BY DEF IInv, TypeOK
<1>a. states' \in [Turns -> Phases] /\ log' \in Seq(Event)
  BY StepIInv DEF IInv, TypeOK
<1>b. ASSUME NEW t \in Turns, NEW s \in Scopes, Admitted(t, s), Quiet
      PROVE  Transaction!Next
  <2>1. Published' = Published
    BY <1>0, <1>a, <1>b, QuietKeepsTerminals
  <2>2. Status[t] = "absent" /\ Status' = [Status EXCEPT ![t] = "open"]
    BY <1>0, <1>b, StatusMoves DEF Admitted, Phases
  <2>3. Transaction!Open(t)
    BY <2>1, <2>2 DEF Transaction!Open, Transaction!Move, Status
  <2> QED BY <2>3 DEF Transaction!Next
<1>c. ASSUME UNCHANGED states, Quiet
      PROVE  Status' = Status /\ Published' = Published
  BY <1>0, <1>a, <1>c, QuietKeepsTerminals, StatusSame
<1>d. UNCHANGED log => Quiet
  BY <1>0 DEF Quiet
<1>e. \A c \in Calls : calls[c].at # "idle" =>
        calls[c].turn \in Turns /\ drafts[calls[c].turn].scope \in Scopes
  BY <1>0 DEF CallInv, Draft
<1>1. ASSUME NEW c \in Calls, NEW t \in Turns, NEW s \in Scopes,
             RunStart(c, t, s) \/ RunRefused(c, t, s)
      PROVE  Transaction!Next
  <2>1. Quiet
    BY <1>0, <1>1, OpeningEvents, ConcatIsQuiet DEF RunStart, RunRefused
  <2> QED BY <1>1, <1>b, <2>1 DEF RunStart, RunRefused
<1>2. ASSUME NEW c \in Calls, NEW t \in Turns, NEW s \in Scopes, RunTorn(c, t, s)
      PROVE  Transaction!Next
  <2>1. CASE log' = log
    BY <1>2, <1>b, <1>d, <2>1 DEF RunTorn, PrepareTorn
  <2>2. CASE log' = Append(log, PrepareEvents(t, s)[1])
    BY <1>0, <1>2, <1>b, <2>2, OpeningEvents, AppendIsQuiet DEF RunTorn, PrepareTorn
  <2> QED BY <1>2, <2>1, <2>2 DEF RunTorn, PrepareTorn
<1>3. ASSUME NEW c \in Calls, PipelineCompletes(c) \/ PipelineFails(c)
      PROVE  Status' = Status /\ Published' = Published
  <2>1. Quiet
    BY <1>0, <1>3, <1>e, OpeningEvents, AppendIsQuiet DEF PipelineCompletes, PipelineFails
  <2> QED BY <1>3, <1>c, <2>1 DEF PipelineCompletes, PipelineFails
<1>4. ASSUME NEW c \in Calls, NEW fx \in EffectChoices, ExecuteReturns(c, fx)
      PROVE  Status' = Status /\ Published' = Published
  <2>1. Quiet
    BY <1>4, <1>d DEF ExecuteReturns
  <2>2. states[calls[c].turn] \in Live /\ calls[c].turn \in Turns
    BY <1>0, <1>4 DEF ExecuteReturns, CallInv, Live
  <2>3. \A t \in Turns : states'[t] = states[t] \/ (states[t] \in Live /\ states'[t] \in Live)
    BY <1>0, <1>4, <2>2 DEF ExecuteReturns, Live
  <2> QED BY <1>0, <1>a, <2>1, <2>3, QuietKeepsTerminals, StatusSame
<1>5. ASSUME NEW c \in Calls,
             ExecuteRejects(c) \/ PipelineFailsUnseen(c) \/ RunCommitFails(c) \/ RunAbortFails(c)
      PROVE  Status' = Status /\ Published' = Published
  BY <1>5, <1>c, <1>d DEF ExecuteRejects, PipelineFailsUnseen, RunCommitFails, RunAbortFails
<1>6. ASSUME NEW c \in Calls, Commit(c)
      PROVE  Transaction!Next
  <2> DEFINE t == calls[c].turn
             fx == calls[c].effects
             e == CommitEvent(t, drafts[t].scope, fx)
  <2>1. t \in Turns /\ fx \in EffectChoices /\ states[t] \in Live /\ drafts[t].scope \in Scopes
    BY <1>0, <1>6, <1>e DEF Commit, CallInv, Live
  <2>2. e \in Event /\ e.type = "turn-committed" /\ e.turn = t /\ e.effects = fx
    BY <2>1 DEF CommitEvent, CompositionOf, Event
  <2>3. log' = Append(log, e) /\ states' = [states EXCEPT ![t] = "committed"]
    BY <1>6 DEF Commit, Committed
  <2>4. Published' = Published \cup {<<t, fx>>}
    <3> HIDE DEF e
    <3> QED BY <1>0, <2>2, <2>3, CommitPublishes
  <2>5. Status[t] = "open" /\ Status' = [Status EXCEPT ![t] = "committed"]
    BY <1>0, <2>1, <2>3, StatusMoves DEF Phases
  <2>6. Transaction!Commit(t, fx)
    BY <2>4, <2>5 DEF Transaction!Commit, Transaction!Move, Status
  <2> QED BY <2>1, <2>6 DEF Transaction!Next
<1>7. ASSUME NEW c \in Calls, RunAborts(c)
      PROVE  Transaction!Next
  <2> DEFINE t == calls[c].turn
             e == AbortEvent(t)
  <2>1. t \in Turns /\ states[t] \in Live
    BY <1>0, <1>7, <1>e DEF RunAborts, Aborted
  <2>2. e \in Event /\ e.type # "turn-committed"
    BY <2>1 DEF AbortEvent, Event
  <2>3. log' = Append(log, e) /\ states' = [states EXCEPT ![t] = "aborted"]
    BY <1>7 DEF RunAborts, Aborted
  <2>4. Published' = Published
    <3> HIDE DEF e
    <3> QED BY <1>0, <2>2, <2>3, AbortPublishesNothing
  <2>5. Status[t] = "open" /\ Status' = [Status EXCEPT ![t] = "aborted"]
    BY <1>0, <2>1, <2>3, StatusMoves DEF Phases
  <2>6. Transaction!Abort(t)
    BY <2>4, <2>5 DEF Transaction!Abort, Transaction!Move, Status
  <2> QED BY <2>1, <2>6 DEF Transaction!Next
<1>8. ASSUME UNCHANGED vars
      PROVE  Status' = Status /\ Published' = Published
  BY <1>8, <1>c, <1>d DEF vars
<1> QED
  BY <1>1, <1>2, <1>3, <1>4, <1>5, <1>6, <1>7, <1>8 DEF RunNext

(* Every run is a transaction: it publishes all of a turn's effects in one *)
(* step, once, or none of them ever.                                       *)
THEOREM Refinement == RunSpec => ImplementsTransaction
<1>1. Init => Transaction!Init
  BY InitRefines
<1>2. IInv /\ [RunNext]_vars => [Transaction!Next]_<<[t \in Turns |-> StatusOf(t)], Published>>
  BY StepRefines DEF Status
<1> QED BY <1>1, <1>2, Invariance, PTL DEF RunSpec, ImplementsTransaction, Transaction!Spec

-----------------------------------------------------------------------------
(* The strict fold on the events of run().                                 *)
LEMMA PutFacts ==
  ASSUME NEW map, NEW k, NEW x
  PROVE  /\ DOMAIN Put(map, k, x) = DOMAIN map \cup {k}
         /\ Put(map, k, x)[k] = x
         /\ \A y \in DOMAIN map : y # k => Put(map, k, x)[y] = map[y]
BY DEF Put

LEMMA KeepFirstFacts ==
  ASSUME NEW map, NEW k, NEW x
  PROVE  /\ DOMAIN KeepFirst(map, k, x) = DOMAIN map \cup {k}
         /\ Stable(map, k, x) => KeepFirst(map, k, x)[k] = x
         /\ \A y \in DOMAIN map : y # k => KeepFirst(map, k, x)[y] = map[y]
<1>1. CASE k \in DOMAIN map
  <2>1. DOMAIN map = DOMAIN map \cup {k}
    BY <1>1
  <2>2. KeepFirst(map, k, x) = map
    BY <1>1 DEF KeepFirst
  <2> QED BY <1>1, <2>1, <2>2 DEF Stable
<1>2. CASE k \notin DOMAIN map
  <2>1. KeepFirst(map, k, x) = Put(map, k, x)
    BY <1>2 DEF KeepFirst
  <2> QED BY <1>2, <2>1 DEF Put
<1> QED BY <1>1, <1>2

(* A turn that carries no agent leaves the agents of the view alone.       *)
LEMMA NoAgents ==
  ASSUME NEW view
  PROVE  FoldLeft(UpsertAgent, view, <<>>) = view
<1> DEFINE Round(iter) == [S \in SUBSET DOMAIN <<>> |->
                             IF S = {} THEN view
                             ELSE LET x == Max(S) IN UpsertAgent(iter[S \ {x}], <<>>[x])]
           iter == CHOOSE iter : iter = Round(iter)
<1> HIDE DEF UpsertAgent, Max
<1>1. DOMAIN <<>> = {} /\ SUBSET DOMAIN <<>> = {{}}
  OBVIOUS
<1>2. \E f : f = Round(f)
  <2>1. PICK f : f = [S \in {{}} |-> view]
    OBVIOUS
  <2>2. f = Round(f)
    BY <1>1, <2>1
  <2> QED BY <2>2
<1>3. iter = Round(iter)
  <2> HIDE DEF Round
  <2> QED BY <1>2
<1>4. iter[{}] = view
  <2>1. Round(iter)[{}] = view
    BY <1>1
  <2> QED BY <1>3, <2>1
<1>5. FoldLeft(UpsertAgent, view, <<>>) = iter[{}]
  BY <1>1 DEF FoldLeft, MapThenFoldSet
<1> QED BY <1>4, <1>5

IsView(v) ==
  /\ v.ok = TRUE /\ DOMAIN v = DOMAIN EmptySession
  /\ \A key \in DOMAIN v.pipelines : "status" \in DOMAIN v.pipelines[key]

(* What the fold has seen of turn t.                                       *)
Unseen(v, t) ==
  /\ t \notin DOMAIN v.compositions /\ t \notin DOMAIN v.contexts
  /\ <<t, Pipeline>> \notin DOMAIN v.pipelines
  /\ t \notin v.terminal
ComposedAs(v, t, s) == Stable(v.compositions, t, CompositionOf(t, s))
PipelineIs(v, t, status) ==
  <<t, Pipeline>> \in DOMAIN v.pipelines /\ v.pipelines[<<t, Pipeline>>].status = status
Open(v, t) == t \notin v.terminal /\ ~StateChangeIs(v, t, "rejected")

(* The view moves from v to w on an event of turn t.                       *)
SeesOnly(v, w, t) ==
  \A u \in Turns \ {t} :
    /\ Unseen(v, u) => Unseen(w, u)
    /\ Open(v, u) => Open(w, u)
    /\ \A s \in Scopes : ComposedAs(v, u, s) => ComposedAs(w, u, s)
    /\ \A status : PipelineIs(v, u, status) => PipelineIs(w, u, status)

LEMMA FoldComposes ==
  ASSUME NEW v, IsView(v), NEW t \in Turns, NEW s \in Scopes, Unseen(v, t)
  PROVE  LET w == SessionStep(v, PrepareEvents(t, s)[1]) IN
         /\ IsView(w) /\ SeesOnly(v, w, t)
         /\ ComposedAs(w, t, s)
         /\ t \notin DOMAIN w.contexts /\ <<t, Pipeline>> \notin DOMAIN w.pipelines
         /\ Open(v, t) => Open(w, t)
<1> DEFINE e == PrepareEvents(t, s)[1]
           map == KeepFirst(v.compositions, t, CompositionOf(t, s))
           w == [v EXCEPT !.compositions = map]
<1>1. e = [type |-> "composition-resolved", turn |-> t, composition |-> CompositionOf(t, s)]
  BY DEF PrepareEvents
<1>2. SessionStep(v, e) = w
  <2> HIDE DEF e
  <2> QED BY <1>1 DEF SessionStep, Admit, IsView, Unseen, Stable
<1>3. /\ DOMAIN w = DOMAIN EmptySession
      /\ \A f \in DOMAIN EmptySession \ {"compositions"} : w[f] = v[f]
      /\ w.compositions = map
  BY DEF IsView, EmptySession
<1>4. DOMAIN map = DOMAIN v.compositions \cup {t}
      /\ map[t] = CompositionOf(t, s)
      /\ \A u \in DOMAIN v.compositions : u # t => map[u] = v.compositions[u]
  <2>1. Stable(v.compositions, t, CompositionOf(t, s))
    BY DEF Unseen, Stable
  <2>2. PICK x, old : x = CompositionOf(t, s) /\ old = v.compositions
    OBVIOUS
  <2>3. /\ DOMAIN KeepFirst(old, t, x) = DOMAIN old \cup {t}
        /\ KeepFirst(old, t, x)[t] = x
        /\ \A u \in DOMAIN old : u # t => KeepFirst(old, t, x)[u] = old[u]
    <3>1. Stable(old, t, x)
      BY <2>1, <2>2
    <3>2. CASE t \in DOMAIN old
      BY <3>1, <3>2 DEF KeepFirst, Stable
    <3>3. CASE t \notin DOMAIN old
      BY <3>3 DEF KeepFirst, Put
    <3> QED BY <3>2, <3>3
  <2> QED BY <2>2, <2>3
<1> HIDE DEF map, w, e
<1>5. /\ w.ok = v.ok /\ w.terminal = v.terminal /\ w.contexts = v.contexts
      /\ w.pipelines = v.pipelines /\ w.stateChanges = v.stateChanges
  BY <1>3 DEF EmptySession
<1>6. IsView(w)
  BY <1>3, <1>5 DEF IsView
<1>7. SeesOnly(v, w, t)
  BY <1>3, <1>4, <1>5 DEF SeesOnly, Unseen, Open, ComposedAs, PipelineIs, Stable, StateChangeIs
<1> QED BY <1>2, <1>3, <1>4, <1>5, <1>6, <1>7 DEF e, Unseen, Open, ComposedAs, Stable, StateChangeIs

LEMMA FoldActivates ==
  ASSUME NEW v, IsView(v), NEW t \in Turns, NEW s \in Scopes, t \notin DOMAIN v.contexts
  PROVE  LET w == SessionStep(v, PrepareEvents(t, s)[2]) IN
         /\ IsView(w) /\ SeesOnly(v, w, t)
         /\ ComposedAs(v, t, s) => ComposedAs(w, t, s)
         /\ <<t, Pipeline>> \notin DOMAIN v.pipelines => <<t, Pipeline>> \notin DOMAIN w.pipelines
         /\ Open(v, t) => Open(w, t)
<1> DEFINE e == PrepareEvents(t, s)[2]
           map == KeepFirst(v.contexts, t, t)
           w == [v EXCEPT !.contexts = map]
<1>1. e = [type |-> "context-activated", turn |-> t, context |-> t]
  BY DEF PrepareEvents
<1>2. SessionStep(v, e) = w
  <2> HIDE DEF e
  <2> QED BY <1>1 DEF SessionStep, Admit, IsView, Stable
<1>3. /\ DOMAIN w = DOMAIN EmptySession
      /\ \A f \in DOMAIN EmptySession \ {"contexts"} : w[f] = v[f]
      /\ w.contexts = map
  BY DEF IsView, EmptySession
<1>4. DOMAIN map = DOMAIN v.contexts \cup {t}
  BY KeepFirstFacts
<1> HIDE DEF map, w, e
<1>5. /\ w.ok = v.ok /\ w.terminal = v.terminal /\ w.compositions = v.compositions
      /\ w.pipelines = v.pipelines /\ w.stateChanges = v.stateChanges
  BY <1>3 DEF EmptySession
<1>6. IsView(w)
  BY <1>3, <1>5 DEF IsView
<1>7. SeesOnly(v, w, t)
  BY <1>3, <1>4, <1>5 DEF SeesOnly, Unseen, Open, ComposedAs, PipelineIs, StateChangeIs
<1> QED BY <1>2, <1>5, <1>6, <1>7 DEF e, Open, ComposedAs, StateChangeIs

LEMMA FoldRunsPipeline ==
  ASSUME NEW v, IsView(v), NEW t \in Turns, NEW map, NEW status,
         DOMAIN map = DOMAIN v.pipelines \cup {<<t, Pipeline>>},
         map[<<t, Pipeline>>].status = status, "status" \in DOMAIN map[<<t, Pipeline>>],
         \A key \in DOMAIN v.pipelines : key # <<t, Pipeline>> => map[key] = v.pipelines[key],
         NEW w, w = [v EXCEPT !.pipelines = map]
  PROVE  /\ IsView(w) /\ SeesOnly(v, w, t)
         /\ PipelineIs(w, t, status)
         /\ \A s \in Scopes : ComposedAs(v, t, s) => ComposedAs(w, t, s)
         /\ Open(v, t) => Open(w, t)
<1>1. /\ DOMAIN w = DOMAIN EmptySession
      /\ \A f \in DOMAIN EmptySession \ {"pipelines"} : w[f] = v[f]
      /\ w.pipelines = map
  BY DEF IsView, EmptySession
<1>2. /\ w.ok = v.ok /\ w.terminal = v.terminal /\ w.compositions = v.compositions
      /\ w.contexts = v.contexts /\ w.stateChanges = v.stateChanges
  BY <1>1 DEF EmptySession
<1>3. IsView(w)
  BY <1>1, <1>2 DEF IsView
<1>4. \A u \in Turns \ {t} : <<u, Pipeline>> # <<t, Pipeline>>
  OBVIOUS
<1>5. SeesOnly(v, w, t)
  BY <1>1, <1>2, <1>4 DEF SeesOnly, Unseen, Open, ComposedAs, PipelineIs, StateChangeIs
<1> QED BY <1>1, <1>2, <1>3, <1>5 DEF PipelineIs, ComposedAs, Open, StateChangeIs

LEMMA FoldStarts ==
  ASSUME NEW v, IsView(v), NEW t \in Turns, <<t, Pipeline>> \notin DOMAIN v.pipelines
  PROVE  LET w == SessionStep(v, PipelineEvent(t, "pipeline-started")) IN
         /\ IsView(w) /\ SeesOnly(v, w, t)
         /\ PipelineIs(w, t, "running")
         /\ \A s \in Scopes : ComposedAs(v, t, s) => ComposedAs(w, t, s)
         /\ Open(v, t) => Open(w, t)
<1> DEFINE map == Put(v.pipelines, <<t, Pipeline>>, [status |-> "running", stages |-> {}])
           w == [v EXCEPT !.pipelines = map]
<1>1. SessionStep(v, PipelineEvent(t, "pipeline-started")) = w
  BY DEF SessionStep, PipelineStep, PipelineEvent, PipelineKey, Admit, IsView
<1>2. /\ DOMAIN map = DOMAIN v.pipelines \cup {<<t, Pipeline>>}
      /\ map[<<t, Pipeline>>] = [status |-> "running", stages |-> {}]
      /\ \A key \in DOMAIN v.pipelines : key # <<t, Pipeline>> => map[key] = v.pipelines[key]
  BY DEF Put
<1> HIDE DEF map
<1> QED BY <1>1, <1>2, FoldRunsPipeline

LEMMA FoldEnds ==
  ASSUME NEW v, IsView(v), NEW t \in Turns, PipelineIs(v, t, "running"),
         NEW kind, NEW status,
         \/ kind = "pipeline-completed" /\ status = "completed"
         \/ kind = "pipeline-failed" /\ status = "failed"
  PROVE  LET w == SessionStep(v, PipelineEvent(t, kind)) IN
         /\ IsView(w) /\ SeesOnly(v, w, t)
         /\ PipelineIs(w, t, status)
         /\ \A s \in Scopes : ComposedAs(v, t, s) => ComposedAs(w, t, s)
         /\ Open(v, t) => Open(w, t)
<1> DEFINE key == <<t, Pipeline>>
           run == [v.pipelines[key] EXCEPT !.status = status]
           map == [v.pipelines EXCEPT ![key] = run]
           w == [v EXCEPT !.pipelines = map]
<1>1. SessionStep(v, PipelineEvent(t, kind)) = w
  <2>1. CASE kind = "pipeline-completed" /\ status = "completed"
    BY <2>1 DEF SessionStep, PipelineStep, PipelineEvent, PipelineKey, Admit, IsView, PipelineIs, IsRunning
  <2>2. CASE kind = "pipeline-failed" /\ status = "failed"
    BY <2>2 DEF SessionStep, PipelineStep, PipelineEvent, PipelineKey, Admit, IsView, PipelineIs, IsRunning
  <2> QED BY <2>1, <2>2
<1>2. key \in DOMAIN v.pipelines /\ "status" \in DOMAIN v.pipelines[key]
  BY DEF PipelineIs, IsView
<1>3. run.status = status /\ "status" \in DOMAIN run
  BY <1>2
<1> HIDE DEF run
<1>4. /\ DOMAIN map = DOMAIN v.pipelines \cup {key}
      /\ map[key] = run
      /\ \A k \in DOMAIN v.pipelines : k # key => map[k] = v.pipelines[k]
  BY <1>2
<1> HIDE DEF map
<1> QED BY <1>1, <1>3, <1>4, FoldRunsPipeline

(* A commit or an abort takes the turn to the terminal ones.               *)
LEMMA FoldAborts ==
  ASSUME NEW v, IsView(v), NEW t \in Turns, t \notin v.terminal
  PROVE  LET w == SessionStep(v, AbortEvent(t)) IN
         IsView(w) /\ SeesOnly(v, w, t)
<1> DEFINE w == [v EXCEPT !.terminal = @ \cup {t}, !.aborted = @ \cup {t}]
<1>1. SessionStep(v, AbortEvent(t)) = w
  BY DEF SessionStep, AbortStep, AbortEvent, Admit, IsView
<1>2. /\ DOMAIN w = DOMAIN EmptySession
      /\ \A f \in DOMAIN EmptySession \ {"terminal", "aborted"} : w[f] = v[f]
      /\ w.terminal = v.terminal \cup {t}
  BY DEF IsView, EmptySession
<1> HIDE DEF w
<1>3. /\ w.ok = v.ok /\ w.compositions = v.compositions /\ w.contexts = v.contexts
      /\ w.pipelines = v.pipelines /\ w.stateChanges = v.stateChanges
  BY <1>2 DEF EmptySession
<1>4. IsView(w)
  BY <1>2, <1>3 DEF IsView
<1>5. SeesOnly(v, w, t)
  BY <1>2, <1>3 DEF SeesOnly, Unseen, Open, ComposedAs, PipelineIs, StateChangeIs
<1> QED BY <1>1, <1>4, <1>5

(* Whatever branch a commit carries, it can be set.                        *)
LEMMA BranchIsSet ==
  ASSUME NEW v, IsView(v), NEW branch
  PROVE  LET w == SetBranch(v, branch) IN
         /\ DOMAIN w = DOMAIN EmptySession
         /\ \A f \in DOMAIN EmptySession \ {"branches", "activeBranch"} : w[f] = v[f]
<1> DEFINE w == [v EXCEPT !.branches = Put(@, branch.id, branch)]
<1>1. /\ DOMAIN w = DOMAIN EmptySession
      /\ \A f \in DOMAIN EmptySession \ {"branches"} : w[f] = v[f]
      /\ branch.id \in DOMAIN w.branches
  BY DEF IsView, EmptySession, Put
<1> DEFINE x == [w EXCEPT !.branches = OnlyActive(@, branch.id), !.activeBranch = branch.id]
<1> HIDE DEF w
<1>2. /\ DOMAIN x = DOMAIN EmptySession
      /\ \A f \in DOMAIN EmptySession \ {"branches", "activeBranch"} : x[f] = v[f]
  BY <1>1 DEF EmptySession
<1>3. ActivateBranch(w, branch.id) = x
  BY <1>1 DEF ActivateBranch, Admit
<1>4. SetBranch(v, branch) \in {w, x}
  <2> HIDE DEF x
  <2> QED BY <1>3 DEF SetBranch, w
<1> HIDE DEF x
<1> QED BY <1>1, <1>2, <1>4

LEMMA FoldCommits ==
  ASSUME NEW v, IsView(v), NEW t \in Turns, NEW s \in Scopes, NEW fx,
         Open(v, t), ComposedAs(v, t, s), ~PipelineIs(v, t, "failed")
  PROVE  LET w == SessionStep(v, CommitEvent(t, s, fx)) IN
         IsView(w) /\ SeesOnly(v, w, t)
<1> DEFINE key == <<t, Pipeline>>
<1>1. PICK e : e = CommitEvent(t, s, fx)
  OBVIOUS
<1>2. /\ e.type = "turn-committed" /\ e.turn = t /\ e.composition = CompositionOf(t, s)
      /\ PipelineKey(e) = key /\ e.agentTrace = <<>> /\ e.effects = fx
  BY <1>1 DEF CommitEvent, PipelineKey
<1>3. PICK pipelines :
        pipelines = IF key \in DOMAIN v.pipelines
                    THEN [v.pipelines EXCEPT ![key].status = "completed"]
                    ELSE Put(v.pipelines, key, [status |-> "completed", stages |-> {}])
  OBVIOUS
<1>4. /\ DOMAIN pipelines = DOMAIN v.pipelines \cup {key}
      /\ "status" \in DOMAIN pipelines[key]
      /\ \A k \in DOMAIN v.pipelines : k # key => pipelines[k] = v.pipelines[k]
  <2>1. CASE key \in DOMAIN v.pipelines
    BY <1>3, <2>1 DEF IsView
  <2>2. CASE key \notin DOMAIN v.pipelines
    BY <1>3, <2>2 DEF Put
  <2> QED BY <2>1, <2>2
<1>5. PICK compositions : compositions = KeepFirst(v.compositions, t, CompositionOf(t, s))
  OBVIOUS
<1>6. /\ DOMAIN compositions = DOMAIN v.compositions \cup {t}
      /\ \A u \in DOMAIN v.compositions : u # t => compositions[u] = v.compositions[u]
  BY <1>5 DEF KeepFirst, Put
<1>7. PICK merged :
        merged = [v EXCEPT !.terminal = @ \cup {t}, !.turns = Append(@, t),
                           !.compositions = compositions, !.pipelines = pipelines]
  OBVIOUS
<1>8. CommitTopology(v, e) = merged
  BY <1>2, <1>3, <1>5, <1>7, NoAgents DEF CommitTopology
<1>9. /\ DOMAIN merged = DOMAIN EmptySession
      /\ merged.ok = v.ok /\ merged.terminal = v.terminal \cup {t}
      /\ merged.compositions = compositions /\ merged.contexts = v.contexts
      /\ merged.pipelines = pipelines /\ merged.stateChanges = v.stateChanges
  BY <1>7 DEF IsView, EmptySession
<1>10. PICK domain : domain = CommitDomain(merged, t, fx)
  OBVIOUS
<1>11. PICK changes :
         changes = IF Touched(fx) THEN Put(merged.stateChanges, t, "committed")
                   ELSE merged.stateChanges
  OBVIOUS
<1>12. /\ DOMAIN domain = DOMAIN EmptySession
       /\ domain.ok = merged.ok /\ domain.terminal = merged.terminal
       /\ domain.compositions = merged.compositions /\ domain.contexts = merged.contexts
       /\ domain.pipelines = merged.pipelines /\ domain.stateChanges = changes
  BY <1>9, <1>10, <1>11 DEF CommitDomain, EmptySession
<1>13. IsView(domain)
  BY <1>4, <1>9, <1>12 DEF IsView
<1>14. PICK w : w = IF fx.branch = None THEN domain ELSE SetBranch(domain, fx.branch)
  OBVIOUS
<1>15. DOMAIN w = DOMAIN EmptySession
       /\ \A f \in DOMAIN EmptySession \ {"branches", "activeBranch"} : w[f] = domain[f]
  BY <1>12, <1>13, <1>14, BranchIsSet
<1>16. /\ w.ok = TRUE /\ w.terminal = v.terminal \cup {t}
       /\ w.compositions = compositions /\ w.contexts = v.contexts
       /\ w.pipelines = pipelines /\ w.stateChanges = changes
  BY <1>9, <1>12, <1>15 DEF IsView, EmptySession
<1>17. SessionStep(v, e) = w
  <2>1. SessionStep(v, e) = CommitStep(v, e)
    BY <1>2 DEF SessionStep, IsView
  <2>2. key \in DOMAIN v.pipelines => v.pipelines[key].status # "failed"
    BY DEF PipelineIs
  <2> QED BY <1>2, <1>8, <1>9, <1>10, <1>14, <2>1, <2>2 DEF CommitStep, Admit, Open, ComposedAs, IsView
<1>18. IsView(w)
  BY <1>4, <1>15, <1>16 DEF IsView
<1>19. \A u \in Turns \ {t} : StateChangeIs(w, u, "rejected") => StateChangeIs(v, u, "rejected")
  BY <1>9, <1>11, <1>16 DEF StateChangeIs, Put
<1>20. \A u \in Turns \ {t} : <<u, Pipeline>> # key
  OBVIOUS
<1>21. SeesOnly(v, w, t)
  <2> HIDE DEF key
  <2> SUFFICES ASSUME NEW u \in Turns \ {t}
               PROVE  /\ Unseen(v, u) => Unseen(w, u)
                      /\ Open(v, u) => Open(w, u)
                      /\ \A x \in Scopes : ComposedAs(v, u, x) => ComposedAs(w, u, x)
                      /\ \A status : PipelineIs(v, u, status) => PipelineIs(w, u, status)
    BY DEF SeesOnly
  <2>1. Unseen(v, u) => Unseen(w, u)
    BY <1>4, <1>6, <1>16, <1>20 DEF Unseen
  <2>2. Open(v, u) => Open(w, u)
    BY <1>16, <1>19 DEF Open
  <2>3. \A x \in Scopes : ComposedAs(v, u, x) => ComposedAs(w, u, x)
    BY <1>6, <1>16 DEF ComposedAs, Stable
  <2>4. \A status : PipelineIs(v, u, status) => PipelineIs(w, u, status)
    BY <1>4, <1>16, <1>20 DEF PipelineIs
  <2> QED BY <2>1, <2>2, <2>3, <2>4
<1> QED BY <1>1, <1>17, <1>18, <1>21

-----------------------------------------------------------------------------
(* What the view says of turns and calls.                                  *)
TurnIsSeen(v, t) ==
  /\ states[t] = "none" => Unseen(v, t)
  /\ states[t] \notin Final => Open(v, t)

CallIsSeen(v, c) ==
  LET t == calls[c].turn IN
  /\ calls[c].at \notin {"idle", "settled"} => ComposedAs(v, t, drafts[t].scope)
  /\ calls[c].at = "pipeline" => PipelineIs(v, t, "running")
  /\ calls[c].at \in {"returned", "outcome"} => PipelineIs(v, t, "completed")
  /\ calls[c].at = "settled" /\ faults = 0 => states[t] \in Final

Tells(v) ==
  /\ IsView(v)
  /\ \A t \in Turns : TurnIsSeen(v, t)
  /\ \A c \in Calls : CallIsSeen(v, c)

HistoryInv == Tells(ProjectSession(log))

LEMMA SeesOnlyChains ==
  ASSUME NEW v, NEW w, NEW x, NEW t \in Turns, SeesOnly(v, w, t), SeesOnly(w, x, t)
  PROVE  SeesOnly(v, x, t)
<1> SUFFICES ASSUME NEW u \in Turns \ {t}
             PROVE  /\ Unseen(v, u) => Unseen(x, u)
                    /\ Open(v, u) => Open(x, u)
                    /\ \A s \in Scopes : ComposedAs(v, u, s) => ComposedAs(x, u, s)
                    /\ \A status : PipelineIs(v, u, status) => PipelineIs(x, u, status)
  BY DEF SeesOnly
<1> QED BY DEF SeesOnly

(* A step of one call that is told of in the events of one turn.           *)
LEMMA ViewMoves ==
  ASSUME IInv, HistoryInv, NEW c \in Calls, NEW t \in Turns,
         NEW w, w = ProjectSession(log'), IsView(w), SeesOnly(ProjectSession(log), w, t),
         \A u \in Turns \ {t} : states'[u] = states[u] /\ drafts'[u] = drafts[u],
         \A d \in Calls \ {c} : calls'[d] = calls[d] /\ (calls[d].at # "idle" => calls[d].turn # t),
         faults' = 0 => faults = 0,
         TurnIsSeen(w, t)', CallIsSeen(w, c)'
  PROVE  HistoryInv'
<1>1. PICK v : v = ProjectSession(log)
  OBVIOUS
<1>2. Tells(v) /\ SeesOnly(v, w, t)
  BY <1>1 DEF HistoryInv
<1>3. ASSUME NEW u \in Turns \ {t}
      PROVE  TurnIsSeen(w, u)'
  <2>1. TurnIsSeen(v, u)
    BY <1>2 DEF Tells
  <2>2. states'[u] = states[u]
    OBVIOUS
  <2>3. (Unseen(v, u) => Unseen(w, u)) /\ (Open(v, u) => Open(w, u))
    BY <1>2 DEF SeesOnly
  <2> QED BY <2>1, <2>2, <2>3 DEF TurnIsSeen
<1>4. ASSUME NEW d \in Calls \ {c}
      PROVE  CallIsSeen(w, d)'
  <2>1. CASE calls[d].at = "idle"
    BY <2>1 DEF CallIsSeen
  <2>2. CASE calls[d].at # "idle"
    <3>1. calls[d].turn \in Turns \ {t} /\ drafts[calls[d].turn].scope \in Scopes
      BY <2>2 DEF IInv, CallInv, Draft
    <3>2. /\ calls'[d] = calls[d] /\ states'[calls[d].turn] = states[calls[d].turn]
          /\ drafts'[calls[d].turn] = drafts[calls[d].turn]
      BY <3>1
    <3>3. /\ \A status : PipelineIs(v, calls[d].turn, status) => PipelineIs(w, calls[d].turn, status)
          /\ \A s \in Scopes : ComposedAs(v, calls[d].turn, s) => ComposedAs(w, calls[d].turn, s)
      BY <1>2, <3>1 DEF SeesOnly
    <3>4. CallIsSeen(v, d)
      BY <1>2 DEF Tells
    <3> QED BY <3>1, <3>2, <3>3, <3>4 DEF CallIsSeen
  <2> QED BY <2>1, <2>2
<1>5. Tells(w)'
  BY <1>3, <1>4 DEF Tells
<1> QED BY <1>5 DEF HistoryInv

(* A call that moves in silence.                                           *)
LEMMA SilentMoves ==
  ASSUME IInv, HistoryInv, NEW c \in Calls, calls[c].at # "idle", log' = log,
         drafts' = drafts, NEW t \in Turns, t = calls[c].turn,
         \A u \in Turns \ {t} : states'[u] = states[u],
         \A d \in Calls \ {c} : calls'[d] = calls[d],
         faults' = 0 => faults = 0,
         NEW w, w = ProjectSession(log), TurnIsSeen(w, t)', CallIsSeen(w, c)'
  PROVE  HistoryInv'
<1>1. w = ProjectSession(log') /\ IsView(w)
  BY DEF HistoryInv, Tells
<1>2. SeesOnly(ProjectSession(log), w, t)
  BY DEF SeesOnly
<1>3. \A d \in Calls \ {c} : calls[d].at # "idle" => calls[d].turn # t
  BY DEF IInv, OneCallPerTurn
<1> HIDE DEF HistoryInv, IInv
<1> QED BY <1>1, <1>2, <1>3, ViewMoves

LEMMA StartIsThree ==
  ASSUME NEW t \in Turns, NEW s \in Scopes, log \in Seq(Event)
  PROVE  LET e == PrepareEvents(t, s) IN
         /\ log \o e = Append(Append(log, e[1]), e[2])
         /\ log \o StartEvents(t, s)
              = Append(Append(Append(log, e[1]), e[2]), PipelineEvent(t, "pipeline-started"))
         /\ Append(log, e[1]) \in Seq(Event)
         /\ Append(Append(log, e[1]), e[2]) \in Seq(Event)
<1>1. PICK e1, e2, e3 :
        /\ e1 = PrepareEvents(t, s)[1] /\ e2 = PrepareEvents(t, s)[2]
        /\ e3 = PipelineEvent(t, "pipeline-started")
  OBVIOUS
<1>2. e1 \in Event /\ e2 \in Event /\ e3 \in Event
  BY <1>1 DEF PrepareEvents, PipelineEvent, Event, CompositionOf
<1>3. PrepareEvents(t, s) = <<e1, e2>>
  BY <1>1 DEF PrepareEvents
<1>4. <<e1, e2>> = Append(<<e1>>, e2) /\ <<e1>> \in Seq(Event) /\ <<e1, e2>> \in Seq(Event)
  BY <1>2
<1>5. Append(log, e1) \in Seq(Event) /\ Append(Append(log, e1), e2) \in Seq(Event)
  BY <1>2, AppendProperties
<1>6. log \o <<e1>> = Append(log, e1)
  BY <1>2, AppendIsConcat
<1>7. log \o <<e1, e2>> = Append(Append(log, e1), e2)
  <2>1. <<e1>> \o <<e2>> = <<e1, e2>> /\ <<e2>> \in Seq(Event)
    <3>1. Append(<<e1>>, e2) = <<e1>> \o <<e2>>
      BY <1>2, <1>4, AppendIsConcat
    <3>2. <<e2>> \in Seq(Event)
      BY <1>2
    <3>3. <<e1, e2>> = Append(<<e1>>, e2)
      OBVIOUS
    <3> QED BY ONLY <3>1, <3>2, <3>3, Zenon
  <2>2. (log \o <<e1>>) \o <<e2>> = log \o (<<e1>> \o <<e2>>)
    BY <1>4, <2>1, ConcatAssociative
  <2> QED BY <1>2, <1>5, <1>6, <2>1, <2>2, AppendIsConcat
<1>8. log \o Append(<<e1, e2>>, e3) = Append(Append(Append(log, e1), e2), e3)
  <2>1. <<e1, e2>> \o <<e3>> = Append(<<e1, e2>>, e3) /\ <<e3>> \in Seq(Event)
    BY <1>2, <1>4, AppendIsConcat
  <2>2. (log \o <<e1, e2>>) \o <<e3>> = log \o (<<e1, e2>> \o <<e3>>)
    BY <1>4, <2>1, ConcatAssociative
  <2> QED BY <1>2, <1>5, <1>7, <2>1, <2>2, AppendIsConcat
<1> QED BY <1>1, <1>3, <1>5, <1>7, <1>8 DEF StartEvents

LEMMA OpeningIsSeen ==
  ASSUME NEW v, IsView(v), NEW t \in Turns, NEW s \in Scopes, Unseen(v, t), Open(v, t),
         NEW one, one = SessionStep(v, PrepareEvents(t, s)[1]),
         NEW two, two = SessionStep(one, PrepareEvents(t, s)[2]),
         NEW three, three = SessionStep(two, PipelineEvent(t, "pipeline-started"))
  PROVE  /\ \A w \in {one, two, three} :
              IsView(w) /\ SeesOnly(v, w, t) /\ ComposedAs(w, t, s) /\ Open(w, t)
         /\ PipelineIs(three, t, "running")
<1>1. /\ IsView(one) /\ SeesOnly(v, one, t) /\ ComposedAs(one, t, s) /\ Open(one, t)
      /\ t \notin DOMAIN one.contexts /\ <<t, Pipeline>> \notin DOMAIN one.pipelines
  BY FoldComposes
<1>2. /\ IsView(two) /\ SeesOnly(one, two, t) /\ ComposedAs(two, t, s) /\ Open(two, t)
      /\ <<t, Pipeline>> \notin DOMAIN two.pipelines
  BY <1>1, FoldActivates
<1>3. /\ IsView(three) /\ SeesOnly(two, three, t) /\ ComposedAs(three, t, s) /\ Open(three, t)
      /\ PipelineIs(three, t, "running")
  BY <1>2, FoldStarts
<1>4. SeesOnly(v, two, t)
  BY <1>1, <1>2, SeesOnlyChains
<1>5. SeesOnly(v, three, t)
  BY <1>3, <1>4, SeesOnlyChains
<1> QED BY <1>1, <1>2, <1>3, <1>4, <1>5

LEMMA InitIsTold == Init => HistoryInv
<1> SUFFICES ASSUME Init PROVE HistoryInv
  OBVIOUS
<1>1. ProjectSession(log) = EmptySession
  BY NothingIsProjected DEF Init
<1>2. IsView(EmptySession)
  BY DEF IsView, EmptySession, Map0
<1>3. \A t \in Turns : Unseen(EmptySession, t) /\ Open(EmptySession, t)
  BY DEF Unseen, Open, EmptySession, Map0, StateChangeIs
<1>4. \A t \in Turns : TurnIsSeen(EmptySession, t)
  BY <1>3 DEF TurnIsSeen, Init
<1>5. \A c \in Calls : CallIsSeen(EmptySession, c)
  BY DEF CallIsSeen, Init, Idle
<1> QED BY <1>1, <1>2, <1>4, <1>5 DEF HistoryInv, Tells

LEMMA NextIsTold == IInv /\ HistoryInv /\ [RunNext]_vars => HistoryInv'
<1> SUFFICES ASSUME IInv, HistoryInv, [RunNext]_vars PROVE HistoryInv'
  OBVIOUS
<1>0. /\ TypeOK /\ log \in Seq(Event) /\ CallInv /\ OneCallPerTurn
      /\ states \in [Turns -> Phases] /\ drafts \in [Turns -> Draft \cup {None}]
      /\ calls \in [Calls -> CallState] /\ faults \in Nat
  BY DEF IInv, TypeOK
<1>1. PICK v : v = ProjectSession(log)
  OBVIOUS
<1>2. Tells(v)
  BY <1>1 DEF HistoryInv
<1>a. Fault => faults' # 0
  BY <1>0 DEF Fault
<1>b. ASSUME NEW c \in Calls, calls[c].at = "idle", NEW t \in Turns, states[t] = "none"
      PROVE  \A d \in Calls \ {c} : calls[d].at # "idle" => calls[d].turn # t
  BY <1>0, <1>b DEF CallInv
<1>c. ASSUME NEW c \in Calls, calls[c].at # "idle"
      PROVE  /\ calls[c].turn \in Turns /\ drafts[calls[c].turn] \in Draft
             /\ \A d \in Calls \ {c} : calls[d].at # "idle" => calls[d].turn # calls[c].turn
  BY <1>0, <1>c DEF CallInv, OneCallPerTurn
<1>d. ASSUME NEW c \in Calls, NEW t \in Turns, calls[c].at # "idle", t = calls[c].turn,
             NEW phase \in Final, states' = [states EXCEPT ![t] = phase],
             calls' = [calls EXCEPT ![c].at = "settled"],
             drafts' = drafts, faults' = faults,
             NEW w, w = ProjectSession(log'), IsView(w), SeesOnly(v, w, t)
      PROVE  HistoryInv'
  <2>1. calls'[c].at = "settled" /\ calls'[c].turn = t /\ states'[t] = phase
        /\ \A d \in Calls \ {c} : calls'[d] = calls[d]
        /\ \A u \in Turns \ {t} : states'[u] = states[u]
    BY <1>0, <1>d DEF CallState
  <2>2. TurnIsSeen(w, t)'
    BY <2>1 DEF TurnIsSeen, Final
  <2>3. CallIsSeen(w, c)'
    BY <2>1 DEF CallIsSeen
  <2>4. \A d \in Calls \ {c} : calls[d].at # "idle" => calls[d].turn # t
    BY <1>c, <1>d
  <2> HIDE DEF HistoryInv
  <2> QED BY <1>1, <1>d, <2>1, <2>2, <2>3, <2>4, ViewMoves
<1>3. ASSUME NEW c \in Calls, NEW t \in Turns, NEW s \in Scopes,
             RunStart(c, t, s) \/ RunRefused(c, t, s) \/ RunTorn(c, t, s)
      PROVE  HistoryInv'
  <2>1. calls[c].at = "idle" /\ states[t] = "none" /\ states' = [states EXCEPT ![t] = "prepared"]
    BY <1>3 DEF RunStart, RunRefused, RunTorn, PrepareTorn, Admitted, At
  <2>2. Unseen(v, t) /\ Open(v, t)
    BY <1>2, <2>1 DEF Tells, TurnIsSeen, Final
  <2>3. PICK one, two, three :
          /\ one = SessionStep(v, PrepareEvents(t, s)[1])
          /\ two = SessionStep(one, PrepareEvents(t, s)[2])
          /\ three = SessionStep(two, PipelineEvent(t, "pipeline-started"))
    OBVIOUS
  <2>4. /\ \A w \in {one, two, three} :
             IsView(w) /\ SeesOnly(v, w, t) /\ ComposedAs(w, t, s) /\ Open(w, t)
        /\ PipelineIs(three, t, "running")
    BY <1>2, <2>2, <2>3, OpeningIsSeen DEF Tells
  <2>5. /\ ProjectSession(log \o PrepareEvents(t, s)) = two
        /\ ProjectSession(log \o StartEvents(t, s)) = three
        /\ ProjectSession(Append(log, PrepareEvents(t, s)[1])) = one
    <3> DEFINE e == PrepareEvents(t, s)
               f == PipelineEvent(t, "pipeline-started")
    <3>1. ProjectSession(Append(log, e[1])) = one
      BY <1>0, <1>1, <2>3, ProjectSessionAppends
    <3>2. ProjectSession(Append(Append(log, e[1]), e[2])) = two
      <4>1. Append(log, e[1]) \in Seq(Event)
        BY <1>0, StartIsThree
      <4> QED BY <2>3, <3>1, <4>1, ProjectSessionAppends
    <3>3. ProjectSession(Append(Append(Append(log, e[1]), e[2]), f)) = three
      <4>1. Append(Append(log, e[1]), e[2]) \in Seq(Event)
        BY <1>0, StartIsThree
      <4> QED BY <2>3, <3>2, <4>1, ProjectSessionAppends
    <3> QED BY <1>0, <3>1, <3>2, <3>3, StartIsThree
  <2>6. /\ states'[t] = "prepared" /\ \A u \in Turns \ {t} : states'[u] = states[u]
        /\ \A d \in Calls \ {c} : calls[d].at # "idle" => calls[d].turn # t
    BY <1>0, <1>b, <2>1
  <2>7. \A u \in Turns \ {t} : NewDraft(t, s)[u] = drafts[u]
        /\ NewDraft(t, s)[t].scope = s
    BY <1>0 DEF NewDraft
  <2>8. CASE RunStart(c, t, s)
    <3>1. /\ drafts' = NewDraft(t, s) /\ log' = log \o StartEvents(t, s)
          /\ calls' = [calls EXCEPT ![c] = [at |-> "pipeline", turn |-> t, effects |-> None]]
          /\ faults' = faults
      BY <2>8 DEF RunStart
    <3>2. calls'[c].at = "pipeline" /\ calls'[c].turn = t /\ \A d \in Calls \ {c} : calls'[d] = calls[d]
      BY <1>0, <3>1
    <3>0. drafts'[t].scope = s
      BY <1>0, <3>1 DEF NewDraft
    <3>3. TurnIsSeen(three, t)'
      BY <2>4, <2>6 DEF TurnIsSeen
    <3>4. CallIsSeen(three, c)'
      BY <2>4, <3>0, <3>2 DEF CallIsSeen
    <3>5. \A u \in Turns \ {t} : states'[u] = states[u] /\ drafts'[u] = drafts[u]
      BY <2>6, <2>7, <3>1
    <3> HIDE DEF HistoryInv
    <3> QED BY <1>1, <2>4, <2>5, <2>6, <3>1, <3>2, <3>3, <3>4, <3>5, ViewMoves
  <2>9. CASE RunRefused(c, t, s)
    <3>1. /\ drafts' = NewDraft(t, s) /\ log' = log \o PrepareEvents(t, s)
          /\ calls' = [calls EXCEPT ![c] = [at |-> "failed", turn |-> t, effects |-> None]]
          /\ faults' = faults
      BY <2>9 DEF RunRefused
    <3>2. calls'[c].at = "failed" /\ calls'[c].turn = t /\ \A d \in Calls \ {c} : calls'[d] = calls[d]
      BY <1>0, <3>1
    <3>0. drafts'[t].scope = s
      BY <1>0, <3>1 DEF NewDraft
    <3>3. TurnIsSeen(two, t)'
      BY <2>4, <2>6 DEF TurnIsSeen
    <3>4. CallIsSeen(two, c)'
      BY <2>4, <3>0, <3>2 DEF CallIsSeen
    <3>5. \A u \in Turns \ {t} : states'[u] = states[u] /\ drafts'[u] = drafts[u]
      BY <2>6, <2>7, <3>1
    <3> HIDE DEF HistoryInv
    <3> QED BY <1>1, <2>4, <2>5, <2>6, <3>1, <3>2, <3>3, <3>4, <3>5, ViewMoves
  <2>10. CASE RunTorn(c, t, s)
    <3>1. /\ drafts' = drafts /\ calls' = calls /\ faults' # 0
          /\ log' = log \/ log' = Append(log, PrepareEvents(t, s)[1])
      BY <1>a, <2>10 DEF RunTorn, PrepareTorn
    <3>2. PICK w : w \in {v, one} /\ w = ProjectSession(log')
      BY <1>1, <2>5, <3>1
    <3>3. IsView(w) /\ SeesOnly(v, w, t) /\ Open(w, t)
      <4>1. SeesOnly(v, v, t)
        BY DEF SeesOnly
      <4> QED BY <1>2, <2>2, <2>4, <3>2, <4>1 DEF Tells
    <3>4. TurnIsSeen(w, t)'
      BY <2>2, <2>6, <3>1, <3>3 DEF TurnIsSeen
    <3>5. CallIsSeen(w, c)'
      BY <2>1, <3>1 DEF CallIsSeen
    <3> HIDE DEF HistoryInv
    <3> QED BY <1>1, <2>6, <3>1, <3>2, <3>3, <3>4, <3>5, ViewMoves
  <2> QED BY <1>3, <2>8, <2>9, <2>10
<1>4. ASSUME NEW c \in Calls, PipelineCompletes(c) \/ PipelineFails(c)
      PROVE  HistoryInv'
  <2>1. PICK t : t = calls[c].turn
    OBVIOUS
  <2>2. calls[c].at = "pipeline" /\ t \in Turns /\ states[t] = "prepared"
    BY <1>0, <1>4, <2>1 DEF PipelineCompletes, PipelineFails, At, CallInv
  <2>3. PICK kind, status, place :
          /\ \/ kind = "pipeline-completed" /\ status = "completed" /\ place = "returned"
             \/ kind = "pipeline-failed" /\ status = "failed" /\ place = "failed"
          /\ log' = Append(log, PipelineEvent(t, kind))
          /\ calls' = [calls EXCEPT ![c].at = place]
          /\ states' = states /\ drafts' = drafts /\ faults' = faults
    BY <1>4, <2>1 DEF PipelineCompletes, PipelineFails
  <2>4. PICK w : w = SessionStep(v, PipelineEvent(t, kind))
    OBVIOUS
  <2>5. w = ProjectSession(log')
    BY <1>0, <1>1, <2>3, <2>4, ProjectSessionAppends
  <2>6. PipelineIs(v, t, "running") /\ IsView(v) /\ TurnIsSeen(v, t)
    BY <1>2, <2>1, <2>2 DEF Tells, CallIsSeen
  <2>7. /\ IsView(w) /\ SeesOnly(v, w, t) /\ PipelineIs(w, t, status)
        /\ \A s \in Scopes : ComposedAs(v, t, s) => ComposedAs(w, t, s)
        /\ Open(v, t) => Open(w, t)
    BY <2>2, <2>3, <2>4, <2>6, FoldEnds
  <2>8. calls'[c].at = place /\ calls'[c].turn = t /\ \A d \in Calls \ {c} : calls'[d] = calls[d]
    BY <1>0, <2>1, <2>3 DEF CallState
  <2>9. drafts[t].scope \in Scopes
    BY <1>c, <2>1, <2>2 DEF Draft
  <2>10. TurnIsSeen(w, t)'
    BY <2>2, <2>3, <2>6, <2>7 DEF TurnIsSeen
  <2>11. CallIsSeen(w, c)'
    <3>1. CallIsSeen(v, c)
      BY <1>2 DEF Tells
    <3>2. ComposedAs(w, t, drafts'[t].scope)
      BY <2>1, <2>2, <2>3, <2>7, <2>9, <3>1 DEF CallIsSeen
    <3> QED BY <2>3, <2>7, <2>8, <3>2 DEF CallIsSeen
  <2>12. \A d \in Calls \ {c} : calls[d].at # "idle" => calls[d].turn # t
    BY <1>c, <2>1, <2>2
  <2> HIDE DEF HistoryInv
  <2> QED BY <1>1, <2>2, <2>3, <2>5, <2>7, <2>8, <2>10, <2>11, <2>12, ViewMoves
<1>5. ASSUME NEW c \in Calls,
             (\E fx \in EffectChoices : ExecuteReturns(c, fx)) \/ ExecuteRejects(c)
               \/ PipelineFailsUnseen(c) \/ RunCommitFails(c) \/ RunAbortFails(c)
      PROVE  HistoryInv'
  <2>1. PICK t : t = calls[c].turn
    OBVIOUS
  <2>2. /\ calls[c].at \notin {"idle", "settled"} /\ t \in Turns
        /\ TurnIsSeen(v, t) /\ CallIsSeen(v, c)
    <3>1. calls[c].at \notin {"idle", "settled"}
      BY <1>5 DEF ExecuteReturns, ExecuteRejects, PipelineFailsUnseen, RunCommitFails, RunAbortFails, At
    <3> QED BY <1>2, <1>c, <2>1, <3>1 DEF Tells
  <2>3. /\ log' = log /\ drafts' = drafts
        /\ \A u \in Turns \ {t} : states'[u] = states[u]
        /\ \A d \in Calls \ {c} : calls'[d] = calls[d]
        /\ calls'[c].turn = t
    BY <1>0, <1>5, <2>1 DEF ExecuteReturns, ExecuteRejects, PipelineFailsUnseen, RunCommitFails, RunAbortFails, CallState
  <2>4. faults' = 0 => faults = 0
    BY <1>5, <1>a DEF ExecuteReturns, ExecuteRejects, PipelineFailsUnseen, RunCommitFails, RunAbortFails
  <2>5. CASE \E fx \in EffectChoices : ExecuteReturns(c, fx)
    <3>1. calls[c].at = "returned" /\ calls'[c].at = "outcome" /\ states'[t] = "executed"
      BY <1>0, <2>1, <2>2, <2>5 DEF ExecuteReturns, At, CallState
    <3>2. states[t] = "prepared"
      BY <1>0, <2>1, <3>1 DEF CallInv
    <3>3. TurnIsSeen(v, t)'
      BY <2>2, <2>3, <3>1, <3>2 DEF TurnIsSeen, Final
    <3>4. CallIsSeen(v, c)'
      BY <2>1, <2>2, <2>3, <3>1 DEF CallIsSeen
    <3> QED BY <1>1, <2>1, <2>2, <2>3, <2>4, <3>3, <3>4, SilentMoves
  <2>6. CASE ExecuteRejects(c) \/ PipelineFailsUnseen(c) \/ RunCommitFails(c) \/ RunAbortFails(c)
    <3>1. states' = states /\ calls'[c].at \in {"failed", "settled"}
          /\ (calls'[c].at = "settled" => faults' # 0)
      BY <1>0, <1>a, <2>6 DEF ExecuteRejects, PipelineFailsUnseen, RunCommitFails, RunAbortFails, CallState
    <3>2. TurnIsSeen(v, t)'
      BY <2>2, <2>3, <3>1 DEF TurnIsSeen
    <3>3. CallIsSeen(v, c)'
      <4>1. ComposedAs(v, t, drafts[t].scope)
        BY <2>1, <2>2 DEF CallIsSeen
      <4> QED BY <2>3, <3>1, <4>1 DEF CallIsSeen
    <3> HIDE DEF HistoryInv
    <3>4. \A u \in Turns \ {t} : states'[u] = states[u]
      BY <3>1
    <3> QED BY <1>1, <2>1, <2>2, <2>3, <2>4, <3>2, <3>3, <3>4, SilentMoves
  <2> QED BY <1>5, <2>5, <2>6
<1>6. ASSUME NEW c \in Calls, Commit(c)
      PROVE  HistoryInv'
  <2>1. PICK t, s, fx : t = calls[c].turn /\ s = drafts[t].scope /\ fx = calls[c].effects
    OBVIOUS
  <2>2. calls[c].at = "outcome" /\ states[t] = "executed" /\ t \in Turns /\ s \in Scopes
    BY <1>6, <1>c, <2>1 DEF Commit, Committed, At, Draft
  <2>3. /\ log' = Append(log, CommitEvent(t, s, fx))
        /\ states' = [states EXCEPT ![t] = "committed"]
        /\ calls' = [calls EXCEPT ![c].at = "settled"]
        /\ drafts' = drafts /\ faults' = faults
    BY <1>6, <2>1 DEF Commit, Committed
  <2>4. PICK w : w = SessionStep(v, CommitEvent(t, s, fx))
    OBVIOUS
  <2>5. w = ProjectSession(log')
    BY <1>0, <1>1, <2>3, <2>4, ProjectSessionAppends
  <2>6. PipelineIs(v, t, "completed") /\ ComposedAs(v, t, s) /\ IsView(v) /\ TurnIsSeen(v, t)
    BY <1>2, <2>1, <2>2, <1>6 DEF Tells, CallIsSeen
  <2>7. Open(v, t) /\ ~PipelineIs(v, t, "failed")
    BY <2>2, <2>6 DEF TurnIsSeen, Final, PipelineIs
  <2>8. IsView(w) /\ SeesOnly(v, w, t)
    BY <2>2, <2>4, <2>6, <2>7, FoldCommits
  <2>9. calls[c].at # "idle" /\ "committed" \in Final
    BY <2>2 DEF Final
  <2> HIDE DEF HistoryInv
  <2> QED BY <2>1, <2>2, <2>3, <2>5, <2>8, <2>9, <1>d
<1>7. ASSUME NEW c \in Calls, RunAborts(c)
      PROVE  HistoryInv'
  <2>1. PICK t : t = calls[c].turn
    OBVIOUS
  <2>2. calls[c].at = "failed" /\ states[t] \in Live /\ t \in Turns
    BY <1>7, <1>c, <2>1 DEF RunAborts, Aborted, At
  <2>3. /\ log' = Append(log, AbortEvent(t))
        /\ states' = [states EXCEPT ![t] = "aborted"]
        /\ calls' = [calls EXCEPT ![c].at = "settled"]
        /\ drafts' = drafts /\ faults' = faults
    BY <1>7, <2>1 DEF RunAborts, Aborted
  <2>4. PICK w : w = SessionStep(v, AbortEvent(t))
    OBVIOUS
  <2>5. w = ProjectSession(log')
    BY <1>0, <1>1, <2>3, <2>4, ProjectSessionAppends
  <2>6. IsView(v) /\ t \notin v.terminal
    BY <1>2, <2>2 DEF Tells, TurnIsSeen, Final, Live, Open
  <2>7. IsView(w) /\ SeesOnly(v, w, t)
    BY <2>2, <2>4, <2>6, FoldAborts
  <2>8. calls[c].at # "idle" /\ "aborted" \in Final
    BY <2>2 DEF Final
  <2> HIDE DEF HistoryInv
  <2> QED BY <2>1, <2>2, <2>3, <2>5, <2>7, <2>8, <1>d
<1>8. CASE UNCHANGED vars
  <2>1. ProjectSession(log') = v /\ states' = states /\ drafts' = drafts
        /\ calls' = calls /\ faults' = faults
    BY <1>1, <1>8 DEF vars
  <2>2. Tells(v)'
    BY <1>2, <2>1 DEF Tells, TurnIsSeen, CallIsSeen
  <2> QED BY <2>1, <2>2 DEF HistoryInv
<1> QED
  BY <1>3, <1>4, <1>5, <1>6, <1>7, <1>8 DEF RunNext

(* The invariant of the fold.                                              *)
LEMMA HistoryInvariance == RunSpec => []HistoryInv
<1>1. Init => HistoryInv
  BY InitIsTold
<1> QED BY <1>1, NextIsTold, Invariance, PTL DEF RunSpec

(* The strict Session fold accepts what any number of overlapping runs     *)
(* write, whatever fails, and a run that settles leaves its one terminal   *)
(* event.                                                                  *)
THEOREM LegalHistory == RunSpec => []LogIsHistory
<1>1. IInv /\ HistoryInv => LogIsHistory
  <2> SUFFICES ASSUME IInv, HistoryInv PROVE LogIsHistory
    OBVIOUS
  <2>1. SessionProjectable
    BY DEF HistoryInv, Tells, IsView, SessionProjectable
  <2>2. ASSUME NEW c \in Calls, At(c, "settled"), faults = 0
        PROVE  LET t == calls[c].turn IN
               Cardinality(CommitsOf(t)) + Cardinality(AbortsOf(t)) = 1
    <3>1. PICK t : t = calls[c].turn
      OBVIOUS
    <3>2. t \in Turns /\ states[t] \in Final
      BY <2>2, <3>1 DEF HistoryInv, Tells, CallIsSeen, At, IInv, CallInv
    <3>3. \A i, j \in CommitsOf(t) : i = j
      BY DEF CommitsOf, IInv, AtMostOneTerminal, IsTerminal, TerminalTypes
    <3>4. \A i, j \in AbortsOf(t) : i = j
      BY DEF AbortsOf, IInv, AtMostOneTerminal, IsTerminal, TerminalTypes
    <3>5. /\ (CommitsOf(t) # {}) <=> (states[t] = "committed")
          /\ (AbortsOf(t) # {}) <=> (states[t] = "aborted")
      BY <3>2 DEF IInv, PhaseMatchesLog
    <3>6. Cardinality({}) = 0 /\ \A i : Cardinality({i}) = 1
      BY FS_EmptySet, FS_Singleton
    <3>7. CASE states[t] = "committed"
      <4>1. PICK i : CommitsOf(t) = {i}
        BY <3>3, <3>5, <3>7
      <4>2. AbortsOf(t) = {}
        BY <3>5, <3>7
      <4>3. Cardinality(CommitsOf(t)) + Cardinality(AbortsOf(t)) = 1
        <5>1. Cardinality(CommitsOf(t)) = 1
          BY ONLY <3>6, <4>1, Zenon
        <5>2. Cardinality(AbortsOf(t)) = 0
          BY ONLY <3>6, <4>2, Zenon
        <5> QED BY <5>1, <5>2
      <4> QED BY <3>1, <4>3
    <3>8. CASE states[t] = "aborted"
      <4>1. PICK i : AbortsOf(t) = {i}
        BY <3>4, <3>5, <3>8
      <4>2. CommitsOf(t) = {}
        BY <3>5, <3>8
      <4>3. Cardinality(CommitsOf(t)) + Cardinality(AbortsOf(t)) = 1
        <5>1. Cardinality(AbortsOf(t)) = 1
          BY ONLY <3>6, <4>1, Zenon
        <5>2. Cardinality(CommitsOf(t)) = 0
          BY ONLY <3>6, <4>2, Zenon
        <5> QED BY <5>1, <5>2
      <4> QED BY <3>1, <4>3
    <3> QED BY <3>2, <3>7, <3>8 DEF Final
  <2> QED BY <2>1, <2>2 DEF LogIsHistory, SettledRunIsTerminal
<1> QED BY <1>1, Invariance, HistoryInvariance, PTL

-----------------------------------------------------------------------------
(* Whoever calls prepare(), execute(), commit() and abort(), and in         *)
(* whatever order: the draft of a turn does not change, nor the log that    *)
(* its snapshot is taken of.                                                *)
Frozen(t) == drafts[t] \in Draft /\ drafts[t].through <= Len(log) /\ states[t] # "none"
StartedBy(t, k) == \E j \in 1..k : log[j] = PipelineEvent(t, "pipeline-started")
CompletedBy(t, k) ==
  \E i, j \in 1..k : /\ i < j /\ log[i] = PipelineEvent(t, "pipeline-started")
                     /\ log[j] = PipelineEvent(t, "pipeline-completed")
CallIsJustified(call) ==
  /\ call.at \in {"pipeline", "returned", "outcome"} =>
       call.turn \in Turns /\ Frozen(call.turn) /\ StartedBy(call.turn, Len(log))
  /\ call.at \in {"returned", "outcome"} => CompletedBy(call.turn, Len(log))
  /\ call.at = "outcome" => Valid(call.turn, call.effects) /\ call.effects \in EffectChoices
CommitIsJustified(i) ==
  log[i].type = "turn-committed" =>
    Frozen(log[i].turn) /\ CompletedBy(log[i].turn, i - 1) /\ Valid(log[i].turn, log[i].effects)
JustInv ==
  /\ TypeOK
  /\ \A t \in Turns : drafts[t] # None => Frozen(t)
  /\ \A c \in Calls : CallIsJustified(calls[c])
  /\ \A i \in 1..Len(log) : CommitIsJustified(i)

(* The log grows, and a turn that was drawn keeps its draft.                *)
Grows ==
  /\ log \in Seq(Event) /\ log' \in Seq(Event) /\ Len(log) <= Len(log')
  /\ \A i \in 1..Len(log) : log'[i] = log[i]
  /\ \A t \in Turns : states[t] # "none" => states'[t] # "none" /\ drafts'[t] = drafts[t]

LEMMA FrozenStays ==
  ASSUME Grows, NEW t \in Turns, Frozen(t)
  PROVE  Frozen(t)' /\ \A fx : Valid(t, fx)' <=> Valid(t, fx)
<1>1. Frozen(t)'
  <2>1. Len(log) \in Nat /\ Len(log') \in Nat /\ \A d \in Draft : d.through \in Nat BY DEF Grows, Draft
  <2>2. drafts'[t] = drafts[t] /\ drafts[t] \in Draft /\ drafts[t].through <= Len(log) /\ Len(log) <= Len(log') /\ states'[t] # "none"
      BY DEF Grows, Frozen
  <2>3. \A d \in Draft : d.through <= Len(log) => d.through <= Len(log') BY <2>1, <2>2
  <2>4. drafts'[t] \in Draft /\ drafts'[t].through <= Len(log') BY <2>2, <2>3
  <2> QED BY <2>2, <2>4 DEF Frozen, Draft
<1>2. drafts'[t] = drafts[t] BY DEF Grows, Frozen
<1>3. PICK n : n = drafts[t].through /\ n \in Nat /\ n <= Len(log) BY DEF Frozen, Draft
<1>4. SubSeq(log', 1, n) = SubSeq(log, 1, n)
  <2>1. PICK k, l, old, new : k = Len(log) /\ l = Len(log') /\ old = log /\ new = log' OBVIOUS
  <2>2. k \in Nat /\ l \in Nat /\ n <= k /\ k <= l /\ \A i \in 1..k : new[i] = old[i] /\ old \in Seq(Event) /\ new \in Seq(Event)
      BY <1>3, <2>1 DEF Grows
  <2>3. \A i \in 1..n : new[i] = old[i] BY <1>3, <2>2
  <2>4. SubSeq(old, 1, n) = [i \in 1..n |-> old[i]] /\ SubSeq(new, 1, n) = [i \in 1..n |-> new[i]]
    <3>1. Len(old) = k /\ Len(new) = l BY <2>1
    <3> HIDE DEF Event
    <3> QED BY <1>3, <2>2, <3>1
  <2> QED BY <2>1, <2>3, <2>4
<1>5. SnapshotOf(t)' = SnapshotOf(t)
  <2>1. SnapshotOf(t) = ProjectScope(SubSeq(log, 1, n), drafts[t].scope) BY <1>3 DEF SnapshotOf
  <2>2. SnapshotOf(t)' = ProjectScope(SubSeq(log', 1, n), drafts[t].scope) BY <1>2, <1>3 DEF SnapshotOf
  <2> QED BY <1>4, <2>1, <2>2
<1>6. ASSUME NEW fx PROVE Valid(t, fx)' <=> Valid(t, fx)
  <2>1. PICK v : v = SnapshotOf(t) /\ v = SnapshotOf(t)' BY <1>5
  <2>2. FitsSnapshot(fx, SnapshotOf(t)) <=> FitsSnapshot(fx, v) BY <2>1
  <2>3. FitsSnapshot(fx, SnapshotOf(t))' <=> FitsSnapshot(fx, v) BY <2>1
  <2> QED BY <2>2, <2>3 DEF Valid
<1> QED BY <1>1, <1>6

LEMMA TellingStays ==
  ASSUME Grows, NEW t
  PROVE  /\ \A k \in 0..Len(log) : CompletedBy(t, k) => CompletedBy(t, k)'
         /\ StartedBy(t, Len(log)) => StartedBy(t, Len(log))'
         /\ CompletedBy(t, Len(log)) => CompletedBy(t, Len(log))'
<1>1. Len(log) \in Nat /\ Len(log') \in Nat /\ Len(log) <= Len(log') /\ \A i \in 1..Len(log) : log'[i] = log[i] /\ i \in 1..Len(log')
    BY DEF Grows
<1>2. ASSUME NEW k \in 0..Len(log), CompletedBy(t, k) PROVE CompletedBy(t, k)'
    BY <1>1, <1>2 DEF CompletedBy, PipelineEvent
<1>3. StartedBy(t, Len(log)) => StartedBy(t, Len(log))' BY <1>1 DEF StartedBy, PipelineEvent
<1>4. CompletedBy(t, Len(log)) => CompletedBy(t, Len(log))' BY <1>1 DEF CompletedBy, PipelineEvent
<1> QED BY <1>2, <1>3, <1>4

LEMMA JustifiedStays ==
  ASSUME Grows
  PROVE  /\ \A call : CallIsJustified(call) => CallIsJustified(call)'
         /\ \A i \in 1..Len(log) : (log[i].type = "turn-committed" => log[i].turn \in Turns) /\ CommitIsJustified(i)
                                     => CommitIsJustified(i)'
         /\ \A t \in Turns : Frozen(t) => Frozen(t)'
<1>0. Len(log) \in Nat BY DEF Grows
<1>1. ASSUME NEW call, CallIsJustified(call) PROVE CallIsJustified(call)'
  <2>1. \A t : /\ StartedBy(t, Len(log)) => StartedBy(t, Len(log))'
               /\ CompletedBy(t, Len(log)) => CompletedBy(t, Len(log))'
      BY TellingStays
  <2>2. CASE call.at \in {"pipeline", "returned", "outcome"}
    <3>1. call.turn \in Turns /\ Frozen(call.turn) BY <1>1, <2>2 DEF CallIsJustified
    <3>2. Frozen(call.turn)' /\ (Valid(call.turn, call.effects)' <=> Valid(call.turn, call.effects)) BY <3>1, FrozenStays
    <3> QED BY <1>1, <2>1, <3>1, <3>2 DEF CallIsJustified
  <2>3. CASE call.at \notin {"pipeline", "returned", "outcome"} BY <2>3 DEF CallIsJustified
  <2> QED BY <2>2, <2>3
<1>2. ASSUME NEW i \in 1..Len(log), log[i].type = "turn-committed" => log[i].turn \in Turns, CommitIsJustified(i)
      PROVE  CommitIsJustified(i)'
  <2>1. log'[i] = log[i] BY DEF Grows
  <2>2. CASE log[i].type = "turn-committed"
    <3>1. PICK t, fx : t \in Turns /\ t = log[i].turn /\ fx = log[i].effects BY <1>2, <2>2
    <3>2. Frozen(t) /\ CompletedBy(t, i - 1) /\ Valid(t, fx) BY <1>2, <2>2, <3>1 DEF CommitIsJustified
    <3>3. Frozen(t)' /\ Valid(t, fx)' BY <3>1, <3>2, FrozenStays
    <3>4. CompletedBy(t, i - 1)'
      <4>1. i - 1 \in 0..Len(log) BY <1>0
      <4> QED BY <3>2, <4>1, TellingStays
    <3> QED BY <2>1, <3>1, <3>3, <3>4 DEF CommitIsJustified
  <2>3. CASE log[i].type # "turn-committed" BY <2>1, <2>3 DEF CommitIsJustified
  <2> QED BY <2>2, <2>3
<1> QED BY <1>1, <1>2, FrozenStays

(* What a step has to show: only of the draft, the call and the commit that *)
(* it makes.                                                                *)
LEMMA StepKeepsJustInv ==
  ASSUME JustInv, TypeOK', Grows,
         \A t \in Turns : drafts'[t] # None => Frozen(t) \/ Frozen(t)',
         \A c \in Calls : calls'[c] = calls[c] \/ CallIsJustified(calls[c])',
         \A i \in (Len(log) + 1)..Len(log') : CommitIsJustified(i)'
  PROVE  JustInv'
<1>1. \A t \in Turns : drafts'[t] # None => Frozen(t)' BY JustifiedStays
<1>2. ASSUME NEW c \in Calls PROVE CallIsJustified(calls[c])'
  <2>1. PICK old, new : old = calls[c] /\ new = calls'[c] OBVIOUS
  <2>2. CallIsJustified(old) BY <2>1 DEF JustInv
  <2>3. CallIsJustified(old)' BY <2>2, JustifiedStays
  <2>4. CASE new = old BY <2>1, <2>3, <2>4 DEF CallIsJustified
  <2> QED BY <2>1, <2>4
<1>3. ASSUME NEW i \in 1..Len(log') PROVE CommitIsJustified(i)'
  <2>1. CASE i \in 1..Len(log)
    <3>1. log[i] \in Event BY <2>1 DEF Grows
    <3>2. log[i].turn \in Turns BY <3>1 DEF Event
    <3>3. CommitIsJustified(i) BY <2>1 DEF JustInv
    <3> QED BY <2>1, <3>2, <3>3, JustifiedStays
  <2>2. CASE i \notin 1..Len(log)
    <3>1. Len(log) \in Nat /\ Len(log') \in Nat BY DEF Grows
    <3>2. i \in (Len(log) + 1)..Len(log') BY <2>2, <3>1
    <3> QED BY <3>2
  <2> QED BY <2>1, <2>2
<1> QED BY <1>1, <1>2, <1>3 DEF JustInv

(* Appending one event.                                                     *)
LEMMA AppendGrows ==
  ASSUME TypeOK, NEW e \in Event, log' = Append(log, e),
         \A t \in Turns : states[t] # "none" => states'[t] # "none" /\ drafts'[t] = drafts[t]
  PROVE  /\ Grows /\ Len(log) \in Nat /\ Len(log') = Len(log) + 1 /\ log'[Len(log')] = e
         /\ \A i \in (Len(log) + 1)..Len(log') : i = Len(log')
<1>1. log \in Seq(Event) BY DEF TypeOK
<1>2. /\ log' \in Seq(Event) /\ Len(log') = Len(log) + 1 /\ log'[Len(log) + 1] = e
      /\ \A i \in 1..Len(log) : log'[i] = log[i]
    BY <1>1, AppendProperties
<1> QED BY <1>1, <1>2 DEF Grows

LEMMA PrepareKeepsJustInv ==
  ASSUME JustInv, NEW t \in Turns, NEW s \in Scopes, Prepare(t, s) \/ PrepareTorn(t, s)
  PROVE  JustInv'
<1>0. TypeOK /\ log \in Seq(Event) /\ Len(log) \in Nat /\ states \in [Turns -> Phases]
      /\ drafts \in [Turns -> Draft \cup {None}] /\ plans \subseteq Turns /\ calls \in [Calls -> CallState]
    BY DEF JustInv, TypeOK
<1>1. Admitted(t, s) /\ calls' = calls BY DEF Prepare, PrepareTorn
<1>2. states[t] = "none" /\ states' = [states EXCEPT ![t] = "prepared"] /\ plans' = plans \cup {t}
    BY <1>1 DEF Admitted
<1>3. states' \in [Turns -> Phases] /\ plans' \subseteq Turns BY <1>0, <1>2 DEF Phases
<1>4. /\ \A u \in Turns : states[u] # "none" => u # t
      /\ \A u \in Turns : states[u] # "none" => states'[u] # "none"
      /\ states'[t] = "prepared"
    BY <1>0, <1>2
<1>5. faults' \in 0..MaxFaults
    BY FaultsAssumption DEF JustInv, TypeOK, Prepare, PrepareTorn, Fault
<1>6. CASE Prepare(t, s)
  <2>1. log' = log \o PrepareEvents(t, s) /\ drafts' = NewDraft(t, s) BY <1>6 DEF Prepare
  <2>2. PrepareEvents(t, s) \in Seq(Event) /\ \A i \in 1..Len(PrepareEvents(t, s)) : ~IsTerminal(PrepareEvents(t, s)[i])
      BY OpeningEvents
  <2>3. log' \in Seq(Event) /\ Quiet BY <1>0, <2>1, <2>2, ConcatIsQuiet
  <2>4. drafts'[t] = [scope |-> s, through |-> Len(log)] /\ (\A u \in Turns : u # t => drafts'[u] = drafts[u])
        /\ drafts' \in [Turns -> Draft \cup {None}]
      BY <1>0, <2>1 DEF NewDraft, Draft
  <2>5. Grows BY <1>0, <1>4, <2>3, <2>4 DEF Grows, Quiet
  <2>6. TypeOK' BY <1>0, <1>1, <1>3, <1>5, <2>3, <2>4 DEF TypeOK
  <2>7. Frozen(t)'
    <3>1. Len(log') \in Nat /\ Len(log) <= Len(log') BY <2>3 DEF Quiet
    <3>2. drafts'[t] \in Draft /\ drafts'[t].through <= Len(log') BY <1>0, <2>4, <3>1 DEF Draft
    <3> QED BY <1>4, <3>2 DEF Frozen, Draft
  <2>8. \A u \in Turns : drafts'[u] # None => Frozen(u) \/ Frozen(u)'
    <3>1. ASSUME NEW u \in Turns, u # t, drafts'[u] # None PROVE Frozen(u) BY <2>4, <3>1 DEF JustInv
    <3> QED BY <2>7, <3>1
  <2>9. \A i \in (Len(log) + 1)..Len(log') : CommitIsJustified(i)'
      BY <2>3 DEF Quiet, IsTerminal, TerminalTypes, CommitIsJustified
  <2> QED BY <1>1, <2>5, <2>6, <2>8, <2>9, StepKeepsJustInv
<1>7. CASE PrepareTorn(t, s)
  <2>1. log' \in {log, Append(log, PrepareEvents(t, s)[1])} /\ drafts' = drafts BY <1>7 DEF PrepareTorn
  <2>2. PrepareEvents(t, s)[1] \in Event /\ ~IsTerminal(PrepareEvents(t, s)[1]) BY OpeningEvents
  <2>3. log' \in Seq(Event) /\ Quiet
    <3>1. CASE log' = log BY <1>0, <3>1 DEF Quiet
    <3>2. CASE log' = Append(log, PrepareEvents(t, s)[1]) BY <1>0, <2>2, <3>2, AppendIsQuiet
    <3> QED BY <2>1, <3>1, <3>2
  <2>4. Grows BY <1>0, <1>4, <2>1, <2>3 DEF Grows, Quiet
  <2>5. TypeOK' BY <1>0, <1>1, <1>3, <1>5, <2>1, <2>3 DEF TypeOK
  <2>6. \A u \in Turns : drafts'[u] # None => Frozen(u) \/ Frozen(u)' BY <2>1 DEF JustInv
  <2>7. \A i \in (Len(log) + 1)..Len(log') : CommitIsJustified(i)'
      BY <2>3 DEF Quiet, IsTerminal, TerminalTypes, CommitIsJustified
  <2> QED BY <1>1, <2>4, <2>5, <2>6, <2>7, StepKeepsJustInv
<1> QED BY <1>6, <1>7

(* execute(), the end of its Pipeline, and what it does with the effects.   *)
LEMMA CallKeepsJustInv ==
  ASSUME JustInv, NEW c \in Calls,
         \/ \E t \in Turns : ExecuteStart(c, t)
         \/ PipelineCompletes(c) \/ PipelineFails(c)
         \/ \E fx \in EffectChoices : ExecuteReturns(c, fx)
         \/ ExecuteRejects(c) \/ PipelineFailsUnseen(c)
  PROVE  JustInv'
<1>0. /\ TypeOK /\ log \in Seq(Event) /\ Len(log) \in Nat /\ states \in [Turns -> Phases]
      /\ drafts \in [Turns -> Draft \cup {None}] /\ calls \in [Calls -> CallState]
      /\ calls[c] \in CallState /\ CallIsJustified(calls[c])
    BY DEF JustInv, TypeOK
<1>1. plans' = plans /\ drafts' = drafts /\ faults' \in 0..MaxFaults
  <2>1. plans' = plans /\ drafts' = drafts
    BY DEF ExecuteStart, PipelineCompletes, PipelineFails, PipelineFailsUnseen, ExecuteReturns, ExecuteRejects
  <2>2. faults \in 0..MaxFaults /\ (faults' = faults \/ Fault)
    BY <1>0 DEF TypeOK, ExecuteStart, PipelineCompletes, PipelineFails, PipelineFailsUnseen,
                ExecuteReturns, ExecuteRejects
  <2>3. faults' \in 0..MaxFaults
    BY <2>2, FaultsAssumption DEF Fault
  <2> QED BY <2>1, <2>3
<1>2. \A t \in Turns : drafts'[t] # None => Frozen(t) \/ Frozen(t)' BY <1>1 DEF JustInv
<1>3. ASSUME NEW t \in Turns, ExecuteStart(c, t) PROVE JustInv'
  <2>1. /\ drafts[t] # None /\ states' = states /\ log' = Append(log, PipelineEvent(t, "pipeline-started"))
        /\ calls' = [calls EXCEPT ![c] = [at |-> "pipeline", turn |-> t, effects |-> None]]
      BY <1>3 DEF ExecuteStart
  <2>2. PipelineEvent(t, "pipeline-started") \in Event BY DEF Event, PipelineEvent
  <2>3. /\ Grows /\ Len(log') = Len(log) + 1 /\ log'[Len(log')] = PipelineEvent(t, "pipeline-started")
        /\ \A i \in (Len(log) + 1)..Len(log') : i = Len(log')
      BY <1>0, <1>1, <2>1, <2>2, AppendGrows
  <2>4. calls' \in [Calls -> CallState] BY <1>0, <2>1 DEF CallState, Places
  <2>5. TypeOK' BY <1>0, <1>1, <2>1, <2>3, <2>4 DEF TypeOK, Grows
  <2>6. Frozen(t)' BY <2>1, <2>3, FrozenStays DEF JustInv
  <2>7. StartedBy(t, Len(log))' BY <1>0, <2>3 DEF StartedBy, PipelineEvent
  <2>8. calls'[c] = [at |-> "pipeline", turn |-> t, effects |-> None] BY <1>0, <2>1
  <2>9. CallIsJustified(calls[c])' BY <2>6, <2>7, <2>8 DEF CallIsJustified
  <2>10. \A d \in Calls : calls'[d] = calls[d] \/ CallIsJustified(calls[d])' BY <1>0, <2>1, <2>9
  <2>11. \A i \in (Len(log) + 1)..Len(log') : CommitIsJustified(i)' BY <2>3 DEF CommitIsJustified, PipelineEvent
  <2> QED BY <1>2, <2>3, <2>5, <2>10, <2>11, StepKeepsJustInv
<1>4. ASSUME PipelineCompletes(c) \/ PipelineFails(c) PROVE JustInv'
  <2>0. PICK t : t = calls[c].turn OBVIOUS
  <2>1. PICK kind \in {"pipeline-completed", "pipeline-failed"} :
          /\ t = calls[c].turn /\ states' = states /\ log' = Append(log, PipelineEvent(t, kind))
          /\ kind = "pipeline-completed" => calls' = [calls EXCEPT ![c].at = "returned"]
          /\ kind = "pipeline-failed" => calls' = [calls EXCEPT ![c].at = "failed"]
    <3>1. CASE PipelineCompletes(c)
      <4> WITNESS "pipeline-completed" \in {"pipeline-completed", "pipeline-failed"}
      <4> QED BY <2>0, <3>1 DEF PipelineCompletes
    <3>2. CASE PipelineFails(c)
      <4> WITNESS "pipeline-failed" \in {"pipeline-completed", "pipeline-failed"}
      <4> QED BY <2>0, <3>2 DEF PipelineFails
    <3> QED BY <1>4, <3>1, <3>2
  <2>2. t \in Turns /\ Frozen(t) /\ StartedBy(t, Len(log))
    <3>1. calls[c].at = "pipeline" BY <1>4 DEF PipelineCompletes, PipelineFails, At
    <3> QED BY <1>0, <2>1, <3>1 DEF CallIsJustified
  <2>3. PipelineEvent(t, kind) \in Event BY <2>2 DEF Event, PipelineEvent
  <2>4. /\ Grows /\ Len(log') = Len(log) + 1 /\ log'[Len(log')] = PipelineEvent(t, kind)
        /\ \A i \in (Len(log) + 1)..Len(log') : i = Len(log')
      BY <1>0, <1>1, <2>1, <2>3, AppendGrows
  <2>5. calls' \in [Calls -> CallState] BY <1>0, <2>1 DEF CallState, Places
  <2>6. TypeOK' BY <1>0, <1>1, <2>1, <2>4, <2>5 DEF TypeOK, Grows
  <2>7. Frozen(t)' BY <2>2, <2>4, FrozenStays
  <2>8. StartedBy(t, Len(log))' BY <2>2, <2>4, TellingStays
  <2>9. ASSUME kind = "pipeline-completed" PROVE CompletedBy(t, Len(log))'
    <3>1. PICK j \in 1..Len(log) : log[j] = PipelineEvent(t, "pipeline-started") BY <2>2 DEF StartedBy
    <3>2. j < Len(log') /\ j \in 1..Len(log') /\ Len(log') \in 1..Len(log') /\ log'[j] = PipelineEvent(t, "pipeline-started")
        BY <1>0, <2>4, <3>1 DEF Grows
    <3> QED BY <2>4, <2>9, <3>2 DEF CompletedBy, PipelineEvent
  <2>10. calls'[c].turn = t /\ calls'[c].at = IF kind = "pipeline-completed" THEN "returned" ELSE "failed"
      BY <1>0, <2>1 DEF CallState
  <2>11. CallIsJustified(calls[c])' BY <2>2, <2>7, <2>8, <2>9, <2>10 DEF CallIsJustified
  <2>12. \A d \in Calls : calls'[d] = calls[d] \/ CallIsJustified(calls[d])' BY <1>0, <2>1, <2>11
  <2>13. \A i \in (Len(log) + 1)..Len(log') : CommitIsJustified(i)' BY <2>4 DEF CommitIsJustified, PipelineEvent
  <2> QED BY <1>2, <2>4, <2>6, <2>12, <2>13, StepKeepsJustInv
<1>5. ASSUME NEW fx \in EffectChoices, ExecuteReturns(c, fx) PROVE JustInv'
  <2>1. PICK t : t = calls[c].turn OBVIOUS
  <2>2. /\ calls[c].at = "returned" /\ Valid(t, fx) /\ states' = [states EXCEPT ![t] = "executed"] /\ log' = log
        /\ calls' = [calls EXCEPT ![c].at = "outcome", ![c].effects = fx]
      BY <1>5, <2>1 DEF ExecuteReturns, At
  <2>3. t \in Turns /\ Frozen(t) /\ StartedBy(t, Len(log)) /\ CompletedBy(t, Len(log))
      BY <1>0, <2>1, <2>2 DEF CallIsJustified
  <2>4. Grows BY <1>0, <1>1, <2>2, <2>3 DEF Grows
  <2>5. calls' \in [Calls -> CallState] /\ states' \in [Turns -> Phases]
      BY <1>0, <2>2, <2>3 DEF CallState, Places, Phases
  <2>6. TypeOK' BY <1>0, <1>1, <2>2, <2>5 DEF TypeOK
  <2>7. calls'[c].turn = t /\ calls'[c].at = "outcome" /\ calls'[c].effects = fx BY <1>0, <2>1, <2>2 DEF CallState
  <2>8. Frozen(t)' /\ Valid(t, fx)' BY <2>2, <2>3, <2>4, FrozenStays
  <2>9. StartedBy(t, Len(log))' /\ CompletedBy(t, Len(log))' BY <2>3, <2>4, TellingStays
  <2>10. CallIsJustified(calls[c])' BY <2>3, <2>7, <2>8, <2>9 DEF CallIsJustified
  <2>11. \A d \in Calls : calls'[d] = calls[d] \/ CallIsJustified(calls[d])' BY <1>0, <2>2, <2>10
  <2>12. \A i \in (Len(log) + 1)..Len(log') : FALSE BY <1>0, <2>2
  <2> QED BY <1>2, <2>4, <2>6, <2>11, <2>12, StepKeepsJustInv
<1>6. ASSUME ExecuteRejects(c) \/ PipelineFailsUnseen(c) PROVE JustInv'
  <2>1. states' = states /\ log' = log /\ calls' = [calls EXCEPT ![c].at = "failed"]
      BY <1>6 DEF ExecuteRejects, PipelineFailsUnseen
  <2>2. Grows BY <1>0, <1>1, <2>1 DEF Grows
  <2>3. calls' \in [Calls -> CallState] /\ calls'[c].at = "failed" BY <1>0, <2>1 DEF CallState, Places
  <2>4. TypeOK' BY <1>0, <1>1, <2>1, <2>3 DEF TypeOK
  <2>5. CallIsJustified(calls[c])' BY <2>3 DEF CallIsJustified
  <2>6. \A d \in Calls : calls'[d] = calls[d] \/ CallIsJustified(calls[d])' BY <1>0, <2>1, <2>5
  <2>7. \A i \in (Len(log) + 1)..Len(log') : FALSE BY <1>0, <2>1
  <2> QED BY <1>2, <2>2, <2>4, <2>6, <2>7, StepKeepsJustInv
<1> QED BY <1>3, <1>4, <1>5, <1>6

LEMMA CommitKeepsJustInv ==
  ASSUME JustInv, NEW c \in Calls, Commit(c)
  PROVE  JustInv'
<1>0. /\ TypeOK /\ log \in Seq(Event) /\ Len(log) \in Nat /\ states \in [Turns -> Phases] /\ plans \subseteq Turns
      /\ drafts \in [Turns -> Draft \cup {None}] /\ calls \in [Calls -> CallState]
      /\ calls[c] \in CallState /\ CallIsJustified(calls[c])
    BY DEF JustInv, TypeOK
<1>1. PICK t, fx, e :
        /\ t = calls[c].turn /\ fx = calls[c].effects /\ e = CommitEvent(t, drafts[t].scope, fx)
        /\ calls[c].at = "outcome" /\ log' = Append(log, e) /\ states' = [states EXCEPT ![t] = "committed"]
        /\ plans' = plans \ {t} /\ drafts' = drafts /\ faults' = faults
        /\ calls' = [calls EXCEPT ![c].at = "settled"]
    BY DEF Commit, Committed, At
<1>2. t \in Turns /\ Frozen(t) /\ CompletedBy(t, Len(log)) /\ Valid(t, fx) /\ fx \in EffectChoices
    BY <1>0, <1>1 DEF CallIsJustified
<1>3. e \in Event /\ e.type = "turn-committed" /\ e.turn = t /\ e.effects = fx
    BY <1>1, <1>2 DEF Event, CommitEvent, CompositionOf, Frozen, Draft
<1>4. \A u \in Turns : states[u] # "none" => states'[u] # "none" /\ drafts'[u] = drafts[u] BY <1>0, <1>1, <1>2
<1>5. /\ Grows /\ Len(log') = Len(log) + 1 /\ log'[Len(log')] = e
      /\ \A i \in (Len(log) + 1)..Len(log') : i = Len(log')
    BY <1>0, <1>1, <1>3, <1>4, AppendGrows
<1>6. calls' \in [Calls -> CallState] /\ states' \in [Turns -> Phases] /\ plans' \subseteq Turns /\ calls'[c].at = "settled"
    BY <1>0, <1>1, <1>2 DEF CallState, Places, Phases
<1>7. TypeOK' BY <1>0, <1>1, <1>5, <1>6 DEF TypeOK, Grows
<1>8. CallIsJustified(calls[c])' BY <1>6 DEF CallIsJustified
<1>9. \A d \in Calls : calls'[d] = calls[d] \/ CallIsJustified(calls[d])' BY <1>0, <1>1, <1>8
<1>10. \A u \in Turns : drafts'[u] # None => Frozen(u) \/ Frozen(u)' BY <1>1 DEF JustInv
<1>11. Frozen(t)' /\ Valid(t, fx)' BY <1>2, <1>5, FrozenStays
<1>12. ASSUME NEW i \in (Len(log) + 1)..Len(log') PROVE CommitIsJustified(i)'
  <2>1. i - 1 \in 0..Len(log) /\ i - 1 = Len(log) /\ log'[i] = e BY <1>0, <1>5
  <2>2. CompletedBy(t, i - 1)' BY <1>2, <1>5, <2>1, TellingStays
  <2> QED BY <1>3, <1>11, <2>1, <2>2 DEF CommitIsJustified
<1> QED BY <1>5, <1>7, <1>9, <1>10, <1>12, StepKeepsJustInv

LEMMA AbortKeepsJustInv ==
  ASSUME JustInv, NEW t \in Turns, Abort(t)
  PROVE  JustInv'
<1>0. TypeOK /\ log \in Seq(Event) /\ Len(log) \in Nat /\ states \in [Turns -> Phases] /\ plans \subseteq Turns
    BY DEF JustInv, TypeOK
<1>1. /\ log' = Append(log, AbortEvent(t)) /\ states' = [states EXCEPT ![t] = "aborted"]
      /\ plans' = plans \ {t} /\ drafts' = drafts /\ calls' = calls /\ faults' = faults
    BY DEF Abort, Aborted
<1>2. AbortEvent(t) \in Event BY DEF AbortEvent, Event
<1>3. \A u \in Turns : states[u] # "none" => states'[u] # "none" /\ drafts'[u] = drafts[u] BY <1>0, <1>1
<1>4. /\ Grows /\ Len(log') = Len(log) + 1 /\ log'[Len(log')] = AbortEvent(t)
      /\ \A i \in (Len(log) + 1)..Len(log') : i = Len(log')
    BY <1>0, <1>1, <1>2, <1>3, AppendGrows
<1>5. states' \in [Turns -> Phases] /\ plans' \subseteq Turns BY <1>0, <1>1 DEF Phases
<1>6. TypeOK' BY <1>0, <1>1, <1>4, <1>5 DEF TypeOK, Grows
<1>7. \A u \in Turns : drafts'[u] # None => Frozen(u) \/ Frozen(u)' BY <1>1 DEF JustInv
<1>8. \A i \in (Len(log) + 1)..Len(log') : CommitIsJustified(i)' BY <1>4 DEF CommitIsJustified, AbortEvent
<1> QED BY <1>1, <1>4, <1>6, <1>7, <1>8, StepKeepsJustInv

LEMMA JustifiedInductive ==
  /\ Init => JustInv
  /\ JustInv /\ [Next]_vars => JustInv'
<1>1. ASSUME Init PROVE JustInv
  <2>1. TypeOK BY <1>1, FaultsAssumption DEF Init, TypeOK, Phases, Idle, CallState, Places
  <2> QED BY <1>1, <2>1 DEF Init, JustInv, Idle, CallIsJustified
<1>2. ASSUME JustInv, UNCHANGED vars PROVE JustInv'
  <2>1. TypeOK' BY <1>2 DEF JustInv, TypeOK, vars
  <2>2. Grows BY <1>2 DEF JustInv, TypeOK, Grows, vars
  <2>3. \A t \in Turns : drafts'[t] # None => Frozen(t) BY <1>2 DEF JustInv, vars
  <2>4. \A c \in Calls : calls'[c] = calls[c] BY <1>2 DEF vars
  <2>5. \A i \in (Len(log) + 1)..Len(log') : FALSE
    <3>1. log' = log /\ Len(log) \in Nat BY <1>2 DEF vars, JustInv, TypeOK
    <3> QED BY <3>1
  <2> QED BY <1>2, <2>1, <2>2, <2>3, <2>4, <2>5, StepKeepsJustInv
<1>3. ASSUME JustInv, Next PROVE JustInv'
  BY <1>3, PrepareKeepsJustInv, CallKeepsJustInv, CommitKeepsJustInv, AbortKeepsJustInv DEF Next
<1> QED BY <1>1, <1>2, <1>3

(* Whoever calls the service, in whatever order, and whichever appends      *)
(* throw: a commit in the log comes after a start and a completion of its   *)
(* turn's Pipeline, and its effects fit the snapshot that the turn was      *)
(* prepared against, whatever was committed in between.                     *)
(* (turn-runtime: execute, validateEffectsAgainstSnapshot, commit)          *)
THEOREM CommitsAreJustified == Spec => [](CommitFollowsPipeline /\ CommitFitsSnapshot)
<1>1. JustInv => CommitFollowsPipeline /\ CommitFitsSnapshot
  <2> SUFFICES ASSUME JustInv, NEW i \in DOMAIN log, log[i].type = "turn-committed"
               PROVE  /\ Valid(log[i].turn, log[i].effects)
                      /\ \E j, k \in 1..(i - 1) :
                           /\ j < k
                           /\ log[j] = PipelineEvent(log[i].turn, "pipeline-started")
                           /\ log[k] = PipelineEvent(log[i].turn, "pipeline-completed")
      BY DEF CommitFollowsPipeline, CommitFitsSnapshot
  <2>1. i \in 1..Len(log) BY DEF JustInv, TypeOK
  <2>2. CommitIsJustified(i) BY <2>1 DEF JustInv
  <2> QED BY <2>2 DEF CommitIsJustified, CompletedBy
<1> QED BY <1>1, JustifiedInductive, PTL DEF Spec
=============================================================================
