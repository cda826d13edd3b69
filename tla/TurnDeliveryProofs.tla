------------------------- MODULE TurnDeliveryProofs -------------------------
(***************************************************************************)
(* Theorems about the Turn API and the browser that delivers to it, for    *)
(* any number of calls, request ids, turns and mishaps, crashes of the     *)
(* Host among them: a request id makes one turn, its Chat is whole, what   *)
(* was acknowledged is durable, and what the browser shows is what was     *)
(* said.                                                                   *)
(***************************************************************************)
EXTENDS TurnDelivery, FiniteSetTheorems, SequenceTheorems, TLAPS

(* What a log says of turns by itself: a turn has one context, a request   *)
(* id has one turn, and Chat follows its commit.                           *)
Of(events, type) == {i \in DOMAIN events : events[i].type = type}
WellTold(events) ==
  /\ \A i, j \in Of(events, "context") :
       events[i].turn = events[j].turn \/ events[i].req = events[j].req => i = j
  /\ \A i, j \in Of(events, "chat-start") : events[i].turn = events[j].turn => i = j
  /\ \A i \in Of(events, "chat-start") :
       \E j \in 1..(i - 1) : events[j] = Event("committed", events[i].turn)
  /\ \A i \in Of(events, "chat-end") :
       i > 1 /\ events[i - 1] = Event("chat-start", events[i].turn)
LogIsSound == WellTold(log) /\ \A i \in DOMAIN log : log[i].turn \in drawn

Untold(type, t) == ~Holds(log, Event(type, t))
CommittedWithin(call, n) ==
  \E i, j \in 1..n :
    /\ log[i] = Context(call.req, call.fp, call.turn)
    /\ log[j] = Event("committed", call.turn)

(* What the place of a call says of the lock and of the log.               *)
InPhase == {"ingesting", "running", "committed"}
CallIsSound(call, c) ==
  /\ call.at # "idle" => wire[c] # None /\ call.req = wire[c].req /\ call.fp = wire[c].fp
  /\ call.at \in InPhase => lock = c
  /\ call.at = "ingesting" => ContextsOf(call.req) = {}
  /\ call.at \in {"running", "committed"} =>
       /\ Holds(log, Context(call.req, call.fp, call.turn))
       /\ Untold("chat-start", call.turn)
  /\ call.at = "running" => Untold("committed", call.turn)
  /\ call.at = "committed" => Holds(log, Event("committed", call.turn))
  /\ call.at = "flushing" => call.mark <= Len(log) /\ CommittedWithin(call, call.mark)
  /\ call.reply = "ok" => call.at = "done" /\ CommittedWithin(call, durable)
CallsAreSound == \A c \in Calls : CallIsSound(calls[c], c)

(* The submission in flight is what its call carries.                      *)
ClientIsSound ==
  /\ client \in [call : Calls \cup {None}, message : Messages \cup {None},
                 req : ids \cup {None}, retry : {None} \cup [req : ids, message : Messages]]
  /\ IsRunning =>
       /\ client.message \in Messages /\ client.req \in ids
       /\ wire[client.call] = [req |-> client.req, fp |-> client.message]

(* What was delivered is in the durable part of the log.                   *)
SaidWithin(d, n) ==
  \E i, j \in 1..n :
    /\ log[i].type = "context" /\ log[i].turn = d.turn /\ log[i].fp = d.message
    /\ log[j] = Event("committed", d.turn)
DeliveredIsDurable == \A d \in delivered : SaidWithin(d, durable)

IInv ==
  /\ TypeOK /\ LogIsSound /\ CallsAreSound /\ ClientIsSound /\ DeliveredIsDurable

-----------------------------------------------------------------------------
(* Sequences: what appending an event and cutting a log off leave alone.   *)
LEMMA AppendFacts ==
  ASSUME NEW S, NEW events \in Seq(S), NEW e \in S
  PROVE  LET new == Append(events, e) IN
         /\ new \in Seq(S)
         /\ Len(events) \in Nat /\ Len(new) = Len(events) + 1
         /\ DOMAIN new = 1..(Len(events) + 1) /\ DOMAIN events = 1..Len(events)
         /\ \A i \in 1..Len(events) : new[i] = events[i]
         /\ new[Len(events) + 1] = e
OBVIOUS

LEMMA PrefixFacts ==
  ASSUME NEW S, NEW events \in Seq(S), NEW n \in 0..Len(events)
  PROVE  LET new == SubSeq(events, 1, n) IN
         /\ new \in Seq(S)
         /\ Len(new) = n
         /\ DOMAIN new = 1..n /\ DOMAIN events = 1..Len(events)
         /\ \A i \in 1..n : new[i] = events[i]
OBVIOUS

(* Events are told apart by their types.                                   *)
LEMMA EventFacts ==
  ASSUME NEW t \in Turns
  PROVE  /\ \A type \in {"committed", "aborted", "chat-start", "chat-end"} :
              Event(type, t) \in LogEvent
         /\ \A type : Event(type, t).type = type /\ Event(type, t).turn = t
         /\ \A r \in Requests, m \in Messages :
              /\ Context(r, m, t) \in LogEvent /\ Context(r, m, t).type = "context"
              /\ Context(r, m, t).turn = t /\ Context(r, m, t).req = r
BY DEF Event, Context, LogEvent

LEMMA ContextFacts ==
  ASSUME NEW e \in LogEvent, e.type = "context"
  PROVE  /\ e.turn \in Turns /\ e.req \in Requests /\ e.fp \in Messages
         /\ e = Context(e.req, e.fp, e.turn)
BY DEF LogEvent, Context

(* An event that is appended at its time keeps a log well told.            *)
LEMMA AppendKeepsWellTold ==
  ASSUME NEW events \in Seq(LogEvent), WellTold(events), NEW e \in LogEvent,
         e.type = "context" =>
           \A i \in Of(events, "context") : events[i].turn # e.turn /\ events[i].req # e.req,
         e.type = "chat-start" =>
           Holds(events, Event("committed", e.turn)) /\ ~Holds(events, Event("chat-start", e.turn)),
         e.type = "chat-end" =>
           Len(events) > 0 /\ events[Len(events)] = Event("chat-start", e.turn)
  PROVE  WellTold(Append(events, e))
<1> DEFINE new == Append(events, e)
           n == Len(events) + 1
<1>1. /\ Len(events) \in Nat
      /\ DOMAIN new = 1..n /\ DOMAIN events = 1..Len(events)
      /\ \A i \in 1..Len(events) : new[i] = events[i]
      /\ new[n] = e
  BY AppendFacts
<1>2. \A i \in DOMAIN new : i = n \/ (i \in DOMAIN events /\ new[i] = events[i])
  BY <1>1
<1>3. n \notin DOMAIN events /\ n \in Nat
  BY <1>1
<1>4. \A i \in DOMAIN events : events[i] \in LogEvent
  OBVIOUS
<1> HIDE DEF new
<1>5. \A i, j \in Of(new, "context") :
        new[i].turn = new[j].turn \/ new[i].req = new[j].req => i = j
  BY <1>1, <1>2 DEF WellTold, Of
<1>6. \A i, j \in Of(new, "chat-start") : new[i].turn = new[j].turn => i = j
  <2>1. \A i \in Of(events, "chat-start") : events[i] = Event("chat-start", events[i].turn)
    BY <1>4 DEF Of, LogEvent, Event
  <2>2. e.type = "chat-start" => \A i \in Of(events, "chat-start") : events[i].turn # e.turn
    BY <2>1 DEF Holds, Of
  <2> QED BY <1>1, <1>2, <2>2 DEF WellTold, Of
<1>7. \A i \in Of(new, "chat-start") :
        \E j \in 1..(i - 1) : new[j] = Event("committed", new[i].turn)
  <2> SUFFICES ASSUME NEW i \in Of(new, "chat-start")
               PROVE  \E j \in 1..(i - 1) : new[j] = Event("committed", new[i].turn)
    OBVIOUS
  <2>1. CASE i = n
    <3>1. PICK j \in DOMAIN events : events[j] = Event("committed", e.turn)
      BY <1>1, <2>1 DEF Holds, Of
    <3> QED BY <1>1, <2>1, <3>1
  <2>2. CASE i \in DOMAIN events /\ new[i] = events[i]
    <3>1. PICK j \in 1..(i - 1) : events[j] = Event("committed", events[i].turn)
      BY <2>2 DEF WellTold, Of
    <3> QED BY <1>1, <2>2, <3>1
  <2> QED BY <1>2, <2>1, <2>2 DEF Of
<1>8. \A i \in Of(new, "chat-end") : i > 1 /\ new[i - 1] = Event("chat-start", new[i].turn)
  <2> SUFFICES ASSUME NEW i \in Of(new, "chat-end")
               PROVE  i > 1 /\ new[i - 1] = Event("chat-start", new[i].turn)
    OBVIOUS
  <2>1. CASE i = n
    BY <1>1, <2>1 DEF Of
  <2>2. CASE i \in DOMAIN events /\ new[i] = events[i]
    BY <1>1, <2>2 DEF WellTold, Of
  <2> QED BY <1>2, <2>1, <2>2 DEF Of
<1> QED BY <1>5, <1>6, <1>7, <1>8 DEF WellTold, new

(* So does a crash, which cuts it off.                                     *)
LEMMA PrefixIsWellTold ==
  ASSUME NEW events \in Seq(LogEvent), WellTold(events), NEW n \in 0..Len(events)
  PROVE  WellTold(SubSeq(events, 1, n))
<1> DEFINE new == SubSeq(events, 1, n)
<1>1. /\ DOMAIN new = 1..n /\ DOMAIN events = 1..Len(events)
      /\ \A i \in 1..n : new[i] = events[i]
  BY PrefixFacts
<1>2. \A i \in DOMAIN new : i \in DOMAIN events /\ new[i] = events[i] /\ i \in Nat
  BY <1>1
<1> HIDE DEF new
<1>3. \A i \in Of(new, "chat-start") :
        \E j \in 1..(i - 1) : new[j] = Event("committed", new[i].turn)
  <2> SUFFICES ASSUME NEW i \in Of(new, "chat-start")
               PROVE  \E j \in 1..(i - 1) : new[j] = Event("committed", new[i].turn)
    OBVIOUS
  <2>1. PICK j \in 1..(i - 1) : events[j] = Event("committed", events[i].turn)
    BY <1>2 DEF WellTold, Of
  <2> QED BY <1>1, <1>2, <2>1 DEF Of
<1>4. \A i \in Of(new, "chat-end") : i > 1 /\ new[i - 1] = Event("chat-start", new[i].turn)
  BY <1>1, <1>2 DEF WellTold, Of
<1>5. /\ \A i, j \in Of(new, "context") :
           new[i].turn = new[j].turn \/ new[i].req = new[j].req => i = j
      /\ \A i, j \in Of(new, "chat-start") : new[i].turn = new[j].turn => i = j
  BY <1>2 DEF WellTold, Of
<1> QED BY <1>3, <1>4, <1>5 DEF WellTold, new

-----------------------------------------------------------------------------
(* The Host's side of the invariant, and the steps that only add to its    *)
(* log: all of them but a crash.                                           *)
HostInv == HostTypeOK /\ LogIsSound /\ CallsAreSound

Grows ==
  /\ log' \in Seq(LogEvent)
  /\ Len(log) <= Len(log')
  /\ \A i \in 1..Len(log) : log'[i] = log[i]
  /\ durable' \in durable..Len(log')

LEMMA WithinKeeps ==
  ASSUME HostTypeOK, Grows, NEW call, NEW n \in 0..Len(log), NEW m \in Nat, n <= m,
         CommittedWithin(call, n)
  PROVE  CommittedWithin(call, m)'
<1>1. PICK i, j \in 1..n :
        log[i] = Context(call.req, call.fp, call.turn) /\ log[j] = Event("committed", call.turn)
  BY DEF CommittedWithin
<1>2. log'[i] = log[i] /\ log'[j] = log[j] /\ i \in 1..m /\ j \in 1..m
  BY DEF Grows, HostTypeOK
<1> QED BY <1>1, <1>2 DEF CommittedWithin, Context, Event

(* A call stays sound while it stands still: whatever is appended, the     *)
(* phase is not its own.                                                   *)
LEMMA CallKeeps ==
  ASSUME HostTypeOK, NEW c \in Calls, NEW call \in Call, CallIsSound(call, c), Grows,
         wire[c] # None => wire'[c] = wire[c],
         lock # c \/ (log' = log /\ lock' = lock)
  PROVE  CallIsSound(call, c)'
<1>1. call.at \in InPhase => log' = log /\ lock' = lock
  BY DEF CallIsSound
<1>2. call.at = "ingesting" => ContextsOf(call.req)' = {}
  BY <1>1 DEF CallIsSound, ContextsOf, InPhase
<1>3. call.at \in {"running", "committed"} =>
        /\ Holds(log, Context(call.req, call.fp, call.turn))'
        /\ Untold("chat-start", call.turn)'
  BY <1>1 DEF CallIsSound, Holds, Untold, Context, Event, InPhase
<1>4. /\ call.at = "running" => Untold("committed", call.turn)'
      /\ call.at = "committed" => Holds(log, Event("committed", call.turn))'
  BY <1>1 DEF CallIsSound, Holds, Untold, Event, InPhase
<1>5. call.mark \in Nat /\ durable \in 0..Len(log) /\ durable' \in Nat /\ durable <= durable'
  BY DEF Call, HostTypeOK, Grows
<1>6. call.at = "flushing" => call.mark <= Len(log') /\ CommittedWithin(call, call.mark)'
  BY <1>5, WithinKeeps DEF CallIsSound, Grows, HostTypeOK
<1>7. CommittedWithin(call, durable) => CommittedWithin(call, durable)'
  <2>1. PICK m \in Nat : m = durable'
    BY <1>5
  <2>2. CommittedWithin(call, durable) => CommittedWithin(call, m)'
    BY <1>5, <2>1, WithinKeeps
  <2> QED BY <2>1, <2>2 DEF CommittedWithin
<1>8. call.at # "idle" => wire'[c] # None /\ call.req = wire'[c].req /\ call.fp = wire'[c].fp
  BY DEF CallIsSound
<1>9. call.at \in InPhase => lock' = c
  BY <1>1 DEF CallIsSound
<1> QED BY <1>2, <1>3, <1>4, <1>6, <1>7, <1>8, <1>9 DEF CallIsSound

(* When call c alone moves, from its phase or from outside of every phase. *)
LEMMA CallMoves ==
  ASSUME HostInv, NEW c \in Calls, NEW new \in Call, calls' = [calls EXCEPT ![c] = new],
         Grows, UNCHANGED wire, lock \notin Calls \ {c} \/ (log' = log /\ lock' = lock),
         CallIsSound(new, c)'
  PROVE  CallsAreSound' /\ calls' \in [Calls -> Call]
<1>1. calls \in [Calls -> Call]
  BY DEF HostInv, HostTypeOK
<1>2. calls' \in [Calls -> Call] /\ calls'[c] = new
  BY <1>1
<1>3. ASSUME NEW d \in Calls, d # c
      PROVE  CallIsSound(calls[d], d)' 
  <2>1. PICK call \in Call : call = calls[d]
    BY <1>1
  <2>2. calls'[d] = call
    BY <1>1, <1>3, <2>1
  <2>3. CallIsSound(call, d)'
    <3>1. CallIsSound(call, d)
      BY <2>1 DEF HostInv, CallsAreSound
    <3> QED BY <1>3, <3>1, CallKeeps DEF HostInv
  <2> QED BY <2>2, <2>3 DEF CallIsSound, Untold, ContextsOf, CommittedWithin, Holds, Context, Event
<1>4. CallIsSound(calls[c], c)'
  BY <1>2 DEF CallIsSound, Untold, ContextsOf, CommittedWithin, Holds, Context, Event
<1> QED BY <1>2, <1>3, <1>4 DEF CallsAreSound

(* A log that stands still grows.                                          *)
LEMMA StillGrows ==
  ASSUME HostTypeOK, UNCHANGED log, durable' = durable
  PROVE  Grows
BY DEF HostTypeOK, Grows

LEMMA AppendGrows ==
  ASSUME HostTypeOK, NEW e \in LogEvent, log' = Append(log, e), durable' = durable
  PROVE  Grows
BY AppendFacts DEF HostTypeOK, Grows

(* What a call that is being answered becomes.                             *)
LEMMA DoneIsSound ==
  ASSUME NEW c \in Calls, NEW call \in Call, NEW reply \in Replies,
         wire'[c] # None, call.req = wire'[c].req, call.fp = wire'[c].fp,
         reply = "ok" => CommittedWithin(call, durable)'
  PROVE  Done(call, reply) \in Call /\ CallIsSound(Done(call, reply), c)'
<1> DEFINE new == Done(call, reply)
<1>1. /\ new \in Call /\ new.at = "done" /\ new.reply = reply
      /\ new.req = call.req /\ new.fp = call.fp /\ new.turn = call.turn
  BY DEF Done, Call, Places
<1>2. reply = "ok" => CommittedWithin(new, durable)'
  BY <1>1 DEF CommittedWithin
<1> HIDE DEF new
<1> QED BY <1>1, <1>2 DEF CallIsSound, InPhase, new

LEMMA AnswerKeeps ==
  ASSUME HostInv, NEW c \in Calls, ~At(c, "idle"), NEW reply \in Replies, Answer(c, reply),
         Grows, UNCHANGED wire, log' = log \/ lock = c,
         reply = "ok" => UNCHANGED <<log, durable>> /\ CommittedWithin(calls[c], durable)
  PROVE  CallsAreSound' /\ calls' \in [Calls -> Call] /\ lock' \in Calls \cup {"agent", None}
<1>1. calls \in [Calls -> Call] /\ lock \in Calls \cup {"agent", None}
  BY DEF HostInv, HostTypeOK
<1>2. PICK call \in Call : call = calls[c]
  BY <1>1
<1>3. CallIsSound(call, c)
  BY <1>2 DEF HostInv, CallsAreSound
<1>4. wire'[c] # None /\ call.req = wire'[c].req /\ call.fp = wire'[c].fp
  BY <1>2, <1>3 DEF CallIsSound, At
<1>5. reply = "ok" => CommittedWithin(call, durable)'
  BY <1>2 DEF CommittedWithin
<1>6. PICK new \in Call : new = Done(call, reply) /\ CallIsSound(new, c)'
  <2>1. Done(call, reply) \in Call /\ CallIsSound(Done(call, reply), c)'
    BY <1>4, <1>5, DoneIsSound
  <2>2. PICK new : new = Done(call, reply)
    OBVIOUS
  <2>3. new \in Call /\ CallIsSound(new, c)'
    BY <2>1, <2>2 DEF CallIsSound, Untold, ContextsOf, CommittedWithin, Holds, Context, Event
  <2> QED BY <2>2, <2>3
<1>7. calls' = [calls EXCEPT ![c] = new]
  BY <1>2, <1>6 DEF Answer
<1>8. lock \notin Calls \ {c} \/ (log' = log /\ lock' = lock)
  BY <1>1 DEF Answer
<1>9. CallsAreSound' /\ calls' \in [Calls -> Call]
  BY <1>6, <1>7, <1>8, CallMoves
<1> QED BY <1>1, <1>9 DEF Answer

-----------------------------------------------------------------------------
(* What the log knows of a request id.                                     *)
LEMMA ExistingFacts ==
  ASSUME HostTypeOK, NEW r \in Requests
  PROVE  /\ Existing(r).state = "none" => ContextsOf(r) = {}
         /\ Existing(r).state = "committed" =>
              \E i \in ContextsOf(r) :
                /\ log[i] = Context(r, Existing(r).fp, Existing(r).turn)
                /\ Existing(r).turn \in Turns
                /\ Holds(log, Event("committed", Existing(r).turn))
<1> DEFINE i == CHOOSE i \in ContextsOf(r) : TRUE
<1>1. ASSUME ContextsOf(r) # {}
      PROVE  /\ i \in ContextsOf(r) /\ log[i] = Context(r, log[i].fp, log[i].turn)
             /\ log[i].turn \in Turns
  <2>1. i \in ContextsOf(r)
    BY <1>1
  <2>2. log[i] \in LogEvent /\ log[i].type = "context" /\ log[i].req = r
    BY <2>1 DEF ContextsOf, HostTypeOK
  <2> HIDE DEF i
  <2> QED BY <2>1, <2>2, ContextFacts
<1> HIDE DEF i
<1>2. ContextsOf(r) # {} /\ Existing(r).state = "committed" =>
        /\ Existing(r).fp = log[i].fp /\ Existing(r).turn = log[i].turn
        /\ Holds(log, Event("committed", log[i].turn))
  BY DEF Existing, i
<1>3. ContextsOf(r) # {} => Existing(r).state # "none"
  BY DEF Existing
<1>4. ContextsOf(r) = {} => Existing(r).state = "none"
  BY DEF Existing
<1> QED BY <1>1, <1>2, <1>3, <1>4

LEMMA NewFacts ==
  ASSUME HostTypeOK, NEW c \in Calls, Arrived(c), NEW place \in Places
  PROVE  LET new == New(c, place) IN
         /\ new \in Call /\ new.at = place /\ new.req = wire[c].req /\ new.fp = wire[c].fp
         /\ new.turn = None /\ new.mark = 0 /\ new.reply = None
         /\ wire[c] \in Request /\ new.req \in Requests /\ new.fp \in Messages
<1>1. wire[c] \in Request
  BY DEF HostTypeOK, Arrived
<1>2. wire[c].req \in Requests /\ wire[c].fp \in Messages
  BY <1>1 DEF Request
<1> QED BY <1>1, <1>2 DEF New, Idle, Call, Replies

-----------------------------------------------------------------------------
(* One lemma for each step of a call.                                      *)
HostGrows == HostInv' /\ Grows

LEMMA ReplayKeeps ==
  ASSUME HostInv, NEW c \in Calls, Replay(c), UNCHANGED wire
  PROVE  HostGrows
<1>1. HostTypeOK /\ LogIsSound
  BY DEF HostInv
<1>2. Arrived(c) /\ wire[c] \in Request /\ Grows
  BY <1>1, StillGrows DEF Replay, Arrived, HostTypeOK
<1> DEFINE r == wire[c].req
           m == wire[c].fp
<1>3. r \in Requests /\ m \in Messages
  BY <1>2 DEF Request
<1>4. PICK t \in Turns :
        /\ t = Existing(r).turn
        /\ \E i \in DOMAIN log : log[i] = Context(r, m, t)
        /\ \E j \in DOMAIN log : log[j] = Event("committed", t)
  BY <1>1, <1>3, ExistingFacts DEF Replay, Replayable, Holds, ContextsOf
<1>5. PICK new : new = [New(c, "flushing") EXCEPT !.turn = t, !.mark = Len(log)]
  OBVIOUS
<1>6. /\ new \in Call /\ new.at = "flushing" /\ new.req = r /\ new.fp = m
      /\ new.turn = t /\ new.mark = Len(log) /\ new.reply = None
  <2>1. Len(log) \in Nat
    BY <1>1 DEF HostTypeOK
  <2> QED BY <1>1, <1>2, <1>3, <1>5, <2>1 DEF New, Idle, Call, Places, Replies
<1>7. calls' = [calls EXCEPT ![c] = new]
  BY <1>4, <1>5 DEF Replay
<1>8. CommittedWithin(new, new.mark)'
  BY <1>1, <1>4, <1>6 DEF CommittedWithin, Replay, HostTypeOK, Context, Event
<1>9. CallIsSound(new, c)'
  BY <1>2, <1>6, <1>8, NamesAssumption DEF CallIsSound, InPhase, Replay, Arrived
<1>10. CallsAreSound' /\ calls' \in [Calls -> Call]
  BY <1>2, <1>6, <1>7, <1>9, CallMoves DEF Replay
<1> QED BY <1>1, <1>2, <1>10 DEF HostGrows, HostInv, HostTypeOK, LogIsSound, Replay

(* A call that is refused at once.                                         *)
LEMMA RefusedKeeps ==
  ASSUME HostInv, NEW c \in Calls, Arrived(c), NEW reply \in Replies, reply # "ok",
         calls' = [calls EXCEPT ![c] = Done(New(c, "done"), reply)],
         UNCHANGED <<wire, lock, log, durable, drawn>>, mishaps' \in 0..MaxMishaps
  PROVE  HostGrows
<1>1. HostTypeOK /\ LogIsSound
  BY DEF HostInv
<1>2. PICK call : call = New(c, "done")
  OBVIOUS
<1>3. call \in Call /\ call.req = wire[c].req /\ call.fp = wire[c].fp
  BY <1>1, <1>2, NewFacts DEF Places
<1>4. Grows
  BY <1>1, StillGrows
<1>5. Done(call, reply) \in Call /\ CallIsSound(Done(call, reply), c)'
  BY <1>3, DoneIsSound DEF Arrived
<1>6. PICK new : new = Done(call, reply)
  OBVIOUS
<1>7. new \in Call /\ CallIsSound(new, c)'
  BY <1>5, <1>6 DEF CallIsSound, Untold, ContextsOf, CommittedWithin, Holds, Context, Event
<1>8. CallsAreSound' /\ calls' \in [Calls -> Call]
  BY <1>2, <1>4, <1>6, <1>7, CallMoves
<1> QED BY <1>1, <1>4, <1>8 DEF HostGrows, HostInv, HostTypeOK, LogIsSound

LEMMA MishapFacts ==
  ASSUME HostTypeOK, NEW kind, Mishap(kind)
  PROVE  mishaps' \in 0..MaxMishaps
BY MishapsAssumption DEF HostTypeOK, Mishap

LEMMA RefuseOrDenyKeeps ==
  ASSUME HostInv, NEW c \in Calls, Refuse(c) \/ Deny(c), UNCHANGED wire
  PROVE  HostGrows
<1>1. HostTypeOK /\ mishaps \in 0..MaxMishaps
  BY DEF HostInv, HostTypeOK
<1>2. CASE Refuse(c)
  <2>1. PICK reply : reply = Refusal(wire[c].req, wire[c].fp)
    OBVIOUS
  <2>2. reply \in {"BUSY", "CONFLICT"}
    BY <1>2, <2>1 DEF Refuse, Refusal
  <2> QED BY <1>1, <1>2, <2>1, <2>2, RefusedKeeps DEF Refuse, Replies
<1>3. CASE Deny(c)
  BY <1>1, <1>3, MishapFacts, RefusedKeeps DEF Deny, Replies
<1> QED BY <1>2, <1>3

LEMMA EnterKeeps ==
  ASSUME HostInv, NEW c \in Calls, Enter(c), UNCHANGED wire
  PROVE  HostGrows
<1>1. HostTypeOK /\ LogIsSound /\ Grows
  BY StillGrows DEF HostInv, Enter
<1>2. PICK new : new = New(c, "ingesting")
  OBVIOUS
<1>3. /\ new \in Call /\ new.at = "ingesting" /\ new.reply = None
      /\ new.req = wire[c].req /\ new.fp = wire[c].fp /\ new.req \in Requests
  BY <1>1, <1>2, NewFacts DEF Places, Enter
<1>4. ContextsOf(new.req)' = {}
  BY <1>1, <1>3, ExistingFacts DEF Enter, ContextsOf
<1>5. CallIsSound(new, c)'
  BY <1>3, <1>4, NamesAssumption DEF CallIsSound, Enter, Arrived
<1>6. lock \notin Calls \ {c}
  BY NamesAssumption DEF Enter
<1>7. CallsAreSound' /\ calls' \in [Calls -> Call]
  BY <1>1, <1>2, <1>3, <1>5, <1>6, CallMoves DEF Enter
<1> QED BY <1>1, <1>7 DEF HostGrows, HostInv, HostTypeOK, LogIsSound, Enter

(* What a call knows while it is in its phase.                             *)
LEMMA PhaseFacts ==
  ASSUME HostInv, NEW c \in Calls, calls[c].at \in InPhase
  PROVE  /\ calls[c] \in Call /\ lock = c /\ calls[c].reply # "ok"
         /\ wire[c] # None /\ calls[c].req = wire[c].req /\ calls[c].fp = wire[c].fp
         /\ calls[c].req \in Requests /\ calls[c].fp \in Messages
         /\ At(c, "running") \/ At(c, "committed") =>
              calls[c].turn \in Turns /\ calls[c].turn \in drawn
<1>1. calls[c] \in Call /\ CallIsSound(calls[c], c) /\ wire[c] \in Request \cup {None}
  BY DEF HostInv, HostTypeOK, CallsAreSound
<1>2. /\ lock = c /\ calls[c].reply # "ok"
      /\ wire[c] # None /\ calls[c].req = wire[c].req /\ calls[c].fp = wire[c].fp
  BY <1>1 DEF CallIsSound, InPhase
<1>3. calls[c].req \in Requests /\ calls[c].fp \in Messages
  BY <1>1, <1>2 DEF Request
<1>4. ASSUME At(c, "running") \/ At(c, "committed")
      PROVE  calls[c].turn \in Turns /\ calls[c].turn \in drawn
  <2>1. PICK i \in DOMAIN log : log[i] = Context(calls[c].req, calls[c].fp, calls[c].turn)
    BY <1>1, <1>4 DEF CallIsSound, Holds, At
  <2>2. log[i].turn = calls[c].turn /\ log[i].turn \in drawn
    BY <2>1 DEF Context, HostInv, LogIsSound
  <2> QED BY <2>2 DEF HostInv, HostTypeOK
<1> QED BY <1>1, <1>2, <1>3, <1>4

(* An event other than a context is appended at its time.                  *)
LEMMA AppendKeepsLog ==
  ASSUME HostInv, NEW e \in LogEvent, log' = Append(log, e), drawn \subseteq drawn',
         e.turn \in drawn',
         e.type = "context" =>
           \A i \in Of(log, "context") : log[i].turn # e.turn /\ log[i].req # e.req,
         e.type = "chat-start" =>
           Holds(log, Event("committed", e.turn)) /\ Untold("chat-start", e.turn),
         e.type # "chat-end"
  PROVE  LogIsSound'
<1>1. log \in Seq(LogEvent) /\ LogIsSound
  BY DEF HostInv, HostTypeOK
<1>2. WellTold(Append(log, e))
  BY <1>1, AppendKeepsWellTold DEF LogIsSound, Untold
<1>3. \A i \in DOMAIN log' : log'[i].turn \in drawn'
  BY <1>1, AppendFacts DEF LogIsSound
<1> QED BY <1>2, <1>3 DEF LogIsSound, WellTold, Of, Event

LEMMA IngestFailsKeeps ==
  ASSUME HostInv, NEW c \in Calls, IngestFails(c), UNCHANGED wire
  PROVE  HostGrows
<1>1. HostTypeOK /\ LogIsSound /\ Grows
  BY StillGrows DEF HostInv, IngestFails
<1>2. CallsAreSound' /\ calls' \in [Calls -> Call] /\ lock' \in Calls \cup {"agent", None}
  BY <1>1, AnswerKeeps DEF IngestFails, At, Replies
<1> QED BY <1>1, <1>2 DEF HostGrows, HostInv, HostTypeOK, LogIsSound, IngestFails

LEMMA TurnOpensKeeps ==
  ASSUME HostInv, NEW c \in Calls, NEW t \in Turns, TurnOpens(c, t), UNCHANGED wire
  PROVE  HostGrows
<1>1. HostTypeOK /\ LogIsSound
  BY DEF HostInv
<1>2. PICK call : call = calls[c]
  OBVIOUS
<1>3. /\ call \in Call /\ call.at = "ingesting" /\ lock = c /\ call.reply # "ok"
      /\ wire[c] # None /\ call.req = wire[c].req /\ call.fp = wire[c].fp
      /\ call.req \in Requests /\ call.fp \in Messages
  BY <1>2, PhaseFacts DEF InPhase, TurnOpens, At
<1>4. PICK e \in LogEvent :
        /\ e = Context(call.req, call.fp, t)
        /\ e.type = "context" /\ e.turn = t /\ e.req = call.req
  BY <1>3, EventFacts
<1>5. log' = Append(log, e) /\ Grows
  BY <1>1, <1>2, <1>4, AppendGrows DEF TurnOpens
<1>6. \A i \in DOMAIN log : log[i].turn # t
  BY <1>1 DEF TurnOpens, LogIsSound
<1>7. ContextsOf(call.req) = {}
  BY <1>2, <1>3 DEF HostInv, CallsAreSound, CallIsSound
<1>8. LogIsSound'
  BY <1>4, <1>5, <1>6, <1>7, AppendKeepsLog DEF TurnOpens, Of, ContextsOf
<1>9. PICK new : new = [call EXCEPT !.at = "running", !.turn = t]
  OBVIOUS
<1>10. /\ new \in Call /\ new.at = "running" /\ new.turn = t /\ new.reply # "ok"
       /\ new.req = call.req /\ new.fp = call.fp
  BY <1>3, <1>9 DEF Call, Places
<1>11. calls' = [calls EXCEPT ![c] = new]
  BY <1>2, <1>9 DEF TurnOpens
<1>12. DOMAIN log' = 1..(Len(log) + 1) /\ log'[Len(log) + 1] = e
       /\ (\A i \in DOMAIN log' : log'[i] = e \/ log'[i].turn # t) /\ Len(log) \in Nat
  BY <1>1, <1>4, <1>5, <1>6, AppendFacts DEF HostTypeOK
<1>13. Holds(log, Context(new.req, new.fp, new.turn))'
  BY <1>4, <1>10, <1>12 DEF Holds, Context
<1>14. Untold("chat-start", new.turn)' /\ Untold("committed", new.turn)'
  BY <1>4, <1>10, <1>12 DEF Untold, Holds, Event
<1>15. CallIsSound(new, c)'
  BY <1>3, <1>10, <1>13, <1>14 DEF CallIsSound, TurnOpens
<1>16. CallsAreSound' /\ calls' \in [Calls -> Call]
  BY <1>3, <1>5, <1>10, <1>11, <1>15, CallMoves
<1> QED BY <1>1, <1>5, <1>8, <1>16 DEF HostGrows, HostInv, HostTypeOK, TurnOpens, Grows

LEMMA TurnAbortsKeeps ==
  ASSUME HostInv, NEW c \in Calls, TurnAborts(c), UNCHANGED wire
  PROVE  HostGrows
<1>1. HostTypeOK /\ LogIsSound
  BY DEF HostInv
<1>2. lock = c /\ calls[c].turn \in Turns /\ calls[c].turn \in drawn
  BY PhaseFacts DEF InPhase, TurnAborts, At
<1>3. PICK e \in LogEvent :
        e = Event("aborted", calls[c].turn) /\ e.type = "aborted" /\ e.turn = calls[c].turn
  BY <1>2, EventFacts
<1>4. log' = Append(log, e) /\ Grows
  BY <1>1, <1>3, AppendGrows DEF TurnAborts
<1>5. LogIsSound'
  BY <1>2, <1>3, <1>4, AppendKeepsLog DEF TurnAborts
<1>6. CallsAreSound' /\ calls' \in [Calls -> Call] /\ lock' \in Calls \cup {"agent", None}
  BY <1>2, <1>4, AnswerKeeps DEF TurnAborts, At, Replies
<1> QED BY <1>1, <1>4, <1>5, <1>6 DEF HostGrows, HostInv, HostTypeOK, TurnAborts, Grows

LEMMA TurnAbortIsLostKeeps ==
  ASSUME HostInv, NEW c \in Calls, TurnAbortIsLost(c), UNCHANGED wire
  PROVE  HostGrows
<1>1. HostTypeOK /\ LogIsSound /\ Grows
  BY StillGrows DEF HostInv, TurnAbortIsLost
<1>2. CallsAreSound' /\ calls' \in [Calls -> Call] /\ lock' \in Calls \cup {"agent", None}
  BY <1>1, AnswerKeeps DEF TurnAbortIsLost, At, Replies
<1>3. mishaps' \in 0..MaxMishaps
  BY <1>1, MishapFacts DEF TurnAbortIsLost
<1> QED BY <1>1, <1>2, <1>3 DEF HostGrows, HostInv, HostTypeOK, LogIsSound, TurnAbortIsLost

LEMMA TurnCommitsKeeps ==
  ASSUME HostInv, NEW c \in Calls, TurnCommits(c), UNCHANGED wire
  PROVE  HostGrows
<1>1. HostTypeOK /\ LogIsSound
  BY DEF HostInv
<1>2. PICK call : call = calls[c]
  OBVIOUS
<1>3. /\ call \in Call /\ call.at = "running" /\ lock = c /\ call.reply # "ok"
      /\ wire[c] # None /\ call.req = wire[c].req /\ call.fp = wire[c].fp
      /\ call.turn \in Turns /\ call.turn \in drawn
  BY <1>2, PhaseFacts DEF InPhase, TurnCommits, At
<1>4. PICK e \in LogEvent :
        e = Event("committed", call.turn) /\ e.type = "committed" /\ e.turn = call.turn
  BY <1>3, EventFacts
<1>5. log' = Append(log, e) /\ Grows
  BY <1>1, <1>2, <1>4, AppendGrows DEF TurnCommits
<1>6. LogIsSound'
  BY <1>3, <1>4, <1>5, AppendKeepsLog DEF TurnCommits
<1>7. PICK new : new = [call EXCEPT !.at = "committed"]
  OBVIOUS
<1>8. /\ new \in Call /\ new.at = "committed" /\ new.turn = call.turn /\ new.reply # "ok"
      /\ new.req = call.req /\ new.fp = call.fp
  BY <1>3, <1>7 DEF Call, Places
<1>9. calls' = [calls EXCEPT ![c] = new]
  BY <1>2, <1>7 DEF TurnCommits
<1>10. /\ DOMAIN log' = 1..(Len(log) + 1) /\ log'[Len(log) + 1] = e /\ Len(log) \in Nat
       /\ DOMAIN log = 1..Len(log) /\ \A i \in DOMAIN log : log'[i] = log[i]
  BY <1>1, <1>4, <1>5, AppendFacts DEF HostTypeOK
<1>11. Holds(log, Context(call.req, call.fp, call.turn)) /\ Untold("chat-start", call.turn)
  BY <1>2, <1>3 DEF HostInv, CallsAreSound, CallIsSound
<1>12. Holds(log, Context(new.req, new.fp, new.turn))'
  BY <1>8, <1>10, <1>11 DEF Holds, Context
<1>13. Holds(log, Event("committed", new.turn))'
  BY <1>4, <1>8, <1>10 DEF Holds, Event
<1>14. Untold("chat-start", new.turn)'
  <2> SUFFICES ASSUME NEW i \in DOMAIN log', log'[i] = Event("chat-start", new.turn)
               PROVE  FALSE
    BY DEF Untold, Holds, Event
  <2>1. i \in DOMAIN log \/ log'[i] = e
    BY <1>10
  <2> QED BY <1>4, <1>8, <1>10, <1>11, <2>1 DEF Untold, Holds, Event
<1>15. CallIsSound(new, c)'
  BY <1>3, <1>8, <1>12, <1>13, <1>14 DEF CallIsSound, TurnCommits
<1>16. CallsAreSound' /\ calls' \in [Calls -> Call]
  BY <1>3, <1>5, <1>8, <1>9, <1>15, CallMoves
<1> QED BY <1>1, <1>5, <1>6, <1>16 DEF HostGrows, HostInv, HostTypeOK, TurnCommits, Grows

LEMMA ProjectChatKeeps ==
  ASSUME HostInv, NEW c \in Calls, ProjectChat(c), UNCHANGED wire
  PROVE  HostGrows
<1>1. HostTypeOK /\ LogIsSound /\ log \in Seq(LogEvent)
  BY DEF HostInv, HostTypeOK
<1>2. PICK call : call = calls[c]
  OBVIOUS
<1>3. /\ call \in Call /\ call.at = "committed" /\ lock = c /\ call.reply # "ok"
      /\ wire[c] # None /\ call.req = wire[c].req /\ call.fp = wire[c].fp
      /\ call.turn \in Turns /\ call.turn \in drawn
  BY <1>2, PhaseFacts DEF InPhase, ProjectChat, At
<1>4. PICK a \in LogEvent :
        a = Event("chat-start", call.turn) /\ a.type = "chat-start" /\ a.turn = call.turn
  BY <1>3, EventFacts
<1>5. PICK z \in LogEvent :
        z = Event("chat-end", call.turn) /\ z.type = "chat-end" /\ z.turn = call.turn
  BY <1>3, EventFacts
<1>6. PICK half \in Seq(LogEvent) : half = Append(log, a)
  <2>1. Append(log, a) \in Seq(LogEvent)
    BY <1>1
  <2> QED BY <2>1
<1>7. log' = Append(half, z)
  BY <1>1, <1>2, <1>4, <1>5, <1>6 DEF ProjectChat, ChatEvents
<1>8. /\ Len(log) \in Nat /\ Len(half) = Len(log) + 1 /\ half[Len(log) + 1] = a
      /\ DOMAIN log = 1..Len(log) /\ \A i \in 1..Len(log) : half[i] = log[i]
  BY <1>1, <1>6, AppendFacts
<1>9. /\ log' \in Seq(LogEvent) /\ Len(log') = Len(log) + 2
      /\ DOMAIN log' = 1..(Len(log) + 2) /\ DOMAIN half = 1..(Len(log) + 1)
      /\ log'[Len(log) + 2] = z /\ log'[Len(log) + 1] = a
      /\ \A i \in 1..Len(log) : log'[i] = log[i]
  <2>1. /\ log' \in Seq(LogEvent) /\ Len(log') = Len(half) + 1
        /\ DOMAIN log' = 1..(Len(half) + 1) /\ DOMAIN half = 1..Len(half)
        /\ \A i \in 1..Len(half) : log'[i] = half[i]
        /\ log'[Len(half) + 1] = z
    BY <1>7, AppendFacts
  <2> QED BY <1>8, <2>1
<1>10. Grows
  BY <1>1, <1>8, <1>9 DEF ProjectChat, Grows, HostTypeOK
<1>11. /\ Holds(log, Context(call.req, call.fp, call.turn))
       /\ Untold("chat-start", call.turn) /\ Holds(log, Event("committed", call.turn))
  BY <1>2, <1>3 DEF HostInv, CallsAreSound, CallIsSound
<1>12. WellTold(half)
  BY <1>1, <1>4, <1>6, <1>11, AppendKeepsWellTold DEF LogIsSound, Untold
<1>13. WellTold(log')
  BY <1>4, <1>5, <1>7, <1>8, <1>12, AppendKeepsWellTold
<1>14. LogIsSound'
  <2>1. \A i \in DOMAIN log' : log'[i].turn \in drawn
    BY <1>1, <1>3, <1>4, <1>5, <1>8, <1>9 DEF LogIsSound
  <2> QED BY <1>13, <2>1 DEF LogIsSound, WellTold, Of, Event, ProjectChat
<1>15. PICK n, new :
         n \in Nat /\ n = Len(log') /\ new = [call EXCEPT !.at = "flushing", !.mark = n]
  <2>1. Len(log') \in Nat
    BY <1>8, <1>9
  <2> QED BY <2>1
<1>16. /\ new \in Call /\ new.at = "flushing" /\ new.turn = call.turn /\ new.reply # "ok"
       /\ new.req = call.req /\ new.fp = call.fp /\ new.mark = n
  BY <1>3, <1>15 DEF Call, Places
<1>17. calls' = [calls EXCEPT ![c] = new]
  BY <1>2, <1>15 DEF ProjectChat
<1>18. CommittedWithin(new, new.mark)'
  <2>1. PICK i \in 1..Len(log), j \in 1..Len(log) :
          /\ log[i] = Context(call.req, call.fp, call.turn)
          /\ log[j] = Event("committed", call.turn)
    BY <1>8, <1>11 DEF Holds
  <2>2. i \in 1..new.mark /\ j \in 1..new.mark /\ log'[i] = log[i] /\ log'[j] = log[j]
    BY <1>8, <1>9, <1>15, <1>16
  <2> QED BY <1>16, <2>1, <2>2 DEF CommittedWithin, Context, Event
<1>19. CallIsSound(new, c)'
  BY <1>3, <1>15, <1>16, <1>18 DEF CallIsSound, InPhase
<1>20. CallsAreSound' /\ calls' \in [Calls -> Call]
  BY <1>3, <1>10, <1>16, <1>17, <1>19, CallMoves
<1> QED BY <1>1, <1>10, <1>14, <1>20 DEF HostGrows, HostInv, HostTypeOK, ProjectChat, Grows

LEMMA ChatFailsKeeps ==
  ASSUME HostInv, NEW c \in Calls, ChatFails(c), UNCHANGED wire
  PROVE  HostGrows
<1>1. HostTypeOK /\ LogIsSound /\ calls[c] \in Call
  BY DEF HostInv, HostTypeOK
<1>2. lock = c /\ calls[c].turn \in Turns /\ calls[c].turn \in drawn
  BY PhaseFacts DEF InPhase, ChatFails, At
<1>3. PICK e \in LogEvent :
        e = Event("chat-start", calls[c].turn) /\ e.type = "chat-start" /\ e.turn = calls[c].turn
  BY <1>2, EventFacts
<1>4. log' = log \/ log' = Append(log, e)
  BY <1>3 DEF ChatFails, ChatEvents
<1>5. Grows
  BY <1>1, <1>4, StillGrows, AppendGrows DEF ChatFails
<1>6. Untold("chat-start", calls[c].turn) /\ Holds(log, Event("committed", calls[c].turn))
  BY DEF HostInv, CallsAreSound, CallIsSound, ChatFails, At
<1>7. LogIsSound'
  <2>1. CASE log' = log
    BY <1>1, <2>1 DEF LogIsSound, ChatFails
  <2>2. CASE log' = Append(log, e)
    BY <1>2, <1>3, <1>6, <2>2, AppendKeepsLog DEF ChatFails
  <2> QED BY <1>4, <2>1, <2>2
<1>8. CallsAreSound' /\ calls' \in [Calls -> Call] /\ lock' \in Calls \cup {"agent", None}
  BY <1>2, <1>5, AnswerKeeps DEF ChatFails, At, Replies
<1>9. mishaps' \in 0..MaxMishaps
  BY <1>1, MishapFacts DEF ChatFails
<1> QED BY <1>1, <1>5, <1>7, <1>8, <1>9 DEF HostGrows, HostInv, HostTypeOK, ChatFails, Grows

LEMMA FlushFailsKeeps ==
  ASSUME HostInv, NEW c \in Calls, FlushFails(c), UNCHANGED wire
  PROVE  HostGrows
<1>1. HostTypeOK /\ LogIsSound /\ Grows
  BY StillGrows DEF HostInv, FlushFails
<1>2. CallsAreSound' /\ calls' \in [Calls -> Call] /\ lock' \in Calls \cup {"agent", None}
  BY <1>1, AnswerKeeps DEF FlushFails, At, Replies
<1> QED BY <1>1, <1>2 DEF HostGrows, HostInv, HostTypeOK, LogIsSound, FlushFails

(* A flush that has returned covers the commit that is reported.           *)
LEMMA FlushedFacts ==
  ASSUME HostInv, NEW c \in Calls, Flushed(c)
  PROVE  CommittedWithin(calls[c], durable)
<1>1. calls[c].mark <= durable /\ CommittedWithin(calls[c], calls[c].mark)
  BY DEF HostInv, CallsAreSound, CallIsSound, Flushed, At
<1>2. calls[c].mark \in Nat /\ durable \in Nat
  BY DEF HostInv, HostTypeOK, Call
<1>3. 1..calls[c].mark \subseteq 1..durable
  BY <1>1, <1>2
<1> QED BY <1>1, <1>3 DEF CommittedWithin

LEMMA RespondKeeps ==
  ASSUME HostInv, NEW c \in Calls, Respond(c), UNCHANGED wire
  PROVE  HostGrows
<1>1. HostTypeOK /\ LogIsSound /\ Grows
  BY StillGrows DEF HostInv, Respond
<1>2. CommittedWithin(calls[c], durable)
  BY FlushedFacts DEF Respond
<1>3. CallsAreSound' /\ calls' \in [Calls -> Call] /\ lock' \in Calls \cup {"agent", None}
  BY <1>1, <1>2, AnswerKeeps DEF Respond, Flushed, At, Replies
<1> QED BY <1>1, <1>3 DEF HostGrows, HostInv, HostTypeOK, LogIsSound, Respond

LEMMA ResponseFailsKeeps ==
  ASSUME HostInv, NEW c \in Calls, ResponseFails(c), UNCHANGED wire
  PROVE  HostGrows
<1>1. HostTypeOK /\ LogIsSound /\ Grows
  BY StillGrows DEF HostInv, ResponseFails
<1>2. CallsAreSound' /\ calls' \in [Calls -> Call] /\ lock' \in Calls \cup {"agent", None}
  BY <1>1, AnswerKeeps DEF ResponseFails, Flushed, At, Replies
<1>3. mishaps' \in 0..MaxMishaps
  BY <1>1, MishapFacts DEF ResponseFails
<1> QED BY <1>1, <1>2, <1>3 DEF HostGrows, HostInv, HostTypeOK, LogIsSound, ResponseFails

LEMMA CallStepKeeps ==
  ASSUME HostInv, NEW c \in Calls, CallStep(c), UNCHANGED wire
  PROVE  HostGrows
BY ReplayKeeps, RefuseOrDenyKeeps, EnterKeeps, IngestFailsKeeps, TurnOpensKeeps,
   TurnAbortsKeeps, TurnAbortIsLostKeeps, TurnCommitsKeeps, ProjectChatKeeps,
   ChatFailsKeeps, FlushFailsKeeps, RespondKeeps, ResponseFailsKeeps DEF CallStep

(* What is not a call: persistence and the Agent.                          *)
LEMMA PersistKeeps ==
  ASSUME HostInv, Persist, UNCHANGED wire
  PROVE  HostGrows
<1>1. HostTypeOK /\ LogIsSound
  BY DEF HostInv
<1>2. Grows
  BY <1>1 DEF Grows, HostTypeOK, Persist
<1>3. ASSUME NEW c \in Calls
      PROVE  CallIsSound(calls[c], c)'
  <2>1. PICK call \in Call : call = calls[c]
    BY <1>1 DEF HostTypeOK
  <2>2. CallIsSound(call, c)
    BY <2>1 DEF HostInv, CallsAreSound
  <2>3. CallIsSound(call, c)'
    BY <1>1, <1>2, <2>2, CallKeeps DEF Persist
  <2> QED BY <2>1, <2>3 DEF Persist, CallIsSound, Untold, ContextsOf, CommittedWithin,
        Holds, Context, Event
<1>4. CallsAreSound'
  BY <1>3 DEF CallsAreSound
<1> QED BY <1>1, <1>2, <1>4 DEF HostGrows, HostInv, HostTypeOK, LogIsSound, Persist, Grows

LEMMA AgentWorksKeeps ==
  ASSUME HostInv, AgentWorks, UNCHANGED wire
  PROVE  HostGrows
<1>1. HostTypeOK /\ LogIsSound /\ Grows
  BY StillGrows DEF HostInv, AgentWorks
<1>2. ASSUME NEW c \in Calls
      PROVE  CallIsSound(calls[c], c)'
  <2>1. PICK call \in Call : call = calls[c]
    BY <1>1 DEF HostTypeOK
  <2>2. CallIsSound(call, c)
    BY <2>1 DEF HostInv, CallsAreSound
  <2>3. CallIsSound(call, c)'
    BY <1>1, <2>2, CallKeeps, NamesAssumption DEF AgentWorks
  <2> QED BY <2>1, <2>3 DEF AgentWorks, CallIsSound, Untold, ContextsOf, CommittedWithin,
        Holds, Context, Event
<1>3. CallsAreSound'
  BY <1>2 DEF CallsAreSound
<1> QED BY <1>1, <1>3 DEF HostGrows, HostInv, HostTypeOK, LogIsSound, AgentWorks

(* A crash keeps what is durable, and every call that was under way is     *)
(* lost.                                                                   *)
Survives ==
  /\ log' \in Seq(LogEvent) /\ Len(log') = durable /\ durable' = durable
  /\ durable \in 0..Len(log)
  /\ \A i \in 1..durable : log'[i] = log[i]

LEMMA CrashKeeps ==
  ASSUME HostInv, Crash, UNCHANGED wire
  PROVE  HostInv' /\ Survives
<1>1. HostTypeOK /\ LogIsSound /\ log \in Seq(LogEvent) /\ durable \in 0..Len(log)
  BY DEF HostInv, HostTypeOK
<1>2. Survives /\ DOMAIN log' = 1..durable /\ 1..durable \subseteq DOMAIN log
  BY <1>1, PrefixFacts DEF Survives, Crash
<1>3. LogIsSound'
  <2>1. WellTold(log')
    BY <1>1, PrefixIsWellTold DEF LogIsSound, Crash
  <2>2. \A i \in DOMAIN log' : log'[i].turn \in drawn
    BY <1>1, <1>2 DEF LogIsSound, Survives
  <2> QED BY <2>1, <2>2 DEF LogIsSound, WellTold, Of, Event, Crash
<1>4. ASSUME NEW c \in Calls
      PROVE  CallIsSound(calls[c], c)' /\ calls'[c] \in Call
  <2>1. PICK call \in Call : call = calls[c]
    BY <1>1 DEF HostTypeOK
  <2>2. CallIsSound(call, c)
    BY <2>1 DEF HostInv, CallsAreSound
  <2>3. PICK new : new = calls'[c]
    OBVIOUS
  <2>4. \/ new = call /\ new.at \in {"idle", "done"}
        \/ /\ new.at = "lost" /\ new.reply = call.reply /\ call.at \notin {"idle", "done"}
           /\ new.req = call.req /\ new.fp = call.fp /\ new \in Call
    BY <2>1, <2>3 DEF Crash, At, Call, Places
  <2>5. CommittedWithin(call, durable) => CommittedWithin(call, durable)'
    BY <1>2 DEF CommittedWithin, Survives, Context, Event
  <2>6. CallIsSound(new, c)'
    BY <2>2, <2>4, <2>5 DEF CallIsSound, InPhase
  <2> QED BY <2>1, <2>3, <2>4, <2>6 DEF CallIsSound, Untold, ContextsOf, CommittedWithin,
        Holds, Context, Event
<1>5. CallsAreSound'
  BY <1>4 DEF CallsAreSound
<1>6. HostTypeOK'
  <2>1. calls' \in [Calls -> Call]
    BY <1>4 DEF Crash
  <2>2. mishaps' \in 0..MaxMishaps
    BY <1>1, MishapFacts DEF Crash
  <2> QED BY <1>1, <1>2, <2>1, <2>2 DEF HostTypeOK, Survives, Crash
<1> QED BY <1>2, <1>3, <1>5, <1>6 DEF HostInv

LEMMA HostStepKeeps ==
  ASSUME HostInv, HostStep, UNCHANGED wire
  PROVE  HostInv' /\ (Grows \/ (Crash /\ Survives))
BY CallStepKeeps, PersistKeeps, AgentWorksKeeps, CrashKeeps DEF HostStep, HostGrows

-----------------------------------------------------------------------------
(* The browser's side.                                                     *)
LEMMA InitIInv ==
  ASSUME DeliveryInit
  PROVE  IInv
<1>1. HostTypeOK
  <2>1. Idle \in Call
    BY DEF Idle, Call, Places, Replies
  <2> QED BY <2>1, MishapsAssumption DEF DeliveryInit, Init, HostTypeOK
<1>2. LogIsSound
  BY DEF DeliveryInit, Init, LogIsSound, WellTold, Of
<1>3. CallsAreSound
  BY NamesAssumption DEF DeliveryInit, Init, CallsAreSound, CallIsSound, Idle, InPhase
<1>4. TypeOK
  BY <1>1 DEF DeliveryInit, TypeOK, NoClient
<1>5. ClientIsSound
  BY DEF DeliveryInit, ClientIsSound, NoClient, IsRunning
<1>6. DeliveredIsDurable
  BY DEF DeliveryInit, DeliveredIsDurable
<1> QED BY <1>2, <1>3, <1>4, <1>5, <1>6 DEF IInv

LEMMA SaidKeeps ==
  ASSUME TypeOK, NEW d, SaidWithin(d, durable), Grows \/ Survives
  PROVE  SaidWithin(d, durable)'
<1>1. PICK i, j \in 1..durable :
        /\ log[i].type = "context" /\ log[i].turn = d.turn /\ log[i].fp = d.message
        /\ log[j] = Event("committed", d.turn)
  BY DEF SaidWithin
<1>2. durable \in 0..Len(log) /\ Len(log) \in Nat
  BY DEF TypeOK, HostTypeOK
<1>3. i \in 1..durable' /\ j \in 1..durable' /\ log'[i] = log[i] /\ log'[j] = log[j]
  BY <1>1, <1>2 DEF Grows, Survives
<1> QED BY <1>1, <1>3 DEF SaidWithin, Event

LEMMA HostStepKeepsIInv ==
  ASSUME IInv, HostStep, UNCHANGED <<wire, client, ids, delivered>>
  PROVE  IInv'
<1>1. HostInv' /\ (Grows \/ Survives)
  BY HostStepKeeps DEF IInv, HostInv, TypeOK
<1>2. DeliveredIsDurable'
  <2> SUFFICES ASSUME NEW d \in delivered
               PROVE  SaidWithin(d, durable)'
    BY DEF DeliveredIsDurable
  <2> QED BY <1>1, SaidKeeps DEF IInv, DeliveredIsDurable
<1>3. ClientIsSound'
  BY DEF IInv, ClientIsSound, IsRunning
<1>4. TypeOK'
  BY <1>1 DEF IInv, TypeOK, HostInv
<1> QED BY <1>1, <1>2, <1>3, <1>4 DEF IInv, HostInv

(* The browser and other callers put requests on calls that have none.     *)
LEMMA PostKeeps ==
  ASSUME IInv, NEW c \in Unsent, NEW request \in Request,
         wire' = [wire EXCEPT ![c] = request], UNCHANGED hostVars
  PROVE  /\ HostInv' /\ wire'[c] = request
         /\ \A d \in Calls : wire[d] # None => wire'[d] = wire[d]
<1>1. c \in Calls /\ wire[c] = None /\ HostTypeOK /\ LogIsSound
  BY DEF Unsent, IInv, TypeOK
<1>2. /\ wire' \in [Calls -> Request \cup {None}] /\ wire'[c] = request
      /\ \A d \in Calls : wire[d] # None => wire'[d] = wire[d]
  BY <1>1 DEF HostTypeOK
<1>3. Grows
  BY <1>1, StillGrows DEF hostVars
<1>4. ASSUME NEW d \in Calls
      PROVE  CallIsSound(calls[d], d)'
  <2>1. PICK call \in Call : call = calls[d]
    BY <1>1 DEF HostTypeOK
  <2>2. CallIsSound(call, d)
    BY <2>1 DEF IInv, CallsAreSound
  <2>3. CallIsSound(call, d)'
    BY <1>1, <1>2, <1>3, <2>2, CallKeeps DEF hostVars
  <2> QED BY <2>1, <2>3 DEF hostVars, CallIsSound, Untold, ContextsOf, CommittedWithin,
        Holds, Context, Event
<1>5. CallsAreSound'
  BY <1>4 DEF CallsAreSound
<1>6. HostTypeOK' /\ LogIsSound'
  BY <1>1, <1>2 DEF HostTypeOK, LogIsSound, hostVars
<1> QED BY <1>2, <1>5, <1>6 DEF HostInv

LEMMA SubmitKeeps ==
  ASSUME IInv, NEW m \in Messages, NEW r \in Requests, NEW c \in Calls, Submit(m, r, c)
  PROVE  IInv'
<1>1. PICK request \in Request : request = [req |-> r, fp |-> m]
  BY DEF Request
<1>2. HostInv' /\ wire'[c] = request
  BY <1>1, PostKeeps DEF Submit
<1>3. ClientIsSound'
  <2>1. client \in [call : Calls \cup {None}, message : Messages \cup {None},
                    req : ids \cup {None}, retry : {None} \cup [req : ids, message : Messages]]
    BY DEF IInv, ClientIsSound
  <2>2. client' = [call |-> c, message |-> m, req |-> r, retry |-> client.retry]
    BY <2>1 DEF Submit
  <2>3. ids' = ids \cup {r}
    BY DEF Submit
  <2>4. client.retry \in {None} \cup [req : ids', message : Messages]
    BY <2>1, <2>3
  <2>5. client' \in [call : Calls \cup {None}, message : Messages \cup {None},
                     req : ids' \cup {None}, retry : {None} \cup [req : ids', message : Messages]]
    BY <2>2, <2>3, <2>4
  <2> QED BY <1>1, <1>2, <2>2, <2>3, <2>5 DEF ClientIsSound
<1>4. TypeOK'
  <2>1. ids' \subseteq Requests
    BY DEF IInv, TypeOK, Submit
  <2> QED BY <1>2, <1>3, <2>1 DEF IInv, TypeOK, HostInv, ClientIsSound, Submit
<1>5. DeliveredIsDurable'
  BY DEF IInv, DeliveredIsDurable, SaidWithin, Event, Submit, hostVars
<1> QED BY <1>2, <1>3, <1>4, <1>5 DEF IInv, HostInv

LEMMA OtherPostsKeeps ==
  ASSUME IInv, NEW c \in Calls, NEW request \in Others, OtherPosts(c, request)
  PROVE  IInv'
<1>1. HostInv' /\ \A d \in Calls : wire[d] # None => wire'[d] = wire[d]
  BY OthersAssumption, PostKeeps DEF OtherPosts, Others, Request
<1>2. ClientIsSound'
  <2>1. IsRunning => client.call \in Calls /\ wire[client.call] \in Request \cup {None}
    BY DEF IInv, ClientIsSound, IsRunning, TypeOK, HostTypeOK
  <2>2. IsRunning => wire[client.call] # None
    <3>1. IsRunning => client.message \in Messages /\ client.req \in Requests
      BY DEF IInv, ClientIsSound, TypeOK
    <3>2. IsRunning => [req |-> client.req, fp |-> client.message] \in Request
      BY <3>1 DEF Request
    <3> QED BY <3>2, NamesAssumption DEF IInv, ClientIsSound
  <2> QED BY <1>1, <2>1, <2>2 DEF IInv, ClientIsSound, IsRunning, OtherPosts
<1>3. TypeOK'
  BY <1>1 DEF IInv, TypeOK, HostInv, OtherPosts
<1>4. DeliveredIsDurable'
  BY DEF IInv, DeliveredIsDurable, SaidWithin, Event, OtherPosts, hostVars
<1> QED BY <1>1, <1>2, <1>3, <1>4 DEF IInv, HostInv

(* The browser hears of a call: only its own state changes.                *)
LEMMA HearKeeps ==
  ASSUME IInv, UNCHANGED <<wire, calls, lock, log, durable, drawn, ids>>,
         mishaps' \in 0..MaxMishaps,
         \E retry \in {None} \cup [req : ids, message : Messages] :
           client' = [NoClient EXCEPT !.retry = retry]
  PROVE  HostInv' /\ ClientIsSound' /\ (delivered' = delivered => IInv')
<1>1. HostInv'
  <2>1. HostTypeOK' /\ LogIsSound'
    BY DEF IInv, TypeOK, HostTypeOK, LogIsSound
  <2>2. CallsAreSound'
    BY DEF IInv, CallsAreSound, CallIsSound, Untold, ContextsOf, CommittedWithin, Holds,
       Context, Event
  <2> QED BY <2>1, <2>2 DEF HostInv
<1>2. ClientIsSound'
  <2>1. PICK retry \in {None} \cup [req : ids, message : Messages] :
          client' = [call |-> None, message |-> None, req |-> None, retry |-> retry]
    BY DEF NoClient
  <2> QED BY <2>1 DEF ClientIsSound, IsRunning
<1>3. ASSUME delivered' = delivered
      PROVE  TypeOK' /\ DeliveredIsDurable'
  <2>1. TypeOK'
    <3>1. /\ client'.call \in Calls \cup {None} /\ client'.message \in Messages \cup {None}
          /\ client'.req \in ids' \cup {None}
          /\ client'.retry = None \/ client'.retry.req \in ids'
      BY <1>2 DEF ClientIsSound
    <3> QED BY <1>1, <1>3, <3>1 DEF IInv, TypeOK, HostInv
  <2>2. DeliveredIsDurable'
    BY <1>3 DEF IInv, DeliveredIsDurable, SaidWithin, Event
  <2> QED BY <2>1, <2>2
<1> QED BY <1>1, <1>2, <1>3 DEF IInv, HostInv

LEMMA FailFacts ==
  ASSUME IInv, IsRunning, NEW locked, Fail(locked)
  PROVE  \E retry \in {None} \cup [req : ids, message : Messages] :
           client' = [NoClient EXCEPT !.retry = retry]
<1>1. client.req \in ids /\ client.message \in Messages
  BY DEF IInv, ClientIsSound
<1>2. [req |-> client.req, message |-> client.message] \in [req : ids, message : Messages]
  BY <1>1
<1> QED BY <1>2 DEF Fail

LEMMA FailureKeeps ==
  ASSUME IInv, ReceiveFailure \/ ConnectionBreaks \/ AnswerIsUnreadable \/ UserCancels
  PROVE  IInv'
<1>1. HostTypeOK /\ mishaps \in 0..MaxMishaps
  BY DEF IInv, TypeOK, HostTypeOK
<1>2. \E retry \in {None} \cup [req : ids, message : Messages] :
        client' = [NoClient EXCEPT !.retry = retry]
  BY FailFacts DEF ReceiveFailure, ConnectionBreaks, AnswerIsUnreadable, UserCancels
<1>3. mishaps' \in 0..MaxMishaps
  BY <1>1, MishapFacts DEF ReceiveFailure, ConnectionBreaks, AnswerIsUnreadable, UserCancels, hostVars
<1> QED BY <1>2, <1>3, HearKeeps DEF ReceiveFailure, ConnectionBreaks, AnswerIsUnreadable, UserCancels, hostVars

LEMMA SuccessKeeps ==
  ASSUME IInv, ReceiveSuccess
  PROVE  IInv'
<1> DEFINE c == client.call
           d == [message |-> client.message, turn |-> calls[client.call].turn]
<1>1. c \in Calls /\ calls[c] \in Call /\ CallIsSound(calls[c], c) /\ HostTypeOK
  BY DEF IInv, TypeOK, HostTypeOK, CallsAreSound, ReceiveSuccess, IsRunning
<1>2. /\ client.message \in Messages
      /\ wire[c] = [req |-> client.req, fp |-> client.message]
  BY DEF IInv, ClientIsSound, ReceiveSuccess
<1>3. calls[c].at = "done" /\ CommittedWithin(calls[c], durable) /\ calls[c].fp = wire[c].fp
  BY <1>1 DEF CallIsSound, ReceiveSuccess
<1>4. calls[c].fp = client.message
  BY <1>2, <1>3
<1>5. SaidWithin(d, durable) /\ d.turn \in Turns
  <2>1. PICK i, j \in 1..durable :
          /\ log[i] = Context(calls[c].req, calls[c].fp, calls[c].turn)
          /\ log[j] = Event("committed", calls[c].turn)
    BY <1>3 DEF CommittedWithin
  <2>2. log[i].type = "context" /\ log[i].turn = d.turn /\ log[i].fp = d.message
    BY <1>4, <2>1 DEF Context
  <2>3. log[i] \in LogEvent
    BY <1>1 DEF HostTypeOK
  <2> QED BY <2>1, <2>2, <2>3, ContextFacts DEF SaidWithin
<1>6. /\ UNCHANGED <<wire, calls, lock, log, durable, drawn, ids, mishaps>>
      /\ client' = NoClient /\ delivered' = delivered \cup {d}
  BY DEF ReceiveSuccess, hostVars
<1>7. HostInv' /\ ClientIsSound'
  <2>1. client' = [NoClient EXCEPT !.retry = None]
    BY <1>6 DEF NoClient
  <2> QED BY <1>1, <1>6, <2>1, HearKeeps DEF HostTypeOK
<1>8. DeliveredIsDurable'
  <2> SUFFICES ASSUME NEW e \in delivered'
               PROVE  SaidWithin(e, durable)'
    BY DEF DeliveredIsDurable
  <2>1. SaidWithin(e, durable)
    <3>1. e \in delivered \/ e = d
      BY <1>6
    <3>2. CASE e = d
      BY <1>5, <3>2
    <3>3. CASE e \in delivered
      BY <3>3 DEF IInv, DeliveredIsDurable
    <3> QED BY <3>1, <3>2, <3>3
  <2> QED BY <1>6, <2>1 DEF SaidWithin, Event
<1>9. TypeOK'
  <2>1. d \in [message : Messages, turn : Turns]
    BY <1>2, <1>5
  <2>2. delivered' \subseteq [message : Messages, turn : Turns]
    <3> HIDE DEF d
    <3> QED BY <1>6, <2>1 DEF IInv, TypeOK
  <2>3. ids' \subseteq Requests
    BY <1>6 DEF IInv, TypeOK
  <2> QED BY <1>6, <1>7, <2>2, <2>3 DEF TypeOK, HostInv, NoClient
<1> QED BY <1>7, <1>8, <1>9 DEF IInv, HostInv

LEMMA NextIInv ==
  ASSUME IInv, [DeliveryNext]_vars
  PROVE  IInv'
<1>1. CASE DeliveryNext
  BY <1>1, SubmitKeeps, OtherPostsKeeps, SuccessKeeps, FailureKeeps, HostStepKeepsIInv
     DEF DeliveryNext, ClientStep
<1>2. CASE UNCHANGED vars
  <2>1. UNCHANGED <<wire, calls, lock, log, durable, drawn, mishaps, client, ids, delivered>>
    BY <1>2 DEF vars, hostVars
  <2>2. TypeOK' /\ LogIsSound' /\ ClientIsSound' /\ DeliveredIsDurable'
    BY <2>1 DEF IInv, TypeOK, HostTypeOK, LogIsSound, ClientIsSound, IsRunning,
       DeliveredIsDurable, SaidWithin, Event
  <2>3. CallsAreSound'
    <3>1. \A c \in Calls : CallIsSound(calls[c], c)
      BY DEF IInv, CallsAreSound
    <3>2. \A c \in Calls : CallIsSound(calls[c], c)'
      BY <2>1, <3>1 DEF CallIsSound, Untold, ContextsOf, CommittedWithin, Holds, Context, Event
    <3> QED BY <3>2 DEF CallsAreSound
  <2> QED BY <2>2, <2>3 DEF IInv
<1> QED BY <1>1, <1>2

(* The inductive invariant.                                                *)
THEOREM Invariance == DeliverySpec => []IInv
BY InitIInv, NextIInv, PTL DEF DeliverySpec

(* Whatever calls race, are lost or are retried across crashes: a request  *)
(* id makes one turn, its Chat follows its commit in one piece, and what   *)
(* was acknowledged is durable.                                            *)
THEOREM RequestIdempotence == DeliverySpec => []RequestsAreWhole
<1>1. ASSUME IInv
      PROVE  RequestsAreWhole
  <2>1. WellTold(log) /\ TypeOK /\ CallsAreSound /\ log \in Seq(LogEvent)
    BY <1>1 DEF IInv, LogIsSound, TypeOK, HostTypeOK
  <2>2. \A type : Of(log, type) = Positions(type)
    BY DEF Of, Positions
  <2>3. OneTurnPerRequest
    BY <2>1, <2>2 DEF WellTold, OneTurnPerRequest
  <2>4. ChatIsWhole
    BY <2>1, <2>2 DEF WellTold, ChatIsWhole
  <2>5. AckedIsDurable
    BY <2>1 DEF CallsAreSound, CallIsSound, AckedIsDurable, CommittedWithin
  <2> QED BY <2>1, <2>3, <2>4, <2>5 DEF RequestsAreWhole
<1> QED BY <1>1, Invariance, PTL

(* What the browser shows as delivered is a committed turn of that very    *)
(* message, of no other message, and stays one through crashes.            *)
THEOREM DeliveredStaysSaid == DeliverySpec => []DeliveredIsSaid
<1>1. ASSUME IInv
      PROVE  DeliveredIsSaid
  <2>1. /\ WellTold(log) /\ durable \in 0..Len(log) /\ log \in Seq(LogEvent)
        /\ delivered \subseteq [message : Messages, turn : Turns]
    BY <1>1 DEF IInv, LogIsSound, TypeOK, HostTypeOK
  <2>2. ASSUME NEW d \in delivered
        PROVE  \E i \in Of(log, "context") :
                 /\ log[i].turn = d.turn /\ log[i].fp = d.message
                 /\ Holds(log, Event("committed", d.turn))
    <3>1. PICK i, j \in 1..durable :
            /\ log[i].type = "context" /\ log[i].turn = d.turn /\ log[i].fp = d.message
            /\ log[j] = Event("committed", d.turn)
      BY <1>1 DEF IInv, DeliveredIsDurable, SaidWithin
    <3>2. i \in DOMAIN log /\ j \in DOMAIN log
      BY <2>1
    <3> QED BY <3>1, <3>2 DEF Of, Holds
  <2>3. \A d \in delivered : d.turn \in TurnsOf(d.message)
    BY <2>2 DEF TurnsOf, Of, Positions
  <2>4. ASSUME NEW d \in delivered, NEW e \in delivered, d.turn = e.turn
        PROVE  d = e
    <3>1. d.message = e.message
      BY <2>1, <2>2, <2>4 DEF WellTold
    <3>2. d \in [message : Messages, turn : Turns] /\ e \in [message : Messages, turn : Turns]
      BY <2>1
    <3> QED BY <2>4, <3>1, <3>2
  <2> QED BY <2>3, <2>4 DEF DeliveredIsSaid
<1> QED BY <1>1, Invariance, PTL

-----------------------------------------------------------------------------
(* The API implements the register of request ids.                         *)
OutcomeOf(events, r) ==
  {events[i].turn : i \in {j \in DOMAIN events :
     /\ events[j].type = "context" /\ events[j].req = r
     /\ Holds(events, Event("committed", events[j].turn))}}
Outcome == [r \in Requests |-> CommittedTurn(r)]

LEMMA OutcomeMeans ==
  /\ Outcome = [r \in Requests |-> OutcomeOf(log, r)]
  /\ Outcome' = [r \in Requests |-> OutcomeOf(log', r)]
<1>1. \A r \in Requests : OutcomeOf(log, r) = CommittedTurn(r)
  BY DEF OutcomeOf, CommittedTurn, ContextsOf
<1>2. \A r \in Requests : OutcomeOf(log', r) = CommittedTurn(r)'
  BY DEF OutcomeOf, CommittedTurn, ContextsOf, Holds, Event
<1> QED BY <1>1, <1>2 DEF Outcome

LEMMA OneOutcome ==
  ASSUME NEW events, WellTold(events), NEW r,
         NEW t \in OutcomeOf(events, r), NEW u \in OutcomeOf(events, r)
  PROVE  t = u
BY DEF OutcomeOf, WellTold, Of

(* What changes the outcome of a request id: its commit, and a crash.      *)
LEMMA AppendKeepsOutcome ==
  ASSUME NEW events \in Seq(LogEvent), NEW e \in LogEvent, NEW r,
         \/ e.type \in {"aborted", "chat-start", "chat-end"}
         \/ e.type = "context" /\ \A i \in DOMAIN events : events[i].turn # e.turn
         \/ /\ e = Event("committed", e.turn)
            /\ \A i \in Of(events, "context") : events[i].turn = e.turn => events[i].req # r
  PROVE  OutcomeOf(Append(events, e), r) = OutcomeOf(events, r)
<1> DEFINE new == Append(events, e)
           n == Len(events) + 1
<1>1. /\ DOMAIN new = 1..n /\ DOMAIN events = 1..Len(events) /\ Len(events) \in Nat
      /\ new[n] = e /\ \A i \in DOMAIN events : new[i] = events[i]
  BY AppendFacts
<1>2. \A i \in DOMAIN new : i = n \/ (i \in DOMAIN events /\ new[i] = events[i])
  BY <1>1
<1>3. n \in DOMAIN new /\ DOMAIN events \subseteq DOMAIN new
  BY <1>1
<1> HIDE DEF new, n
<1>4. ASSUME NEW i \in DOMAIN events, events[i].type = "context", events[i].req = r
      PROVE  Holds(new, Event("committed", events[i].turn))
               <=> Holds(events, Event("committed", events[i].turn))
  <2>1. e # Event("committed", events[i].turn)
    BY <1>4 DEF Event, Of
  <2> QED BY <1>1, <1>2, <1>3, <2>1 DEF Holds
<1>5. ASSUME e.type = "context"
      PROVE  ~Holds(new, Event("committed", e.turn))
  BY <1>1, <1>2, <1>5 DEF Holds, Event
<1>6. ASSUME NEW t
      PROVE  t \in OutcomeOf(new, r) <=> t \in OutcomeOf(events, r)
  <2>1. ASSUME t \in OutcomeOf(events, r)
        PROVE  t \in OutcomeOf(new, r)
    <3>1. PICK i \in DOMAIN events :
            /\ events[i].type = "context" /\ events[i].req = r /\ events[i].turn = t
            /\ Holds(events, Event("committed", events[i].turn))
      BY <2>1 DEF OutcomeOf
    <3> QED BY <1>1, <1>3, <1>4, <3>1 DEF OutcomeOf
  <2>2. ASSUME t \in OutcomeOf(new, r)
        PROVE  t \in OutcomeOf(events, r)
    <3>1. PICK i \in DOMAIN new :
            /\ new[i].type = "context" /\ new[i].req = r /\ new[i].turn = t
            /\ Holds(new, Event("committed", new[i].turn))
      BY <2>2 DEF OutcomeOf
    <3>2. i \in DOMAIN events /\ new[i] = events[i]
      BY <1>1, <1>2, <1>5, <3>1
    <3> QED BY <1>4, <3>1, <3>2 DEF OutcomeOf
  <2> QED BY <2>1, <2>2
<1> QED BY <1>6 DEF new

LEMMA CommitGivesOutcome ==
  ASSUME NEW events \in Seq(LogEvent), WellTold(events), NEW r \in Requests, NEW m, NEW t \in Turns,
         Holds(events, Context(r, m, t)), ~Holds(events, Event("committed", t))
  PROVE  LET new == Append(events, Event("committed", t)) IN
         /\ OutcomeOf(events, r) = {} /\ OutcomeOf(new, r) = {t}
         /\ \A q : q # r => OutcomeOf(new, q) = OutcomeOf(events, q)
<1> DEFINE e == Event("committed", t)
           new == Append(events, e)
           n == Len(events) + 1
<1>1. e \in LogEvent /\ e.type = "committed" /\ e.turn = t
  BY EventFacts
<1>2. /\ DOMAIN new = 1..n /\ DOMAIN events = 1..Len(events) /\ Len(events) \in Nat
      /\ new[n] = e /\ \A i \in DOMAIN events : new[i] = events[i]
  BY <1>1, AppendFacts
<1>3. \A i \in DOMAIN new : i = n \/ (i \in DOMAIN events /\ new[i] = events[i])
  BY <1>2
<1>4. n \in DOMAIN new /\ DOMAIN events \subseteq DOMAIN new
  BY <1>2
<1>5. PICK k \in DOMAIN events :
        events[k].type = "context" /\ events[k].turn = t /\ events[k].req = r
  BY DEF Holds, Context
<1>6. \A q : q # r => OutcomeOf(new, q) = OutcomeOf(events, q)
  <2> SUFFICES ASSUME NEW q, q # r
               PROVE  OutcomeOf(new, q) = OutcomeOf(events, q)
    OBVIOUS
  <2>1. \A i \in Of(events, "context") : events[i].turn = t => events[i].req # q
    BY <1>5 DEF WellTold, Of
  <2> QED BY <1>1, <2>1, AppendKeepsOutcome
<1>7. OutcomeOf(events, r) = {}
  BY <1>5 DEF OutcomeOf, WellTold, Of
<1>8. OutcomeOf(new, r) = {t}
  <2> HIDE DEF new, n, e
  <2>1. t \in OutcomeOf(new, r)
    BY <1>2, <1>4, <1>5 DEF OutcomeOf, Holds, e
  <2>2. ASSUME NEW u \in OutcomeOf(new, r)
        PROVE  u = t
    <3>1. PICK i \in DOMAIN new : new[i].type = "context" /\ new[i].req = r /\ new[i].turn = u
      BY DEF OutcomeOf
    <3>2. i \in DOMAIN events /\ new[i] = events[i]
      BY <1>1, <1>2, <1>3, <3>1
    <3> QED BY <1>5, <3>1, <3>2 DEF WellTold, Of
  <2> QED BY <2>1, <2>2
<1> QED BY <1>6, <1>7, <1>8

LEMMA PrefixLosesOutcome ==
  ASSUME NEW events \in Seq(LogEvent), NEW n \in 0..Len(events), NEW r
  PROVE  OutcomeOf(SubSeq(events, 1, n), r) \subseteq OutcomeOf(events, r)
<1> DEFINE new == SubSeq(events, 1, n)
<1>1. \A i \in DOMAIN new : i \in DOMAIN events /\ new[i] = events[i]
  BY PrefixFacts
<1> HIDE DEF new
<1>2. ASSUME NEW t \in OutcomeOf(new, r)
      PROVE  t \in OutcomeOf(events, r)
  BY <1>1 DEF OutcomeOf, Holds
<1> QED BY <1>2 DEF new

(* Who has been told of a turn: nothing but a response changes it.         *)
LEMMA AckKeeps ==
  ASSUME calls \in [Calls -> Call],
         \A d \in Calls : calls[d].reply = "ok" \/ calls'[d].reply = "ok" => calls'[d] = calls[d]
  PROVE  Acknowledged' = Acknowledged
BY DEF Acknowledged

LEMMA AnswerAcks ==
  ASSUME IInv, NEW c \in Calls, calls[c].at # "done",
         NEW new, calls' = [calls EXCEPT ![c] = new], new.reply # "ok"
  PROVE  Acknowledged' = Acknowledged
<1>1. calls \in [Calls -> Call] /\ calls[c].reply # "ok"
  BY DEF IInv, TypeOK, HostTypeOK, CallsAreSound, CallIsSound
<1>2. \A d \in Calls : calls[d].reply = "ok" \/ calls'[d].reply = "ok" => calls'[d] = calls[d]
  BY <1>1
<1> QED BY <1>1, <1>2, AckKeeps

Stutters == Outcome' = Outcome /\ Acknowledged' = Acknowledged

(* Before a turn opens, and after a call has been refused, nothing has     *)
(* been said of it.                                                        *)
LEMMA QuietCallStutters ==
  ASSUME IInv, NEW c \in Calls,
         \/ Replay(c) \/ Refuse(c) \/ Deny(c) \/ Enter(c) \/ IngestFails(c)
         \/ TurnAbortIsLost(c) \/ FlushFails(c) \/ ResponseFails(c)
  PROVE  Stutters
<1>1. log' = log /\ calls[c].at # "done" /\ HostTypeOK
  BY DEF IInv, TypeOK, Replay, Refuse, Deny, Enter, IngestFails, TurnAbortIsLost, FlushFails,
     ResponseFails, Arrived, At, Flushed
<1>2. Outcome' = Outcome
  BY <1>1, OutcomeMeans
<1>3. calls[c] \in Call /\ calls[c].reply # "ok" /\ None # "ok"
  BY <1>1, NamesAssumption DEF IInv, HostTypeOK, CallsAreSound, CallIsSound
<1>4. CASE Replay(c) \/ Enter(c)
  <2>1. PICK new : calls' = [calls EXCEPT ![c] = new] /\ new.reply # "ok"
    BY <1>3, <1>4 DEF Replay, Enter, New, Idle
  <2> QED BY <1>1, <1>2, <2>1, AnswerAcks DEF Stutters
<1>5. CASE Refuse(c)
  <2>1. PICK reply : reply = Refusal(wire[c].req, wire[c].fp)
    OBVIOUS
  <2>2. reply \in {"BUSY", "CONFLICT"}
    BY <1>5, <2>1 DEF Refuse, Refusal
  <2>3. PICK new : new = Done(New(c, "done"), reply)
    OBVIOUS
  <2>4. new.reply # "ok"
    BY <2>2, <2>3 DEF Done, New, Idle
  <2> QED BY <1>1, <1>2, <1>5, <2>1, <2>3, <2>4, AnswerAcks DEF Stutters, Refuse
<1>6. CASE Deny(c)
  <2>1. PICK new : new = Done(New(c, "done"), "failed")
    OBVIOUS
  <2>2. new.reply # "ok"
    BY <2>1 DEF Done, New, Idle
  <2> QED BY <1>1, <1>2, <1>6, <2>1, <2>2, AnswerAcks DEF Stutters, Deny
<1>7. CASE IngestFails(c) \/ TurnAbortIsLost(c) \/ FlushFails(c) \/ ResponseFails(c)
  <2>1. PICK reply \in {"failed", "DURABILITY"} : calls' = [calls EXCEPT ![c] = Done(@, reply)]
    BY <1>7 DEF IngestFails, TurnAbortIsLost, FlushFails, ResponseFails, Answer
  <2>2. PICK new : new = Done(calls[c], reply)
    OBVIOUS
  <2>3. new.reply # "ok"
    BY <1>3, <2>1, <2>2 DEF Done, Call
  <2> QED BY <1>1, <1>2, <2>1, <2>2, <2>3, AnswerAcks DEF Stutters
<1> QED BY <1>4, <1>5, <1>6, <1>7

(* A turn that opens, aborts or is projected changes no outcome either.    *)
LEMMA TurnStutters ==
  ASSUME IInv, NEW c \in Calls,
         (\E t \in Turns : TurnOpens(c, t)) \/ TurnAborts(c) \/ ProjectChat(c) \/ ChatFails(c)
  PROVE  Stutters
<1>1. HostInv /\ log \in Seq(LogEvent) /\ calls[c].at \in InPhase
  BY DEF IInv, TypeOK, HostInv, HostTypeOK, TurnOpens, TurnAborts, ProjectChat, ChatFails,
     At, InPhase
<1>2. calls[c] \in Call /\ calls[c].at # "done" /\ calls[c].reply # "ok"
  BY <1>1, PhaseFacts DEF InPhase
<1>3. Acknowledged' = Acknowledged
  <2>1. PICK new : calls' = [calls EXCEPT ![c] = new] /\ new.reply # "ok"
    <3>1. CASE \E t \in Turns : TurnOpens(c, t)
      <4>1. PICK t \in Turns : TurnOpens(c, t)
        BY <3>1
      <4>2. PICK new : new = [calls[c] EXCEPT !.at = "running", !.turn = t]
        OBVIOUS
      <4>3. new.reply # "ok"
        BY <1>2, <4>2 DEF Call
      <4> QED BY <4>1, <4>2, <4>3 DEF TurnOpens
    <3>2. CASE TurnAborts(c) \/ ChatFails(c)
      <4>1. PICK new : new = Done(calls[c], "failed")
        OBVIOUS
      <4>2. new.reply # "ok"
        BY <1>2, <4>1 DEF Call, Done
      <4> QED BY <3>2, <4>1, <4>2 DEF TurnAborts, ChatFails, Answer
    <3>3. CASE ProjectChat(c)
      <4>1. PICK n, new : n = Len(log') /\ new = [calls[c] EXCEPT !.at = "flushing", !.mark = n]
        OBVIOUS
      <4>2. new.reply # "ok"
        BY <1>2, <4>1 DEF Call
      <4> QED BY <3>3, <4>1, <4>2 DEF ProjectChat
    <3> QED BY <3>1, <3>2, <3>3
  <2> QED BY <1>2, <2>1, AnswerAcks
<1>4. \A r \in Requests : OutcomeOf(log', r) = OutcomeOf(log, r)
  <2> SUFFICES ASSUME NEW r \in Requests
               PROVE  OutcomeOf(log', r) = OutcomeOf(log, r)
    OBVIOUS
  <2>1. CASE \E t \in Turns : TurnOpens(c, t)
    <3>1. PICK t \in Turns : TurnOpens(c, t)
      BY <2>1
    <3>2. calls[c].req \in Requests /\ calls[c].fp \in Messages
      BY <1>1, PhaseFacts
    <3>3. PICK e \in LogEvent :
            e = Context(calls[c].req, calls[c].fp, t) /\ e.type = "context" /\ e.turn = t
      BY <3>2, EventFacts
    <3>4. \A i \in DOMAIN log : log[i].turn # e.turn
      BY <3>1, <3>3 DEF IInv, LogIsSound, TurnOpens
    <3> QED BY <1>1, <3>1, <3>3, <3>4, AppendKeepsOutcome DEF TurnOpens
  <2>2. CASE TurnAborts(c)
    <3>1. calls[c].turn \in Turns
      BY <1>1, <2>2, PhaseFacts DEF TurnAborts
    <3>2. PICK e \in LogEvent : e = Event("aborted", calls[c].turn) /\ e.type = "aborted"
      BY <3>1, EventFacts
    <3> QED BY <1>1, <2>2, <3>2, AppendKeepsOutcome DEF TurnAborts
  <2>3. CASE ProjectChat(c) \/ ChatFails(c)
    <3>1. calls[c].turn \in Turns
      BY <1>1, <2>3, PhaseFacts DEF ProjectChat, ChatFails
    <3>2. PICK a \in LogEvent : a = Event("chat-start", calls[c].turn) /\ a.type = "chat-start"
      BY <3>1, EventFacts
    <3>3. PICK z \in LogEvent : z = Event("chat-end", calls[c].turn) /\ z.type = "chat-end"
      BY <3>1, EventFacts
    <3>4. Append(log, a) \in Seq(LogEvent)
      BY <1>1
    <3>5. OutcomeOf(Append(log, a), r) = OutcomeOf(log, r)
      BY <1>1, <3>2, AppendKeepsOutcome
    <3>6. OutcomeOf(Append(Append(log, a), z), r) = OutcomeOf(log, r)
      BY <3>3, <3>4, <3>5, AppendKeepsOutcome
    <3>7. log' \in {log, Append(log, a), Append(Append(log, a), z)}
      BY <1>1, <2>3, <3>2, <3>3 DEF ProjectChat, ChatFails, ChatEvents
    <3> QED BY <3>5, <3>6, <3>7
  <2> QED BY <2>1, <2>2, <2>3
<1> QED BY <1>3, <1>4, OutcomeMeans DEF Stutters

(* A commit is one of the register, for a request id that had none.        *)
LEMMA CommitRefines ==
  ASSUME IInv, NEW c \in Calls, TurnCommits(c)
  PROVE  Register!Next
<1> DEFINE r == calls[c].req
           t == calls[c].turn
<1>1. HostInv /\ log \in Seq(LogEvent) /\ WellTold(log) /\ calls[c].at = "running"
  BY DEF IInv, TypeOK, HostInv, HostTypeOK, LogIsSound, TurnCommits, At
<1>2. calls[c] \in Call /\ calls[c].reply # "ok" /\ r \in Requests /\ t \in Turns
  BY <1>1, PhaseFacts DEF InPhase, At
<1>3. Holds(log, Context(r, calls[c].fp, t)) /\ ~Holds(log, Event("committed", t))
  BY <1>1 DEF HostInv, CallsAreSound, CallIsSound, Untold
<1>4. log' = Append(log, Event("committed", t))
  BY DEF TurnCommits
<1>5. /\ OutcomeOf(log, r) = {} /\ OutcomeOf(log', r) = {t}
      /\ \A q : q # r => OutcomeOf(log', q) = OutcomeOf(log, q)
  BY <1>1, <1>2, <1>3, <1>4, CommitGivesOutcome
<1>6. Outcome[r] = {} /\ Outcome' = [Outcome EXCEPT ![r] = {t}]
  <2> HIDE DEF r, t
  <2> QED BY <1>2, <1>5, OutcomeMeans
<1>7. Acknowledged' = Acknowledged
  <2>1. PICK new : new = [calls[c] EXCEPT !.at = "committed"]
    OBVIOUS
  <2>2. new.reply # "ok"
    BY <1>2, <2>1 DEF Call
  <2> QED BY <1>1, <2>1, <2>2, AnswerAcks DEF TurnCommits
<1>8. Register!Commit(r, t)
  BY <1>6, <1>7 DEF Register!Commit, Outcome
<1> QED BY <1>2, <1>8 DEF Register!Next

(* A response acknowledges the one turn that the request id committed.     *)
LEMMA RespondRefines ==
  ASSUME IInv, NEW c \in Calls, Respond(c)
  PROVE  Register!Next
<1> DEFINE r == calls[c].req
           t == calls[c].turn
<1>1. HostInv /\ log \in Seq(LogEvent) /\ WellTold(log) /\ durable \in 0..Len(log)
  BY DEF IInv, TypeOK, HostInv, HostTypeOK, LogIsSound
<1>2. PICK i, j \in 1..durable :
        log[i] = Context(r, calls[c].fp, t) /\ log[j] = Event("committed", t)
  BY <1>1, FlushedFacts DEF Respond, CommittedWithin
<1>3. i \in DOMAIN log /\ j \in DOMAIN log /\ log[i] \in LogEvent
  BY <1>1
<1>4. log[i].type = "context" /\ log[i].turn = t /\ log[i].req = r
  BY <1>2 DEF Context
<1>5. r \in Requests /\ t \in Turns
  BY <1>3, <1>4, ContextFacts
<1>6. t \in OutcomeOf(log, r)
  BY <1>2, <1>3, <1>4 DEF OutcomeOf, Holds
<1>7. OutcomeOf(log, r) = {t}
  BY <1>1, <1>6, OneOutcome
<1>8. Outcome[r] = {t} /\ Outcome' = Outcome
  <2>1. log' = log
    BY DEF Respond
  <2> HIDE DEF r, t
  <2> QED BY <1>5, <1>7, <2>1, OutcomeMeans
<1>9. Acknowledged' = Acknowledged \cup {<<r, t>>}
  <2>1. calls \in [Calls -> Call] /\ calls[c].at = "flushing"
    BY <1>1 DEF HostInv, HostTypeOK, Respond, Flushed, At
  <2>2. PICK new : new = Done(calls[c], "ok")
    OBVIOUS
  <2>3. new.reply = "ok" /\ new.req = r /\ new.turn = t
    BY <2>1, <2>2 DEF Done, Call
  <2>4. calls' = [calls EXCEPT ![c] = new]
    BY <2>2 DEF Respond, Answer
  <2>5. \A d \in Calls : calls'[d] = IF d = c THEN new ELSE calls[d]
    BY <2>1, <2>4
  <2>6. calls[c].reply # "ok"
    BY <1>1, <2>1 DEF HostInv, CallsAreSound, CallIsSound
  <2> HIDE DEF r, t
  <2> QED BY <2>3, <2>5, <2>6 DEF Acknowledged, r, t
<1>10. Register!Acknowledge(r, t)
  BY <1>8, <1>9 DEF Register!Acknowledge, Outcome
<1> QED BY <1>5, <1>10 DEF Register!Next

(* A crash loses outcomes that nobody has been told of.                    *)
LEMMA CrashRefines ==
  ASSUME IInv, Crash
  PROVE  Register!Next
<1> DEFINE S == {r \in Requests : OutcomeOf(log', r) = {}}
<1>1. /\ HostTypeOK /\ CallsAreSound /\ log \in Seq(LogEvent) /\ WellTold(log)
      /\ durable \in 0..Len(log) /\ calls \in [Calls -> Call]
  BY DEF IInv, TypeOK, HostTypeOK, LogIsSound
<1>2. \A r \in Requests : OutcomeOf(log', r) \subseteq OutcomeOf(log, r)
  BY <1>1, PrefixLosesOutcome DEF Crash
<1>3. \A r \in Requests : r \notin S => OutcomeOf(log', r) = OutcomeOf(log, r)
  <2> SUFFICES ASSUME NEW r \in Requests, r \notin S
               PROVE  OutcomeOf(log, r) \subseteq OutcomeOf(log', r)
    BY <1>2
  <2>1. PICK t : t \in OutcomeOf(log', r)
    OBVIOUS
  <2>2. t \in OutcomeOf(log, r)
    BY <1>2, <2>1
  <2> HIDE DEF S
  <2> QED BY <1>1, <2>1, <2>2, OneOutcome
<1>4. Outcome' = [r \in Requests |-> IF r \in S THEN {} ELSE Outcome[r]]
  BY <1>3, OutcomeMeans
<1>5. ASSUME NEW c \in Calls, calls[c].reply = "ok"
      PROVE  calls'[c] = calls[c] /\ calls[c].req \notin S
  <2>1. calls[c].at = "done" /\ CommittedWithin(calls[c], durable)
    BY <1>1, <1>5 DEF CallsAreSound, CallIsSound
  <2>2. PICK i, j \in 1..durable :
          /\ log[i] = Context(calls[c].req, calls[c].fp, calls[c].turn)
          /\ log[j] = Event("committed", calls[c].turn)
    BY <2>1 DEF CommittedWithin
  <2>3. DOMAIN log' = 1..durable /\ \A k \in 1..durable : log'[k] = log[k]
    BY <1>1, PrefixFacts DEF Crash
  <2>4. calls[c].turn \in OutcomeOf(log', calls[c].req)
    BY <2>2, <2>3 DEF OutcomeOf, Holds, Context
  <2> QED BY <1>1, <2>1, <2>4 DEF Crash, At
<1>6. Acknowledged' = Acknowledged
  <2>1. \A c \in Calls : calls'[c].reply = "ok" => calls[c].reply = "ok"
    BY <1>1 DEF Crash, At, Call
  <2> QED BY <1>1, <1>5, <2>1, AckKeeps
<1>7. \A a \in Acknowledged : a[1] \notin S
  BY <1>5 DEF Acknowledged
<1>8. S \in SUBSET Requests
  OBVIOUS
<1>9. Register!Lose(S)
  <2> HIDE DEF S
  <2> QED BY <1>4, <1>6, <1>7 DEF Register!Lose, Outcome
<1> QED BY <1>8, <1>9 DEF Register!Next

LEMMA StepRefines ==
  ASSUME IInv, [DeliveryNext]_vars
  PROVE  Register!Next \/ Stutters
<1>1. ASSUME HostStep
      PROVE  Register!Next \/ Stutters
  <2>1. CASE \E c \in Calls : CallStep(c)
    BY <2>1, QuietCallStutters, TurnStutters, CommitRefines, RespondRefines DEF CallStep
  <2>2. CASE Persist \/ AgentWorks
    BY <2>2, OutcomeMeans DEF Persist, AgentWorks, Stutters, Acknowledged
  <2>3. CASE Crash
    BY <2>3, CrashRefines
  <2> QED BY <1>1, <2>1, <2>2, <2>3 DEF HostStep
<1>2. ASSUME UNCHANGED <<calls, log>>
      PROVE  Stutters
  BY <1>2, OutcomeMeans DEF Stutters, Acknowledged
<1>3. DeliveryNext => HostStep \/ UNCHANGED <<calls, log>>
  BY DEF DeliveryNext, Submit, OtherPosts, ClientStep, ReceiveSuccess, ReceiveFailure,
     ConnectionBreaks, AnswerIsUnreadable, UserCancels, hostVars
<1>4. UNCHANGED vars => UNCHANGED <<calls, log>>
  BY DEF vars, hostVars
<1> QED BY <1>1, <1>2, <1>3, <1>4

LEMMA InitRefines ==
  ASSUME DeliveryInit
  PROVE  Register!Init
<1>1. Outcome = [r \in Requests |-> {}]
  <2>1. \A r \in Requests : OutcomeOf(log, r) = {}
    BY DEF DeliveryInit, Init, OutcomeOf
  <2> QED BY <2>1, OutcomeMeans
<1>2. Acknowledged = {}
  BY NamesAssumption DEF DeliveryInit, Init, Acknowledged, Idle
<1> QED BY <1>1, <1>2 DEF Register!Init, Outcome

(* The Turn API implements the register of request ids: an id commits at   *)
(* most one turn, an answer names that turn, and what has been answered is *)
(* never lost.                                                             *)
THEOREM RegisterRefinement == DeliverySpec => ImplementsRegister
<1>1. IInv /\ [DeliveryNext]_vars
        => [Register!Next]_<<[r \in Requests |-> CommittedTurn(r)], Acknowledged>>
  BY StepRefines DEF Stutters, Outcome
<1> QED BY <1>1, InitRefines, Invariance, PTL
        DEF DeliverySpec, ImplementsRegister, Register!Spec
=============================================================================
