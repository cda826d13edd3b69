----------------------------- MODULE MemoryStore -----------------------------
(***************************************************************************)
(* packages/rp/memory-basic with packages/rp/memory-durable below it: a    *)
(* live projection of memory facts per scope, a table that outlives the    *)
(* process, and registered scorers that rank the facts of a search.        *)
(*                                                                         *)
(* The durable store runs its jobs one after the other; a load waits for   *)
(* the jobs before it, so it is a job of the chain that takes no time.  A  *)
(* fact is a record [id, content]; a scope has its whole parent chain in   *)
(* its identity and is one value here.                                     *)
(***************************************************************************)
EXTENDS Naturals, FiniteSets, FiniteSetsExt, SequencesExt

CONSTANTS
  None,
  MemoryScopes, Facts,
  PlainFacts,        \* facts that a caller appends past the durable store
  MemoryCallers,
  Scorers,           \* [id, priority, score: Facts -> a number or None]
  EventLimit, HitLimit,
  MaxCalls, MaxStoreFaults

VARIABLES
  durable, live,     \* scope -> set of facts
  hydrated,          \* scopes loaded once
  loading,           \* scopes whose load is under way: hydrate() calls share it
  chain,             \* the jobs of the durable store
  call,              \* caller -> what it waits for, or None
  scorers,           \* the registered scorers
  plain, accepted,   \* <<scope, fact>> appended past the store; answered as durable
  found,             \* caller -> the last search: [scope, owed, hits], or None
  calls, faults

msVars == <<durable, live, hydrated, loading, chain, call, scorers, plain, accepted, found, calls, faults>>

Init ==
  /\ durable = [s \in MemoryScopes |-> {}] /\ live = durable
  /\ hydrated = {} /\ loading = {} /\ chain = <<>>
  /\ call = [c \in MemoryCallers |-> None]
  /\ scorers = {} /\ plain = {} /\ accepted = {}
  /\ found = [c \in MemoryCallers |-> None]
  /\ calls = 0 /\ faults = 0

-----------------------------------------------------------------------------
Holds(facts, id) == \E f \in facts : f.id = id
(* assertSameEvent(): one id never stands for two contents.                  *)
SameEvent(facts, fact) == \A f \in facts : f.id = fact.id => f = fact
(* insert(): what the live projection becomes, or None when it refuses.      *)
Inserted(facts, fact) ==
  IF ~SameEvent(facts, fact) THEN None
  ELSE IF Holds(facts, fact.id) THEN facts
  ELSE IF Cardinality(facts) >= EventLimit THEN None
  ELSE facts \cup {fact}
(* mergeLoadedEvents(): all of the loaded facts or none of them.             *)
Merged(facts, loaded) ==
  IF \/ Cardinality(facts) + Cardinality(loaded) > EventLimit
     \/ \E f \in loaded : ~SameEvent(facts, f)
  THEN None ELSE facts \cup loaded

(* searchEvents(): ranked by the chosen scorer, cut at the limit.            *)
Ranked(facts, score) ==
  SetToSortSeq({f \in facts : score[f] # None},
               LAMBDA f, g : \/ score[f] > score[g]
                             \/ (score[f] = score[g] /\ f.createdAt > g.createdAt)
                             \/ (score[f] = score[g] /\ f.createdAt = g.createdAt /\ f.rank < g.rank))
Taken(ranked) ==
  LET fits == {n \in 0..Min({Len(ranked), HitLimit.hits}) :
                 FoldLeft(LAMBDA sum, f : sum + f.size, 0, SubSeq(ranked, 1, n)) <= HitLimit.characters}
  IN  SubSeq(ranked, 1, Max(fits))
(* selectRetriever() without an explicit id.                                 *)
Chosen ==
  CHOOSE s \in scorers : \A t \in scorers : s.priority > t.priority \/ (s.priority = t.priority /\ s.rank <= t.rank)
Hits(facts) == ToSet(Taken(Ranked(facts, Chosen.score)))

-----------------------------------------------------------------------------
RegisterRetriever(s) ==
  /\ ~\E t \in scorers : t.id = s.id
  /\ scorers' = scorers \cup {s}
  /\ UNCHANGED <<durable, live, hydrated, loading, chain, call, plain, accepted, found, calls, faults>>
DisposeRetriever(s) ==
  /\ s \in scorers /\ scorers' = scorers \ {s}
  /\ UNCHANGED <<durable, live, hydrated, loading, chain, call, plain, accepted, found, calls, faults>>

Begins(c, waits, job) ==
  /\ call[c] = None /\ calls < MaxCalls /\ calls' = calls + 1
  /\ call' = [call EXCEPT ![c] = waits]
  /\ chain' = chain \o job
  /\ found' = [found EXCEPT ![c] = None]

(* append(): live at once, never durable.                                    *)
Append_(scope, fact) ==
  /\ calls < MaxCalls /\ calls' = calls + 1
  /\ Inserted(live[scope], fact) # None
  /\ live' = [live EXCEPT ![scope] = Inserted(@, fact)]
  /\ plain' = IF fact \in live[scope] THEN plain ELSE plain \cup {<<scope, fact>>}
  /\ UNCHANGED <<durable, hydrated, loading, chain, call, scorers, accepted, found, faults>>

(* appendDurable() up to the store's put.                                    *)
AppendDurable(c, scope, fact) ==
  /\ SameEvent(live[scope], fact)
  /\ Begins(c, [op |-> "append", scope |-> scope, fact |-> fact],
            <<[op |-> "append", scope |-> scope, fact |-> fact, by |-> c]>>)
  /\ UNCHANGED <<durable, live, hydrated, loading, scorers, plain, accepted, faults>>
ReleaseDurable(c, scope) ==
  /\ Begins(c, [op |-> "release", scope |-> scope, fact |-> None],
            <<[op |-> "release", scope |-> scope, fact |-> None, by |-> c]>>)
  /\ UNCHANGED <<durable, live, hydrated, loading, scorers, plain, accepted, faults>>

(* rp.memory.search: hydrate(), which loads a scope once and shares a load   *)
(* that is under way, then a search of the projection.                       *)
Search(c, scope) ==
  /\ scorers # {}
  /\ Begins(c, [op |-> "search", scope |-> scope, fact |-> None],
            IF scope \in hydrated \cup loading THEN <<>>
            ELSE <<[op |-> "load", scope |-> scope, fact |-> None, by |-> None]>>)
  /\ loading' = IF scope \in hydrated THEN loading ELSE loading \cup {scope}
  /\ UNCHANGED <<durable, live, hydrated, scorers, plain, accepted, faults>>

-----------------------------------------------------------------------------
Job(op) == chain # <<>> /\ Head(chain).op = op
Waiting(scope) == {c \in MemoryCallers : call[c] # None /\ call[c].op = "search" /\ call[c].scope = scope}

(* The load reads the table and merges it into the projection; a refusal     *)
(* fails every hydrate() that shares it, and a later one loads again.        *)
Load ==
  /\ Job("load") /\ chain' = Tail(chain)
  /\ LET scope == Head(chain).scope
         merged == Merged(live[scope], durable[scope])
     IN  /\ loading' = loading \ {scope}
         /\ IF merged = None
            THEN /\ call' = [c \in MemoryCallers |-> IF c \in Waiting(scope) THEN None ELSE call[c]]
                 /\ UNCHANGED <<live, hydrated>>
            ELSE /\ live' = [live EXCEPT ![scope] = merged]
                 /\ hydrated' = hydrated \cup {scope}
                 /\ UNCHANGED call
  /\ UNCHANGED <<durable, scorers, plain, accepted, found, calls, faults>>

SearchAnswers(c) ==
  /\ call[c] # None /\ call[c].op = "search" /\ call[c].scope \notin loading
  /\ LET scope == call[c].scope
     IN  found' = [found EXCEPT ![c] =
           IF scorers = {} THEN None
           ELSE [scope |-> scope, owed |-> Hits(live[scope] \cup {f \in durable[scope] : <<scope, f>> \in accepted}), hits |-> Hits(live[scope])]]
  /\ call' = [call EXCEPT ![c] = None]
  /\ UNCHANGED <<durable, live, hydrated, loading, chain, scorers, plain, accepted, calls, faults>>

(* The store's job: an identical fact is answered, another content refused,  *)
(* a new fact put; then appendDurable() publishes it.                        *)
Published(scope, fact) ==
  /\ live' = [live EXCEPT ![scope] = IF Inserted(@, fact) = None THEN @ ELSE Inserted(@, fact)]
  /\ accepted' = IF Inserted(live[scope], fact) = None THEN accepted ELSE accepted \cup {<<scope, fact>>}
(* Slip: the fact is published although the put failed.                      *)
SlipAppendFails(scope, fact) == Published(scope, fact)
AppendFails(scope, fact) == UNCHANGED <<live, accepted>>
RunAppend ==
  /\ Job("append") /\ chain' = Tail(chain)
  /\ LET scope == Head(chain).scope
         fact == Head(chain).fact
     IN  \/ /\ Holds(durable[scope], fact.id) /\ fact \notin durable[scope]
            /\ UNCHANGED <<durable, live, accepted, faults>>
         \/ /\ SameEvent(durable[scope], fact)
            /\ durable' = [durable EXCEPT ![scope] = @ \cup {fact}]
            /\ Published(scope, fact) /\ UNCHANGED faults
         \/ /\ ~Holds(durable[scope], fact.id) /\ faults < MaxStoreFaults /\ faults' = faults + 1
            /\ AppendFails(scope, fact) /\ UNCHANGED durable
  /\ call' = [call EXCEPT ![Head(chain).by] = None]
  /\ UNCHANGED <<hydrated, loading, scorers, plain, found, calls>>

(* release(): the facts of a scope are deleted one by one; only when all are *)
(* gone does releaseDurable() drop the projection.                           *)
DeleteOne ==
  /\ Job("release")
  /\ LET scope == Head(chain).scope
     IN  /\ durable[scope] # {}
         /\ \E f \in durable[scope] :
              /\ durable' = [durable EXCEPT ![scope] = @ \ {f}]
              /\ accepted' = accepted \ {<<scope, f>>}
              /\ IF durable[scope] = {f}
                 THEN /\ live' = [live EXCEPT ![scope] = {}]
                      /\ hydrated' = hydrated \ {scope}
                      /\ plain' = {p \in plain : p[1] # scope}
                      /\ chain' = Tail(chain)
                      /\ call' = [call EXCEPT ![Head(chain).by] = None]
                 ELSE UNCHANGED <<live, hydrated, plain, chain, call>>
  /\ UNCHANGED <<loading, scorers, found, calls, faults>>
(* Nothing is stored, or a deletion fails: the projection stays.             *)
ReleaseEnds ==
  /\ Job("release") /\ chain' = Tail(chain)
  /\ \/ durable[Head(chain).scope] = {} /\ UNCHANGED faults
     \/ durable[Head(chain).scope] # {} /\ faults < MaxStoreFaults /\ faults' = faults + 1
  /\ call' = [call EXCEPT ![Head(chain).by] = None]
  /\ UNCHANGED <<durable, live, hydrated, loading, scorers, plain, accepted, found, calls>>

Crash ==
  /\ faults < MaxStoreFaults /\ faults' = faults + 1
  /\ live' = [s \in MemoryScopes |-> {}] /\ hydrated' = {} /\ loading' = {} /\ chain' = <<>>
  /\ call' = [c \in MemoryCallers |-> None] /\ plain' = {}
  /\ found' = [c \in MemoryCallers |-> None]
  /\ scorers' = {}
  /\ UNCHANGED <<durable, accepted, calls>>

Next ==
  \/ \E s \in Scorers : RegisterRetriever(s) \/ DisposeRetriever(s)
  \/ \E scope \in MemoryScopes, fact \in PlainFacts : Append_(scope, fact)
  \/ \E c \in MemoryCallers, scope \in MemoryScopes :
       ReleaseDurable(c, scope) \/ Search(c, scope) \/ \E fact \in Facts : AppendDurable(c, scope, fact)
  \/ \E c \in MemoryCallers : SearchAnswers(c)
  \/ Load \/ RunAppend \/ DeleteOne \/ ReleaseEnds \/ Crash
Spec == Init /\ [][Next]_msVars

-----------------------------------------------------------------------------
Releasing(scope) == Job("release") /\ Head(chain).scope = scope

(* An accepted fact survives until a release deletes it; what the process    *)
(* shows was appended past the store or is durable, unless a release of the  *)
(* scope got part of the way; and a search sees the accepted facts even when *)
(* it raced with writes, releases and a restart.                             *)
MemoryIsDurable ==
  /\ \A p \in accepted : p[2] \in durable[p[1]]
  /\ \A s \in MemoryScopes, f \in Facts \ PlainFacts :
       f \in live[s] => (f \in durable[s] \/ Releasing(s) \/ (faults > 0 /\ <<s, f>> \notin accepted))
  /\ \A c \in MemoryCallers : found[c] # None => found[c].hits = found[c].owed
=============================================================================
