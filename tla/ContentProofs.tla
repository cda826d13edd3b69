---------------------------- MODULE ContentProofs ----------------------------
(***************************************************************************)
(* Proofs about the content that turns are made of, for any content and    *)
(* callers.                                                                *)
(*   MemoryStore: an accepted fact outlives crashes and half-done releases,*)
(*     and a search sees it.                                               *)
(*   SceneContent: what readers see of the tables of one host is what was  *)
(*     registered and not taken back, and nothing else.                    *)
(*   AssetCatalog: both catalogs stay whole and durable, and a capture      *)
(*     finds what it is about.                                              *)
(*   MediaIntake: what is made of uploaded inputs is of them, by adapters    *)
(*     that the caller may use.                                             *)
(*   WebResources: what the page shows of the Host is so.                   *)
(* ContentMC gives values to the constants.                                *)
(***************************************************************************)
EXTENDS Integers, FiniteSets, Sequences, NaturalsInduction, FiniteSetTheorems, TLAPS

CONSTANTS
  None,
  MemoryScopes, Facts, PlainFacts, MemoryCallers, Scorers, EventLimit, HitLimit, MaxCalls, MaxStoreFaults,
  Items, Extras, Texts, EntryLimits, SizeLimits, Throws, Digest, MaxTables,
  AssetScopes, AssetParent, AssetKinds, SingleKinds, AssetIds, Contents, Presets, LibraryJobs, PresetJobs,
  MaxCatalogQueue, MaxCatalogStops,
  MediaAdapters, MediaProviders, MediaBatches, MediaAuthorities, Intakes, MediaKinds, ImagesPerMessage, MaxMediaFaults,
  PageLibrary, PagePresets, PageFiles, LastVersion, MaxRailOperations, MaxCreatorOperations
VARIABLES
  durable, live, hydrated, loading, chain, call, scorers, plain, accepted, found, calls, faults,
  tables, current, handles, rolled,
  catalogNow, catalogDurable, catalogQueue, catalogWriting, catalogAnswer, stops,
  adapters, providers, intake, answered, stored, drawing, drawn, mediaFaults,
  host, rail, operation, wire, creator, foreign, crossed, turns

-----------------------------------------------------------------------------
(* Memory: a projection that lives with the process over a table that does   *)
(* not.                                                                     *)
Memory == INSTANCE MemoryStore

(* A fact that memory-durable accepted survives until a release deletes it;  *)
(* what memory-basic shows was appended past the store or is durable, unless *)
(* a release got part of the way; and a search sees the accepted facts even  *)
(* when it raced with writes, releases and a restart.                        *)
MemoryIsDurable == Memory!MemoryIsDurable

AllFacts == Facts \cup PlainFacts
MemoryJobs ==
  [op : {"append", "release", "load"}, scope : MemoryScopes, fact : Facts \cup {None}, by : MemoryCallers \cup {None}]
MemoryWaits == [op : {"append", "release", "search"}, scope : MemoryScopes, fact : Facts \cup {None}]
MemoryTyped ==
  /\ durable \in [MemoryScopes -> SUBSET AllFacts] /\ live \in [MemoryScopes -> SUBSET AllFacts]
  /\ chain \in Seq(MemoryJobs) /\ \A i \in 1..Len(chain) : chain[i].op = "append" => chain[i].fact \in Facts
  /\ call \in [MemoryCallers -> MemoryWaits \cup {None}]
  /\ DOMAIN found = MemoryCallers /\ found = [c \in MemoryCallers |-> found[c]]
  /\ accepted \subseteq MemoryScopes \X Facts
  /\ faults \in Nat

(* What is shown and not durable is being released, with more of its scope   *)
(* to go, or there was a failure.                                           *)
ShownIsDurable ==
  \A s \in MemoryScopes, f \in Facts \ PlainFacts :
    (f \in live[s] /\ f \notin durable[s]) => (Memory!Releasing(s) /\ durable[s] # {}) \/ faults > 0

(* Where a search may read the projection, it holds every accepted fact.    *)
ReadableScopes == hydrated \cup {s \in MemoryScopes : Memory!Waiting(s) # {} /\ s \notin loading}
AcceptedIsShown == \A s \in ReadableScopes \cap MemoryScopes, f \in Facts : <<s, f>> \in accepted => f \in live[s]

MemoryInv ==
  /\ MemoryTyped /\ ShownIsDurable /\ AcceptedIsShown
  /\ \A s \in MemoryScopes, f \in Facts : <<s, f>> \in accepted => f \in durable[s]
  /\ \A c \in MemoryCallers : found[c] # None => found[c].hits = found[c].owed

LEMMA InsertedIs ==
  ASSUME NEW facts, NEW fact, Memory!Inserted(facts, fact) # None
  PROVE  Memory!Inserted(facts, fact) = facts \cup {fact}
BY DEF Memory!Inserted, Memory!SameEvent, Memory!Holds

(* What leaves both stores and what is being done to them alone.            *)
LEMMA MemoryFrame ==
  ASSUME MemoryInv, UNCHANGED <<durable, live, accepted, faults>>,
         hydrated' \subseteq hydrated,
         \A s \in MemoryScopes : (Memory!Waiting(s)' # {} /\ s \notin loading') => s \in ReadableScopes,
         call' \in [MemoryCallers -> MemoryWaits \cup {None}],
         chain' \in Seq(MemoryJobs), \A i \in 1..Len(chain') : chain'[i].op = "append" => chain'[i].fact \in Facts,
         chain = <<>> \/ (chain' # <<>> /\ Head(chain') = Head(chain)),
         DOMAIN found' = MemoryCallers, found' = [c \in MemoryCallers |-> found'[c]],
         \A c \in MemoryCallers : found'[c] # None => found'[c].hits = found'[c].owed
  PROVE  MemoryInv'
<1>1. MemoryTyped' BY DEF MemoryInv, MemoryTyped
<1>2. \A s \in MemoryScopes : Memory!Releasing(s) => Memory!Releasing(s)' BY DEF Memory!Releasing, Memory!Job
<1>3. ShownIsDurable' BY <1>2 DEF MemoryInv, ShownIsDurable
<1>4. AcceptedIsShown' BY DEF MemoryInv, AcceptedIsShown, ReadableScopes
<1> QED BY <1>1, <1>3, <1>4 DEF MemoryInv

LEMMA Emptiness == ASSUME NEW S, NEW s \in Seq(S), Len(s) = 0 PROVE s = <<>>
OBVIOUS

(* A call begins: its job, if it has one, waits behind the others.          *)
LEMMA BeginsIs ==
  ASSUME MemoryInv, NEW c \in MemoryCallers, NEW waits \in MemoryWaits, NEW job \in Seq(MemoryJobs), Len(job) <= 1,
         \A i \in 1..Len(job) : job[i].op = "append" => job[i].fact \in Facts,
         Memory!Begins(c, waits, job)
  PROVE  /\ call' \in [MemoryCallers -> MemoryWaits \cup {None}]
         /\ call'[c] = waits /\ \A d \in MemoryCallers : d # c => call'[d] = call[d]
         /\ chain' \in Seq(MemoryJobs) /\ \A i \in 1..Len(chain') : chain'[i].op = "append" => chain'[i].fact \in Facts
         /\ chain = <<>> \/ (chain' # <<>> /\ Head(chain') = Head(chain))
         /\ DOMAIN found' = MemoryCallers /\ found' = [d \in MemoryCallers |-> found'[d]]
         /\ \A d \in MemoryCallers : found'[d] # None => found'[d].hits = found'[d].owed
<1>1. /\ call' = [call EXCEPT ![c] = waits] /\ chain' = chain \o job /\ found' = [found EXCEPT ![c] = None]
    BY DEF Memory!Begins
<1>2. chain \in Seq(MemoryJobs) /\ \A i \in 1..Len(chain) : chain[i].op = "append" => chain[i].fact \in Facts
    BY DEF MemoryInv, MemoryTyped
<1>3. PICK k, l : k = Len(chain) /\ l = Len(job) /\ k \in Nat /\ l \in Nat
  <2>1. Len(chain) \in Nat /\ Len(job) \in Nat BY <1>2
  <2> QED BY <2>1
<1>4. /\ chain' \in Seq(MemoryJobs) /\ Len(chain') = k + l
      /\ \A i \in 1..k : chain'[i] = chain[i]
      /\ \A i \in (k + 1)..(k + l) : chain'[i] = job[i - k]
    BY <1>1, <1>2, <1>3
<1>5. \A i \in 1..(k + l) : i \in 1..k \/ (i \in (k + 1)..(k + l) /\ i - k \in 1..l) BY <1>3
<1>6. \A i \in 1..Len(chain') : chain'[i].op = "append" => chain'[i].fact \in Facts
    BY <1>2, <1>3, <1>4, <1>5
<1>7. chain = <<>> \/ (chain' # <<>> /\ Head(chain') = Head(chain))
  <2>1. CASE k = 0 BY <1>2, <1>3, <2>1, Emptiness
  <2>2. CASE k # 0
    <3>1. k + l > 0 /\ 1 \in 1..k BY <1>3, <2>2
    <3>2. chain' # <<>> /\ chain'[1] = chain[1] BY <1>3, <1>4, <3>1
    <3> QED BY <1>2, <1>3, <1>4, <2>2, <3>2
  <2> QED BY <2>1, <2>2
<1>8. /\ DOMAIN found' = MemoryCallers /\ found' = [d \in MemoryCallers |-> found'[d]]
      /\ \A d \in MemoryCallers : found'[d] = IF d = c THEN None ELSE found[d]
  <2>1. DOMAIN found = MemoryCallers BY DEF MemoryInv, MemoryTyped
  <2>2. found' = [d \in MemoryCallers |-> IF d = c THEN None ELSE found[d]] BY <1>1, <2>1
  <2> QED BY <2>2
<1>9. /\ call' \in [MemoryCallers -> MemoryWaits \cup {None}]
      /\ call'[c] = waits /\ \A d \in MemoryCallers : d # c => call'[d] = call[d]
    BY <1>1 DEF MemoryInv, MemoryTyped
<1> QED BY <1>4, <1>6, <1>7, <1>8, <1>9 DEF MemoryInv

LEMMA CallsBegin ==
  ASSUME MemoryInv, NEW c \in MemoryCallers, NEW scope \in MemoryScopes,
         Memory!ReleaseDurable(c, scope) \/ Memory!Search(c, scope) \/ \E fact \in Facts : Memory!AppendDurable(c, scope, fact)
  PROVE  MemoryInv'
<1>1. ASSUME NEW waits \in MemoryWaits, NEW job \in Seq(MemoryJobs), Len(job) <= 1,
             \A i \in 1..Len(job) : job[i].op = "append" => job[i].fact \in Facts,
             Memory!Begins(c, waits, job),
             UNCHANGED <<durable, live, hydrated, accepted, faults>>,
             loading \subseteq loading',
             waits.op = "search" => waits.scope \in hydrated \cup loading'
      PROVE  MemoryInv'
  <2>1. /\ call' \in [MemoryCallers -> MemoryWaits \cup {None}]
        /\ call'[c] = waits /\ \A d \in MemoryCallers : d # c => call'[d] = call[d]
        /\ chain' \in Seq(MemoryJobs) /\ \A i \in 1..Len(chain') : chain'[i].op = "append" => chain'[i].fact \in Facts
        /\ chain = <<>> \/ (chain' # <<>> /\ Head(chain') = Head(chain))
        /\ DOMAIN found' = MemoryCallers /\ found' = [d \in MemoryCallers |-> found'[d]]
        /\ \A d \in MemoryCallers : found'[d] # None => found'[d].hits = found'[d].owed
      BY <1>1, BeginsIs
  <2>2. ASSUME NEW s \in MemoryScopes, NEW d \in MemoryCallers, d \in Memory!Waiting(s)', s \notin loading'
        PROVE  s \in ReadableScopes
    <3>1. call'[d] # None /\ call'[d].op = "search" /\ call'[d].scope = s BY <2>2 DEF Memory!Waiting
    <3>2. CASE d = c BY <1>1, <2>1, <2>2, <3>1, <3>2 DEF ReadableScopes
    <3>3. CASE d # c
      <4>1. d \in Memory!Waiting(s) BY <2>1, <3>1, <3>3 DEF Memory!Waiting
      <4> QED BY <1>1, <2>2, <4>1 DEF ReadableScopes
    <3> QED BY <3>2, <3>3
  <2>3. \A s \in MemoryScopes : (Memory!Waiting(s)' # {} /\ s \notin loading') => s \in ReadableScopes
      BY <2>2 DEF Memory!Waiting
  <2> QED BY <1>1, <2>1, <2>3, MemoryFrame
<1>2. CASE Memory!ReleaseDurable(c, scope)
  <2>1. PICK waits, entry, job :
          /\ waits = [op |-> "release", scope |-> scope, fact |-> None]
          /\ entry = [op |-> "release", scope |-> scope, fact |-> None, by |-> c] /\ job = <<entry>>
      OBVIOUS
  <2>2. waits \in MemoryWaits /\ waits.op # "search" /\ entry \in MemoryJobs /\ entry.op # "append"
      BY <2>1 DEF MemoryWaits, MemoryJobs
  <2>3. job \in Seq(MemoryJobs) /\ Len(job) = 1 /\ Len(job) <= 1 /\ job[1] = entry BY <2>1, <2>2
  <2>4. \A i \in 1..Len(job) : job[i].op = "append" => job[i].fact \in Facts BY <2>2, <2>3
  <2>5. Memory!Begins(c, waits, job) /\ UNCHANGED <<durable, live, hydrated, loading, accepted, faults>> /\ loading \subseteq loading'
      BY <1>2, <2>1 DEF Memory!ReleaseDurable
  <2> QED BY <1>1, <2>2, <2>3, <2>4, <2>5
<1>3. CASE \E fact \in Facts : Memory!AppendDurable(c, scope, fact)
  <2>1. PICK fact \in Facts : Memory!AppendDurable(c, scope, fact) BY <1>3
  <2>2. PICK waits, entry, job :
          /\ waits = [op |-> "append", scope |-> scope, fact |-> fact]
          /\ entry = [op |-> "append", scope |-> scope, fact |-> fact, by |-> c] /\ job = <<entry>>
      OBVIOUS
  <2>3. waits \in MemoryWaits /\ waits.op # "search" /\ entry \in MemoryJobs /\ entry.fact \in Facts
      BY <2>2 DEF MemoryWaits, MemoryJobs
  <2>4. job \in Seq(MemoryJobs) /\ Len(job) = 1 /\ Len(job) <= 1 /\ job[1] = entry BY <2>2, <2>3
  <2>5. \A i \in 1..Len(job) : job[i].op = "append" => job[i].fact \in Facts BY <2>3, <2>4
  <2>6. Memory!Begins(c, waits, job) /\ UNCHANGED <<durable, live, hydrated, loading, accepted, faults>> /\ loading \subseteq loading'
      BY <2>1, <2>2 DEF Memory!AppendDurable
  <2> QED BY <1>1, <2>3, <2>4, <2>5, <2>6
<1>4. CASE Memory!Search(c, scope)
  <2>1. PICK waits, entry, job :
          /\ waits = [op |-> "search", scope |-> scope, fact |-> None]
          /\ entry = [op |-> "load", scope |-> scope, fact |-> None, by |-> None]
          /\ job = IF scope \in hydrated \cup loading THEN <<>> ELSE <<entry>>
      OBVIOUS
  <2>2. waits \in MemoryWaits /\ waits.scope = scope /\ entry \in MemoryJobs /\ entry.op # "append"
      BY <2>1 DEF MemoryWaits, MemoryJobs
  <2>3. <<>> \in Seq(MemoryJobs) /\ Len(<<>>) = 0 OBVIOUS
  <2>4. <<entry>> \in Seq(MemoryJobs) /\ Len(<<entry>>) = 1 /\ <<entry>>[1] = entry BY <2>2
  <2>5. job \in Seq(MemoryJobs) /\ Len(job) <= 1 /\ \A i \in 1..Len(job) : job[i].op = "append" => job[i].fact \in Facts
      BY <2>1, <2>2, <2>3, <2>4
  <2>6. /\ Memory!Begins(c, waits, job) /\ UNCHANGED <<durable, live, hydrated, accepted, faults>>
        /\ loading' = IF scope \in hydrated THEN loading ELSE loading \cup {scope}
      BY <1>4, <2>1 DEF Memory!Search
  <2> QED BY <1>1, <2>2, <2>5, <2>6
<1> QED BY <1>2, <1>3, <1>4

(* A job is done: the next one moves up.                                    *)
LEMMA ChainMoves ==
  ASSUME MemoryInv, chain # <<>>, chain' = Tail(chain)
  PROVE  /\ chain' \in Seq(MemoryJobs) /\ \A i \in 1..Len(chain') : chain'[i].op = "append" => chain'[i].fact \in Facts
         /\ Head(chain) \in MemoryJobs /\ (Head(chain).op = "append" => Head(chain).fact \in Facts)
<1>1. chain \in Seq(MemoryJobs) /\ \A i \in 1..Len(chain) : chain[i].op = "append" => chain[i].fact \in Facts
    BY DEF MemoryInv, MemoryTyped
<1>2. Len(chain) \in Nat /\ Len(chain) # 0 BY <1>1, Emptiness
<1>3. Tail(chain) \in Seq(MemoryJobs) /\ Len(Tail(chain)) = Len(chain) - 1 BY <1>1, <1>2
<1>4. \A i \in 1..Len(Tail(chain)) : Tail(chain)[i] = chain[i + 1] /\ i + 1 \in 1..Len(chain) BY <1>1, <1>2, <1>3
<1>5. Head(chain) = chain[1] /\ 1 \in 1..Len(chain) BY <1>1, <1>2
<1> QED BY <1>1, <1>3, <1>4, <1>5

LEMMA ScorersKeep ==
  ASSUME MemoryInv, NEW s, Memory!RegisterRetriever(s) \/ Memory!DisposeRetriever(s)
  PROVE  MemoryInv'
BY DEF MemoryInv, MemoryTyped, ShownIsDurable, AcceptedIsShown, ReadableScopes, Memory!Waiting, Memory!Releasing, Memory!Job,
       Memory!RegisterRetriever, Memory!DisposeRetriever

(* append() shows what only the process holds.                              *)
LEMMA PlainKeeps ==
  ASSUME MemoryInv, NEW scope \in MemoryScopes, NEW fact \in PlainFacts, Memory!Append_(scope, fact)
  PROVE  MemoryInv'
<1>1. /\ live' = [live EXCEPT ![scope] = Memory!Inserted(live[scope], fact)] /\ Memory!Inserted(live[scope], fact) # None
      /\ UNCHANGED <<durable, hydrated, loading, chain, call, accepted, found, faults>>
    BY DEF Memory!Append_
<1>2. live' = [live EXCEPT ![scope] = live[scope] \cup {fact}] BY <1>1, InsertedIs
<1>3. /\ live' \in [MemoryScopes -> SUBSET AllFacts]
      /\ \A s \in MemoryScopes : live'[s] = live[s] \cup (IF s = scope THEN {fact} ELSE {})
    BY <1>2 DEF MemoryInv, MemoryTyped, AllFacts
<1>4. MemoryTyped' BY <1>1, <1>3 DEF MemoryInv, MemoryTyped
<1>5. \A s \in MemoryScopes : Memory!Releasing(s)' <=> Memory!Releasing(s) BY <1>1 DEF Memory!Releasing, Memory!Job
<1>6. ShownIsDurable' BY <1>1, <1>3, <1>5 DEF MemoryInv, ShownIsDurable
<1>7. ReadableScopes' = ReadableScopes BY <1>1 DEF ReadableScopes, Memory!Waiting
<1>8. AcceptedIsShown' BY <1>1, <1>3, <1>7 DEF MemoryInv, AcceptedIsShown
<1> QED BY <1>1, <1>4, <1>6, <1>8 DEF MemoryInv

(* A load that succeeds shows all of the table; one that is refused leaves   *)
(* nobody to read.                                                          *)
LEMMA LoadKeeps == ASSUME MemoryInv, Memory!Load PROVE MemoryInv'
<1>1. PICK scope, merged : scope = Head(chain).scope /\ merged = Memory!Merged(live[scope], durable[scope]) OBVIOUS
<1>2. /\ chain # <<>> /\ Head(chain).op = "load" /\ chain' = Tail(chain) /\ loading' = loading \ {scope}
      /\ UNCHANGED <<durable, accepted, found, faults>>
    BY <1>1 DEF Memory!Load, Memory!Job
<1>3. /\ chain' \in Seq(MemoryJobs) /\ \A i \in 1..Len(chain') : chain'[i].op = "append" => chain'[i].fact \in Facts
      /\ Head(chain) \in MemoryJobs
    BY <1>2, ChainMoves
<1>4. scope \in MemoryScopes BY <1>1, <1>3 DEF MemoryJobs
<1>5. \A s \in MemoryScopes : ~Memory!Releasing(s) BY <1>2 DEF Memory!Releasing, Memory!Job
<1>6. CASE merged = None
  <2>1. /\ call' = [c \in MemoryCallers |-> IF c \in Memory!Waiting(scope) THEN None ELSE call[c]]
        /\ UNCHANGED <<live, hydrated>>
      BY <1>1, <1>6 DEF Memory!Load
  <2>2. call' \in [MemoryCallers -> MemoryWaits \cup {None}] BY <2>1 DEF MemoryInv, MemoryTyped
  <2>3. MemoryTyped' BY <1>2, <1>3, <2>1, <2>2 DEF MemoryInv, MemoryTyped
  <2>4. \A s \in MemoryScopes, c \in MemoryCallers :
          c \in Memory!Waiting(s)' => c \in Memory!Waiting(s) /\ s # scope
      BY <2>1 DEF Memory!Waiting
  <2>5. \A s \in MemoryScopes : s \in ReadableScopes' => s \in ReadableScopes
      BY <1>2, <2>1, <2>4 DEF ReadableScopes, Memory!Waiting
  <2>6. AcceptedIsShown' BY <1>2, <2>1, <2>5 DEF MemoryInv, AcceptedIsShown
  <2>7. ShownIsDurable' BY <1>2, <1>5, <2>1 DEF MemoryInv, ShownIsDurable
  <2> QED BY <1>2, <2>3, <2>6, <2>7 DEF MemoryInv
<1>7. CASE merged # None
  <2>1. merged = live[scope] \cup durable[scope] BY <1>1, <1>7 DEF Memory!Merged
  <2>2. /\ live' = [live EXCEPT ![scope] = merged] /\ hydrated' = hydrated \cup {scope} /\ call' = call
      BY <1>1, <1>7 DEF Memory!Load
  <2>3. /\ live' \in [MemoryScopes -> SUBSET AllFacts]
        /\ \A s \in MemoryScopes : live'[s] = IF s = scope THEN live[s] \cup durable[s] ELSE live[s]
      BY <1>4, <2>1, <2>2 DEF MemoryInv, MemoryTyped
  <2>4. MemoryTyped' BY <1>2, <1>3, <2>2, <2>3 DEF MemoryInv, MemoryTyped
  <2>5. \A s \in MemoryScopes : s \in ReadableScopes' => s \in ReadableScopes \/ s = scope
      BY <1>2, <2>2 DEF ReadableScopes, Memory!Waiting
  <2>6. AcceptedIsShown' BY <1>2, <2>3, <2>5 DEF MemoryInv, AcceptedIsShown
  <2>7. ShownIsDurable' BY <1>2, <1>5, <2>3 DEF MemoryInv, ShownIsDurable
  <2> QED BY <1>2, <2>4, <2>6, <2>7 DEF MemoryInv
<1> QED BY <1>6, <1>7

LEMMA AnswersKeep ==
  ASSUME MemoryInv, NEW c \in MemoryCallers, Memory!SearchAnswers(c)
  PROVE  MemoryInv'
<1>1. PICK scope : scope = call[c].scope OBVIOUS
<1>2. /\ call[c] # None /\ call[c].op = "search" /\ scope \notin loading
      /\ call' = [call EXCEPT ![c] = None] /\ UNCHANGED <<durable, live, hydrated, loading, chain, accepted, faults>>
    BY <1>1 DEF Memory!SearchAnswers
<1>3. call[c] \in MemoryWaits /\ scope \in MemoryScopes BY <1>1, <1>2 DEF MemoryInv, MemoryTyped, MemoryWaits
<1>4. scope \in ReadableScopes
  <2>1. c \in Memory!Waiting(scope) BY <1>1, <1>2 DEF Memory!Waiting
  <2> QED BY <1>2, <1>3, <2>1 DEF ReadableScopes
<1>5. PICK owed, all : owed = {f \in durable[scope] : <<scope, f>> \in accepted} /\ all = live[scope] \cup owed OBVIOUS
<1>6. all = live[scope]
  <2>1. \A f \in owed : f \in Facts BY <1>5 DEF MemoryInv, MemoryTyped
  <2> QED BY <1>3, <1>4, <1>5, <2>1 DEF MemoryInv, AcceptedIsShown
<1>7. PICK answer, hits :
        /\ hits = Memory!Hits(live[scope])
        /\ answer = IF scorers = {} THEN None ELSE [scope |-> scope, owed |-> hits, hits |-> hits]
    OBVIOUS
<1>8. found' = [found EXCEPT ![c] = answer]
  <2>1. found' = [found EXCEPT ![c] =
           IF scorers = {} THEN None ELSE [scope |-> scope, owed |-> Memory!Hits(all), hits |-> Memory!Hits(live[scope])]]
      BY <1>1, <1>5 DEF Memory!SearchAnswers
  <2> QED BY <1>6, <1>7, <2>1
<1>9. answer # None => answer.hits = answer.owed BY <1>7
<1>10. /\ DOMAIN found' = MemoryCallers /\ found' = [d \in MemoryCallers |-> found'[d]]
       /\ \A d \in MemoryCallers : found'[d] = IF d = c THEN answer ELSE found[d]
  <2>1. DOMAIN found = MemoryCallers BY DEF MemoryInv, MemoryTyped
  <2>2. found' = [d \in MemoryCallers |-> IF d = c THEN answer ELSE found[d]] BY <1>8, <2>1
  <2> QED BY <2>2
<1>11. call' \in [MemoryCallers -> MemoryWaits \cup {None}] BY <1>2 DEF MemoryInv, MemoryTyped
<1>12. \A s \in MemoryScopes : (Memory!Waiting(s)' # {} /\ s \notin loading') => s \in ReadableScopes
    BY <1>2 DEF Memory!Waiting, ReadableScopes, MemoryInv, MemoryTyped
<1>13. \A d \in MemoryCallers : found'[d] # None => found'[d].hits = found'[d].owed BY <1>9, <1>10 DEF MemoryInv
<1>14. /\ chain' \in Seq(MemoryJobs) /\ \A i \in 1..Len(chain') : chain'[i].op = "append" => chain'[i].fact \in Facts
       /\ chain = <<>> \/ (chain' # <<>> /\ Head(chain') = Head(chain))
    BY <1>2 DEF MemoryInv, MemoryTyped
<1>15. UNCHANGED <<durable, live, accepted, faults>> /\ hydrated' \subseteq hydrated BY <1>2
<1> QED BY <1>10, <1>11, <1>12, <1>13, <1>14, <1>15, MemoryFrame

(* The call whose job is done waits no longer.                              *)
LEMMA CallsEnd ==
  ASSUME MemoryInv, NEW by, call' = [call EXCEPT ![by] = None], UNCHANGED loading
  PROVE  /\ call' \in [MemoryCallers -> MemoryWaits \cup {None}]
         /\ \A s \in MemoryScopes : (Memory!Waiting(s)' # {} /\ s \notin loading') => s \in ReadableScopes
BY DEF MemoryInv, MemoryTyped, Memory!Waiting, ReadableScopes

(* The store's append: nothing is acknowledged that is not in the table.    *)
LEMMA AppendKeeps == ASSUME MemoryInv, Memory!RunAppend PROVE MemoryInv'
<1>1. PICK scope, fact : scope = Head(chain).scope /\ fact = Head(chain).fact OBVIOUS
<1>2. /\ chain # <<>> /\ Head(chain).op = "append" /\ chain' = Tail(chain)
      /\ call' = [call EXCEPT ![Head(chain).by] = None] /\ UNCHANGED <<hydrated, loading, found>>
    BY DEF Memory!RunAppend, Memory!Job
<1>3. /\ chain' \in Seq(MemoryJobs) /\ \A i \in 1..Len(chain') : chain'[i].op = "append" => chain'[i].fact \in Facts
      /\ Head(chain) \in MemoryJobs /\ fact \in Facts
    BY <1>1, <1>2, ChainMoves
<1>4. scope \in MemoryScopes BY <1>1, <1>3 DEF MemoryJobs
<1>5. \A s \in MemoryScopes : ~Memory!Releasing(s) BY <1>2 DEF Memory!Releasing, Memory!Job
<1>6. /\ call' \in [MemoryCallers -> MemoryWaits \cup {None}]
      /\ \A s \in MemoryScopes : (Memory!Waiting(s)' # {} /\ s \notin loading') => s \in ReadableScopes
    BY <1>2, CallsEnd
<1>7. \A s \in MemoryScopes : s \in ReadableScopes' => s \in ReadableScopes BY <1>2, <1>6 DEF ReadableScopes
<1>8. ASSUME UNCHANGED <<durable, live, accepted>>, faults' = faults \/ faults' = faults + 1 PROVE MemoryInv'
  <2>1. faults' \in Nat /\ (faults > 0 => faults' > 0) BY <1>8 DEF MemoryInv, MemoryTyped
  <2>2. MemoryTyped' BY <1>2, <1>3, <1>6, <1>8, <2>1 DEF MemoryInv, MemoryTyped
  <2>3. ShownIsDurable' BY <1>5, <1>8, <2>1 DEF MemoryInv, ShownIsDurable
  <2>4. AcceptedIsShown' BY <1>7, <1>8 DEF MemoryInv, AcceptedIsShown
  <2> QED BY <1>2, <1>8, <2>2, <2>3, <2>4 DEF MemoryInv
<1>9. CASE /\ durable' = [durable EXCEPT ![scope] = durable[scope] \cup {fact}]
           /\ Memory!Published(scope, fact) /\ UNCHANGED faults
  <2>1. /\ durable' \in [MemoryScopes -> SUBSET AllFacts]
        /\ \A s \in MemoryScopes : durable'[s] = durable[s] \cup (IF s = scope THEN {fact} ELSE {})
      BY <1>3, <1>4, <1>9 DEF MemoryInv, MemoryTyped, AllFacts
  <2>2. \/ live' = [live EXCEPT ![scope] = live[scope] \cup {fact}] /\ accepted' = accepted \cup {<<scope, fact>>}
        \/ live' = [live EXCEPT ![scope] = live[scope]] /\ accepted' = accepted
    <3>1. CASE Memory!Inserted(live[scope], fact) = None BY <1>9, <3>1 DEF Memory!Published
    <3>2. CASE Memory!Inserted(live[scope], fact) # None BY <1>9, <3>2, InsertedIs DEF Memory!Published
    <3> QED BY <3>1, <3>2
  <2>3. /\ live' \in [MemoryScopes -> SUBSET AllFacts]
        /\ \A s \in MemoryScopes : live[s] \subseteq live'[s] /\ live'[s] \subseteq live[s] \cup (IF s = scope THEN {fact} ELSE {})
    <3>1. live \in [MemoryScopes -> SUBSET AllFacts] /\ {fact} \subseteq AllFacts
        BY <1>3 DEF MemoryInv, MemoryTyped, AllFacts
    <3>2. CASE live' = [live EXCEPT ![scope] = live[scope] \cup {fact}]
      <4>1. live[scope] \cup {fact} \in SUBSET AllFacts BY <1>4, <3>1
      <4> HIDE DEF AllFacts
      <4> QED BY <1>4, <3>1, <3>2, <4>1
    <3>3. CASE live' = [live EXCEPT ![scope] = live[scope]] BY <1>4, <3>1, <3>3
    <3> QED BY <2>2, <3>2, <3>3
  <2>4. /\ accepted' \subseteq MemoryScopes \X Facts
        /\ \A s \in MemoryScopes, f \in Facts : <<s, f>> \in accepted' =>
             <<s, f>> \in accepted \/ (s = scope /\ f = fact /\ fact \in live'[scope])
    <3>1. <<scope, fact>> \in MemoryScopes \X Facts BY <1>3, <1>4
    <3> QED BY <1>4, <2>2, <3>1 DEF MemoryInv, MemoryTyped
  <2>5. MemoryTyped' BY <1>2, <1>3, <1>6, <1>9, <2>1, <2>3, <2>4 DEF MemoryInv, MemoryTyped
  <2>6. ShownIsDurable' BY <1>5, <1>9, <2>1, <2>3 DEF MemoryInv, ShownIsDurable
  <2>7. AcceptedIsShown' BY <1>7, <2>3, <2>4 DEF MemoryInv, AcceptedIsShown
  <2>8. \A s \in MemoryScopes, f \in Facts : <<s, f>> \in accepted' => f \in durable'[s]
      BY <2>1, <2>4 DEF MemoryInv
  <2> QED BY <1>2, <2>5, <2>6, <2>7, <2>8 DEF MemoryInv
<1> QED BY <1>1, <1>8, <1>9 DEF Memory!RunAppend, Memory!AppendFails

(* A release takes one fact after the other; the projection is dropped with  *)
(* the last, or kept when the rest could not be deleted.                    *)
LEMMA ReleaseKeeps == ASSUME MemoryInv, Memory!DeleteOne \/ Memory!ReleaseEnds PROVE MemoryInv'
<1>1. PICK scope : scope = Head(chain).scope OBVIOUS
<1>2. chain # <<>> /\ Head(chain).op = "release" /\ UNCHANGED <<loading, found>>
    BY DEF Memory!DeleteOne, Memory!ReleaseEnds, Memory!Job
<1>3. ASSUME chain' = Tail(chain)
      PROVE  /\ chain' \in Seq(MemoryJobs)
             /\ \A i \in 1..Len(chain') : chain'[i].op = "append" => chain'[i].fact \in Facts
    BY <1>2, <1>3, ChainMoves
<1>4. scope \in MemoryScopes
  <2>1. Head(chain) \in MemoryJobs
    <3>1. chain \in Seq(MemoryJobs) BY DEF MemoryInv, MemoryTyped
    <3>2. Len(chain) # 0 BY <1>2, <3>1, Emptiness
    <3> QED BY <3>1, <3>2
  <2> QED BY <1>1, <2>1 DEF MemoryJobs
<1>5. \A s \in MemoryScopes : Memory!Releasing(s) => s = scope BY <1>1 DEF Memory!Releasing
<1>6. ASSUME NEW by, call' = [call EXCEPT ![by] = None]
      PROVE  /\ call' \in [MemoryCallers -> MemoryWaits \cup {None}]
             /\ \A s \in MemoryScopes : (Memory!Waiting(s)' # {} /\ s \notin loading') => s \in ReadableScopes
    BY <1>2, <1>6, CallsEnd
<1>7. CASE Memory!ReleaseEnds
  <2>1. /\ chain' = Tail(chain) /\ call' = [call EXCEPT ![Head(chain).by] = None]
        /\ UNCHANGED <<durable, live, hydrated, accepted>>
        /\ (durable[scope] = {} /\ faults' = faults) \/ faults' = faults + 1
      BY <1>1, <1>7 DEF Memory!ReleaseEnds
  <2>2. faults' \in Nat /\ (faults > 0 => faults' > 0) /\ (durable[scope] # {} => faults' > 0)
      BY <2>1 DEF MemoryInv, MemoryTyped
  <2>3. MemoryTyped' BY <1>2, <1>3, <1>6, <2>1, <2>2 DEF MemoryInv, MemoryTyped
  <2>4. ShownIsDurable' BY <1>5, <2>1, <2>2 DEF MemoryInv, ShownIsDurable
  <2>5. \A s \in MemoryScopes : s \in ReadableScopes' => s \in ReadableScopes
      BY <1>2, <1>6, <2>1 DEF ReadableScopes
  <2>6. AcceptedIsShown' BY <2>1, <2>5 DEF MemoryInv, AcceptedIsShown
  <2> QED BY <1>2, <2>1, <2>3, <2>4, <2>6 DEF MemoryInv
<1>8. CASE Memory!DeleteOne
  <2>1. PICK f \in durable[scope] :
          /\ durable' = [durable EXCEPT ![scope] = durable[scope] \ {f}]
          /\ accepted' = accepted \ {<<scope, f>>}
          /\ IF durable[scope] = {f}
             THEN /\ live' = [live EXCEPT ![scope] = {}] /\ hydrated' = hydrated \ {scope}
                  /\ chain' = Tail(chain) /\ call' = [call EXCEPT ![Head(chain).by] = None]
             ELSE UNCHANGED <<live, hydrated, chain, call>>
          /\ UNCHANGED faults
      BY <1>1, <1>8 DEF Memory!DeleteOne
  <2>2. /\ durable' \in [MemoryScopes -> SUBSET AllFacts]
        /\ \A s \in MemoryScopes : durable'[s] = IF s = scope THEN durable[s] \ {f} ELSE durable[s]
      BY <1>4, <2>1 DEF MemoryInv, MemoryTyped
  <2>3. /\ accepted' \subseteq MemoryScopes \X Facts
        /\ \A s \in MemoryScopes, g \in Facts : <<s, g>> \in accepted' => <<s, g>> \in accepted /\ (s = scope => g # f)
      BY <1>4, <2>1 DEF MemoryInv, MemoryTyped
  <2>4. \A s \in MemoryScopes, g \in Facts : <<s, g>> \in accepted' => g \in durable'[s]
      BY <2>2, <2>3 DEF MemoryInv
  <2>5. CASE durable[scope] = {f}
    <3>1. /\ live' \in [MemoryScopes -> SUBSET AllFacts]
          /\ \A s \in MemoryScopes : live'[s] = IF s = scope THEN {} ELSE live[s]
        BY <1>4, <2>1, <2>5 DEF MemoryInv, MemoryTyped
    <3>2. MemoryTyped' BY <1>2, <1>3, <1>6, <2>1, <2>2, <2>3, <2>5, <3>1 DEF MemoryInv, MemoryTyped
    <3>3. ShownIsDurable' BY <1>5, <2>1, <2>2, <3>1 DEF MemoryInv, ShownIsDurable
    <3>4. \A s \in MemoryScopes : s \in ReadableScopes' => s \in ReadableScopes
        BY <1>2, <1>6, <2>1, <2>5 DEF ReadableScopes
    <3>5. \A g \in Facts : <<scope, g>> \notin accepted' BY <1>4, <2>2, <2>4, <2>5
    <3>6. AcceptedIsShown' BY <2>3, <3>1, <3>4, <3>5 DEF MemoryInv, AcceptedIsShown
    <3> QED BY <1>2, <2>4, <3>2, <3>3, <3>6 DEF MemoryInv
  <2>6. CASE durable[scope] # {f}
    <3>1. UNCHANGED <<live, hydrated, chain, call, loading, found, faults>> BY <1>2, <2>1, <2>6
    <3>2. MemoryTyped' BY <2>2, <2>3, <3>1 DEF MemoryInv, MemoryTyped
    <3>3. durable'[scope] # {} BY <1>4, <2>1, <2>2, <2>6
    <3>4. Memory!Releasing(scope)' BY <1>1, <1>2, <3>1 DEF Memory!Releasing, Memory!Job
    <3>5. \A s \in MemoryScopes : Memory!Releasing(s)' <=> Memory!Releasing(s)
        BY <3>1 DEF Memory!Releasing, Memory!Job
    <3>6. ShownIsDurable' BY <2>2, <3>1, <3>3, <3>4, <3>5 DEF MemoryInv, ShownIsDurable
    <3>7. ReadableScopes' = ReadableScopes BY <3>1 DEF ReadableScopes, Memory!Waiting
    <3>8. AcceptedIsShown' BY <2>3, <3>1, <3>7 DEF MemoryInv, AcceptedIsShown
    <3> QED BY <2>4, <3>1, <3>2, <3>6, <3>8 DEF MemoryInv
  <2> QED BY <2>5, <2>6
<1> QED BY <1>7, <1>8

(* The process restarts with the table alone.                               *)
LEMMA CrashKeeps == ASSUME MemoryInv, Memory!Crash PROVE MemoryInv'
<1>1. /\ faults' = faults + 1 /\ live' = [s \in MemoryScopes |-> {}] /\ hydrated' = {} /\ chain' = <<>>
      /\ call' = [c \in MemoryCallers |-> None] /\ found' = [c \in MemoryCallers |-> None]
      /\ UNCHANGED <<durable, accepted>>
    BY DEF Memory!Crash
<1>2. faults' \in Nat /\ faults' > 0 BY <1>1 DEF MemoryInv, MemoryTyped
<1>3. chain' \in Seq(MemoryJobs) /\ Len(chain') = 0 BY <1>1
<1>4. found' = [c \in MemoryCallers |-> found'[c]] BY <1>1
<1>5. MemoryTyped' BY <1>1, <1>2, <1>3, <1>4 DEF MemoryInv, MemoryTyped
<1>6. \A s \in MemoryScopes : Memory!Waiting(s)' = {} BY <1>1 DEF Memory!Waiting
<1>7. ReadableScopes' = {} BY <1>1, <1>6 DEF ReadableScopes
<1> QED BY <1>1, <1>2, <1>5, <1>7 DEF MemoryInv, ShownIsDurable, AcceptedIsShown

-----------------------------------------------------------------------------
(* Whatever is appended, loaded, released and lost in whatever order: what    *)
(* was acknowledged stays in the table until a release deletes it, what is    *)
(* shown is there too unless a release got part of the way, and every search  *)
(* sees every accepted fact.                                                *)
THEOREM MemoryInductive == MemoryInv /\ [Memory!Next]_(Memory!msVars) => MemoryInv'
<1> SUFFICES ASSUME MemoryInv, [Memory!Next]_(Memory!msVars) PROVE MemoryInv' OBVIOUS
<1>1. CASE UNCHANGED Memory!msVars
    BY <1>1 DEF Memory!msVars, MemoryInv, MemoryTyped, ShownIsDurable, AcceptedIsShown, ReadableScopes, Memory!Waiting,
                Memory!Releasing, Memory!Job
<1> QED
    BY <1>1, ScorersKeep, PlainKeeps, CallsBegin, AnswersKeep, LoadKeeps, AppendKeeps, ReleaseKeeps, CrashKeeps
    DEF Memory!Next

THEOREM MemoryOutlivesCrashes == Memory!Spec => []MemoryIsDurable
<1>1. Memory!Init => MemoryInv
  <2> SUFFICES ASSUME Memory!Init PROVE MemoryInv OBVIOUS
  <2>1. /\ durable = [s \in MemoryScopes |-> {}] /\ live = [s \in MemoryScopes |-> {}] /\ hydrated = {} /\ chain = <<>>
        /\ call = [c \in MemoryCallers |-> None] /\ accepted = {} /\ found = [c \in MemoryCallers |-> None] /\ faults = 0
      BY DEF Memory!Init
  <2>2. chain \in Seq(MemoryJobs) /\ Len(chain) = 0 BY <2>1
  <2>3. found = [c \in MemoryCallers |-> found[c]] BY <2>1
  <2>4. MemoryTyped BY <2>1, <2>2, <2>3 DEF MemoryTyped
  <2>5. \A s \in MemoryScopes : Memory!Waiting(s) = {} BY <2>1 DEF Memory!Waiting
  <2>6. ReadableScopes = {} BY <2>1, <2>5 DEF ReadableScopes
  <2> QED BY <2>1, <2>4, <2>6 DEF MemoryInv, ShownIsDurable, AcceptedIsShown
<1>2. MemoryInv => MemoryIsDurable
  <2> SUFFICES ASSUME MemoryInv PROVE MemoryIsDurable OBVIOUS
  <2>1. \A p \in accepted : p[2] \in durable[p[1]] BY DEF MemoryInv, MemoryTyped
  <2>2. \A s \in MemoryScopes, f \in Facts \ PlainFacts :
          f \in live[s] => (f \in durable[s] \/ Memory!Releasing(s) \/ (faults > 0 /\ <<s, f>> \notin accepted))
      BY DEF MemoryInv, ShownIsDurable
  <2> QED BY <2>1, <2>2 DEF MemoryInv, MemoryIsDurable, Memory!MemoryIsDurable
<1> QED BY <1>1, <1>2, MemoryInductive, PTL DEF Memory!Spec

-----------------------------------------------------------------------------
(* Scene content: tables that come and go under disposers that keep the one  *)
(* they were made with.                                                     *)
Scene == INSTANCE SceneContent
SceneRegistries == {i.registry : i \in Items}
Disposers == [item : Items, table : 1..Len(tables)]

(* A table holds what its disposers have not taken back, a registry's        *)
(* disposers all hold its present table, no two of one table share an id.    *)
SceneInv ==
  /\ tables \in Seq(SUBSET Items)
  /\ current \in [SceneRegistries -> (1..Len(tables)) \cup {None}]
  /\ handles \subseteq Disposers
  /\ \A t \in 1..Len(tables) : tables[t] = {h.item : h \in {x \in handles : x.table = t}}
  /\ \A h \in handles : current[h.item.registry] = h.table
  /\ \A q, r \in SceneRegistries : q # r /\ current[q] = current[r] => current[r] = None
  /\ \A g, h \in handles : g.table = h.table /\ g.item.id = h.item.id => g = h

(* register(): into the registry's table, or into a new one.                *)
LEMMA RegisterKeeps ==
  ASSUME None \notin Nat, SceneInv, NEW item \in Items, Scene!Register(item)
  PROVE  SceneInv'
<1>1. PICK r, n : r = item.registry /\ n = Len(tables) OBVIOUS
<1>2. r \in SceneRegistries BY <1>1 DEF SceneRegistries
<1>3. n \in Nat /\ tables \in Seq(SUBSET Items) /\ current \in [SceneRegistries -> (1..n) \cup {None}]
    BY <1>1 DEF SceneInv
<1>4. \A h \in handles : h \in [item : Items, table : 1..n] BY <1>1 DEF SceneInv, Disposers
<1>5. ASSUME current[r] = None
      PROVE  /\ tables' = Append(tables, {item}) /\ current' = [current EXCEPT ![r] = n + 1]
             /\ handles' = handles \cup {[item |-> item, table |-> n + 1]}
    BY <1>1, <1>5 DEF Scene!Register
<1>6. ASSUME current[r] # None
      PROVE  /\ tables' = [tables EXCEPT ![current[r]] = tables[current[r]] \cup {item}]
             /\ current' = [current EXCEPT ![r] = current[r]]
             /\ handles' = handles \cup {[item |-> item, table |-> current[r]]}
             /\ \A i \in tables[current[r]] : i.id # item.id
    BY <1>1, <1>6 DEF Scene!Register, Scene!Held
<1>7. CASE current[r] = None
  <2>1. /\ Len(tables') = n + 1 /\ tables' \in Seq(SUBSET Items)
        /\ tables'[n + 1] = {item} /\ \A t \in 1..n : tables'[t] = tables[t]
      BY <1>1, <1>3, <1>5, <1>7
  <2>2. 1..Len(tables') = (1..n) \cup {n + 1} /\ n + 1 \notin 1..n BY <1>3, <2>1
  <2>3. /\ current' \in [SceneRegistries -> (1..(n + 1)) \cup {None}] /\ current'[r] = n + 1
        /\ \A q \in SceneRegistries : q # r => current'[q] = current[q]
      BY <1>2, <1>3, <1>5, <1>7, <2>1, <2>2
  <2>4. PICK new : new = [item |-> item, table |-> n + 1] OBVIOUS
  <2>5. /\ handles' = handles \cup {new} /\ new.item = item /\ new.table = n + 1
        /\ new \in [item : Items, table : 1..(n + 1)]
      BY <1>3, <1>5, <1>7, <2>1, <2>2, <2>4
  <2>6. \A h \in handles : h.item.registry # r
    <3>1. SUFFICES ASSUME NEW h \in handles, h.item.registry = r PROVE FALSE OBVIOUS
    <3>2. current[r] = h.table BY <3>1 DEF SceneInv
    <3> QED BY <1>3, <1>4, <1>7, <3>1, <3>2
  <2>7. \A h \in handles : h.table \in 1..n /\ h.item \in Items /\ h.item.registry \in SceneRegistries
      BY <1>4 DEF SceneRegistries
  <2>8. handles' \subseteq Disposers' BY <1>4, <2>1, <2>2, <2>5 DEF Disposers
  <2>9. \A t \in 1..Len(tables') : tables'[t] = {h.item : h \in {x \in handles' : x.table = t}}
    <3>1. \A t \in 1..n : tables[t] = {h.item : h \in {x \in handles : x.table = t}} BY <1>1 DEF SceneInv
    <3>2. SUFFICES ASSUME NEW t \in 1..Len(tables') PROVE tables'[t] = {h.item : h \in {x \in handles' : x.table = t}}
        OBVIOUS
    <3>3. CASE t = n + 1
      <4>1. {x \in handles' : x.table = t} = {new} BY <2>2, <2>5, <2>7, <3>3
      <4> QED BY <2>1, <2>5, <3>3, <4>1
    <3>4. CASE t \in 1..n
      <4>1. {x \in handles' : x.table = t} = {x \in handles : x.table = t} BY <2>2, <2>5, <3>4
      <4> QED BY <2>1, <3>1, <3>4, <4>1
    <3> QED BY <2>2, <3>3, <3>4
  <2>10. \A h \in handles' : current'[h.item.registry] = h.table BY <1>1, <2>3, <2>5, <2>6, <2>7 DEF SceneInv
  <2>11. \A p, q \in SceneRegistries : p # q /\ current'[p] = current'[q] => current'[q] = None
    <3>1. \A q \in SceneRegistries : current[q] # n + 1
      <4>1. n + 1 # None BY <1>3
      <4> QED BY <1>3, <2>2, <4>1
    <3> QED BY <2>3, <3>1 DEF SceneInv
  <2>12. \A g, h \in handles' : g.table = h.table /\ g.item.id = h.item.id => g = h
      BY <2>2, <2>5, <2>7 DEF SceneInv
  <2> QED BY <2>1, <2>3, <2>8, <2>9, <2>10, <2>11, <2>12 DEF SceneInv, SceneRegistries
<1>8. CASE current[r] # None
  <2>1. PICK k : k = current[r] /\ k \in 1..n BY <1>2, <1>3, <1>8
  <2>2. tables[k] \in SUBSET Items /\ tables[k] \cup {item} \in SUBSET Items BY <1>1, <1>3, <2>1
  <2>3. /\ Len(tables') = n /\ tables' \in Seq(SUBSET Items)
        /\ tables'[k] = tables[k] \cup {item} /\ \A t \in 1..n : t # k => tables'[t] = tables[t]
      BY <1>1, <1>3, <1>6, <1>8, <2>1, <2>2
  <2>4. current' = current BY <1>3, <1>6, <1>8
  <2>5. PICK new : new = [item |-> item, table |-> k] OBVIOUS
  <2>6. handles' = handles \cup {new} /\ new.item = item /\ new.table = k /\ new \in [item : Items, table : 1..n]
      BY <1>6, <1>8, <2>1, <2>5
  <2>7. handles' \subseteq Disposers' BY <1>4, <2>3, <2>6 DEF Disposers
  <2>8. \A t \in 1..n : tables[t] = {h.item : h \in {x \in handles : x.table = t}} BY <1>1 DEF SceneInv
  <2>9. \A t \in 1..Len(tables') : tables'[t] = {h.item : h \in {x \in handles' : x.table = t}}
    <3>1. SUFFICES ASSUME NEW t \in 1..n PROVE tables'[t] = {h.item : h \in {x \in handles' : x.table = t}} BY <2>3
    <3>2. CASE t = k
      <4>1. {x \in handles' : x.table = t} = {x \in handles : x.table = t} \cup {new} BY <2>6, <3>2
      <4> QED BY <2>3, <2>6, <2>8, <3>2, <4>1
    <3>3. CASE t # k
      <4>1. {x \in handles' : x.table = t} = {x \in handles : x.table = t} BY <2>6, <3>3
      <4> QED BY <2>3, <2>8, <3>3, <4>1
    <3> QED BY <3>2, <3>3
  <2>10. \A h \in handles' : current'[h.item.registry] = h.table BY <1>1, <2>1, <2>4, <2>6 DEF SceneInv
  <2>11. \A p, q \in SceneRegistries : p # q /\ current'[p] = current'[q] => current'[q] = None
      BY <2>4 DEF SceneInv
  <2>12. \A g, h \in handles' : g.table = h.table /\ g.item.id = h.item.id => g = h
    <3>1. \A h \in handles : h.table = k => h.item.id # item.id BY <1>6, <1>8, <2>1, <2>8
    <3> QED BY <2>6, <3>1 DEF SceneInv
  <2> QED BY <1>3, <2>3, <2>4, <2>7, <2>9, <2>10, <2>11, <2>12 DEF SceneInv, SceneRegistries
<1> QED BY <1>7, <1>8

(* The disposer: its table keeps the other ids, and the registry drops a     *)
(* table only with the last of them.                                        *)
LEMMA DisposeKeeps ==
  ASSUME None \notin Nat, SceneInv, NEW handle \in handles, Scene!Dispose(handle)
  PROVE  SceneInv'
<1>1. PICK r, n, k : r = handle.item.registry /\ n = Len(tables) /\ k = handle.table OBVIOUS
<1>2. /\ handle.item \in Items /\ k \in 1..n /\ r \in SceneRegistries /\ current[r] = k
      /\ \A h \in handles : h \in [item : Items, table : 1..n]
    BY <1>1 DEF SceneInv, Disposers, SceneRegistries
<1>3. n \in Nat /\ tables \in Seq(SUBSET Items) /\ current \in [SceneRegistries -> (1..n) \cup {None}]
    BY <1>1 DEF SceneInv
<1>4. PICK left : left = {i \in tables[k] : i.id # handle.item.id} OBVIOUS
<1>5. /\ handles' = handles \ {handle} /\ tables' = [tables EXCEPT ![k] = left]
      /\ current' = [current EXCEPT ![r] = IF left = {} THEN None ELSE current[r]]
    BY <1>1, <1>4 DEF Scene!Dispose
<1>6. left \in SUBSET Items
  <2>1. tables[k] \in SUBSET Items BY <1>1, <1>2, <1>3
  <2> QED BY <1>4, <2>1
<1>7. /\ Len(tables') = n /\ tables' \in Seq(SUBSET Items)
      /\ tables'[k] = left /\ \A t \in 1..n : t # k => tables'[t] = tables[t]
    BY <1>1, <1>2, <1>3, <1>5, <1>6
<1>8. \A t \in 1..n : tables[t] = {h.item : h \in {x \in handles : x.table = t}} BY <1>1 DEF SceneInv
<1>9. left = {h.item : h \in {x \in handles' : x.table = k}}
  <2>1. \A h \in handles : h.table = k /\ h.item.id = handle.item.id => h = handle BY <1>1 DEF SceneInv
  <2>2. tables[k] = {h.item : h \in {x \in handles : x.table = k}} BY <1>2, <1>8
  <2>3. ASSUME NEW i \in left PROVE i \in {h.item : h \in {x \in handles' : x.table = k}}
    <3>1. PICK h \in handles : h.table = k /\ h.item = i BY <1>4, <2>2, <2>3
    <3>2. h # handle BY <1>4, <2>3, <3>1
    <3> QED BY <1>5, <3>1, <3>2
  <2>4. ASSUME NEW h \in handles', h.table = k PROVE h.item \in left
    <3>1. h \in handles /\ h # handle BY <1>5, <2>4
    <3>2. h.item \in tables[k] /\ h.item.id # handle.item.id BY <2>1, <2>2, <2>4, <3>1
    <3> QED BY <1>4, <3>2
  <2> QED BY <2>3, <2>4
<1>10. \A t \in 1..Len(tables') : tables'[t] = {h.item : h \in {x \in handles' : x.table = t}}
  <2>1. SUFFICES ASSUME NEW t \in 1..n PROVE tables'[t] = {h.item : h \in {x \in handles' : x.table = t}} BY <1>7
  <2>2. CASE t = k BY <1>7, <1>9, <2>2
  <2>3. CASE t # k
    <3>1. {x \in handles' : x.table = t} = {x \in handles : x.table = t} BY <1>1, <1>5, <2>3
    <3> QED BY <1>7, <1>8, <2>3, <3>1
  <2> QED BY <2>2, <2>3
<1>11. /\ current' \in [SceneRegistries -> (1..n) \cup {None}]
       /\ \A q \in SceneRegistries : current'[q] = IF q = r /\ left = {} THEN None ELSE current[q]
    BY <1>2, <1>3, <1>5
<1>12. \A h \in handles' : current'[h.item.registry] = h.table
  <2>1. SUFFICES ASSUME NEW h \in handles' PROVE current'[h.item.registry] = h.table OBVIOUS
  <2>2. h \in handles /\ current[h.item.registry] = h.table /\ h.item.registry \in SceneRegistries
      BY <1>2, <1>5 DEF SceneInv, SceneRegistries
  <2>3. h.item.registry = r => left # {}
    <3>1. SUFFICES ASSUME h.item.registry = r PROVE left # {} OBVIOUS
    <3>2. h.table = k BY <1>2, <2>2, <3>1
    <3> QED BY <1>9, <2>1, <3>2
  <2> QED BY <1>11, <2>2, <2>3
<1>13. \A p, q \in SceneRegistries : p # q /\ current'[p] = current'[q] => current'[q] = None
    BY <1>11 DEF SceneInv
<1>14. \A g, h \in handles' : g.table = h.table /\ g.item.id = h.item.id => g = h BY <1>5 DEF SceneInv
<1>15. handles' \subseteq Disposers' BY <1>2, <1>5, <1>7 DEF Disposers
<1> QED BY <1>7, <1>10, <1>11, <1>12, <1>13, <1>14, <1>15 DEF SceneInv, SceneRegistries

(* Registering, disposing and throwing dice keep the tables and the disposers *)
(* in step.                                                                 *)
LEMMA SceneInductive == None \notin Nat /\ SceneInv /\ [Scene!Next]_(Scene!scVars) => SceneInv'
<1>1. SUFFICES ASSUME None \notin Nat, SceneInv, [Scene!Next]_(Scene!scVars) PROVE SceneInv' OBVIOUS
<1>2. ASSUME UNCHANGED <<tables, current, handles>> PROVE SceneInv' BY <1>1, <1>2 DEF SceneInv, Disposers
<1>3. CASE \E item \in Items : Scene!Register(item) BY <1>1, <1>3, RegisterKeeps
<1>4. CASE \E handle \in handles : Scene!Dispose(handle) BY <1>1, <1>4, DisposeKeeps
<1>5. CASE \E t \in Throws : t \notin DOMAIN rolled /\ Scene!Evaluate(t) BY <1>2, <1>5 DEF Scene!Evaluate
<1> QED BY <1>1, <1>2, <1>3, <1>4, <1>5 DEF Scene!Next, Scene!scVars

(* Whatever order plugins register and dispose of prompt sections, lore,     *)
(* characters and personas in, a reader sees each registration that was not  *)
(* taken back, and nothing else.                                            *)
THEOREM ReadersSeeRegistrations ==
  ASSUME None \notin Nat PROVE Scene!Spec => []Scene!RegistrationsAreSeen
<1>1. Scene!Init => SceneInv
  <2>1. SUFFICES ASSUME Scene!Init PROVE SceneInv OBVIOUS
  <2>2. tables = <<>> /\ handles = {} /\ current = [r \in SceneRegistries |-> None]
      BY <2>1 DEF Scene!Init, Scene!Registries, SceneRegistries
  <2>3. Len(tables) = 0 /\ tables \in Seq(SUBSET Items) BY <2>2
  <2> QED BY <2>2, <2>3 DEF SceneInv
<1>2. SceneInv => Scene!RegistrationsAreSeen
  <2>1. SUFFICES ASSUME SceneInv, NEW r \in SceneRegistries
                 PROVE  Scene!Held(r) = {h.item : h \in {x \in handles : x.item.registry = r}}
      BY DEF Scene!RegistrationsAreSeen, Scene!Registries, SceneRegistries
  <2>2. \A h \in handles : h.table \in 1..Len(tables) /\ h.item.registry \in SceneRegistries /\ h.table # None
      BY <2>1 DEF SceneInv, Disposers, SceneRegistries
  <2>3. CASE current[r] = None
    <3>1. {x \in handles : x.item.registry = r} = {} BY <2>1, <2>2, <2>3 DEF SceneInv
    <3> QED BY <2>3, <3>1 DEF Scene!Held
  <2>4. CASE current[r] # None
    <3>1. PICK t : t = current[r] /\ t \in 1..Len(tables) BY <2>1, <2>4 DEF SceneInv
    <3>2. {x \in handles : x.item.registry = r} = {x \in handles : x.table = t}
      <4>1. ASSUME NEW h \in handles PROVE h.item.registry = r <=> h.table = t
          BY <2>1, <2>2, <2>4, <3>1 DEF SceneInv
      <4> QED BY <4>1
    <3>3. tables[t] = {h.item : h \in {x \in handles : x.table = t}} BY <2>1, <3>1 DEF SceneInv
    <3> QED BY <2>4, <3>1, <3>2, <3>3 DEF Scene!Held
  <2> QED BY <2>3, <2>4
<1> QED BY <1>1, <1>2, SceneInductive, PTL DEF Scene!Spec

-----------------------------------------------------------------------------
(* The catalogs of assets and presets.                                      *)
Assets ==
  INSTANCE AssetCatalog WITH
    Scopes <- AssetScopes, Parent <- AssetParent, Kinds <- AssetKinds, Single <- SingleKinds,
    MaxQueue <- MaxCatalogQueue, MaxStops <- MaxCatalogStops,
    memory <- catalogNow, durable <- catalogDurable, queue <- catalogQueue,
    writing <- catalogWriting, answer <- catalogAnswer

(* What library and preset show is what their table holds, up to the one     *)
(* document that is being put; both are whole (every selected asset and      *)
(* bound preset exists), no job trips the catalog's own assertion, and no    *)
(* capture holds an asset that is gone.                                      *)
CatalogIsSound == Assets!CatalogIsSound

(* A set of natural numbers that is not empty has a least element.          *)
LEMMA LeastNumber ==
  ASSUME NEW S \in SUBSET Nat, S # {}
  PROVE  \E n \in S : \A m \in S : n <= m
<1>1. IsWellFoundedOn(OpToRel(<, Nat), Nat) BY NatLessThanWellFounded, Zenon
<1>2. PICK n \in S : \A m \in S : <<m, n>> \notin OpToRel(<, Nat) BY <1>1, WFMin, Zenon
<1>3. \A m \in S : ~(m < n) BY <1>2 DEF OpToRel
<1> QED BY <1>3

(* A recursion over numbers: each round makes a value of the last one.       *)
Rounds(f, start, rule, n) == f[0] = start /\ \A i \in 1..n : f[i] = rule[<<f[i - 1], i>>]

LEMMA RoundsExist ==
  ASSUME NEW X, NEW start \in X, NEW N \in Nat, NEW rule \in [X \X (1..N) -> X]
  PROVE  \E f : Rounds(f, start, rule, N) /\ \A i \in 0..N : f[i] \in X
<1> DEFINE Has(n) == \E f : Rounds(f, start, rule, n) /\ \A i \in 0..n : f[i] \in X
           Bad == {n \in 0..N : ~Has(n)}
<1>1. ASSUME Bad # {} PROVE FALSE
  <2>1. PICK n \in Bad : \A m \in Bad : n <= m
    <3>1. Bad \in SUBSET Nat OBVIOUS
    <3> HIDE DEF Bad
    <3> QED BY <1>1, <3>1, LeastNumber
  <2>2. CASE n = 0
    <3>1. PICK f : f = [i \in 0..0 |-> start] OBVIOUS
    <3>2. Rounds(f, start, rule, 0) /\ \A i \in 0..0 : f[i] \in X BY <3>1 DEF Rounds
    <3> QED BY <2>1, <2>2, <3>2
  <2>3. CASE n # 0
    <3>1. n - 1 \in 0..N /\ n \in 1..N BY <2>1, <2>3
    <3>2. n - 1 \notin Bad BY <2>1, <3>1
    <3>3. PICK f : Rounds(f, start, rule, n - 1) /\ \A i \in 0..(n - 1) : f[i] \in X BY <3>1, <3>2
    <3>4. PICK last : last = rule[<<f[n - 1], n>>] OBVIOUS
    <3>5. last \in X
      <4>1. f[n - 1] \in X BY <3>1, <3>3
      <4> QED BY <3>1, <3>4, <4>1
    <3>6. PICK g : g = [i \in 0..n |-> IF i < n THEN f[i] ELSE last] OBVIOUS
    <3>7. g[n] = last /\ \A i \in 0..(n - 1) : g[i] = f[i] BY <3>1, <3>6
    <3>8. \A i \in 0..n : g[i] \in X BY <3>1, <3>3, <3>5, <3>7
    <3>9. g[0] = start BY <3>1, <3>3, <3>7 DEF Rounds
    <3>10. ASSUME NEW i \in 1..n PROVE g[i] = rule[<<g[i - 1], i>>]
      <4>1. g[i - 1] = f[i - 1]
        <5>1. i - 1 \in 0..(n - 1) BY <3>1
        <5> QED BY <3>7, <5>1
      <4>2. CASE i < n
        <5>1. i \in 1..(n - 1) /\ i \in 0..(n - 1) BY <3>1, <4>2
        <5>2. g[i] = f[i] BY <3>7, <5>1
        <5> QED BY <3>3, <4>1, <5>1, <5>2 DEF Rounds
      <4>3. CASE i = n BY <3>4, <3>7, <4>1, <4>3
      <4> QED BY <3>1, <4>2, <4>3
    <3>11. Rounds(g, start, rule, n) BY <3>9, <3>10 DEF Rounds
    <3> QED BY <2>1, <3>8, <3>11
  <2> QED BY <2>2, <2>3
<1>2. Has(N)
  <2>1. Bad = {} BY <1>1
  <2>2. N \in 0..N OBVIOUS
  <2> HIDE DEF Has
  <2> QED BY <2>1, <2>2
<1> QED BY <1>2

(* Kept: a part of the sequence, in order.                                  *)
LEMMA KeptUnfolds ==
  ASSUME NEW T, NEW s \in Seq(T), NEW S
  PROVE  \E f : /\ f[0] = <<>> /\ Assets!Kept(s, S) = f[Len(s)]
                /\ \A i \in 1..Len(s) : f[i] = IF s[i] \in S THEN Append(f[i - 1], s[i]) ELSE f[i - 1]
<1> DEFINE N == Len(s)
           Round(h) == [n \in 0..Len(s) |->
                          IF n = 0 THEN <<>> ELSE IF s[n] \in S THEN Append(h[n - 1], s[n]) ELSE h[n - 1]]
           upTo == CHOOSE h : h = Round(h)
<1>1. PICK rule : rule = [p \in Seq(T) \X (1..N) |-> IF s[p[2]] \in S THEN Append(p[1], s[p[2]]) ELSE p[1]] OBVIOUS
<1>2. rule \in [Seq(T) \X (1..N) -> Seq(T)] BY <1>1
<1>3. PICK f : Rounds(f, <<>>, rule, N) /\ \A i \in 0..N : f[i] \in Seq(T)
  <2>1. <<>> \in Seq(T) /\ N \in Nat OBVIOUS
  <2> HIDE DEF N
  <2> QED BY <1>2, <2>1, RoundsExist
<1>4. ASSUME NEW i \in 1..N PROVE f[i] = IF s[i] \in S THEN Append(f[i - 1], s[i]) ELSE f[i - 1]
  <2>1. i - 1 \in 0..N OBVIOUS
  <2>2. <<f[i - 1], i>> \in Seq(T) \X (1..N) BY <1>3, <2>1
  <2>3. f[i] = rule[<<f[i - 1], i>>] BY <1>3 DEF Rounds
  <2> QED BY <1>1, <2>2, <2>3
<1>5. PICK g : g = [n \in 0..N |-> f[n]] OBVIOUS
<1>6. DOMAIN g = 0..N /\ \A n \in 0..N : g[n] = f[n] BY <1>5
<1>7. PICK h : h = Round(g) OBVIOUS
<1>8. ASSUME NEW n \in 0..N PROVE h[n] = g[n]
  <2>1. h[n] = IF n = 0 THEN <<>> ELSE IF s[n] \in S THEN Append(g[n - 1], s[n]) ELSE g[n - 1] BY <1>7
  <2>2. CASE n = 0 BY <1>3, <1>6, <2>1, <2>2 DEF Rounds
  <2>3. CASE n # 0
    <3>1. n \in 1..N /\ n - 1 \in 0..N BY <2>3
    <3> QED BY <1>4, <1>6, <2>1, <2>3, <3>1
  <2> QED BY <2>2, <2>3
<1>9. h = g
  <2>1. h = [n \in 0..N |-> h[n]] BY <1>7
  <2>2. [n \in 0..N |-> h[n]] = [n \in 0..N |-> g[n]] BY <1>8
  <2>3. [n \in 0..N |-> g[n]] = g BY <1>5
  <2> QED BY <2>1, <2>2, <2>3
<1>10. \E x : x = Round(x) BY <1>7, <1>9
<1>11. upTo = Round(upTo)
  <2> HIDE DEF Round
  <2> QED BY <1>10
<1>12. Assets!Kept(s, S) = upTo[N] BY DEF Assets!Kept
<1>13. \A n \in 0..N : upTo[n] = IF n = 0 THEN <<>> ELSE IF s[n] \in S THEN Append(upTo[n - 1], s[n]) ELSE upTo[n - 1]
  <2> HIDE DEF upTo
  <2> QED BY <1>11
<1> HIDE DEF upTo, Round
<1>14. upTo[0] = <<>> BY <1>13
<1>15. \A i \in 1..N : upTo[i] = IF s[i] \in S THEN Append(upTo[i - 1], s[i]) ELSE upTo[i - 1] BY <1>13
<1> QED BY <1>12, <1>14, <1>15

Among(k, s, S) == \A i \in 1..Len(k) : k[i] \in S /\ \E m \in 1..Len(s) : k[i] = s[m]
Apart(k, s) == \A i, j \in 1..Len(k) : i # j => \E m, n \in 1..Len(s) : m # n /\ k[i] = s[m] /\ k[j] = s[n]
LEMMA KeptIsPart ==
  ASSUME NEW T, NEW s \in Seq(T), NEW S, NEW k, k = Assets!Kept(s, S)
  PROVE  /\ k \in Seq(T) /\ Len(k) <= Len(s)
         /\ Among(k, s, S) /\ Apart(k, s)
<1>1. PICK f : /\ f[0] = <<>> /\ Assets!Kept(s, S) = f[Len(s)]
               /\ \A i \in 1..Len(s) : f[i] = IF s[i] \in S THEN Append(f[i - 1], s[i]) ELSE f[i - 1]
    BY KeptUnfolds
<1> DEFINE N == Len(s)
           Embeds(q, n) ==
             /\ q \in Seq(T) /\ Len(q) <= n
             /\ \E g : /\ \A i \in 1..Len(q) : g[i] \in 1..n /\ q[i] = s[g[i]] /\ q[i] \in S
                       /\ \A i, j \in 1..Len(q) : g[i] = g[j] => i = j
<1>2. Embeds(<<>>, 0) OBVIOUS
<1>3. ASSUME NEW q, NEW n \in 1..N, Embeds(q, n - 1) PROVE Embeds(q, n)
  <2>1. PICK g : /\ \A i \in 1..Len(q) : g[i] \in 1..(n - 1) /\ q[i] = s[g[i]] /\ q[i] \in S
                 /\ \A i, j \in 1..Len(q) : g[i] = g[j] => i = j
      BY <1>3
  <2>2. \A i \in 1..Len(q) : g[i] \in 1..n BY <2>1
  <2> QED BY <1>3, <2>1, <2>2
<1>4. ASSUME NEW q, NEW n \in 1..N, Embeds(q, n - 1), s[n] \in S PROVE Embeds(Append(q, s[n]), n)
  <2>1. PICK g : /\ \A i \in 1..Len(q) : g[i] \in 1..(n - 1) /\ q[i] = s[g[i]] /\ q[i] \in S
                 /\ \A i, j \in 1..Len(q) : g[i] = g[j] => i = j
      BY <1>4
  <2>2. PICK l, more : l = Len(q) /\ more = Append(q, s[n]) OBVIOUS
  <2>3. s[n] \in T OBVIOUS
  <2>4. /\ l \in Nat /\ l <= n - 1 /\ more \in Seq(T) /\ Len(more) = l + 1
        /\ more[l + 1] = s[n] /\ \A i \in 1..l : more[i] = q[i]
      BY <1>4, <2>2, <2>3
  <2>5. PICK h : h = [i \in 1..(l + 1) |-> IF i <= l THEN g[i] ELSE n] OBVIOUS
  <2>6. h[l + 1] = n /\ \A i \in 1..l : h[i] = g[i] BY <2>4, <2>5
  <2>7. ASSUME NEW i \in 1..(l + 1) PROVE h[i] \in 1..n /\ more[i] = s[h[i]] /\ more[i] \in S
    <3>1. CASE i = l + 1 BY <1>4, <2>4, <2>6, <3>1
    <3>2. CASE i # l + 1
      <4>1. i \in 1..l BY <2>4, <3>2
      <4>2. g[i] \in 1..(n - 1) /\ q[i] = s[g[i]] /\ q[i] \in S BY <2>1, <2>2, <4>1
      <4> QED BY <2>4, <2>6, <4>1, <4>2
    <3> QED BY <3>1, <3>2
  <2>8. ASSUME NEW i \in 1..(l + 1), NEW j \in 1..(l + 1), h[i] = h[j] PROVE i = j
    <3>1. \A x \in 1..(l + 1) : x = l + 1 \/ (x \in 1..l /\ h[x] = g[x] /\ g[x] \in 1..(n - 1)) BY <2>1, <2>2, <2>4, <2>6
    <3> QED BY <2>1, <2>2, <2>4, <2>6, <2>8, <3>1
  <2>9. DOMAIN h = 1..(l + 1) /\ n \in Nat BY <2>5
  <2>10. Len(more) <= n BY <2>4, <2>9
  <2>11. Embeds(more, n)
    <3>1. \A i \in 1..Len(more) : h[i] \in 1..n /\ more[i] = s[h[i]] /\ more[i] \in S BY <2>4, <2>7
    <3>2. \A i, j \in 1..Len(more) : h[i] = h[j] => i = j BY <2>4, <2>8
    <3> QED BY <2>4, <2>10, <3>1, <3>2
  <2> QED
    <3> HIDE DEF Embeds
    <3> QED BY <2>2, <2>11
<1> DEFINE Bad == {n \in 0..N : ~Embeds(f[n], n)}
<1>5. ASSUME Bad # {} PROVE FALSE
  <2>1. PICK n \in Bad : \A m \in Bad : n <= m
    <3>1. Bad \in SUBSET Nat OBVIOUS
    <3> HIDE DEF Bad
    <3> QED BY <1>5, <3>1, LeastNumber
  <2> HIDE DEF Embeds
  <2>2. n # 0 BY <1>1, <1>2, <2>1
  <2>3. n \in 1..N /\ n - 1 \in 0..N BY <2>1, <2>2
  <2>4. Embeds(f[n - 1], n - 1)
    <3>1. n - 1 \notin Bad BY <2>1, <2>3
    <3> QED BY <2>3, <3>1
  <2>5. CASE s[n] \in S
    <3>1. f[n] = Append(f[n - 1], s[n]) BY <1>1, <2>3, <2>5
    <3>2. Embeds(f[n], n) BY <1>4, <2>3, <2>4, <2>5, <3>1
    <3> QED BY <2>1, <3>2
  <2>6. CASE s[n] \notin S
    <3>1. f[n] = f[n - 1] BY <1>1, <2>3, <2>6
    <3>2. Embeds(f[n], n) BY <1>3, <2>3, <2>4, <3>1
    <3> QED BY <2>1, <3>2
  <2> QED BY <2>5, <2>6
<1>6. N \in 0..N OBVIOUS
<1>7. Embeds(f[N], N)
  <2> HIDE DEF Embeds, N
  <2> QED BY <1>5, <1>6
<1>8. Embeds(k, N)
  <2> HIDE DEF Embeds
  <2> QED BY <1>1, <1>7
<1>9. PICK g : /\ \A i \in 1..Len(k) : g[i] \in 1..N /\ k[i] = s[g[i]] /\ k[i] \in S
               /\ \A i, j \in 1..Len(k) : g[i] = g[j] => i = j
    BY <1>8
<1>10. k \in Seq(T) /\ Len(k) <= N BY <1>8
<1> HIDE DEF Embeds
<1>11. Among(k, s, S) BY <1>9 DEF Among
<1>12. Apart(k, s)
  <2> SUFFICES ASSUME NEW i \in 1..Len(k), NEW j \in 1..Len(k), i # j
               PROVE  \E m, n \in 1..N : m # n /\ k[i] = s[m] /\ k[j] = s[n]
      BY DEF Apart
  <2>1. g[i] # g[j] /\ g[i] \in 1..N /\ g[j] \in 1..N /\ k[i] = s[g[i]] /\ k[j] = s[g[j]] BY <1>9
  <2> QED BY <2>1
<1> QED BY <1>10, <1>11, <1>12

(* What is kept of a selection is one.                                      *)
LEMMA KeptOfSelection ==
  ASSUME NEW ids \in Seq(AssetIds), Assets!IsInjective(ids), NEW S, NEW k, k = Assets!Kept(ids, S)
  PROVE  /\ k \in Seq(AssetIds) /\ Len(k) <= Len(ids) /\ Assets!IsInjective(k)
         /\ \A v \in Assets!ToSet(k) : v \in S /\ v \in Assets!ToSet(ids)
<1>1. /\ k \in Seq(AssetIds) /\ Len(k) <= Len(ids)
      /\ \A i \in 1..Len(k) : k[i] \in S /\ \E m \in 1..Len(ids) : k[i] = ids[m]
      /\ \A i, j \in 1..Len(k) : i # j => \E m, n \in 1..Len(ids) : m # n /\ k[i] = ids[m] /\ k[j] = ids[n]
  <2>1. k \in Seq(AssetIds) /\ Len(k) <= Len(ids) BY KeptIsPart
  <2>2. Among(k, ids, S) BY KeptIsPart
  <2>3. Apart(k, ids) BY KeptIsPart
  <2> QED BY <2>1, <2>2, <2>3 DEF Among, Apart
<1>2. DOMAIN k = 1..Len(k) /\ DOMAIN ids = 1..Len(ids) BY <1>1
<1>3. \A m, n \in 1..Len(ids) : ids[m] = ids[n] => m = n BY <1>2 DEF Assets!IsInjective
<1>4. Assets!IsInjective(k)
  <2> SUFFICES ASSUME NEW i \in 1..Len(k), NEW j \in 1..Len(k), k[i] = k[j], i # j PROVE FALSE
      BY <1>2 DEF Assets!IsInjective
  <2>1. PICK m \in 1..Len(ids), n \in 1..Len(ids) : m # n /\ k[i] = ids[m] /\ k[j] = ids[n] BY <1>1
  <2> QED BY <1>3, <2>1
<1>5. ASSUME NEW v \in Assets!ToSet(k) PROVE v \in S /\ v \in Assets!ToSet(ids)
  <2>1. PICK i \in 1..Len(k) : v = k[i] BY <1>2 DEF Assets!ToSet
  <2>2. PICK m \in 1..Len(ids) : v = ids[m] BY <1>1, <2>1
  <2>3. v \in Assets!ToSet(ids) BY <1>2, <2>2 DEF Assets!ToSet
  <2> QED BY <1>1, <2>1, <2>3
<1> QED BY <1>1, <1>4, <1>5

(* A scope has a parent or none, jobs are calls of the two services, and     *)
(* None is no id, content or reply.                                         *)
IsList(s) == s \in Seq({s[i] : i \in DOMAIN s})
IsPreset(q) == q # None /\ \A o \in DOMAIN q.orders : IsList(q.orders[o])
IsLibraryJob(job) ==
  \/ job.op = "save" /\ \A a \in job.assets : a.content \in Contents
  \/ job.op = "remove" /\ job.kind \in AssetKinds /\ job.id \in AssetIds
  \/ job.op = "select" /\ job.scope \in AssetScopes /\ job.kind \in AssetKinds /\ job.ids \in Seq(AssetIds)
  \/ job.op = "activate" /\ job.scope \in AssetScopes /\ job.kind \in AssetKinds /\ job.id \in AssetIds
  \/ job.op = "deactivate" /\ job.scope \in AssetScopes /\ job.kind \in AssetKinds /\ job.id \in AssetIds \cup {None}
IsPresetJob(job) ==
  \/ job.op = "savePreset" /\ job.id \in DOMAIN Presets /\ IsPreset(job.preset)
  \/ job.op = "removePreset" /\ job.id \in DOMAIN Presets
  \/ job.op = "activatePreset" /\ job.scope \in AssetScopes /\ job.id \in DOMAIN Presets
  \/ job.op = "deactivatePreset" /\ job.scope \in AssetScopes
CatalogAssumption ==
  /\ IsFiniteSet(AssetScopes) /\ AssetParent \in [AssetScopes -> AssetScopes \cup {None}]
  /\ None \notin Contents /\ None \notin DOMAIN Presets /\ None \notin AssetIds /\ None # "STATE"
  /\ \A job \in LibraryJobs : IsLibraryJob(job)
  /\ \A job \in PresetJobs : IsPresetJob(job)

LibraryDocs ==
  [assets : [AssetKinds -> [AssetIds -> Contents \cup {None}]], selected : [AssetScopes \X AssetKinds -> Seq(AssetIds)]]
IsPresetDoc(doc) ==
  /\ DOMAIN doc = {"presets", "bound"} /\ doc = [presets |-> doc.presets, bound |-> doc.bound]
  /\ doc.presets = [i \in DOMAIN Presets |-> doc.presets[i]]
  /\ \A i \in DOMAIN Presets : doc.presets[i] # None => IsPreset(doc.presets[i])
  /\ doc.bound \in [AssetScopes -> DOMAIN Presets \cup {None}]
IsDocument(c, doc) == IF c = "library" THEN doc \in LibraryDocs ELSE IsPresetDoc(doc)

-----------------------------------------------------------------------------
(* What every job makes of a whole document is whole.                       *)
Fine(c, out) ==
  /\ out.code # "STATE"
  /\ out.code = "publish" => IsDocument(c, out.doc) /\ Assets!Whole(c, out.doc)

LEMMA SelectionFine ==
  ASSUME NEW doc \in LibraryDocs, Assets!LibraryWhole(doc), NEW scope \in AssetScopes, NEW kind \in AssetKinds,
         NEW ids \in Seq(AssetIds)
  PROVE  Fine("library", Assets!ReplaceSelection(doc, scope, kind, ids))
<1>1. PICK x, out : x = <<scope, kind>> /\ out = Assets!ReplaceSelection(doc, scope, kind, ids) OBVIOUS
<1>2. CASE out = Assets!Refuse("INVALID") BY <1>1, <1>2 DEF Fine, Assets!Refuse
<1>3. CASE out # Assets!Refuse("INVALID")
  <2>1. PICK new : new = [doc EXCEPT !.selected[x] = ids] OBVIOUS
  <2>2. /\ out = Assets!Become(new) /\ Assets!IsInjective(ids) /\ (kind \in SingleKinds => Len(ids) <= 1)
        /\ \A i \in Assets!ToSet(ids) : Assets!Has(doc, kind, i)
    <3>1. /\ out = Assets!Become(new) /\ Assets!IsInjective(ids) /\ ~(kind \in SingleKinds /\ Len(ids) > 1)
          /\ \A i \in Assets!ToSet(ids) : Assets!Has(doc, kind, i)
        BY <1>1, <1>3, <2>1 DEF Assets!ReplaceSelection
    <3> QED BY <3>1
  <2>3. x \in AssetScopes \X AssetKinds /\ x[2] = kind BY <1>1
  <2>4. /\ new \in LibraryDocs /\ new.assets = doc.assets /\ new.selected[x] = ids
        /\ \A y \in AssetScopes \X AssetKinds : y # x => new.selected[y] = doc.selected[y]
      BY <2>1, <2>3 DEF LibraryDocs
  <2>5. \A k, i : Assets!Has(new, k, i) <=> Assets!Has(doc, k, i) BY <2>4 DEF Assets!Has
  <2>6. Assets!LibraryWhole(new)
    <3> SUFFICES ASSUME NEW y \in AssetScopes \X AssetKinds
                 PROVE  /\ Assets!IsInjective(new.selected[y]) /\ (y[2] \in SingleKinds => Len(new.selected[y]) <= 1)
                        /\ \A i \in Assets!ToSet(new.selected[y]) : Assets!Has(new, y[2], i)
        BY DEF Assets!LibraryWhole
    <3>1. CASE y = x BY <2>2, <2>3, <2>4, <2>5, <3>1
    <3>2. CASE y # x
      <4>1. new.selected[y] = doc.selected[y] BY <2>4, <3>2
      <4> QED BY <2>5, <4>1 DEF Assets!LibraryWhole
    <3> QED BY <3>1, <3>2
  <2> QED BY <1>1, <2>2, <2>4, <2>6 DEF Fine, Assets!Become, IsDocument, Assets!Whole
<1> QED BY <1>2, <1>3

LEMMA RemovalFine ==
  ASSUME NEW doc \in LibraryDocs, Assets!LibraryWhole(doc), NEW kind \in AssetKinds, NEW id \in AssetIds
  PROVE  Fine("library", Assets!RemoveAsset(doc, kind, id))
<1>1. PICK out : out = Assets!RemoveAsset(doc, kind, id) OBVIOUS
<1>2. CASE ~Assets!Has(doc, kind, id)
    BY <1>1, <1>2 DEF Fine, Assets!RemoveAsset, Assets!Unchanged, Assets!Refuse
<1>3. CASE Assets!Has(doc, kind, id)
  <2>1. PICK assets, selected, new :
          /\ assets = [doc.assets EXCEPT ![kind][id] = None]
          /\ selected = [x \in AssetScopes \X AssetKinds |->
                           IF x[2] = kind THEN Assets!Kept(doc.selected[x], AssetIds \ {id}) ELSE doc.selected[x]]
          /\ new = [assets |-> assets, selected |-> selected]
      OBVIOUS
  <2>2. out = Assets!Become(new) BY <1>1, <1>3, <2>1 DEF Assets!RemoveAsset
  <2>3. \A x \in AssetScopes \X AssetKinds : doc.selected[x] \in Seq(AssetIds) BY DEF LibraryDocs
  <2>4. ASSUME NEW x \in AssetScopes \X AssetKinds
        PROVE  /\ selected[x] \in Seq(AssetIds) /\ Assets!IsInjective(selected[x])
               /\ x[2] \in SingleKinds => Len(selected[x]) <= 1
               /\ \A i \in Assets!ToSet(selected[x]) : Assets!Has(doc, x[2], i) /\ (x[2] = kind => i # id)
    <3>1. PICK ids : ids = doc.selected[x] /\ ids \in Seq(AssetIds) BY <2>3
    <3>2. /\ Assets!IsInjective(ids) /\ (x[2] \in SingleKinds => Len(ids) <= 1)
          /\ \A i \in Assets!ToSet(ids) : Assets!Has(doc, x[2], i)
        BY <3>1 DEF Assets!LibraryWhole
    <3>3. CASE x[2] # kind BY <2>1, <3>1, <3>2, <3>3
    <3>4. CASE x[2] = kind
      <4>1. PICK k, S : k = Assets!Kept(ids, S) /\ S = AssetIds \ {id} OBVIOUS
      <4>2. selected[x] = k BY <2>1, <3>1, <3>4, <4>1
      <4>3. ids \in Seq(AssetIds) /\ Assets!IsInjective(ids) /\ k = Assets!Kept(ids, S) BY <3>1, <3>2, <4>1
      <4>4. /\ k \in Seq(AssetIds) /\ Len(k) <= Len(ids) /\ Assets!IsInjective(k)
            /\ \A v \in Assets!ToSet(k) : v \in S /\ v \in Assets!ToSet(ids)
          BY <4>3, KeptOfSelection
      <4>5. Len(k) \in Nat /\ Len(ids) \in Nat BY <3>1, <4>4
      <4>6. x[2] \in SingleKinds => Len(k) <= 1 BY <3>2, <4>4, <4>5
      <4>7. \A v \in Assets!ToSet(k) : Assets!Has(doc, x[2], v) /\ v # id BY <3>2, <4>1, <4>4
      <4> QED BY <4>2, <4>4, <4>6, <4>7
    <3> QED BY <3>3, <3>4
  <2>5. assets \in [AssetKinds -> [AssetIds -> Contents \cup {None}]] BY <2>1 DEF LibraryDocs
  <2>6. selected \in [AssetScopes \X AssetKinds -> Seq(AssetIds)] BY <2>1, <2>4
  <2>7. new \in LibraryDocs BY <2>1, <2>5, <2>6 DEF LibraryDocs
  <2>8. ASSUME NEW k \in AssetKinds, NEW i \in AssetIds, Assets!Has(doc, k, i), k = kind => i # id
        PROVE  Assets!Has(new, k, i)
    <3>1. assets[k][i] = doc.assets[k][i] BY <2>1, <2>8 DEF LibraryDocs
    <3> QED BY <2>1, <2>8, <3>1 DEF Assets!Has
  <2>9. Assets!LibraryWhole(new)
    <3> SUFFICES ASSUME NEW x \in AssetScopes \X AssetKinds
                 PROVE  /\ Assets!IsInjective(new.selected[x]) /\ (x[2] \in SingleKinds => Len(new.selected[x]) <= 1)
                        /\ \A i \in Assets!ToSet(new.selected[x]) : Assets!Has(new, x[2], i)
        BY DEF Assets!LibraryWhole
    <3>1. new.selected[x] = selected[x] /\ x[2] \in AssetKinds BY <2>1
    <3>2. \A i \in Assets!ToSet(selected[x]) : i \in AssetIds
      <4>1. selected[x] \in Seq(AssetIds) BY <2>4
      <4> QED BY <4>1 DEF Assets!ToSet
    <3> QED BY <2>4, <2>8, <3>1, <3>2
  <2> QED BY <1>1, <2>2, <2>7, <2>9 DEF Fine, Assets!Become, IsDocument, Assets!Whole
<1> QED BY <1>2, <1>3

LEMMA SavingFine ==
  ASSUME CatalogAssumption, NEW doc \in LibraryDocs, Assets!LibraryWhole(doc), NEW assets, \A a \in assets : a.content \in Contents
  PROVE  Fine("library", Assets!SaveBundle(doc, assets))
<1>1. PICK table :
        table = [k \in AssetKinds |-> [i \in AssetIds |->
                  IF \E a \in assets : a.kind = k /\ a.id = i
                  THEN (CHOOSE a \in assets : a.kind = k /\ a.id = i).content ELSE doc.assets[k][i]]]
    OBVIOUS
<1>2. PICK new : new = [doc EXCEPT !.assets = table] OBVIOUS
<1>3. Assets!SaveBundle(doc, assets) = Assets!Become(new) BY <1>1, <1>2 DEF Assets!SaveBundle
<1>4. ASSUME NEW k \in AssetKinds, NEW i \in AssetIds
      PROVE  table[k][i] \in Contents \/ table[k][i] = doc.assets[k][i]
  <2>1. CASE \E a \in assets : a.kind = k /\ a.id = i
    <3>1. PICK a : a = CHOOSE b \in assets : b.kind = k /\ b.id = i OBVIOUS
    <3>2. a \in assets BY <2>1, <3>1
    <3>3. table[k][i] = a.content BY <1>1, <2>1, <3>1
    <3> QED BY <3>2, <3>3
  <2>2. CASE ~\E a \in assets : a.kind = k /\ a.id = i BY <1>1, <2>2
  <2> QED BY <2>1, <2>2
<1>5. table \in [AssetKinds -> [AssetIds -> Contents \cup {None}]]
  <2>1. \A k \in AssetKinds, i \in AssetIds : doc.assets[k][i] \in Contents \cup {None} BY DEF LibraryDocs
  <2>2. \A k \in AssetKinds, i \in AssetIds : table[k][i] \in Contents \cup {None} BY <1>4, <2>1
  <2>3. table = [k \in AssetKinds |-> [i \in AssetIds |-> table[k][i]]] BY <1>1
  <2> QED BY <2>2, <2>3
<1>6. new \in LibraryDocs /\ new.selected = doc.selected /\ new.assets = table BY <1>2, <1>5 DEF LibraryDocs
<1>7. \A k \in AssetKinds, i \in AssetIds : Assets!Has(doc, k, i) => Assets!Has(new, k, i)
    BY <1>4, <1>6 DEF Assets!Has, CatalogAssumption
<1>8. Assets!LibraryWhole(new)
  <2> SUFFICES ASSUME NEW x \in AssetScopes \X AssetKinds
               PROVE  /\ Assets!IsInjective(new.selected[x]) /\ (x[2] \in SingleKinds => Len(new.selected[x]) <= 1)
                      /\ \A i \in Assets!ToSet(new.selected[x]) : Assets!Has(new, x[2], i)
      BY DEF Assets!LibraryWhole
  <2>1. new.selected[x] = doc.selected[x] /\ x[2] \in AssetKinds BY <1>6
  <2>2. \A i \in Assets!ToSet(doc.selected[x]) : i \in AssetIds
    <3>1. doc.selected[x] \in Seq(AssetIds) BY DEF LibraryDocs
    <3> QED BY <3>1 DEF Assets!ToSet
  <2> QED BY <1>7, <2>1, <2>2 DEF Assets!LibraryWhole
<1> QED BY <1>3, <1>6, <1>8 DEF Fine, Assets!Become, IsDocument, Assets!Whole

LEMMA LibraryFine ==
  ASSUME CatalogAssumption, NEW doc \in LibraryDocs, Assets!LibraryWhole(doc), NEW job \in LibraryJobs
  PROVE  Fine("library", Assets!Outcome(doc, job))
<1>1. IsLibraryJob(job) BY DEF CatalogAssumption
<1>2. CASE job.op = "save" /\ \A a \in job.assets : a.content \in Contents
  <2>1. Assets!Outcome(doc, job) = Assets!SaveBundle(doc, job.assets) BY <1>2 DEF Assets!Outcome
  <2> QED BY <1>2, <2>1, SavingFine
<1>3. CASE job.op = "remove" /\ job.kind \in AssetKinds /\ job.id \in AssetIds
  <2>1. Assets!Outcome(doc, job) = Assets!RemoveAsset(doc, job.kind, job.id) BY <1>3 DEF Assets!Outcome
  <2> QED BY <1>3, <2>1, RemovalFine
<1>4. CASE job.op = "select" /\ job.scope \in AssetScopes /\ job.kind \in AssetKinds /\ job.ids \in Seq(AssetIds)
  <2>1. Assets!Outcome(doc, job) = Assets!ReplaceSelection(doc, job.scope, job.kind, job.ids)
      BY <1>4 DEF Assets!Outcome
  <2> QED BY <1>4, <2>1, SelectionFine
<1>5. ASSUME NEW scope \in AssetScopes, NEW kind \in AssetKinds
      PROVE  doc.selected[<<scope, kind>>] \in Seq(AssetIds) /\ Assets!IsInjective(doc.selected[<<scope, kind>>])
  <2>1. PICK x : x = <<scope, kind>> OBVIOUS
  <2>2. x \in AssetScopes \X AssetKinds BY <2>1
  <2>3. doc.selected[x] \in Seq(AssetIds) BY <2>2 DEF LibraryDocs
  <2>4. Assets!IsInjective(doc.selected[x]) BY <2>2 DEF Assets!LibraryWhole
  <2> QED BY <2>1, <2>3, <2>4
<1>6. CASE job.op = "activate" /\ job.scope \in AssetScopes /\ job.kind \in AssetKinds /\ job.id \in AssetIds
  <2>1. Assets!Outcome(doc, job) = Assets!Activate(doc, job.scope, job.kind, job.id) BY <1>6 DEF Assets!Outcome
  <2>2. PICK ids, next : /\ ids = doc.selected[<<job.scope, job.kind>>]
                         /\ next = IF job.kind \in SingleKinds THEN <<job.id>>
                                   ELSE IF job.id \in Assets!ToSet(ids) THEN ids ELSE Append(ids, job.id)
      OBVIOUS
  <2>3. ids \in Seq(AssetIds) BY <1>5, <1>6, <2>2
  <2>4. next \in Seq(AssetIds) BY <1>6, <2>2, <2>3
  <2>5. Assets!Activate(doc, job.scope, job.kind, job.id) = Assets!ReplaceSelection(doc, job.scope, job.kind, next)
      BY <2>2 DEF Assets!Activate
  <2> QED BY <1>6, <2>1, <2>4, <2>5, SelectionFine
<1>7. CASE job.op = "deactivate" /\ job.scope \in AssetScopes /\ job.kind \in AssetKinds /\ job.id \in AssetIds \cup {None}
  <2>1. Assets!Outcome(doc, job) = Assets!Deactivate(doc, job.scope, job.kind, job.id) BY <1>7 DEF Assets!Outcome
  <2>2. PICK ids, kept, next : /\ ids = doc.selected[<<job.scope, job.kind>>]
                               /\ kept = Assets!Kept(ids, AssetIds \ {job.id})
                               /\ next = IF job.id = None THEN <<>> ELSE kept
      OBVIOUS
  <2>3. ids \in Seq(AssetIds) /\ Assets!IsInjective(ids) BY <1>5, <1>7, <2>2
  <2>4. kept \in Seq(AssetIds) BY <2>2, <2>3, KeptOfSelection
  <2>5. next \in Seq(AssetIds) BY <2>2, <2>4
  <2>6. \/ Assets!Deactivate(doc, job.scope, job.kind, job.id) = Assets!Unchanged
        \/ Assets!Deactivate(doc, job.scope, job.kind, job.id) = Assets!ReplaceSelection(doc, job.scope, job.kind, next)
      BY <2>2 DEF Assets!Deactivate
  <2>7. Fine("library", Assets!Unchanged) BY DEF Fine, Assets!Unchanged, Assets!Refuse
  <2> QED BY <1>7, <2>1, <2>5, <2>6, <2>7, SelectionFine
<1> QED BY <1>1, <1>2, <1>3, <1>4, <1>6, <1>7 DEF IsLibraryJob

LEMMA PresetsFine ==
  ASSUME CatalogAssumption, NEW doc, IsPresetDoc(doc), Assets!PresetsWhole(doc), NEW job \in PresetJobs
  PROVE  Fine("presets", Assets!Outcome(doc, job))
<1> USE DEF IsPresetDoc, IsDocument, Assets!Whole, Assets!Become
<1>1. IsPresetJob(job) BY DEF CatalogAssumption
<1>2. \A code \in {"INVALID", "unchanged"} : Fine("presets", Assets!Refuse(code)) BY DEF Fine, Assets!Refuse
<1>3. CASE job.op = "savePreset" /\ job.id \in DOMAIN Presets /\ IsPreset(job.preset)
  <2>1. Assets!Outcome(doc, job) = Assets!SavePreset(doc, job.id, job.preset) BY <1>3 DEF Assets!Outcome
  <2>2. PICK id, q, new : id = job.id /\ q = job.preset /\ new = [doc EXCEPT !.presets[id] = q] OBVIOUS
  <2>3. CASE Assets!PresetWhole(q)
    <3>1. Assets!Outcome(doc, job) = Assets!Become(new) BY <2>1, <2>2, <2>3 DEF Assets!SavePreset
    <3>2. PICK table : table = [doc.presets EXCEPT ![id] = q] OBVIOUS
    <3>3. new = [presets |-> table, bound |-> doc.bound] BY <2>2, <3>2
    <3>4. /\ table = [i \in DOMAIN Presets |-> table[i]] /\ table[id] = q
          /\ \A i \in DOMAIN Presets : i # id => table[i] = doc.presets[i]
        BY <1>3, <2>2, <3>2
    <3>5. new.presets = table /\ new.bound = doc.bound BY <3>3
    <3>6. IsPresetDoc(new) BY <1>3, <2>2, <3>3, <3>4, <3>5
    <3>7. q # None BY <1>3, <2>2 DEF IsPreset
    <3>8. Assets!PresetsWhole(new) BY <2>3, <3>4, <3>5, <3>7 DEF Assets!PresetsWhole
    <3> QED BY <3>1, <3>6, <3>8 DEF Fine
  <2>4. CASE ~Assets!PresetWhole(q) BY <1>2, <2>1, <2>2, <2>4 DEF Assets!SavePreset
  <2> QED BY <2>3, <2>4
<1>4. CASE job.op = "removePreset" /\ job.id \in DOMAIN Presets
  <2>1. Assets!Outcome(doc, job) = Assets!RemovePreset(doc, job.id) BY <1>4 DEF Assets!Outcome
  <2>2. PICK id, table, bound, new :
          /\ id = job.id /\ table = [doc.presets EXCEPT ![id] = None]
          /\ bound = [s \in AssetScopes |-> IF doc.bound[s] = id THEN None ELSE doc.bound[s]]
          /\ new = [presets |-> table, bound |-> bound]
      OBVIOUS
  <2>3. CASE doc.presets[id] = None
      BY <1>2, <2>1, <2>2, <2>3 DEF Assets!RemovePreset, Assets!Unchanged
  <2>4. CASE doc.presets[id] # None
    <3>1. Assets!Outcome(doc, job) = Assets!Become(new) BY <2>1, <2>2, <2>4 DEF Assets!RemovePreset
    <3>2. /\ table = [i \in DOMAIN Presets |-> table[i]] /\ table[id] = None
          /\ \A i \in DOMAIN Presets : i # id => table[i] = doc.presets[i]
        BY <1>4, <2>2
    <3>3. bound \in [AssetScopes -> DOMAIN Presets \cup {None}] BY <2>2
    <3>4. \A s \in AssetScopes : bound[s] # None => bound[s] = doc.bound[s] /\ bound[s] # id BY <2>2
    <3>5. new.presets = table /\ new.bound = bound BY <2>2
    <3>6. IsPresetDoc(new) BY <2>2, <3>2, <3>3, <3>5
    <3>7. Assets!PresetsWhole(new) BY <3>2, <3>3, <3>4, <3>5 DEF Assets!PresetsWhole
    <3> QED BY <3>1, <3>6, <3>7 DEF Fine
  <2> QED BY <2>3, <2>4
<1>5. ASSUME NEW scope \in AssetScopes, NEW id \in DOMAIN Presets \cup {None}, id # None => doc.presets[id] # None,
             Assets!Outcome(doc, job) = Assets!Become([doc EXCEPT !.bound[scope] = id])
      PROVE  Fine("presets", Assets!Outcome(doc, job))
  <2>1. PICK bound, new : bound = [doc.bound EXCEPT ![scope] = id] /\ new = [presets |-> doc.presets, bound |-> bound]
      OBVIOUS
  <2>2. [doc EXCEPT !.bound[scope] = id] = new BY <2>1
  <2>3. /\ bound \in [AssetScopes -> DOMAIN Presets \cup {None}] /\ bound[scope] = id
        /\ \A s \in AssetScopes : s # scope => bound[s] = doc.bound[s]
      BY <2>1
  <2>4. new.presets = doc.presets /\ new.bound = bound BY <2>1
  <2>5. IsPresetDoc(new) BY <2>1, <2>3, <2>4
  <2>6. Assets!PresetsWhole(new) BY <1>5, <2>3, <2>4 DEF Assets!PresetsWhole
  <2> QED BY <1>5, <2>2, <2>5, <2>6 DEF Fine
<1>6. CASE job.op = "activatePreset" /\ job.scope \in AssetScopes /\ job.id \in DOMAIN Presets
  <2>1. Assets!Outcome(doc, job) = Assets!ActivatePreset(doc, job.scope, job.id) BY <1>6 DEF Assets!Outcome
  <2> QED BY <1>2, <1>5, <1>6, <2>1 DEF Assets!ActivatePreset
<1>7. CASE job.op = "deactivatePreset" /\ job.scope \in AssetScopes
  <2>1. Assets!Outcome(doc, job) = Assets!DeactivatePreset(doc, job.scope) BY <1>7 DEF Assets!Outcome
  <2> QED BY <1>2, <1>5, <1>7, <2>1 DEF Assets!DeactivatePreset, Assets!Unchanged
<1> QED BY <1>1, <1>3, <1>4, <1>6, <1>7 DEF IsPresetJob

-----------------------------------------------------------------------------
(* capture(): the scopes that are looked at are scopes, and what the nearest *)
(* one selects is there.                                                    *)
LEMMA AncestryIsScopes ==
  ASSUME CatalogAssumption, NEW scope \in AssetScopes
  PROVE  Assets!Ancestry(scope) \in Seq(AssetScopes)
<1> DEFINE N == Cardinality(AssetScopes)
           Round(h) == [n \in 0..N |->
                          IF n = 0 THEN <<scope>>
                          ELSE IF AssetParent[Assets!Last(h[n - 1])] = None THEN h[n - 1]
                          ELSE Append(h[n - 1], AssetParent[Assets!Last(h[n - 1])])]
           up == CHOOSE h : h = Round(h)
           Lines == {q \in Seq(AssetScopes) : q # <<>>}
<1>1. N \in Nat BY FS_CardinalityType DEF CatalogAssumption
<1>2. Assets!Cardinality(AssetScopes) = N BY DEF Assets!Cardinality, Cardinality
<1> HIDE DEF N
<1>3. ASSUME NEW q \in Lines
      PROVE  /\ AssetParent[Assets!Last(q)] \in AssetScopes \cup {None}
             /\ AssetParent[Assets!Last(q)] # None => Append(q, AssetParent[Assets!Last(q)]) \in Lines
  <2>1. Len(q) \in 1..Len(q) /\ q \in Seq(AssetScopes) OBVIOUS
  <2>2. Assets!Last(q) \in AssetScopes BY <2>1 DEF Assets!Last
  <2>3. AssetParent[Assets!Last(q)] \in AssetScopes \cup {None} BY <2>2 DEF CatalogAssumption
  <2>4. ASSUME NEW p \in AssetScopes PROVE Append(q, p) \in Lines BY <2>1
  <2> QED BY <2>3, <2>4
<1>4. PICK rule : rule = [p \in Lines \X (1..N) |->
                            IF AssetParent[Assets!Last(p[1])] = None THEN p[1]
                            ELSE Append(p[1], AssetParent[Assets!Last(p[1])])]
    OBVIOUS
<1>5. <<scope>> \in Lines OBVIOUS
<1> HIDE DEF Lines
<1>6. rule \in [Lines \X (1..N) -> Lines] BY <1>3, <1>4
<1>7. PICK f : Rounds(f, <<scope>>, rule, N) /\ \A i \in 0..N : f[i] \in Lines BY <1>1, <1>5, <1>6, RoundsExist
<1>8. ASSUME NEW i \in 1..N
      PROVE  f[i] = IF AssetParent[Assets!Last(f[i - 1])] = None THEN f[i - 1]
                    ELSE Append(f[i - 1], AssetParent[Assets!Last(f[i - 1])])
  <2>1. i - 1 \in 0..N BY <1>1
  <2>2. <<f[i - 1], i>> \in Lines \X (1..N) BY <1>7, <2>1
  <2>3. f[i] = rule[<<f[i - 1], i>>] BY <1>7 DEF Rounds
  <2> QED BY <1>4, <2>2, <2>3
<1>9. PICK g : g = [n \in 0..N |-> f[n]] OBVIOUS
<1>10. DOMAIN g = 0..N /\ \A n \in 0..N : g[n] = f[n] BY <1>9
<1>11. PICK h : h = Round(g) OBVIOUS
<1>12. ASSUME NEW n \in 0..N PROVE h[n] = g[n]
  <2>1. h[n] = IF n = 0 THEN <<scope>>
               ELSE IF AssetParent[Assets!Last(g[n - 1])] = None THEN g[n - 1]
               ELSE Append(g[n - 1], AssetParent[Assets!Last(g[n - 1])])
      BY <1>11
  <2>2. CASE n = 0 BY <1>7, <1>10, <2>1, <2>2 DEF Rounds
  <2>3. CASE n # 0
    <3>1. n \in 1..N /\ n - 1 \in 0..N BY <1>1, <2>3
    <3>2. g[n - 1] = f[n - 1] /\ g[n] = f[n] BY <1>10, <3>1
    <3> QED BY <1>8, <2>1, <2>3, <3>1, <3>2
  <2> QED BY <2>2, <2>3
<1>13. h = g
  <2>1. h = [n \in 0..N |-> h[n]] BY <1>11
  <2>2. [n \in 0..N |-> h[n]] = [n \in 0..N |-> g[n]] BY <1>12
  <2>3. [n \in 0..N |-> g[n]] = g BY <1>9
  <2> QED BY <2>1, <2>2, <2>3
<1>14. \E x : x = Round(x) BY <1>11, <1>13
<1>15. up = Round(up)
  <2> HIDE DEF Round
  <2> QED BY <1>14
<1>16. Assets!Ancestry(scope) = up[N] BY <1>2 DEF Assets!Ancestry
<1>17. \A n \in 0..N : up[n] = IF n = 0 THEN <<scope>>
                               ELSE IF AssetParent[Assets!Last(up[n - 1])] = None THEN up[n - 1]
                               ELSE Append(up[n - 1], AssetParent[Assets!Last(up[n - 1])])
  <2> HIDE DEF up
  <2> QED BY <1>15
<1> HIDE DEF up, Round
<1> DEFINE Bad == {n \in 0..N : up[n] \notin Lines}
<1>18. ASSUME Bad # {} PROVE FALSE
  <2>1. PICK n \in Bad : \A m \in Bad : n <= m
    <3>1. Bad \in SUBSET Nat OBVIOUS
    <3> HIDE DEF Bad
    <3> QED BY <1>18, <3>1, LeastNumber
  <2>2. n # 0 BY <1>1, <1>5, <1>17, <2>1
  <2>3. n \in 0..N /\ n - 1 \in 0..N /\ n - 1 \notin Bad BY <1>1, <2>1, <2>2
  <2>4. up[n - 1] \in Lines BY <2>3
  <2>5. up[n] \in Lines BY <1>3, <1>17, <2>2, <2>3, <2>4
  <2> QED BY <2>1, <2>5
<1>19. up[N] \in Lines BY <1>1, <1>18
<1> QED BY <1>16, <1>19 DEF Lines

(* The scope that a capture reads from is one that has what is looked for.   *)
LEMMA NearestHas ==
  ASSUME CatalogAssumption, NEW scope \in AssetScopes, NEW S,
         NEW from, from = Assets!Nearest(Assets!Kept(Assets!Ancestry(scope), S)), from # None
  PROVE  from \in S
<1>1. PICK line, k : line = Assets!Ancestry(scope) /\ k = Assets!Kept(line, S) OBVIOUS
<1>2. line \in Seq(AssetScopes) BY <1>1, AncestryIsScopes
<1>3. k \in Seq(AssetScopes) BY <1>1, <1>2, KeptIsPart
<1>4. Among(k, line, S) BY <1>1, <1>2, KeptIsPart
<1>5. k # <<>> /\ from = Head(k) BY <1>1 DEF Assets!Nearest
<1>6. 1 \in 1..Len(k) /\ from = k[1] BY <1>3, <1>5
<1> QED BY <1>4, <1>6 DEF Among

LEMMA CapturedIsThere ==
  ASSUME CatalogAssumption, catalogNow["library"] \in LibraryDocs, Assets!LibraryWhole(catalogNow["library"]),
         NEW scope \in AssetScopes, NEW kind \in AssetKinds,
         NEW i \in DOMAIN Assets!CaptureLibrary(scope)[kind]
  PROVE  Assets!CaptureLibrary(scope)[kind][i].content # None
<1>1. PICK doc, S, from, line :
        /\ doc = catalogNow["library"] /\ S = {s \in AssetScopes : doc.selected[<<s, kind>>] # <<>>}
        /\ line = Assets!Ancestry(scope) /\ from = Assets!Nearest(Assets!Kept(line, S))
    OBVIOUS
<1>2. PICK captured :
        captured = IF from = None THEN <<>>
                   ELSE [n \in DOMAIN doc.selected[<<from, kind>>] |->
                          [id |-> doc.selected[<<from, kind>>][n], content |-> doc.assets[kind][doc.selected[<<from, kind>>][n]]]]
    OBVIOUS
<1>3. Assets!CaptureLibrary(scope)[kind] = captured BY <1>1, <1>2 DEF Assets!CaptureLibrary
<1>4. from # None BY <1>2, <1>3
<1>5. from \in S BY <1>1, <1>4, NearestHas
<1>6. PICK x, ids : x = <<from, kind>> /\ ids = doc.selected[x] OBVIOUS
<1>7. x \in AssetScopes \X AssetKinds /\ x[2] = kind BY <1>1, <1>5, <1>6
<1>8. i \in DOMAIN ids /\ captured[i].content = doc.assets[kind][ids[i]] BY <1>2, <1>3, <1>4, <1>6
<1>9. ids[i] \in Assets!ToSet(ids) BY <1>8 DEF Assets!ToSet
<1>10. Assets!Has(doc, kind, ids[i]) BY <1>1, <1>6, <1>7, <1>9 DEF Assets!LibraryWhole
<1> QED BY <1>3, <1>8, <1>10 DEF Assets!Has

LEMMA CapturedIsOnce ==
  ASSUME CatalogAssumption, IsPresetDoc(catalogNow["presets"]), Assets!PresetsWhole(catalogNow["presets"]),
         NEW scope \in AssetScopes, Assets!CapturePreset(scope) # None
  PROVE  Assets!IsInjective(Assets!CapturePreset(scope))
<1>1. PICK doc, S, from, line :
        /\ doc = catalogNow["presets"] /\ S = {s \in AssetScopes : doc.bound[s] # None}
        /\ line = Assets!Ancestry(scope) /\ from = Assets!Nearest(Assets!Kept(line, S))
    OBVIOUS
<1>2. Assets!CapturePreset(scope) = IF from = None THEN None ELSE Assets!Prompts(doc.presets[doc.bound[from]])
    BY <1>1 DEF Assets!CapturePreset
<1>3. from # None BY <1>2
<1>4. from \in S BY <1>1, <1>3, NearestHas
<1>5. PICK q, order, enabled, S2 :
        /\ q = doc.presets[doc.bound[from]] /\ order = q.orders[q.selected]
        /\ S2 = {e \in Assets!ToSet(order) : e.enabled} /\ enabled = Assets!Kept(order, S2)
    OBVIOUS
<1>6. q # None /\ IsPreset(q) /\ Assets!PresetWhole(q)
  <2>1. from \in AssetScopes /\ doc.bound[from] # None BY <1>1, <1>4
  <2>2. doc.bound[from] \in DOMAIN Presets BY <1>1, <2>1 DEF IsPresetDoc
  <2> QED BY <1>1, <1>5, <2>1, <2>2 DEF IsPresetDoc, Assets!PresetsWhole
<1>7. /\ q.selected \in DOMAIN q.orders
      /\ \A i, j \in DOMAIN order : i # j => order[i].id # order[j].id
  <2>1. q.selected \in DOMAIN q.orders BY <1>6 DEF Assets!PresetWhole
  <2>2. Assets!OrderWhole(q, order) BY <1>5, <1>6, <2>1 DEF Assets!PresetWhole
  <2> QED BY <2>1, <2>2 DEF Assets!OrderWhole
<1>8. PICK T : order \in Seq(T) BY <1>5, <1>6, <1>7 DEF IsPreset, IsList
<1>9. enabled \in Seq(T) BY <1>5, <1>8, KeptIsPart
<1>10. \A i, j \in 1..Len(enabled) : i # j => \E m, n \in 1..Len(order) : m # n /\ enabled[i] = order[m] /\ enabled[j] = order[n]
  <2>1. order \in Seq(T) /\ enabled = Assets!Kept(order, S2) BY <1>5, <1>8
  <2>2. Apart(enabled, order) BY <2>1, KeptIsPart
  <2> QED BY <2>2 DEF Apart
<1>11. DOMAIN order = 1..Len(order) /\ DOMAIN enabled = 1..Len(enabled) BY <1>8, <1>9
<1>12. Assets!Prompts(q) = [i \in DOMAIN enabled |-> enabled[i].id] BY <1>5 DEF Assets!Prompts
<1>13. Assets!IsInjective(Assets!Prompts(q))
  <2> SUFFICES ASSUME NEW i \in 1..Len(enabled), NEW j \in 1..Len(enabled), enabled[i].id = enabled[j].id, i # j PROVE FALSE
      BY <1>11, <1>12 DEF Assets!IsInjective
  <2>1. PICK m \in 1..Len(order), n \in 1..Len(order) : m # n /\ enabled[i] = order[m] /\ enabled[j] = order[n] BY <1>10
  <2> QED BY <1>7, <1>11, <2>1
<1> QED BY <1>2, <1>3, <1>5, <1>13

-----------------------------------------------------------------------------
(* Memory, table, chain and write of one catalog.                           *)
CallsOf(c) == IF c = "library" THEN LibraryJobs ELSE PresetJobs
IsGood(c, doc) == IsDocument(c, doc) /\ Assets!Whole(c, doc)
InTable(doc) == [doc |-> doc, stored |-> TRUE]
IsWrite(c, kept, w) ==
  /\ w = [doc |-> w.doc, stored |-> w.stored] /\ w.stored \in BOOLEAN
  /\ IsGood(c, w.doc) /\ (w.stored => w.doc = kept)
InStep(c, shown, kept, jobs, w) ==
  /\ IsGood(c, shown) /\ IsGood(c, kept)
  /\ jobs \in Seq(CallsOf(c))
  /\ w = Assets!NoWrite \/ (IsWrite(c, kept, w) /\ jobs # <<>>)
  /\ shown # kept => w = InTable(kept)

PerCatalog(f) == f = [c \in Assets!Catalogs |-> f[c]]
CatalogInv ==
  /\ PerCatalog(catalogNow) /\ PerCatalog(catalogDurable) /\ PerCatalog(catalogQueue) /\ PerCatalog(catalogWriting)
  /\ \A c \in Assets!Catalogs : InStep(c, catalogNow[c], catalogDurable[c], catalogQueue[c], catalogWriting[c])
  /\ catalogAnswer # "STATE"

(* Only one catalog moves.                                                  *)
Moves(f, g, c, v) == PerCatalog(g) /\ g[c] = v /\ \A d \in Assets!Catalogs : d # c => g[d] = f[d]
LEMMA OneSet ==
  ASSUME NEW f, PerCatalog(f), NEW c \in Assets!Catalogs, NEW v, NEW g, g = [f EXCEPT ![c] = v]
  PROVE  Moves(f, g, c, v)
BY DEF PerCatalog, Moves
LEMMA NoneSet ==
  ASSUME NEW f, PerCatalog(f), NEW c, NEW g, g = f
  PROVE  Moves(f, g, c, f[c])
BY DEF Moves

LEMMA InitialCatalogs == ASSUME CatalogAssumption, Assets!Init PROVE CatalogInv
<1>1. PICK lib, pre : lib = Assets!EmptyLibrary /\ pre = Assets!EmptyPresets OBVIOUS
<1>2. IsGood("library", lib)
  <2>1. lib \in LibraryDocs BY <1>1 DEF LibraryDocs, Assets!EmptyLibrary
  <2>2. \A x \in AssetScopes \X AssetKinds : lib.selected[x] = <<>> BY <1>1 DEF Assets!EmptyLibrary
  <2>3. Assets!LibraryWhole(lib) BY <2>2 DEF Assets!LibraryWhole, Assets!IsInjective, Assets!ToSet
  <2> QED BY <2>1, <2>3 DEF IsGood, IsDocument, Assets!Whole
<1>3. IsGood("presets", pre)
  <2>1. pre = [presets |-> [i \in DOMAIN Presets |-> None], bound |-> [s \in AssetScopes |-> None]]
      BY <1>1 DEF Assets!EmptyPresets
  <2>2. IsPresetDoc(pre) BY <2>1 DEF IsPresetDoc
  <2>3. Assets!PresetsWhole(pre) BY <2>1 DEF Assets!PresetsWhole
  <2> QED BY <2>2, <2>3 DEF IsGood, IsDocument, Assets!Whole
<1>4. /\ catalogNow = [library |-> lib, presets |-> pre] /\ catalogDurable = catalogNow
      /\ catalogQueue = [c \in Assets!Catalogs |-> <<>>] /\ catalogWriting = [c \in Assets!Catalogs |-> Assets!NoWrite]
      /\ catalogAnswer = None
    BY <1>1 DEF Assets!Init
<1>5. PerCatalog(catalogNow) /\ PerCatalog(catalogQueue) /\ PerCatalog(catalogWriting)
    BY <1>4 DEF PerCatalog, Assets!Catalogs
<1>6. \A c \in Assets!Catalogs : IsGood(c, catalogNow[c]) BY <1>2, <1>3, <1>4 DEF Assets!Catalogs
<1>7. ASSUME NEW c \in Assets!Catalogs PROVE InStep(c, catalogNow[c], catalogDurable[c], catalogQueue[c], catalogWriting[c])
  <2>1. catalogQueue[c] = <<>> /\ catalogWriting[c] = Assets!NoWrite /\ catalogDurable[c] = catalogNow[c] BY <1>4
  <2> QED BY <1>6, <2>1 DEF InStep
<1> QED BY <1>4, <1>5, <1>7 DEF CatalogInv, CatalogAssumption

(* What stands when only one catalog moves.                                 *)
LEMMA OthersStay ==
  ASSUME CatalogInv, NEW c \in Assets!Catalogs, NEW shown, NEW kept, NEW jobs, NEW w,
         Moves(catalogNow, catalogNow', c, shown), Moves(catalogDurable, catalogDurable', c, kept),
         Moves(catalogQueue, catalogQueue', c, jobs), Moves(catalogWriting, catalogWriting', c, w),
         InStep(c, shown, kept, jobs, w), catalogAnswer' # "STATE"
  PROVE  CatalogInv'
<1>1. ASSUME NEW d \in Assets!Catalogs
      PROVE  InStep(d, catalogNow'[d], catalogDurable'[d], catalogQueue'[d], catalogWriting'[d])
  <2>1. CASE d = c BY <2>1 DEF Moves
  <2>2. CASE d # c
    <3>1. InStep(d, catalogNow[d], catalogDurable[d], catalogQueue[d], catalogWriting[d]) BY DEF CatalogInv
    <3> QED BY <2>2, <3>1 DEF Moves
  <2> QED BY <2>1, <2>2
<1>2. PerCatalog(catalogNow') /\ PerCatalog(catalogDurable') /\ PerCatalog(catalogQueue') /\ PerCatalog(catalogWriting')
    BY DEF Moves
<1> QED BY <1>1, <1>2 DEF CatalogInv

LEMMA EnqueueSafe ==
  ASSUME CatalogInv, NEW c \in Assets!Catalogs, NEW job \in CallsOf(c), Assets!Enqueue(c, job)
  PROVE  CatalogInv'
<1>1. PICK shown, kept, jobs, w, more :
        /\ shown = catalogNow[c] /\ kept = catalogDurable[c] /\ jobs = catalogQueue[c] /\ w = catalogWriting[c]
        /\ more = Append(jobs, job)
    OBVIOUS
<1>2. InStep(c, shown, kept, jobs, w) BY <1>1 DEF CatalogInv
<1>3. InStep(c, shown, kept, more, w)
  <2>1. more \in Seq(CallsOf(c)) /\ more # <<>> BY <1>1, <1>2 DEF InStep
  <2> QED BY <1>2, <2>1 DEF InStep
<1>4. catalogQueue' = [catalogQueue EXCEPT ![c] = more] BY <1>1 DEF Assets!Enqueue
<1>5. UNCHANGED <<catalogNow, catalogDurable, catalogWriting, catalogAnswer>> BY DEF Assets!Enqueue
<1>6. /\ PerCatalog(catalogNow) /\ PerCatalog(catalogDurable) /\ PerCatalog(catalogQueue) /\ PerCatalog(catalogWriting)
      /\ catalogAnswer' # "STATE"
    BY <1>5 DEF CatalogInv
<1>7. Moves(catalogQueue, catalogQueue', c, more) BY <1>4, <1>6, OneSet
<1>8. Moves(catalogNow, catalogNow', c, shown) BY <1>1, <1>5, <1>6, NoneSet
<1>9. Moves(catalogDurable, catalogDurable', c, kept) BY <1>1, <1>5, <1>6, NoneSet
<1>10. Moves(catalogWriting, catalogWriting', c, w) BY <1>1, <1>5, <1>6, NoneSet
<1> QED BY <1>3, <1>6, <1>7, <1>8, <1>9, <1>10, OthersStay

(* The first job of a chain ends, or its document is on its way.            *)
LEMMA BeginSafe ==
  ASSUME CatalogAssumption, CatalogInv, NEW c \in Assets!Catalogs, Assets!Begin(c)
  PROVE  CatalogInv'
<1>1. PICK shown, kept, jobs, w, out :
        /\ shown = catalogNow[c] /\ kept = catalogDurable[c] /\ jobs = catalogQueue[c] /\ w = catalogWriting[c]
        /\ out = Assets!Outcome(shown, Head(jobs))
    OBVIOUS
<1>2. InStep(c, shown, kept, jobs, w) BY <1>1 DEF CatalogInv
<1>3. jobs # <<>> /\ w = Assets!NoWrite BY <1>1 DEF Assets!Begin
<1>4. Head(jobs) \in CallsOf(c) /\ Tail(jobs) \in Seq(CallsOf(c)) BY <1>2, <1>3 DEF InStep
<1>5. Fine(c, out)
  <2>1. IsDocument(c, shown) /\ Assets!Whole(c, shown) BY <1>2 DEF InStep, IsGood
  <2>2. CASE c = "library"
    <3>1. shown \in LibraryDocs /\ Assets!LibraryWhole(shown) /\ Head(jobs) \in LibraryJobs
        BY <1>4, <2>1, <2>2 DEF IsDocument, Assets!Whole, CallsOf
    <3> QED BY <1>1, <2>2, <3>1, LibraryFine
  <2>3. CASE c = "presets"
    <3>1. IsPresetDoc(shown) /\ Assets!PresetsWhole(shown) /\ Head(jobs) \in PresetJobs
        BY <1>4, <2>1, <2>3 DEF IsDocument, Assets!Whole, CallsOf
    <3> QED BY <1>1, <2>3, <3>1, PresetsFine
  <2> QED BY <2>2, <2>3 DEF Assets!Catalogs
<1>6. shown = kept BY <1>2, <1>3 DEF InStep, InTable, Assets!NoWrite
<1>7. UNCHANGED <<catalogNow, catalogDurable>> BY DEF Assets!Begin
<1>8. /\ PerCatalog(catalogNow) /\ PerCatalog(catalogDurable) /\ PerCatalog(catalogQueue) /\ PerCatalog(catalogWriting)
      /\ catalogAnswer # "STATE"
    BY DEF CatalogInv
<1>9. Moves(catalogNow, catalogNow', c, shown) BY <1>1, <1>7, <1>8, NoneSet
<1>10. Moves(catalogDurable, catalogDurable', c, kept) BY <1>1, <1>7, <1>8, NoneSet
<1>11. CASE out.code = "publish"
  <2>1. PICK v : v = [doc |-> out.doc, stored |-> FALSE] OBVIOUS
  <2>2. IsGood(c, out.doc) BY <1>5, <1>11 DEF Fine, IsGood
  <2>3. catalogWriting' = [catalogWriting EXCEPT ![c] = v] /\ UNCHANGED <<catalogQueue, catalogAnswer>>
      BY <1>1, <1>11, <2>1, <2>2 DEF Assets!Begin, IsGood
  <2>4. IsWrite(c, kept, v) BY <2>1, <2>2 DEF IsWrite
  <2>5. InStep(c, shown, kept, jobs, v) BY <1>2, <1>3, <1>6, <2>4 DEF InStep
  <2>6. Moves(catalogWriting, catalogWriting', c, v) BY <1>8, <2>3, OneSet
  <2>7. Moves(catalogQueue, catalogQueue', c, jobs) BY <1>1, <1>8, <2>3, NoneSet
  <2>8. catalogAnswer' # "STATE" BY <1>8, <2>3
  <2> QED BY <1>9, <1>10, <2>5, <2>6, <2>7, <2>8, OthersStay
<1>12. CASE out.code # "publish"
  <2>1. PICK rest : rest = Tail(jobs) OBVIOUS
  <2>2. /\ catalogQueue' = [catalogQueue EXCEPT ![c] = rest] /\ catalogAnswer' = out.code /\ UNCHANGED catalogWriting
      BY <1>1, <1>12, <2>1 DEF Assets!Begin
  <2>3. InStep(c, shown, kept, rest, w) BY <1>2, <1>3, <1>4, <2>1 DEF InStep
  <2>4. Moves(catalogQueue, catalogQueue', c, rest) BY <1>8, <2>2, OneSet
  <2>5. Moves(catalogWriting, catalogWriting', c, w) BY <1>1, <1>8, <2>2, NoneSet
  <2>6. catalogAnswer' # "STATE" BY <1>5, <2>2 DEF Fine
  <2> QED BY <1>9, <1>10, <2>3, <2>4, <2>5, <2>6, OthersStay
<1> QED BY <1>11, <1>12

(* The document is in the table, or is not; then it is the one in memory.    *)
LEMMA WritingIs ==
  ASSUME CatalogInv, NEW c \in Assets!Catalogs, catalogWriting[c] # Assets!NoWrite
  PROVE  /\ IsWrite(c, catalogDurable[c], catalogWriting[c])
         /\ catalogQueue[c] \in Seq(CallsOf(c)) /\ Tail(catalogQueue[c]) \in Seq(CallsOf(c))
<1>1. InStep(c, catalogNow[c], catalogDurable[c], catalogQueue[c], catalogWriting[c]) BY DEF CatalogInv
<1>2. catalogQueue[c] \in Seq(CallsOf(c)) /\ catalogQueue[c] # <<>> BY <1>1 DEF InStep
<1> QED BY <1>1, <1>2 DEF InStep

LEMMA StoredIsSet ==
  ASSUME NEW d, NEW b, NEW t
  PROVE  [[doc |-> d, stored |-> b] EXCEPT !.stored = t] = [doc |-> d, stored |-> t]
<1>1. PICK r, q : r = [doc |-> d, stored |-> b] /\ q = [doc |-> d, stored |-> t] OBVIOUS
<1>2. r \in [doc : {d}, stored : {b, t}] /\ q \in [doc : {d}, stored : {b, t}] BY <1>1
<1>3. PICK x : x = [r EXCEPT !.stored = t] OBVIOUS
<1>4. x \in [doc : {d}, stored : {b, t}] BY <1>2, <1>3
<1>5. x.doc = d /\ x.stored = t BY <1>1, <1>2, <1>3
<1>6. x = q BY <1>1, <1>2, <1>4, <1>5
<1> QED BY <1>1, <1>3, <1>6

LEMMA PutSafe ==
  ASSUME CatalogInv, NEW c \in Assets!Catalogs, Assets!Put(c)
  PROVE  CatalogInv'
<1>1. PICK shown, kept, jobs, w, doc, v :
        /\ shown = catalogNow[c] /\ kept = catalogDurable[c] /\ jobs = catalogQueue[c] /\ w = catalogWriting[c]
        /\ doc = w.doc /\ v = InTable(doc)
    OBVIOUS
<1>2. InStep(c, shown, kept, jobs, w) BY <1>1 DEF CatalogInv
<1>3. doc # None /\ ~w.stored BY <1>1 DEF Assets!Put
<1>4. IsWrite(c, kept, w) /\ jobs # <<>>
  <2>1. w # Assets!NoWrite BY <1>1, <1>3 DEF Assets!NoWrite
  <2> QED BY <1>2, <2>1 DEF InStep
<1>5. /\ catalogDurable' = [catalogDurable EXCEPT ![c] = doc] /\ catalogWriting' = [catalogWriting EXCEPT ![c].stored = TRUE]
      /\ UNCHANGED <<catalogNow, catalogQueue, catalogAnswer>>
    BY <1>1 DEF Assets!Put
<1>6. catalogWriting' = [catalogWriting EXCEPT ![c] = v]
  <2>1. v = [w EXCEPT !.stored = TRUE]
    <3>1. PICK b : b = w.stored OBVIOUS
    <3>2. w = [doc |-> doc, stored |-> b] BY <1>1, <1>4, <3>1 DEF IsWrite
    <3>3. [[doc |-> doc, stored |-> b] EXCEPT !.stored = TRUE] = [doc |-> doc, stored |-> TRUE] BY StoredIsSet, Zenon
    <3> QED BY <1>1, <3>2, <3>3 DEF InTable
  <2>2. catalogWriting' = [catalogWriting EXCEPT ![c] = [catalogWriting[c] EXCEPT !.stored = TRUE]] BY <1>5
  <2> QED BY <1>1, <2>1, <2>2
<1>7. IsGood(c, doc) /\ IsGood(c, shown) BY <1>1, <1>2, <1>4 DEF IsWrite, InStep
<1>8. IsWrite(c, doc, v) BY <1>1, <1>7 DEF IsWrite, InTable
<1>9. InStep(c, shown, doc, jobs, v) BY <1>1, <1>2, <1>4, <1>7, <1>8 DEF InStep
<1>10. /\ PerCatalog(catalogNow) /\ PerCatalog(catalogDurable) /\ PerCatalog(catalogQueue) /\ PerCatalog(catalogWriting)
       /\ catalogAnswer' # "STATE"
    BY <1>5 DEF CatalogInv
<1>11. Moves(catalogNow, catalogNow', c, shown) BY <1>1, <1>5, <1>10, NoneSet
<1>12. Moves(catalogDurable, catalogDurable', c, doc) BY <1>5, <1>10, OneSet
<1>13. Moves(catalogQueue, catalogQueue', c, jobs) BY <1>1, <1>5, <1>10, NoneSet
<1>14. Moves(catalogWriting, catalogWriting', c, v) BY <1>6, <1>10, OneSet
<1> QED BY <1>9, <1>10, <1>11, <1>12, <1>13, <1>14, OthersStay

LEMMA PutFailsSafe ==
  ASSUME CatalogInv, NEW c \in Assets!Catalogs, Assets!PutFails(c)
  PROVE  CatalogInv'
<1>1. PICK shown, kept, jobs, w, rest, v :
        /\ shown = catalogNow[c] /\ kept = catalogDurable[c] /\ jobs = catalogQueue[c] /\ w = catalogWriting[c]
        /\ rest = Tail(jobs) /\ v = Assets!NoWrite
    OBVIOUS
<1>2. InStep(c, shown, kept, jobs, w) BY <1>1 DEF CatalogInv
<1>3. w.doc # None /\ ~w.stored BY <1>1 DEF Assets!PutFails
<1>4. shown = kept BY <1>2, <1>3 DEF InStep, InTable
<1>5. /\ catalogWriting' = [catalogWriting EXCEPT ![c] = v] /\ catalogQueue' = [catalogQueue EXCEPT ![c] = rest]
      /\ catalogAnswer' = "STORAGE" /\ UNCHANGED <<catalogNow, catalogDurable>>
    BY <1>1 DEF Assets!PutFails
<1>6. rest \in Seq(CallsOf(c))
  <2>1. w # Assets!NoWrite BY <1>3 DEF Assets!NoWrite
  <2> QED BY <1>1, <2>1, WritingIs
<1>7. InStep(c, shown, kept, rest, v) BY <1>1, <1>2, <1>4, <1>6 DEF InStep
<1>8. /\ PerCatalog(catalogNow) /\ PerCatalog(catalogDurable) /\ PerCatalog(catalogQueue) /\ PerCatalog(catalogWriting)
    BY DEF CatalogInv
<1>9. Moves(catalogNow, catalogNow', c, shown) BY <1>1, <1>5, <1>8, NoneSet
<1>10. Moves(catalogDurable, catalogDurable', c, kept) BY <1>1, <1>5, <1>8, NoneSet
<1>11. Moves(catalogQueue, catalogQueue', c, rest) BY <1>5, <1>8, OneSet
<1>12. Moves(catalogWriting, catalogWriting', c, v) BY <1>5, <1>8, OneSet
<1> QED BY <1>5, <1>7, <1>9, <1>10, <1>11, <1>12, OthersStay

LEMMA PublishSafe ==
  ASSUME CatalogInv, NEW c \in Assets!Catalogs, Assets!Publish(c)
  PROVE  CatalogInv'
<1>1. PICK kept, jobs, w, doc, rest, v :
        /\ kept = catalogDurable[c] /\ jobs = catalogQueue[c] /\ w = catalogWriting[c]
        /\ doc = w.doc /\ rest = Tail(jobs) /\ v = Assets!NoWrite
    OBVIOUS
<1>2. InStep(c, catalogNow[c], kept, jobs, w) BY <1>1 DEF CatalogInv
<1>3. w.stored BY <1>1 DEF Assets!Publish
<1>4. IsWrite(c, kept, w) /\ rest \in Seq(CallsOf(c))
  <2>1. w # Assets!NoWrite BY <1>3 DEF Assets!NoWrite
  <2> QED BY <1>1, <2>1, WritingIs
<1>5. doc = kept BY <1>1, <1>3, <1>4 DEF IsWrite
<1>6. /\ catalogNow' = [catalogNow EXCEPT ![c] = kept]
      /\ catalogWriting' = [catalogWriting EXCEPT ![c] = v] /\ catalogQueue' = [catalogQueue EXCEPT ![c] = rest]
      /\ catalogAnswer' = "done" /\ UNCHANGED catalogDurable
    BY <1>1, <1>5 DEF Assets!Publish
<1>7. InStep(c, kept, kept, rest, v) BY <1>1, <1>2, <1>4 DEF InStep
<1>8. /\ PerCatalog(catalogNow) /\ PerCatalog(catalogDurable) /\ PerCatalog(catalogQueue) /\ PerCatalog(catalogWriting)
    BY DEF CatalogInv
<1>9. Moves(catalogNow, catalogNow', c, kept) BY <1>6, <1>8, OneSet
<1>10. Moves(catalogDurable, catalogDurable', c, kept) BY <1>1, <1>6, <1>8, NoneSet
<1>11. Moves(catalogQueue, catalogQueue', c, rest) BY <1>6, <1>8, OneSet
<1>12. Moves(catalogWriting, catalogWriting', c, v) BY <1>6, <1>8, OneSet
<1> QED BY <1>6, <1>7, <1>9, <1>10, <1>11, <1>12, OthersStay

(* A new process shows what the table holds.                                *)
LEMMA RestartSafe == ASSUME CatalogAssumption, CatalogInv, Assets!Restart PROVE CatalogInv'
<1>1. /\ catalogNow' = catalogDurable /\ catalogDurable' = catalogDurable /\ catalogAnswer' = None
      /\ catalogQueue' = [c \in Assets!Catalogs |-> <<>>] /\ catalogWriting' = [c \in Assets!Catalogs |-> Assets!NoWrite]
    BY DEF Assets!Restart
<1>2. PerCatalog(catalogNow') /\ PerCatalog(catalogDurable') BY <1>1 DEF CatalogInv
<1>3. PerCatalog(catalogQueue') /\ PerCatalog(catalogWriting') BY <1>1 DEF PerCatalog
<1>4. ASSUME NEW c \in Assets!Catalogs
      PROVE  InStep(c, catalogNow'[c], catalogDurable'[c], catalogQueue'[c], catalogWriting'[c])
  <2>1. IsGood(c, catalogDurable[c])
    <3>1. InStep(c, catalogNow[c], catalogDurable[c], catalogQueue[c], catalogWriting[c]) BY DEF CatalogInv
    <3> QED BY <3>1 DEF InStep
  <2>2. catalogQueue'[c] = <<>> /\ catalogWriting'[c] = Assets!NoWrite BY <1>1
  <2> QED BY <1>1, <2>1, <2>2 DEF InStep
<1> QED BY <1>1, <1>2, <1>3, <1>4 DEF CatalogInv, CatalogAssumption

LEMMA CatalogInductive ==
  ASSUME CatalogAssumption, CatalogInv, [Assets!Next]_(Assets!acVars)
  PROVE  CatalogInv'
<1>1. CASE UNCHANGED Assets!acVars BY <1>1 DEF Assets!acVars, CatalogInv
<1>2. ASSUME NEW job \in LibraryJobs, Assets!Enqueue("library", job) PROVE CatalogInv'
  <2>1. "library" \in Assets!Catalogs /\ job \in CallsOf("library") BY DEF Assets!Catalogs, CallsOf
  <2> QED BY <1>2, <2>1, EnqueueSafe
<1>3. ASSUME NEW job \in PresetJobs, Assets!Enqueue("presets", job) PROVE CatalogInv'
  <2>1. "presets" \in Assets!Catalogs /\ job \in CallsOf("presets") BY DEF Assets!Catalogs, CallsOf
  <2> QED BY <1>3, <2>1, EnqueueSafe
<1>4. ASSUME NEW c \in Assets!Catalogs, Assets!Begin(c) \/ Assets!Put(c) \/ Assets!PutFails(c) \/ Assets!Publish(c)
      PROVE  CatalogInv'
    BY <1>4, BeginSafe, PutSafe, PutFailsSafe, PublishSafe
<1>5. CASE Assets!Restart BY <1>5, RestartSafe
<1> QED BY <1>1, <1>2, <1>3, <1>4, <1>5 DEF Assets!Next

LEMMA CatalogInvImplies == ASSUME CatalogAssumption, CatalogInv PROVE CatalogIsSound
<1>1. ASSUME NEW c \in Assets!Catalogs
      PROVE  /\ catalogNow[c] # catalogDurable[c] => catalogWriting[c] = [doc |-> catalogDurable[c], stored |-> TRUE]
             /\ IsGood(c, catalogNow[c]) /\ IsGood(c, catalogDurable[c])
  <2>1. InStep(c, catalogNow[c], catalogDurable[c], catalogQueue[c], catalogWriting[c]) BY DEF CatalogInv
  <2> QED BY <2>1 DEF InStep, InTable
<1>2. "library" \in Assets!Catalogs /\ "presets" \in Assets!Catalogs BY DEF Assets!Catalogs
<1>3. catalogNow["library"] \in LibraryDocs /\ Assets!LibraryWhole(catalogNow["library"])
    BY <1>1, <1>2 DEF IsGood, IsDocument, Assets!Whole
<1>4. IsPresetDoc(catalogNow["presets"]) /\ Assets!PresetsWhole(catalogNow["presets"])
    BY <1>1, <1>2 DEF IsGood, IsDocument, Assets!Whole
<1>5. ASSUME NEW s \in AssetScopes, NEW k \in AssetKinds, NEW i \in DOMAIN Assets!CaptureLibrary(s)[k]
      PROVE  Assets!CaptureLibrary(s)[k][i].content # None
    BY <1>3, CapturedIsThere
<1>6. ASSUME NEW s \in AssetScopes, Assets!CapturePreset(s) # None
      PROVE  Assets!IsInjective(Assets!CapturePreset(s))
    BY <1>4, <1>6, CapturedIsOnce
<1>7. catalogAnswer # "STATE" BY DEF CatalogInv
<1> QED BY <1>1, <1>5, <1>6, <1>7 DEF CatalogIsSound, Assets!CatalogIsSound, IsGood

(* Both catalogs stay whole and durable through refused and failed writes    *)
(* and restarts, and what turns capture of them is there.                   *)
THEOREM CatalogsAreSafe == ASSUME CatalogAssumption PROVE Assets!Spec => []CatalogIsSound
<1>1. Assets!Init => CatalogInv BY InitialCatalogs
<1>2. CatalogInv /\ [Assets!Next]_(Assets!acVars) => CatalogInv' BY CatalogInductive
<1>3. CatalogInv => CatalogIsSound BY CatalogInvImplies
<1> QED BY <1>1, <1>2, <1>3, PTL DEF Assets!Spec

-----------------------------------------------------------------------------
(* Media: adapters come and go while a batch is under way.                  *)
Media == INSTANCE MediaIntake WITH
  Adapters <- MediaAdapters, Providers <- MediaProviders, Batches <- MediaBatches,
  Authorities <- MediaAuthorities, Kinds <- MediaKinds

(* A batch that is answered has for each input the artifact made of it, by   *)
(* an adapter that the caller's authority covered; no image is saved before  *)
(* every image of its group has passed its check, and every artifact of the  *)
(* attachment store stands for a saved image.  (media, media-input-attachment) *)
IntakeIsSound == Media!IntakeIsSound

(* Adapters have ranks, and None is no adapter and no artifact.              *)
MediaAssumption ==
  /\ None \notin MediaAdapters /\ \A a \in MediaAdapters : a.rank \in Nat
  /\ \A batch \in MediaBatches, a \in MediaAdapters : \A i \in DOMAIN batch :
       [input |-> i, mime |-> batch[i].mime, owner |-> a] # None

(* An artifact for its input, and a batch of which every input has one or    *)
(* will have one.                                                           *)
IsSaved(batch, i, attachments) == \E s \in attachments : s.batch = batch /\ s.input = i
MayTake(a, batch, i, authority) ==
  a \in MediaAdapters /\ batch[i].mime \in a.mimes /\ Media!Authorized(a, authority)
IsArtifact(x, batch, i, authority, attachments) ==
  /\ x # None /\ x.input = i /\ x.mime = batch[i].mime
  /\ MayTake(x.owner, batch, i, authority) /\ (x.owner.saves => IsSaved(batch, i, attachments))
BatchFields == {"batch", "authority", "groups", "artifacts", "checked", "saved"}
UnderWay(r, attachments) ==
  /\ DOMAIN r = BatchFields /\ r.batch \in MediaBatches /\ DOMAIN r.artifacts = DOMAIN r.batch
  /\ \A g \in r.groups : g.adapter \in MediaAdapters /\ \A i \in g.indexes : MayTake(g.adapter, r.batch, i, r.authority)
  /\ \A i \in DOMAIN r.batch :
       (\E g \in r.groups : i \in g.indexes) \/ IsArtifact(r.artifacts[i], r.batch, i, r.authority, attachments)
  /\ \A i \in r.checked : r.batch[i].sound
  /\ \A i \in r.saved : IsSaved(r.batch, i, attachments)
Complete(r, attachments) ==
  \A i \in DOMAIN r.batch : IsArtifact(r.artifacts[i], r.batch, i, r.authority, attachments)

PerIntake(f) == f = [c \in Intakes |-> f[c]]
MediaInv ==
  /\ PerIntake(intake) /\ PerIntake(answered) /\ PerIntake(drawn) /\ adapters \subseteq MediaAdapters
  /\ \A c \in Intakes :
       /\ intake[c] # None => UnderWay(intake[c], stored)
       /\ answered[c] # None => Complete(answered[c], stored)
       /\ drawn[c] # None => drawn[c].kind = drawn[c].request.kind
  /\ \A s \in stored : \A i \in s.group : s.batch[i].sound

IsSetTo(g, f, c, v) == PerIntake(g) /\ g[c] = v /\ \A d \in Intakes : d # c => g[d] = f[d]
LEMMA SetOne ==
  ASSUME NEW f, PerIntake(f), NEW c \in Intakes, NEW v, NEW g, g = [f EXCEPT ![c] = v]
  PROVE  IsSetTo(g, f, c, v)
BY DEF PerIntake, IsSetTo

LEMMA MoreSaved ==
  ASSUME NEW r, NEW some, NEW more, some \subseteq more
  PROVE  (UnderWay(r, some) => UnderWay(r, more)) /\ (Complete(r, some) => Complete(r, more))
<1>1. ASSUME NEW batch, NEW i, IsSaved(batch, i, some) PROVE IsSaved(batch, i, more) BY <1>1 DEF IsSaved
<1>2. ASSUME NEW x, NEW batch, NEW i, NEW authority, IsArtifact(x, batch, i, authority, some)
      PROVE  IsArtifact(x, batch, i, authority, more)
    BY <1>1, <1>2 DEF IsArtifact
<1>3. ASSUME UnderWay(r, some) PROVE UnderWay(r, more)
  <2>1. \A i \in r.saved : IsSaved(r.batch, i, more) BY <1>1, <1>3 DEF UnderWay
  <2>2. \A i \in DOMAIN r.batch :
          (\E g \in r.groups : i \in g.indexes) \/ IsArtifact(r.artifacts[i], r.batch, i, r.authority, more)
      BY <1>2, <1>3 DEF UnderWay
  <2> QED BY <1>3, <2>1, <2>2 DEF UnderWay
<1>4. ASSUME Complete(r, some) PROVE Complete(r, more) BY <1>2, <1>4 DEF Complete
<1> QED BY <1>3, <1>4

(* What stands when one caller's batch moves, with what it has saved.        *)
LEMMA BatchMoves ==
  ASSUME MediaInv, NEW c \in Intakes, UNCHANGED <<answered, drawn, adapters>>,
         NEW v, intake' = [intake EXCEPT ![c] = v], stored \subseteq stored',
         v = None \/ UnderWay(v, stored'), \A s \in stored' \ stored : \A i \in s.group : s.batch[i].sound
  PROVE  MediaInv'
<1>1. PerIntake(intake') /\ intake'[c] = v /\ \A d \in Intakes : d # c => intake'[d] = intake[d]
  <2>1. PerIntake(intake) BY DEF MediaInv
  <2>2. IsSetTo(intake', intake, c, v) BY <2>1, SetOne
  <2> QED BY <2>2 DEF IsSetTo
<1>2. ASSUME NEW d \in Intakes
      PROVE  /\ intake'[d] # None => UnderWay(intake'[d], stored')
             /\ answered[d] # None => Complete(answered[d], stored')
             /\ drawn[d] # None => drawn[d].kind = drawn[d].request.kind
  <2>1. intake'[d] # None => UnderWay(intake'[d], stored')
    <3>1. CASE d = c BY <1>1, <3>1
    <3>2. CASE d # c
      <4>1. intake[d] # None => UnderWay(intake[d], stored) BY DEF MediaInv
      <4> QED BY <1>1, <3>2, <4>1, MoreSaved
    <3> QED BY <3>1, <3>2
  <2>2. answered[d] # None => Complete(answered[d], stored')
    <3>1. answered[d] # None => Complete(answered[d], stored) BY DEF MediaInv
    <3> QED BY <3>1, MoreSaved
  <2> QED BY <2>1, <2>2 DEF MediaInv
<1>3. \A s \in stored' : \A i \in s.group : s.batch[i].sound BY DEF MediaInv
<1>4. PerIntake(answered') /\ PerIntake(drawn') /\ adapters' \subseteq MediaAdapters BY DEF MediaInv
<1> QED BY <1>1, <1>2, <1>3, <1>4 DEF MediaInv

(* The least by rank is one of them.                                        *)
LEMMA FirstIsOne ==
  ASSUME NEW S, S # {}, \A a \in S : a.rank \in Nat
  PROVE  Media!First(S) \in S
<1>1. PICK ranks : ranks = {a.rank : a \in S} OBVIOUS
<1>2. ranks \in SUBSET Nat /\ ranks # {} BY <1>1
<1>3. PICK n \in ranks : \A m \in ranks : n <= m BY <1>2, LeastNumber
<1>4. PICK a \in S : a.rank = n BY <1>1, <1>3
<1>5. \A b \in S : a.rank <= b.rank BY <1>1, <1>3, <1>4
<1> QED BY <1>4, <1>5 DEF Media!First
LEMMA GroupIsOne ==
  ASSUME NEW c, intake[c].groups # {}, \A g \in intake[c].groups : g.adapter.rank \in Nat
  PROVE  Media!Group(c) \in intake[c].groups
<1>1. PICK S, ranks : S = intake[c].groups /\ ranks = {g.adapter.rank : g \in S} OBVIOUS
<1>2. ranks \in SUBSET Nat /\ ranks # {} BY <1>1
<1>3. PICK n \in ranks : \A m \in ranks : n <= m BY <1>2, LeastNumber
<1>4. PICK g \in S : g.adapter.rank = n BY <1>1, <1>3
<1>5. \A h \in S : g.adapter.rank <= h.adapter.rank BY <1>1, <1>3, <1>4
<1> QED BY <1>1, <1>4, <1>5 DEF Media!Group

LEMMA InitialMedia == Media!Init => MediaInv
BY DEF Media!Init, MediaInv, PerIntake

LEMMA FailsSafe ==
  ASSUME MediaInv, NEW c \in Intakes, Media!Fails(c), UNCHANGED <<drawn, adapters>>
  PROVE  MediaInv'
<1>1. intake' = [intake EXCEPT ![c] = None] /\ UNCHANGED <<answered, stored>> BY DEF Media!Fails
<1> QED BY <1>1, BatchMoves

(* What a batch takes of an adapter is an artifact for each of its inputs.   *)
LEMMA TakeSafe ==
  ASSUME MediaAssumption, MediaInv, NEW c \in Intakes, intake[c] # None, intake[c].groups # {},
         Media!TakeOutput(c), UNCHANGED <<answered, drawn, adapters, stored>>,
         Media!Group(c).adapter.saves => \A i \in Media!Group(c).indexes : IsSaved(intake[c].batch, i, stored)
  PROVE  MediaInv'
<1>1. PICK r, g, v : r = intake[c] /\ g = Media!Group(c) /\ v = intake'[c] OBVIOUS
<1>2. UnderWay(r, stored) BY <1>1 DEF MediaInv
<1>3. g \in r.groups
  <2>1. \A h \in r.groups : h.adapter.rank \in Nat BY <1>2 DEF UnderWay, MediaAssumption
  <2> QED BY <1>1, <2>1, GroupIsOne
<1>4. PICK made : made = [i \in DOMAIN r.artifacts |->
                            IF i \in g.indexes THEN [input |-> i, mime |-> r.batch[i].mime, owner |-> g.adapter]
                            ELSE r.artifacts[i]]
    OBVIOUS
<1>5. intake' = [intake EXCEPT ![c].artifacts = made, ![c].groups = @ \ {g}, ![c].checked = {}, ![c].saved = {}]
    BY <1>1, <1>4 DEF Media!TakeOutput
<1>6. PICK new : new = [r EXCEPT !.artifacts = made, !.groups = r.groups \ {g}, !.checked = {}, !.saved = {}] OBVIOUS
<1>7. intake' = [intake EXCEPT ![c] = new] BY <1>1, <1>5, <1>6 DEF MediaInv, PerIntake
<1>8. /\ DOMAIN new = BatchFields /\ new.batch = r.batch /\ new.authority = r.authority
      /\ new.groups = r.groups \ {g} /\ new.artifacts = made /\ new.checked = {} /\ new.saved = {}
    BY <1>2, <1>6 DEF UnderWay, BatchFields
<1>9. ASSUME NEW i \in DOMAIN r.batch, i \in g.indexes
      PROVE  IsArtifact(made[i], r.batch, i, r.authority, stored)
  <2>1. PICK x : x = [input |-> i, mime |-> r.batch[i].mime, owner |-> g.adapter] OBVIOUS
  <2>2. made[i] = x BY <1>2, <1>4, <1>9, <2>1 DEF UnderWay
  <2>3. MayTake(g.adapter, r.batch, i, r.authority) BY <1>2, <1>3, <1>9 DEF UnderWay
  <2>4. x # None
    <3>1. r.batch \in MediaBatches /\ g.adapter \in MediaAdapters BY <1>2, <1>3 DEF UnderWay
    <3> QED BY <2>1, <3>1 DEF MediaAssumption
  <2>5. x.input = i /\ x.mime = r.batch[i].mime /\ x.owner = g.adapter BY <2>1
  <2> QED BY <1>1, <1>9, <2>2, <2>3, <2>4, <2>5 DEF IsArtifact
<1>10. ASSUME NEW i \in DOMAIN r.batch, i \notin g.indexes
       PROVE  (\E h \in new.groups : i \in h.indexes) \/ IsArtifact(made[i], r.batch, i, r.authority, stored)
  <2>1. made[i] = r.artifacts[i] BY <1>2, <1>4, <1>10 DEF UnderWay
  <2>2. (\E h \in r.groups : i \in h.indexes) \/ IsArtifact(r.artifacts[i], r.batch, i, r.authority, stored)
      BY <1>2 DEF UnderWay
  <2> QED BY <1>8, <1>10, <2>1, <2>2
<1>11. UnderWay(new, stored)
  <2>1. DOMAIN made = DOMAIN r.batch BY <1>2, <1>4 DEF UnderWay
  <2>2. \A i \in DOMAIN new.batch :
          (\E h \in new.groups : i \in h.indexes) \/ IsArtifact(new.artifacts[i], new.batch, i, new.authority, stored)
      BY <1>8, <1>9, <1>10
  <2>3. \A h \in new.groups : h.adapter \in MediaAdapters /\ \A i \in h.indexes : MayTake(h.adapter, new.batch, i, new.authority)
      BY <1>2, <1>8 DEF UnderWay
  <2>4. new.batch \in MediaBatches BY <1>2, <1>8 DEF UnderWay
  <2> QED BY <1>8, <2>1, <2>2, <2>3, <2>4 DEF UnderWay
<1> QED BY <1>7, <1>11, BatchMoves

(* A batch begins with an adapter for each of its inputs that may take it.   *)
LEMMA SelectedMayTake ==
  ASSUME MediaAssumption, MediaInv, NEW batch, NEW i, NEW authority,
         NEW a, a = Media!SelectInputAdapter(batch[i], authority), a # None
  PROVE  MayTake(a, batch, i, authority)
<1>1. PICK covered : covered = {b \in Media!Supporting(batch[i]) : Media!Authorized(b, authority)} OBVIOUS
<1>2. covered # {} /\ a = Media!First(covered) BY <1>1 DEF Media!SelectInputAdapter
<1>3. \A b \in covered : b \in MediaAdapters /\ batch[i].mime \in b.mimes /\ Media!Authorized(b, authority)
    BY <1>1 DEF Media!Supporting, MediaInv
<1>4. \A b \in covered : b.rank \in Nat BY <1>3 DEF MediaAssumption
<1>5. a \in covered BY <1>2, <1>4, FirstIsOne
<1> QED BY <1>3, <1>5 DEF MayTake

LEMMA IngestInputsSafe ==
  ASSUME MediaAssumption, MediaInv, NEW c \in Intakes, NEW batch \in MediaBatches, NEW authority,
         Media!IngestInputs(c, batch, authority)
  PROVE  MediaInv'
<1>1. PICK selected : selected = [i \in DOMAIN batch |-> Media!SelectInputAdapter(batch[i], authority)] OBVIOUS
<1>2. PICK new : new = [batch |-> batch, authority |-> authority, groups |-> Media!Groups(selected),
                        artifacts |-> [i \in DOMAIN batch |-> None], checked |-> {}, saved |-> {}]
    OBVIOUS
<1>3. /\ None \notin Media!ToSet(selected) /\ intake' = [intake EXCEPT ![c] = new]
      /\ UNCHANGED <<answered, drawn, adapters, stored>>
    BY <1>1, <1>2 DEF Media!IngestInputs
<1>4. ASSUME NEW i \in DOMAIN batch PROVE MayTake(selected[i], batch, i, authority)
  <2>1. selected[i] # None /\ selected[i] = Media!SelectInputAdapter(batch[i], authority)
      BY <1>1, <1>3 DEF Media!ToSet
  <2> QED BY <2>1, SelectedMayTake
<1>5. /\ DOMAIN new = BatchFields /\ new.batch = batch /\ new.authority = authority /\ DOMAIN new.artifacts = DOMAIN batch
      /\ new.groups = Media!Groups(selected) /\ new.checked = {} /\ new.saved = {}
    BY <1>2 DEF BatchFields
<1>6. ASSUME NEW g \in new.groups
      PROVE  g.adapter \in MediaAdapters /\ \A i \in g.indexes : MayTake(g.adapter, batch, i, authority)
  <2>1. PICK a \in Media!ToSet(selected) : g = [adapter |-> a, indexes |-> {i \in DOMAIN selected : selected[i] = a}]
      BY <1>5 DEF Media!Groups
  <2>2. g.adapter = a /\ \A i \in g.indexes : i \in DOMAIN batch /\ selected[i] = a BY <1>1, <2>1
  <2>3. PICK i \in DOMAIN batch : a = selected[i] BY <1>1, <2>1 DEF Media!ToSet
  <2>4. a \in MediaAdapters BY <1>4, <2>3 DEF MayTake
  <2> QED BY <1>4, <2>2, <2>4
<1>7. ASSUME NEW i \in DOMAIN batch PROVE \E g \in new.groups : i \in g.indexes
  <2>1. PICK a, g : a = selected[i] /\ g = [adapter |-> a, indexes |-> {j \in DOMAIN selected : selected[j] = a}] OBVIOUS
  <2>2. i \in DOMAIN selected /\ a \in Media!ToSet(selected) BY <1>1, <2>1 DEF Media!ToSet
  <2>3. g \in new.groups BY <1>5, <2>1, <2>2 DEF Media!Groups
  <2>4. i \in g.indexes BY <2>1, <2>2
  <2> QED BY <2>3, <2>4
<1>8. UnderWay(new, stored) BY <1>5, <1>6, <1>7 DEF UnderWay
<1> QED BY <1>3, <1>8, BatchMoves

LEMMA IngestSafe ==
  ASSUME MediaAssumption, MediaInv, NEW c \in Intakes, Media!Ingest(c)
  PROVE  MediaInv'
<1>1. /\ intake[c] # None /\ intake[c].groups # {} /\ ~Media!Group(c).adapter.saves
      /\ UNCHANGED <<adapters, drawn>>
      /\ (Media!TakeOutput(c) /\ UNCHANGED <<answered, stored>>) \/ Media!Fails(c)
    BY DEF Media!Ingest
<1> QED BY <1>1, TakeSafe, FailsSafe

LEMMA ValidateImageSafe ==
  ASSUME MediaInv, NEW c \in Intakes, Media!ValidateImage(c)
  PROVE  MediaInv'
<1>1. PICK r, image : r = intake[c] /\ image = Media!Min(Media!Group(c).indexes \ intake[c].checked) OBVIOUS
<1>2. /\ r # None /\ UNCHANGED <<adapters, drawn>>
      /\ \/ Media!Fails(c)
         \/ /\ r.batch[image].sound /\ UNCHANGED <<answered, stored>>
            /\ intake' = [intake EXCEPT ![c].checked = @ \cup {image}]
    BY <1>1 DEF Media!ValidateImage
<1>3. CASE Media!Fails(c) BY <1>2, <1>3, FailsSafe
<1>4. CASE ~Media!Fails(c)
  <2>1. PICK new : new = [r EXCEPT !.checked = r.checked \cup {image}] OBVIOUS
  <2>2. intake' = [intake EXCEPT ![c] = new] BY <1>1, <1>2, <1>4, <2>1 DEF MediaInv, PerIntake
  <2>3. UnderWay(r, stored) BY <1>1, <1>2 DEF MediaInv
  <2>4. /\ DOMAIN new = BatchFields /\ new.batch = r.batch /\ new.authority = r.authority /\ new.groups = r.groups
        /\ new.artifacts = r.artifacts /\ new.checked = r.checked \cup {image} /\ new.saved = r.saved
      BY <2>1, <2>3 DEF UnderWay, BatchFields
  <2>5. UnderWay(new, stored)
    <3>1. \A i \in new.checked : new.batch[i].sound BY <1>2, <1>4, <2>3, <2>4 DEF UnderWay
    <3> QED BY <2>3, <2>4, <3>1 DEF UnderWay
  <2> QED BY <1>2, <1>4, <2>2, <2>5, BatchMoves
<1> QED BY <1>3, <1>4

LEMMA SaveImageSafe ==
  ASSUME MediaAssumption, MediaInv, NEW c \in Intakes, Media!SaveImage(c)
  PROVE  MediaInv'
<1>1. PICK r, images, image, s :
        /\ r = intake[c] /\ images = Media!Group(c).indexes /\ image = Media!Min(images \ intake[c].saved)
        /\ s = Media!Attachment(r.batch, images, image)
    OBVIOUS
<1>2. /\ r # None /\ r.groups # {} /\ r.checked = images /\ UNCHANGED <<adapters, drawn>>
      /\ \/ Media!Fails(c)
         \/ /\ stored' = stored \cup {s} /\ UNCHANGED answered
            /\ intake' = [intake EXCEPT ![c].saved = @ \cup {image}]
         \/ r.saved = images /\ Media!TakeOutput(c) /\ UNCHANGED <<answered, stored>>
    BY <1>1 DEF Media!SaveImage
<1>3. UnderWay(r, stored) BY <1>1, <1>2 DEF MediaInv
<1>4. CASE Media!Fails(c) BY <1>2, <1>4, FailsSafe
<1>5. CASE r.saved = images /\ Media!TakeOutput(c) /\ UNCHANGED <<answered, stored>>
  <2>1. \A i \in images : IsSaved(r.batch, i, stored) BY <1>3, <1>5 DEF UnderWay
  <2> QED BY <1>1, <1>2, <1>5, <2>1, TakeSafe
<1>6. CASE /\ stored' = stored \cup {s} /\ UNCHANGED answered
           /\ intake' = [intake EXCEPT ![c].saved = @ \cup {image}]
  <2>1. PICK new : new = [r EXCEPT !.saved = r.saved \cup {image}] OBVIOUS
  <2>2. intake' = [intake EXCEPT ![c] = new] BY <1>1, <1>6, <2>1 DEF MediaInv, PerIntake
  <2>3. s.batch = r.batch /\ s.group = images /\ s.input = image BY <1>1 DEF Media!Attachment
  <2>4. \A i \in s.group : s.batch[i].sound BY <1>2, <1>3, <2>3 DEF UnderWay
  <2>5. stored \subseteq stored' /\ s \in stored' BY <1>6
  <2>6. UnderWay(r, stored') BY <1>3, <2>5, MoreSaved
  <2>7. /\ DOMAIN new = BatchFields /\ new.batch = r.batch /\ new.authority = r.authority /\ new.groups = r.groups
        /\ new.artifacts = r.artifacts /\ new.checked = r.checked /\ new.saved = r.saved \cup {image}
      BY <2>1, <1>3 DEF UnderWay, BatchFields
  <2>8. IsSaved(r.batch, image, stored') BY <2>3, <2>5 DEF IsSaved
  <2>9. UnderWay(new, stored')
    <3>1. \A i \in new.saved : IsSaved(new.batch, i, stored') BY <2>6, <2>7, <2>8 DEF UnderWay
    <3> QED BY <2>6, <2>7, <3>1 DEF UnderWay
  <2> QED BY <1>2, <1>6, <2>2, <2>4, <2>5, <2>9, BatchMoves
<1> QED BY <1>2, <1>4, <1>5, <1>6

LEMMA AnswerSafe ==
  ASSUME MediaInv, NEW c \in Intakes, Media!Answer(c)
  PROVE  MediaInv'
<1>1. PICK r : r = intake[c] OBVIOUS
<1>2. /\ r # None /\ r.groups = {} /\ answered' = [answered EXCEPT ![c] = r] /\ intake' = [intake EXCEPT ![c] = None]
      /\ UNCHANGED <<adapters, stored, drawn>>
    BY <1>1 DEF Media!Answer
<1>3. Complete(r, stored)
  <2>1. UnderWay(r, stored) BY <1>1, <1>2 DEF MediaInv
  <2> QED BY <1>2, <2>1 DEF UnderWay, Complete
<1>4. PerIntake(intake) /\ PerIntake(answered) BY DEF MediaInv
<1>5. IsSetTo(answered', answered, c, r) BY <1>2, <1>4, SetOne
<1>6. IsSetTo(intake', intake, c, None) BY <1>2, <1>4, SetOne
<1>7. ASSUME NEW d \in Intakes
      PROVE  /\ intake'[d] # None => UnderWay(intake'[d], stored)
             /\ answered'[d] # None => Complete(answered'[d], stored)
  <2>1. CASE d = c BY <1>3, <1>5, <1>6, <2>1 DEF IsSetTo
  <2>2. CASE d # c BY <1>5, <1>6, <2>2 DEF IsSetTo, MediaInv
  <2> QED BY <2>1, <2>2
<1>8. PerIntake(intake') /\ PerIntake(answered') BY <1>5, <1>6 DEF IsSetTo
<1> QED BY <1>2, <1>7, <1>8 DEF MediaInv

LEMMA DrawnSafe ==
  ASSUME MediaInv, NEW c \in Intakes, Media!Drawn(c)
  PROVE  MediaInv'
<1>1. UNCHANGED <<adapters, intake, answered, stored>> BY DEF Media!Drawn
<1>2. PerIntake(drawn') /\ \A d \in Intakes : drawn'[d] # None => drawn'[d].kind = drawn'[d].request.kind
  <2>1. CASE UNCHANGED drawn BY <2>1 DEF MediaInv
  <2>2. CASE ~UNCHANGED drawn
    <3>1. PICK v : v = [kind |-> drawing[c].kind, request |-> drawing[c]] OBVIOUS
    <3>2. drawn' = [drawn EXCEPT ![c] = v] BY <2>2, <3>1 DEF Media!Drawn
    <3>3. PerIntake(drawn) BY DEF MediaInv
    <3>4. IsSetTo(drawn', drawn, c, v) BY <3>2, <3>3, SetOne
    <3>5. v.kind = v.request.kind BY <3>1
    <3> QED BY <3>4, <3>5 DEF IsSetTo, MediaInv
  <2> QED BY <2>1, <2>2
<1> QED BY <1>1, <1>2 DEF MediaInv

LEMMA MediaInductive ==
  ASSUME MediaAssumption, MediaInv, [Media!Next]_(Media!miVars)
  PROVE  MediaInv'
<1>1. CASE UNCHANGED Media!miVars BY <1>1 DEF Media!miVars, MediaInv
<1>2. ASSUME NEW a \in MediaAdapters, Media!RegisterInputAdapter(a) \/ Media!DisposeAdapter(a) PROVE MediaInv'
  <2>1. adapters' \subseteq MediaAdapters /\ UNCHANGED <<intake, answered, stored, drawn>>
      BY <1>2 DEF Media!RegisterInputAdapter, Media!DisposeAdapter, MediaInv
  <2> QED BY <2>1 DEF MediaInv
<1>3. ASSUME NEW p, Media!RegisterProvider(p) \/ Media!DisposeProvider(p) PROVE MediaInv'
    BY <1>3 DEF Media!RegisterProvider, Media!DisposeProvider, MediaInv
<1>4. ASSUME NEW c \in Intakes, NEW kind, NEW name, Media!Generate(c, kind, name) PROVE MediaInv'
    BY <1>4 DEF Media!Generate, MediaInv
<1>5. ASSUME NEW c \in Intakes, NEW batch \in MediaBatches, NEW authority, Media!IngestInputs(c, batch, authority)
      PROVE  MediaInv'
    BY <1>5, IngestInputsSafe
<1>6. ASSUME NEW c \in Intakes,
             Media!Ingest(c) \/ Media!ValidateImage(c) \/ Media!SaveImage(c) \/ Media!Answer(c) \/ Media!Drawn(c)
      PROVE  MediaInv'
    BY <1>6, IngestSafe, ValidateImageSafe, SaveImageSafe, AnswerSafe, DrawnSafe
<1> QED BY <1>1, <1>2, <1>3, <1>4, <1>5, <1>6 DEF Media!Next

(* However adapters come and go, fail and answer, the artifacts that a       *)
(* caller gets are of its inputs, by adapters it may use, and saved only     *)
(* after their whole group has passed.                                      *)
THEOREM IntakesAreSafe == ASSUME MediaAssumption PROVE Media!Spec => []IntakeIsSound
<1>1. Media!Init => MediaInv BY InitialMedia
<1>2. MediaInv /\ [Media!Next]_(Media!miVars) => MediaInv' BY MediaInductive
<1>3. MediaInv => IntakeIsSound
  <2> SUFFICES ASSUME MediaInv PROVE Media!IntakeIsSound BY DEF IntakeIsSound
  <2>1. ASSUME NEW c \in Intakes, answered[c] # None, NEW i \in DOMAIN answered[c].batch, NEW x, x = answered[c].artifacts[i]
        PROVE  /\ x # None /\ x.input = i /\ x.mime = answered[c].batch[i].mime
               /\ Media!Authorized(x.owner, answered[c].authority)
               /\ x.owner.saves => \E s \in stored : s.batch = answered[c].batch /\ s.input = i
               /\ x.owner \in adapters => Media!ModelInput(x)
    <3>1. IsArtifact(x, answered[c].batch, i, answered[c].authority, stored) BY <2>1 DEF MediaInv, Complete
    <3>2. x.owner \in adapters => Media!ModelInput(x) BY <3>1 DEF IsArtifact, MayTake, Media!ModelInput
    <3> QED BY <3>1, <3>2 DEF IsArtifact, MayTake, IsSaved
  <2> QED BY <2>1 DEF MediaInv, Media!IntakeIsSound
<1> QED BY <1>1, <1>2, <1>3, PTL DEF Media!Spec

-----------------------------------------------------------------------------
(* The resources of a Session in the web page.                              *)
Page ==
  INSTANCE WebResources WITH
    Library <- PageLibrary, Presets <- PagePresets, Files <- PageFiles, MaxVersion <- LastVersion,
    MaxOps <- MaxRailOperations, MaxCreatorOps <- MaxCreatorOperations, op <- operation

(* A rail that is ready shows what the Host has, with the binding of the     *)
(* Session, unless the Creator or a request that the rail gave up changed    *)
(* it; an import it reports is saved and bound as a whole; the editor holds  *)
(* a document; and the Creator, as long as it makes one request at a time,   *)
(* shows what is saved.  (web: client resource-controller, Creator, Host)    *)
ShownIsTrue == Page!ShownIsTrue

Families == {"library", "presets"}
PageActions == {"catalog", "detail", "import", "save", "update", "activate", "deactivate", "remove"}
PageRequests ==
  {r \in [action : PageActions, family : Families, ids : Seq(Page!Ids), version : Nat] :
     /\ \A i \in DOMAIN r.ids : r.ids[i] \in Page!Of(r.family)
     /\ r.action # "catalog" => r.ids # <<>>}
PageCatalogs == [saved : [PageLibrary -> Nat] \cup [PagePresets -> Nat], active : SUBSET SUBSET Page!Ids]
PageAnswers == [ok : BOOLEAN, doc : Nat, catalog : PageCatalogs]
PageOperations ==
  [name : {"load", "open", "set", "edit", "import"}, todo : Seq(PageRequests),
   done : Seq(PageAnswers \cup {None}), target : Page!Ids \cup PageFiles \cup {None}, missed : SUBSET Families]

(* A resource is of one family; a file is of one family and not empty, and a *)
(* file of a preset holds no other.                                          *)
PageAssumption ==
  /\ PageLibrary \cap PagePresets = {} /\ None \notin PageOperations \cup PageAnswers
  /\ \A f \in PageFiles :
       /\ f.valid \in BOOLEAN /\ f.version \in Nat /\ f.ids # <<>>
       /\ f.ids \in Seq(PageLibrary) \/ (f.ids \in Seq(PagePresets) /\ Len(f.ids) = 1)

PageSeen(family) == Page!CatalogOf(host, family, TRUE)
PageMessage(m) ==
  /\ m = [from |-> m.from, turn |-> m.turn, step |-> m.step, request |-> m.request, answer |-> m.answer]
  /\ m.from \in {"rail", "creator"} /\ m.request \in PageRequests /\ m.answer \in PageAnswers \cup {None}
CreatorMessage(m) ==
  \/ m.step = "load" /\ m.request.action = "catalog"
  \/ m.step = "preview" /\ m.request.action = "import" /\ creator.file \in PageFiles
  \/ m.step = "save" /\ m.request.action = "save"
  \/ m.step = "bind" /\ m.request.action \in {"activate", "deactivate"}
  \/ m.step = "remove" /\ m.request.action = "remove"

PageTyped ==
  /\ host = [saved |-> host.saved, bound |-> host.bound]
  /\ host.saved \in [Page!Ids -> Nat] /\ host.bound \subseteq Page!Ids
  /\ foreign \in [{"rail", "creator"} -> SUBSET Families] /\ turns \in [{"rail", "creator"} -> Nat]
  /\ rail = [phase |-> rail.phase, library |-> rail.library, presets |-> rail.presets,
             imported |-> rail.imported, editor |-> rail.editor]
  /\ rail.editor = [phase |-> rail.editor.phase, target |-> rail.editor.target, doc |-> rail.editor.doc]
  /\ rail.editor.phase # "closed" => rail.editor.target \in Page!Ids
  /\ rail.editor.doc \in Nat
  /\ creator = [file |-> creator.file, preview |-> creator.preview, library |-> creator.library,
                presets |-> creator.presets, savedPreset |-> creator.savedPreset, busy |-> creator.busy]
  /\ creator.file \in PageFiles \cup {None} /\ (creator.preview # None => creator.file \in PageFiles)
  /\ creator.savedPreset \in PagePresets \cup {None}
  /\ \A m \in wire : PageMessage(m) /\ (m.from = "creator" => CreatorMessage(m))

-----------------------------------------------------------------------------
(* What the rail asks for, by the name of its operation.                     *)
RailPlan(o) ==
  /\ o \in PageOperations /\ DOMAIN o.done = DOMAIN o.todo
  /\ \/ /\ o.name = "load" /\ Len(o.todo) = 2
        /\ o.todo[1].family = "library" /\ o.todo[2].family = "presets"
        /\ o.todo[1].action = "catalog" /\ o.todo[2].action = "catalog"
     \/ /\ o.name = "open" /\ Len(o.todo) = 1 /\ o.todo[1].action = "detail" /\ o.target \in Page!Ids
     \/ /\ o.name = "set" /\ Len(o.todo) = 1 /\ o.todo[1].action \in {"activate", "deactivate"}
     \/ /\ o.name = "edit" /\ Len(o.todo) = 2 /\ o.target \in Page!Ids
        /\ o.todo[1].action = "update" /\ o.todo[2].action = "detail"
        /\ o.todo[2].family = o.todo[1].family
     \/ /\ o.name = "import" /\ o.target \in PageFiles /\ Len(o.todo) = 1 + Len(o.target.ids)
        /\ o.todo[1].action = "save" /\ o.todo[1].ids = o.target.ids
        /\ o.todo[1].version # 0 => o.todo[1].version = o.target.version
        /\ \A i \in DOMAIN o.target.ids :
             /\ o.todo[i + 1].action = "activate" /\ o.todo[i + 1].ids = <<o.target.ids[i]>>
             /\ o.todo[i + 1].family = o.todo[1].family

RailAsks(m) == m.from = "rail" /\ operation # None /\ m.turn = turns["rail"]
RailTold(i) ==
  \/ operation.done[i] # None
  \/ \E m \in wire : RailAsks(m) /\ m.step = i /\ m.answer # None /\ m.answer.ok
RailMeant(o, i) ==
  IF i = 1 THEN \A k \in DOMAIN o.target.ids : host.saved[o.target.ids[k]] = o.target.version
  ELSE o.target.ids[i - 1] \in host.bound

(* The requests of an operation that are under way.                          *)
RailInTurn ==
  /\ \A m \in wire : m.from = "rail" => m.turn \in Nat /\ m.turn <= turns["rail"]
  /\ \A m \in wire : RailAsks(m) =>
       /\ m.step \in DOMAIN operation.todo /\ m.request = operation.todo[m.step]
       /\ operation.done[m.step] = None
       /\ operation.name # "load" => \A i \in DOMAIN operation.todo : i >= m.step => operation.done[i] = None
  /\ \A m, n \in wire :
       (RailAsks(m) /\ RailAsks(n) /\ (operation.name # "load" \/ m.step = n.step)) => m = n

(* What they have told is so, unless someone else changed it meanwhile.      *)
RailKnows ==
  operation # None =>
    /\ operation.missed \subseteq foreign["rail"]
    /\ \A m \in wire : (RailAsks(m) /\ m.answer # None /\ m.answer.ok) =>
         /\ m.request.action = "detail" => m.answer.doc \in Nat \ {0}
         /\ (m.request.family \notin operation.missed /\ m.request.action \notin {"save", "remove"}) =>
              m.answer.catalog = PageSeen(m.request.family)
    /\ \A i \in DOMAIN operation.todo :
         (operation.done[i] # None /\ operation.todo[i].family \notin operation.missed
          /\ (operation.name = "load" \/ (operation.name = "edit" /\ i = 1))) =>
            operation.done[i].catalog = PageSeen(operation.todo[i].family)
    /\ (operation.name = "import" /\ foreign["rail"] = {}) =>
         \A i \in DOMAIN operation.todo : RailTold(i) => RailMeant(operation, i)

RailShows ==
  /\ \A family \in Families \ foreign["rail"] :
       (operation = None \/ operation.name \in {"load", "open"} \/ operation.todo[1].family # family) =>
          rail[family] \in {None, PageSeen(family)}
  /\ (rail.imported # None /\ foreign["rail"] = {}) =>
       \A k \in DOMAIN rail.imported.ids :
         host.saved[rail.imported.ids[k]] = rail.imported.version /\ rail.imported.ids[k] \in host.bound
  /\ rail.imported # None => operation = None
  /\ rail.phase = "ready" => operation = None
  /\ rail.editor.phase = "ready" => rail.editor.doc # 0

RailInv == (operation # None => RailPlan(operation)) /\ RailInTurn /\ RailKnows /\ RailShows

-----------------------------------------------------------------------------
(* The Creator has one request of a family at a time, until it crosses them; *)
(* then what it shows is so, or one is on its way that will tell.            *)
CreatorSees(family, catalog) ==
  /\ catalog.saved = PageSeen(family).saved
  /\ family = "library" => catalog = PageSeen(family)
OfCreator(m, family) == m.from = "creator" /\ m.request.family = family
CreatorWaits(m) == m.step = "load" \/ (m.answer # None /\ m.answer.ok /\ m.step # "preview")
CreatorInv ==
  \A family \in Families \ crossed :
    /\ \A m, n \in wire : OfCreator(m, family) /\ OfCreator(n, family) => m = n
    /\ family \notin foreign["creator"] =>
         /\ \A m \in wire : (OfCreator(m, family) /\ m.answer # None) =>
              /\ m.step = "load" => m.answer.ok
              /\ (m.answer.ok /\ CreatorWaits(m) /\ (family = "library" => m.step \in {"load", "bind"})) =>
                   CreatorSees(family, m.answer.catalog)
         /\ creator[family] # None =>
              \/ CreatorSees(family, creator[family])
              \/ \E m \in wire : OfCreator(m, family) /\ CreatorWaits(m)

PageInv == PageTyped /\ RailInv /\ CreatorInv

-----------------------------------------------------------------------------
LEMMA PageIds ==
  ASSUME PageAssumption
  PROVE  /\ \A family \in Families : Page!Of(family) \subseteq Page!Ids
         /\ \A i \in Page!Ids : Page!Family(i) \in Families /\ i \in Page!Of(Page!Family(i))
         /\ \A f, g \in Families : f # g => Page!Of(f) \cap Page!Of(g) = {}
         /\ Page!Of("library") = PageLibrary /\ Page!Of("presets") = PagePresets
BY DEF PageAssumption, Families, Page!Of, Page!Ids, Page!Family

(* A request changes resources of its family only.                          *)
LEMMA ServeIs ==
  ASSUME PageAssumption, PageTyped, NEW r \in PageRequests, NEW h, h = Page!Serve(r)
  PROVE  /\ h = [saved |-> h.saved, bound |-> h.bound]
         /\ h.saved \in [Page!Ids -> Nat] /\ h.bound \subseteq Page!Ids
         /\ \A i \in Page!Ids \ Page!Of(r.family) :
              h.saved[i] = host.saved[i] /\ (i \in h.bound <=> i \in host.bound)
         /\ (Page!Refused(r) \/ r.action \in {"catalog", "detail", "import"}) => h = host
<1>1. /\ host = [saved |-> host.saved, bound |-> host.bound]
      /\ host.saved \in [Page!Ids -> Nat] /\ host.bound \subseteq Page!Ids
    BY DEF PageTyped
<1>2. /\ r.action \in PageActions /\ r.family \in Families /\ r.version \in Nat
      /\ r.ids \in Seq(Page!Ids) /\ \A i \in DOMAIN r.ids : r.ids[i] \in Page!Of(r.family)
      /\ r.action \in {"detail", "activate", "remove"} => r.ids # <<>>
    BY DEF PageRequests
<1>3. Page!ToSet(r.ids) \subseteq Page!Of(r.family) BY <1>2 DEF Page!ToSet
<1>4. Page!Of(r.family) \subseteq Page!Ids BY <1>2, PageIds
<1>5. r.action \in {"activate", "remove"} => Head(r.ids) \in Page!Of(r.family)
  <2>1. SUFFICES ASSUME r.ids # <<>> PROVE Head(r.ids) \in Page!Of(r.family) BY <1>2
  <2>2. 1 \in DOMAIN r.ids /\ Head(r.ids) = r.ids[1] BY <1>2, <2>1
  <2> QED BY <1>2, <2>2
<1>6. CASE Page!Refused(r) \/ r.action \in {"catalog", "detail", "import"}
  <2>1. h = host BY <1>6 DEF Page!Serve
  <2> QED BY <1>1, <2>1
<1>7. CASE ~Page!Refused(r) /\ r.action \in {"save", "update"}
  <2>1. h = [host EXCEPT !.saved = [i \in Page!Ids |-> IF i \in Page!ToSet(r.ids) THEN r.version ELSE @[i]]]
      BY <1>7 DEF Page!Serve, Page!Saved
  <2>2. /\ h = [saved |-> [i \in Page!Ids |-> IF i \in Page!ToSet(r.ids) THEN r.version ELSE host.saved[i]],
                bound |-> host.bound]
      BY <1>1, <2>1
  <2> QED BY <1>1, <1>2, <1>3, <1>7, <2>2
<1>8. CASE ~Page!Refused(r) /\ r.action = "activate"
  <2>1. h = [host EXCEPT !.bound = (IF Head(r.ids) \in PagePresets THEN @ \ PagePresets ELSE @) \cup {Head(r.ids)}]
      BY <1>8 DEF Page!Serve, Page!Bind
  <2>2. h = [saved |-> host.saved,
             bound |-> (IF Head(r.ids) \in PagePresets THEN host.bound \ PagePresets ELSE host.bound) \cup {Head(r.ids)}]
      BY <1>1, <2>1
  <2>3. Head(r.ids) \in PagePresets => Page!Of(r.family) = PagePresets
      BY <1>2, <1>5, <1>8, PageIds DEF Families
  <2> QED BY <1>1, <1>4, <1>5, <1>8, <2>2, <2>3
<1>9. CASE ~Page!Refused(r) /\ r.action = "deactivate"
  <2>1. h = [host EXCEPT !.bound = @ \ (IF r.family = "presets" THEN PagePresets ELSE Page!ToSet(r.ids))]
      BY <1>9 DEF Page!Serve, Page!Unbind
  <2>2. h = [saved |-> host.saved,
             bound |-> host.bound \ (IF r.family = "presets" THEN PagePresets ELSE Page!ToSet(r.ids))]
      BY <1>1, <2>1
  <2>3. r.family = "presets" => Page!Of(r.family) = PagePresets BY PageIds
  <2> QED BY <1>1, <1>3, <1>9, <2>2, <2>3
<1>10. CASE ~Page!Refused(r) /\ r.action = "remove"
  <2>1. h = [saved |-> [host.saved EXCEPT ![Head(r.ids)] = 0], bound |-> host.bound \ Page!ToSet(r.ids)]
      BY <1>10 DEF Page!Serve
  <2>2. h.saved = [host.saved EXCEPT ![Head(r.ids)] = 0] /\ h.bound = host.bound \ Page!ToSet(r.ids) BY <2>1
  <2>3. h = [saved |-> h.saved, bound |-> h.bound] BY <2>1
  <2>4. h.saved \in [Page!Ids -> Nat]
    <3>1. h.saved = [i \in Page!Ids |-> IF i = Head(r.ids) THEN 0 ELSE host.saved[i]] BY <1>1, <2>2
    <3> QED BY <1>1, <3>1
  <2>5. \A i \in Page!Ids \ Page!Of(r.family) : h.saved[i] = host.saved[i] BY <1>1, <1>5, <1>10, <2>2
  <2> QED BY <1>1, <1>3, <1>10, <2>2, <2>3, <2>4, <2>5
<1> QED BY <1>2, <1>6, <1>7, <1>8, <1>9, <1>10 DEF PageActions

LEMMA SeenIs ==
  ASSUME NEW family \in Families, NEW h, NEW g,
         \A i \in Page!Of(family) : h.saved[i] = g.saved[i] /\ (i \in h.bound <=> i \in g.bound)
  PROVE  Page!CatalogOf(h, family, TRUE) = Page!CatalogOf(g, family, TRUE)
<1>1. [i \in Page!Of(family) |-> h.saved[i]] = [i \in Page!Of(family) |-> g.saved[i]] OBVIOUS
<1>2. h.bound \cap Page!Of(family) = g.bound \cap Page!Of(family) OBVIOUS
<1> QED BY <1>1, <1>2 DEF Page!CatalogOf

(* What a request that is not refused does.                                 *)
LEMMA ServeDoes ==
  ASSUME PageAssumption, PageTyped, NEW r \in PageRequests, NEW h, h = Page!Serve(r), ~Page!Refused(r)
  PROVE  /\ r.action = "save" => /\ \A k \in DOMAIN r.ids : h.saved[r.ids[k]] = r.version
                                 /\ h.bound = host.bound /\ r.version # 0
         /\ r.action = "activate" => /\ h.saved = host.saved /\ Head(r.ids) \in h.bound
                                     /\ r.family = "library" => host.bound \subseteq h.bound
         /\ r.action = "detail" => h.saved[Head(r.ids)] \in Nat \ {0}
<1>1. /\ host = [saved |-> host.saved, bound |-> host.bound]
      /\ host.saved \in [Page!Ids -> Nat] /\ host.bound \subseteq Page!Ids
    BY DEF PageTyped
<1>2. /\ r.family \in Families
      /\ r.ids \in Seq(Page!Ids) /\ \A i \in DOMAIN r.ids : r.ids[i] \in Page!Of(r.family)
      /\ r.action \in {"detail", "activate", "remove"} => r.ids # <<>>
    BY DEF PageRequests
<1>3. r.action \in {"activate", "detail"} => Head(r.ids) \in Page!Of(r.family) /\ Head(r.ids) \in Page!Ids
  <2>1. SUFFICES ASSUME r.ids # <<>> PROVE Head(r.ids) \in Page!Of(r.family) BY <1>2, PageIds
  <2>2. 1 \in DOMAIN r.ids /\ Head(r.ids) = r.ids[1] BY <1>2, <2>1
  <2> QED BY <1>2, <2>2
<1>4. CASE r.action = "save"
  <2>1. h = [host EXCEPT !.saved = [i \in Page!Ids |-> IF i \in Page!ToSet(r.ids) THEN r.version ELSE @[i]]]
      BY <1>4 DEF Page!Serve, Page!Saved
  <2>2. h = [saved |-> [i \in Page!Ids |-> IF i \in Page!ToSet(r.ids) THEN r.version ELSE host.saved[i]],
             bound |-> host.bound]
      BY <1>1, <2>1
  <2>3. \A k \in DOMAIN r.ids : r.ids[k] \in Page!ToSet(r.ids) /\ r.ids[k] \in Page!Ids BY <1>2 DEF Page!ToSet
  <2> QED BY <1>4, <2>2, <2>3 DEF Page!Refused
<1>5. CASE r.action = "activate"
  <2>1. h = [host EXCEPT !.bound = (IF Head(r.ids) \in PagePresets THEN @ \ PagePresets ELSE @) \cup {Head(r.ids)}]
      BY <1>5 DEF Page!Serve, Page!Bind
  <2>2. h = [saved |-> host.saved,
             bound |-> (IF Head(r.ids) \in PagePresets THEN host.bound \ PagePresets ELSE host.bound) \cup {Head(r.ids)}]
      BY <1>1, <2>1
  <2>3. r.family = "library" => Head(r.ids) \notin PagePresets
      BY <1>3, <1>5, PageIds DEF PageAssumption
  <2> QED BY <1>5, <2>2, <2>3
<1>6. CASE r.action = "detail"
  <2>1. h = host BY <1>6 DEF Page!Serve
  <2> QED BY <1>1, <1>3, <1>6, <2>1 DEF Page!Refused
<1> QED BY <1>4, <1>5, <1>6

-----------------------------------------------------------------------------
(* What does not concern the rail, and what does not concern the Creator.    *)
LEMMA RailFrame ==
  ASSUME RailInv, UNCHANGED <<host, rail, operation>>, foreign'["rail"] = foreign["rail"],
         turns'["rail"] = turns["rail"], \A m \in wire' : m.from = "rail" => m \in wire
  PROVE  RailInv'
<1>1. \A m \in wire' : RailAsks(m)' => m \in wire /\ RailAsks(m) BY DEF RailAsks
<1>2. \A i : RailTold(i)' => RailTold(i) BY <1>1 DEF RailTold
<1>3. \A i : RailMeant(operation, i)' <=> RailMeant(operation, i) BY DEF RailMeant
<1>4. \A family : PageSeen(family)' = PageSeen(family) BY DEF PageSeen, Page!CatalogOf, Page!Of
<1>5. RailInTurn' BY <1>1 DEF RailInv, RailInTurn
<1>6. RailKnows' BY <1>1, <1>2, <1>3, <1>4 DEF RailInv, RailKnows
<1>7. RailShows' BY <1>4 DEF RailInv, RailShows
<1> QED BY <1>5, <1>6, <1>7 DEF RailInv, RailPlan, PageOperations, PageRequests, PageAnswers, PageCatalogs, Page!Ids, Page!Of

LEMMA CreatorFrame ==
  ASSUME CreatorInv, UNCHANGED <<host, creator, crossed>>, foreign'["creator"] = foreign["creator"],
         \A m \in wire \cup wire' : m.from = "creator" => (m \in wire <=> m \in wire')
  PROVE  CreatorInv'
<1>1. \A family : PageSeen(family)' = PageSeen(family) BY DEF PageSeen, Page!CatalogOf, Page!Of
<1>2. \A family, catalog : CreatorSees(family, catalog)' <=> CreatorSees(family, catalog)
    BY <1>1 DEF CreatorSees
<1>3. \A family : \A m \in wire' : OfCreator(m, family) => m \in wire BY DEF OfCreator
<1>4. \A family : \A m \in wire : OfCreator(m, family) => m \in wire' BY DEF OfCreator
<1> QED BY <1>2, <1>3, <1>4 DEF CreatorInv

LEMMA PlanBegins ==
  ASSUME PageAssumption, NEW o, RailPlan(o)
  PROVE  /\ Len(o.todo) \in Nat /\ Len(o.todo) >= 1 /\ DOMAIN o.todo = 1..Len(o.todo)
         /\ \A i \in DOMAIN o.todo : o.todo[i] \in PageRequests
         /\ o.todo[1] \in PageRequests /\ (o.name = "load" => Len(o.todo) = 2)
         /\ o.name # "load" => \A i \in DOMAIN o.todo : o.todo[i].family = o.todo[1].family
<1>1. o.todo \in Seq(PageRequests) /\ Len(o.todo) \in Nat /\ DOMAIN o.todo = 1..Len(o.todo)
    BY DEF RailPlan, PageOperations
<1>2. \A i \in DOMAIN o.todo : o.todo[i] \in PageRequests BY <1>1
<1>3. CASE o.name = "import"
  <2>1. /\ o.target.ids # <<>> /\ Len(o.target.ids) \in Nat /\ Len(o.todo) = 1 + Len(o.target.ids)
        /\ DOMAIN o.target.ids = 1..Len(o.target.ids)
        /\ \A i \in DOMAIN o.target.ids : o.todo[i + 1].family = o.todo[1].family
      BY <1>3 DEF RailPlan, PageAssumption
  <2>2. ASSUME NEW i \in DOMAIN o.todo PROVE o.todo[i].family = o.todo[1].family
    <3>1. i = 1 \/ (i - 1 \in DOMAIN o.target.ids /\ (i - 1) + 1 = i) BY <1>1, <2>1
    <3> QED BY <2>1, <3>1
  <2>3. Len(o.todo) >= 1 BY <1>1, <2>1
  <2>4. 1 \in DOMAIN o.todo BY <1>1, <2>3
  <2> QED BY <1>1, <1>3, <1>2, <2>2, <2>3, <2>4
<1>4. CASE o.name # "import"
  <2>1. Len(o.todo) \in {1, 2} /\ (o.name = "load" => Len(o.todo) = 2) BY <1>4 DEF RailPlan
  <2>2. o.name # "load" => \A i \in DOMAIN o.todo : o.todo[i].family = o.todo[1].family
      BY <1>1, <1>4 DEF RailPlan
  <2>3. Len(o.todo) >= 1 BY <1>1, <2>1
  <2>4. 1 \in DOMAIN o.todo BY <1>1, <2>3
  <2> QED BY <1>1, <1>2, <2>1, <2>2, <2>3, <2>4
<1> QED BY <1>3, <1>4

(* A request that is given up may have changed its family.                  *)
LEMMA GivenUpIs ==
  ASSUME PageAssumption, PageInv
  PROVE  /\ Page!GivenUp \subseteq Families
         /\ operation # None /\ operation.name \notin {"load", "open"} =>
               operation.todo[1].family \in Page!GivenUp
<1>1. CASE operation = None \/ operation.name \in {"load", "open"} BY <1>1 DEF Page!GivenUp
<1>2. CASE ~(operation = None \/ operation.name \in {"load", "open"})
  <2>1. operation.todo[1] \in PageRequests BY <1>2, PlanBegins DEF PageInv, RailInv
  <2> QED BY <1>2, <2>1 DEF Page!GivenUp, PageRequests
<1> QED BY <1>1, <1>2

LEMMA NewOperation ==
  ASSUME NEW name \in {"load", "open", "set", "edit", "import"}, NEW todo \in Seq(PageRequests),
         NEW target \in Page!Ids \cup PageFiles \cup {None}, NEW o,
         o = [name |-> name, todo |-> todo, done |-> [i \in DOMAIN todo |-> None], target |-> target, missed |-> {}]
  PROVE  o \in PageOperations /\ DOMAIN o.done = DOMAIN o.todo
<1>1. PICK done : done = [i \in DOMAIN todo |-> None] OBVIOUS
<1>2. DOMAIN todo = 1..Len(todo) /\ Len(todo) \in Nat OBVIOUS
<1>3. done \in Seq(PageAnswers \cup {None}) /\ DOMAIN done = DOMAIN todo BY <1>1, <1>2
<1>4. o = [name |-> name, todo |-> todo, done |-> done, target |-> target, missed |-> {}] BY <1>1
<1> QED BY <1>3, <1>4 DEF PageOperations

(* An operation of the rail begins.                                         *)
LEMMA BeginKeeps ==
  ASSUME PageAssumption, PageInv, NEW name, NEW todo, NEW target, NEW phase, NEW editor,
         Page!Begin(name, todo, target, phase, editor), phase # "ready",
         RailPlan([name |-> name, todo |-> todo, done |-> [i \in DOMAIN todo |-> None], target |-> target, missed |-> {}]),
         editor = [phase |-> editor.phase, target |-> editor.target, doc |-> editor.doc],
         editor.phase # "closed" => editor.target \in Page!Ids,
         editor.doc \in Nat, editor.phase = "ready" => editor.doc # 0
  PROVE  PageInv'
<1>1. PICK o : o = [name |-> name, todo |-> todo, done |-> [i \in DOMAIN todo |-> None], target |-> target, missed |-> {}]
    OBVIOUS
<1>2. /\ o.name = name /\ o.todo = todo /\ o.target = target /\ o.missed = {} /\ RailPlan(o)
      /\ \A i \in DOMAIN todo : o.done[i] = None
    BY <1>1
<1>3. PICK k \in Nat : k = turns["rail"] BY DEF PageInv, PageTyped
<1>4. PICK sent : sent = {Page!Message("rail", k + 1, i, todo[i]) : i \in IF name = "load" THEN {1, 2} ELSE {1}}
    OBVIOUS
<1>5. /\ turns' = [turns EXCEPT !["rail"] = k + 1] /\ operation' = o
      /\ foreign' = [foreign EXCEPT !["rail"] = @ \cup Page!GivenUp]
      /\ rail' = [rail EXCEPT !.phase = phase, !.imported = None, !.editor = editor]
      /\ wire' = wire \cup sent
      /\ UNCHANGED <<host, creator, crossed>>
    BY <1>1, <1>3, <1>4 DEF Page!Begin
<1>6. turns'["rail"] = k + 1 /\ turns' \in [{"rail", "creator"} -> Nat] BY <1>3, <1>5 DEF PageInv, PageTyped
<1>7. \A i \in IF name = "load" THEN {1, 2} ELSE {1} : i \in DOMAIN todo /\ todo[i] \in PageRequests
    BY <1>2, PlanBegins
<1>8. \A m \in sent :
        /\ PageMessage(m) /\ m.from = "rail" /\ m.turn = k + 1 /\ m.answer = None
        /\ m.step \in (IF name = "load" THEN {1, 2} ELSE {1}) /\ m.request = todo[m.step]
        /\ m = Page!Message("rail", k + 1, m.step, todo[m.step])
    BY <1>4, <1>7 DEF PageMessage, Page!Message
<1>9. \A m \in wire : m.from = "rail" => m.turn \in Nat /\ m.turn <= k BY <1>3 DEF PageInv, RailInv, RailInTurn
<1>10. \A m \in wire' : RailAsks(m)' => m \in sent BY <1>3, <1>5, <1>6, <1>9 DEF RailAsks
<1>11. rail' = [phase |-> phase, library |-> rail.library, presets |-> rail.presets, imported |-> None, editor |-> editor]
    BY <1>5 DEF PageInv, PageTyped
<1>12. /\ foreign' \in [{"rail", "creator"} -> SUBSET Families] /\ foreign'["creator"] = foreign["creator"]
       /\ foreign["rail"] \subseteq foreign'["rail"]
       /\ operation # None /\ operation.name \notin {"load", "open"} => operation.todo[1].family \in foreign'["rail"]
    BY <1>5, GivenUpIs DEF PageInv, PageTyped
<1>13. PageTyped'
  <2>1. \A m \in wire' : PageMessage(m)' /\ (m.from = "creator" => CreatorMessage(m)')
      BY <1>5, <1>8 DEF PageInv, PageTyped, PageMessage, CreatorMessage, PageRequests, PageAnswers, PageCatalogs, Page!Ids, Page!Of
  <2> QED BY <1>5, <1>6, <1>11, <1>12, <2>1 DEF PageInv, PageTyped, Page!Ids
<1>14. RailInTurn'
  <2>1. \A m \in wire' : m.from = "rail" => m.turn \in Nat /\ m.turn <= turns'["rail"]
      BY <1>3, <1>5, <1>6, <1>8, <1>9
  <2>2. \A m \in wire' : RailAsks(m)' =>
          /\ m.step \in DOMAIN operation'.todo /\ m.request = operation'.todo[m.step]
          /\ operation'.done[m.step] = None
          /\ operation'.name # "load" => \A i \in DOMAIN operation'.todo : i >= m.step => operation'.done[i] = None
      BY <1>2, <1>5, <1>7, <1>8, <1>10
  <2>3. \A m, n \in wire' :
          (RailAsks(m)' /\ RailAsks(n)' /\ (operation'.name # "load" \/ m.step = n.step)) => m = n
      BY <1>2, <1>5, <1>8, <1>10
  <2> QED BY <2>1, <2>2, <2>3 DEF RailInTurn
<1>15. RailKnows'
  <2>1. \A i \in DOMAIN todo : ~RailTold(i)' BY <1>2, <1>5, <1>8, <1>10 DEF RailTold
  <2>2. operation'.missed \subseteq foreign'["rail"] BY <1>2, <1>5
  <2>3. \A m \in wire' : RailAsks(m)' => m.answer = None BY <1>8, <1>10
  <2> QED BY <1>2, <1>5, <2>1, <2>2, <2>3 DEF RailKnows
<1>16. RailShows'
  <2>1. \A family : PageSeen(family)' = PageSeen(family) BY <1>5 DEF PageSeen, Page!CatalogOf, Page!Of
  <2>2. rail'["library"] = rail["library"] /\ rail'["presets"] = rail["presets"] BY <1>11
  <2>3. \A family \in Families \ foreign'["rail"] : rail'[family] \in {None, PageSeen(family)'}
      BY <1>12, <2>1, <2>2 DEF PageInv, RailInv, RailShows, Families
  <2> QED BY <1>11, <2>3 DEF RailShows
<1>17. CreatorInv'
  <2>1. \A m \in wire \cup wire' : m.from = "creator" => (m \in wire <=> m \in wire') BY <1>5, <1>8
  <2> QED BY <1>5, <1>12, <2>1, CreatorFrame DEF PageInv
<1>18. RailPlan(operation)' BY <1>2, <1>5 DEF RailPlan, PageOperations, PageRequests, PageAnswers, PageCatalogs, Page!Ids, Page!Of
<1> QED BY <1>13, <1>14, <1>15, <1>16, <1>17, <1>18 DEF PageInv, RailInv

LEMMA Prefixed ==
  ASSUME NEW S, NEW a \in S, NEW s \in Seq(S)
  PROVE  /\ <<a>> \o s \in Seq(S) /\ Len(<<a>> \o s) = 1 + Len(s) /\ (<<a>> \o s)[1] = a
         /\ \A i \in DOMAIN s : (<<a>> \o s)[i + 1] = s[i]
<1>1. <<a>> \in Seq(S) /\ Len(<<a>>) = 1 /\ <<a>>[1] = a OBVIOUS
<1>2. Len(s) \in Nat /\ DOMAIN s = 1..Len(s) OBVIOUS
<1>3. <<a>> \o s \in Seq(S) /\ Len(<<a>> \o s) = 1 + Len(s) BY <1>1, <1>2
<1>4. (<<a>> \o s)[1] = a BY <1>1, <1>2
<1>5. ASSUME NEW i \in DOMAIN s PROVE (<<a>> \o s)[i + 1] = s[i]
  <2>1. i \in Nat /\ i >= 1 /\ i <= Len(s) BY <1>2
  <2> QED BY <1>1, <1>2, <2>1
<1> QED BY <1>3, <1>4, <1>5

LEMMA OneRequest ==
  ASSUME PageAssumption, NEW id \in Page!Ids, NEW family \in Families, id \in Page!Of(family),
         NEW action \in PageActions, NEW version \in Nat, NEW r, r = Page!Request(action, family, <<id>>, version)
  PROVE  r \in PageRequests /\ r.action = action /\ r.family = family /\ r.ids = <<id>>
<1>1. <<id>> \in Seq(Page!Ids) OBVIOUS
<1>2. <<id>> # <<>> /\ \A i \in DOMAIN <<id>> : <<id>>[i] = id OBVIOUS
<1>3. r = [action |-> action, family |-> family, ids |-> <<id>>, version |-> version] BY DEF Page!Request
<1>4. r.action = action /\ r.family = family /\ r.ids = <<id>> BY <1>3
<1>5. r \in [action : PageActions, family : Families, ids : Seq(Page!Ids), version : Nat]
  <2>1. PICK ids \in Seq(Page!Ids) : ids = <<id>> BY <1>1
  <2>2. r = [action |-> action, family |-> family, ids |-> ids, version |-> version] BY <1>3, <2>1
  <2> QED BY <2>2
<1>6. \A i \in DOMAIN r.ids : r.ids[i] \in Page!Of(r.family) BY <1>2, <1>4
<1>7. r.ids # <<>> BY <1>2, <1>4
<1> QED BY <1>4, <1>5, <1>6, <1>7 DEF PageRequests

LEMMA ImportPlan ==
  ASSUME PageAssumption, NEW f \in PageFiles, NEW o,
         o = [name |-> "import", todo |-> Page!ImportRequests(f),
              done |-> [i \in DOMAIN Page!ImportRequests(f) |-> None], target |-> f, missed |-> {}]
  PROVE  RailPlan(o)
<1>1. /\ f.valid \in BOOLEAN /\ f.version \in Nat /\ f.ids # <<>>
      /\ f.ids \in Seq(PageLibrary) \/ f.ids \in Seq(PagePresets)
    BY DEF PageAssumption
<1>2. PICK n \in Nat : n = Len(f.ids) /\ DOMAIN f.ids = 1..n /\ n >= 1 BY <1>1
<1>3. PICK family : family = Page!Family(Head(f.ids)) OBVIOUS
<1>4. family \in Families /\ \A i \in DOMAIN f.ids : f.ids[i] \in Page!Of(family) /\ f.ids[i] \in Page!Ids
  <2>1. Head(f.ids) = f.ids[1] /\ 1 \in DOMAIN f.ids BY <1>1, <1>2
  <2>2. CASE f.ids \in Seq(PageLibrary)
    <3>1. \A i \in DOMAIN f.ids : f.ids[i] \in PageLibrary BY <2>2
    <3> QED BY <1>3, <2>1, <3>1 DEF Page!Family, Families, Page!Of, Page!Ids, PageAssumption
  <2>3. CASE f.ids \in Seq(PagePresets)
    <3>1. \A i \in DOMAIN f.ids : f.ids[i] \in PagePresets BY <2>3
    <3> QED BY <1>3, <2>1, <3>1 DEF Page!Family, Families, Page!Of, Page!Ids, PageAssumption
  <2> QED BY <1>1, <2>2, <2>3
<1>5. f.ids \in Seq(Page!Ids)
  <2>1. CASE f.ids \in Seq(PageLibrary) BY <2>1 DEF Page!Ids
  <2>2. CASE f.ids \in Seq(PagePresets) BY <2>2 DEF Page!Ids
  <2> QED BY <1>1, <2>1, <2>2
<1>6. PICK version : version = IF f.valid THEN f.version ELSE 0 OBVIOUS
<1>7. PICK save, rest :
        /\ save = Page!Request("save", family, f.ids, version)
        /\ rest = [i \in DOMAIN f.ids |-> Page!Request("activate", family, <<f.ids[i]>>, 0)]
    OBVIOUS
<1>8. save \in PageRequests
    BY <1>1, <1>4, <1>5, <1>6, <1>7 DEF Page!Request, PageRequests, PageActions
<1>9. \A i \in DOMAIN f.ids :
        /\ rest[i] \in PageRequests /\ rest[i].action = "activate"
        /\ rest[i].family = family /\ rest[i].ids = <<f.ids[i]>>
  <2> TAKE i \in DOMAIN f.ids
  <2>1. rest[i] = Page!Request("activate", family, <<f.ids[i]>>, 0) BY <1>7
  <2>2. f.ids[i] \in Page!Ids /\ f.ids[i] \in Page!Of(family) /\ family \in Families BY <1>4
  <2>3. "activate" \in PageActions /\ 0 \in Nat BY DEF PageActions
  <2> QED BY <2>1, <2>2, <2>3, OneRequest
<1>10. rest \in Seq(PageRequests) /\ Len(rest) = n /\ DOMAIN rest = DOMAIN f.ids BY <1>2, <1>7, <1>9
<1>11. Page!ImportRequests(f) = <<save>> \o rest BY <1>3, <1>6, <1>7 DEF Page!ImportRequests
<1>12. PICK todo : todo = <<save>> \o rest OBVIOUS
<1>13. /\ todo \in Seq(PageRequests) /\ Len(todo) = 1 + n /\ todo[1] = save
       /\ \A i \in DOMAIN f.ids : todo[i + 1] = rest[i]
    BY <1>8, <1>10, <1>12, Prefixed
<1>14. o = [name |-> "import", todo |-> todo, done |-> [i \in DOMAIN todo |-> None], target |-> f, missed |-> {}]
    BY <1>11, <1>12
<1>15. o.name = "import" /\ o.todo = todo /\ o.done = [i \in DOMAIN todo |-> None] /\ o.target = f /\ o.missed = {}
    BY <1>14
<1>16. save.action = "save" /\ save.ids = f.ids /\ save.version = version /\ save.family = family
    BY <1>7 DEF Page!Request
<1>17. \A i \in DOMAIN o.target.ids :
         /\ o.todo[i + 1].action = "activate" /\ o.todo[i + 1].ids = <<o.target.ids[i]>>
         /\ o.todo[i + 1].family = o.todo[1].family
    BY <1>9, <1>13, <1>15, <1>16
<1>18. o \in PageOperations /\ DOMAIN o.done = DOMAIN o.todo BY <1>13, <1>14, NewOperation
<1>19. /\ o.name = "import" /\ o.target \in PageFiles /\ Len(o.todo) = 1 + Len(o.target.ids)
       /\ o.todo[1].action = "save" /\ o.todo[1].ids = o.target.ids
       /\ o.todo[1].version # 0 => o.todo[1].version = o.target.version
    BY <1>2, <1>6, <1>13, <1>15, <1>16
<1> QED BY <1>17, <1>18, <1>19 DEF RailPlan

LEMMA BeginsKeep ==
  ASSUME PageAssumption, PageInv,
         \/ \E refresh \in BOOLEAN : Page!Load(refresh)
         \/ \E f \in PageFiles : Page!ImportFile(f)
         \/ \E id \in Page!Ids : Page!SetActive(id) \/ Page!OpenEditor(id)
         \/ \E version \in 1..LastVersion : Page!SaveEditor(version)
  PROVE  PageInv'
<1>1. /\ rail.editor = [phase |-> rail.editor.phase, target |-> rail.editor.target, doc |-> rail.editor.doc]
      /\ rail.editor.phase # "closed" => rail.editor.target \in Page!Ids
      /\ rail.editor.doc \in Nat /\ (rail.editor.phase = "ready" => rail.editor.doc # 0)
    BY DEF PageInv, PageTyped, RailInv, RailShows
<1>2. ASSUME NEW id \in Page!Ids, NEW action \in PageActions, NEW version \in Nat
      PROVE  Page!Request(action, Page!Family(id), <<id>>, version) \in PageRequests
  BY OneRequest, PageIds
<1>3. ASSUME NEW refresh \in BOOLEAN, Page!Load(refresh) PROVE PageInv'
  <2>1. PICK todo : todo = <<Page!Request("catalog", "library", <<>>, 0), Page!Request("catalog", "presets", <<>>, 0)>>
      OBVIOUS
  <2>2. Page!Begin("load", todo, None, "loading", rail.editor) BY <1>3, <2>1 DEF Page!Load
  <2>3. <<>> \in Seq(Page!Ids) OBVIOUS
  <2>4. /\ Page!Request("catalog", "library", <<>>, 0) \in PageRequests
        /\ Page!Request("catalog", "presets", <<>>, 0) \in PageRequests
      BY <2>3 DEF Page!Request, PageRequests, PageActions, Families
  <2>5. todo \in Seq(PageRequests) /\ Len(todo) = 2 BY <2>1, <2>4
  <2>6. RailPlan([name |-> "load", todo |-> todo, done |-> [i \in DOMAIN todo |-> None], target |-> None, missed |-> {}])
      BY <2>1, <2>5, NewOperation DEF RailPlan, Page!Request
  <2> QED BY <1>1, <2>2, <2>6, BeginKeeps
<1>4. ASSUME NEW f \in PageFiles, Page!ImportFile(f) PROVE PageInv'
  <2>1. Page!Begin("import", Page!ImportRequests(f), f, "mutating", rail.editor) BY <1>4 DEF Page!ImportFile
  <2> QED BY <1>1, <2>1, ImportPlan, BeginKeeps
<1>5. ASSUME NEW id \in Page!Ids, Page!SetActive(id) PROVE PageInv'
  <2>1. PICK action : action = IF Page!IsActive(id) THEN "deactivate" ELSE "activate" OBVIOUS
  <2>2. PICK todo : todo = <<Page!Request(action, Page!Family(id), <<id>>, 0)>> OBVIOUS
  <2>3. Page!Begin("set", todo, id, "mutating", rail.editor) BY <1>5, <2>1, <2>2 DEF Page!SetActive
  <2>4. todo[1] \in PageRequests /\ todo \in Seq(PageRequests) /\ Len(todo) = 1 /\ todo[1].action = action
      BY <1>2, <2>1, <2>2 DEF PageActions, Page!Request
  <2>5. RailPlan([name |-> "set", todo |-> todo, done |-> [i \in DOMAIN todo |-> None], target |-> id, missed |-> {}])
      BY <2>1, <2>4, NewOperation DEF RailPlan
  <2> QED BY <1>1, <2>3, <2>5, BeginKeeps
<1>6. ASSUME NEW id \in Page!Ids, Page!OpenEditor(id) PROVE PageInv'
  <2>1. PICK todo : todo = <<Page!Request("detail", Page!Family(id), <<id>>, 0)>> OBVIOUS
  <2>2. Page!Begin("open", todo, id, "loading", [phase |-> "loading", target |-> id, doc |-> 0])
      BY <1>6, <2>1 DEF Page!OpenEditor
  <2>3. todo[1] \in PageRequests /\ todo \in Seq(PageRequests) /\ Len(todo) = 1 /\ todo[1].action = "detail"
      BY <1>2, <2>1 DEF PageActions, Page!Request
  <2>4. RailPlan([name |-> "open", todo |-> todo, done |-> [i \in DOMAIN todo |-> None], target |-> id, missed |-> {}])
      BY <2>3, NewOperation DEF RailPlan
  <2> QED BY <2>2, <2>4, BeginKeeps
<1>7. ASSUME NEW version \in 1..LastVersion, Page!SaveEditor(version) PROVE PageInv'
  <2>1. PICK id : id = rail.editor.target /\ id \in Page!Ids BY <1>1, <1>7 DEF Page!SaveEditor
  <2>2. PICK todo : todo = <<Page!Request("update", Page!Family(id), <<id>>, version),
                             Page!Request("detail", Page!Family(id), <<id>>, 0)>>
      OBVIOUS
  <2>3. PICK editor : editor = [rail.editor EXCEPT !.phase = "saving", !.doc = version] OBVIOUS
  <2>4. Page!Begin("edit", todo, id, "mutating", editor) BY <1>7, <2>1, <2>2, <2>3 DEF Page!SaveEditor
  <2>5. version \in Nat OBVIOUS
  <2>6. /\ todo[1] \in PageRequests /\ todo[2] \in PageRequests /\ todo \in Seq(PageRequests) /\ Len(todo) = 2
        /\ todo[1].action = "update" /\ todo[2].action = "detail" /\ todo[2].family = todo[1].family
      BY <1>2, <2>1, <2>2, <2>5 DEF PageActions, Page!Request
  <2>7. RailPlan([name |-> "edit", todo |-> todo, done |-> [i \in DOMAIN todo |-> None], target |-> id, missed |-> {}])
      BY <2>1, <2>6, NewOperation DEF RailPlan
  <2>8. editor = [phase |-> "saving", target |-> id, doc |-> version] BY <1>1, <2>1, <2>3
  <2> QED BY <2>1, <2>4, <2>5, <2>7, <2>8, BeginKeeps
<1> QED BY <1>3, <1>4, <1>5, <1>6, <1>7

-----------------------------------------------------------------------------
(* An operation of the rail ends, one way or another.                       *)
LEMMA RailStops ==
  ASSUME PageInv, operation' = None, UNCHANGED <<host, creator, crossed, turns>>,
         foreign' \in [{"rail", "creator"} -> SUBSET Families], foreign'["creator"] = foreign["creator"],
         rail' = [phase |-> rail'.phase, library |-> rail'.library, presets |-> rail'.presets,
                  imported |-> rail'.imported, editor |-> rail'.editor],
         rail'.editor = [phase |-> rail'.editor.phase, target |-> rail'.editor.target, doc |-> rail'.editor.doc],
         rail'.editor.phase # "closed" => rail'.editor.target \in Page!Ids,
         rail'.editor.doc \in Nat,
         wire' \subseteq wire, \A m \in wire : m.from = "creator" => m \in wire',
         RailShows'
  PROVE  PageInv'
<1>1. PageTyped'
    BY DEF PageInv, PageTyped, PageMessage, CreatorMessage, PageRequests, PageAnswers, PageCatalogs, Page!Ids, Page!Of
<1>2. CreatorInv' BY CreatorFrame DEF PageInv
<1>3. \A m : ~RailAsks(m)' BY DEF RailAsks
<1>4. RailInTurn' BY <1>3 DEF PageInv, RailInv, RailInTurn
<1>5. RailKnows' BY DEF RailKnows
<1> QED BY <1>1, <1>2, <1>4, <1>5 DEF PageInv, RailInv

(* What it shows it keeps, but for what it has given up.                    *)
LEMMA RailLeaves ==
  ASSUME PageAssumption, PageInv, operation' = None, UNCHANGED <<host, creator, crossed, turns>>,
         foreign' = [foreign EXCEPT !["rail"] = @ \cup Page!GivenUp],
         NEW phase, NEW imported \in {rail.imported, None}, NEW editor,
         rail' = [rail EXCEPT !.phase = phase, !.imported = imported, !.editor = editor],
         editor = [phase |-> editor.phase, target |-> editor.target, doc |-> editor.doc],
         editor.phase # "closed" => editor.target \in Page!Ids,
         editor.doc \in Nat, editor.phase # "ready",
         wire' \subseteq wire, \A m \in wire : m.from = "creator" => m \in wire'
  PROVE  PageInv'
<1>1. rail' = [phase |-> phase, library |-> rail.library, presets |-> rail.presets, imported |-> imported, editor |-> editor]
    BY DEF PageInv, PageTyped
<1>2. /\ foreign' \in [{"rail", "creator"} -> SUBSET Families] /\ foreign'["creator"] = foreign["creator"]
      /\ foreign'["rail"] = foreign["rail"] \cup Page!GivenUp
    BY GivenUpIs DEF PageInv, PageTyped
<1>3. RailShows'
  <2>1. \A family : PageSeen(family)' = PageSeen(family) BY DEF PageSeen, Page!CatalogOf, Page!Of
  <2>2. rail'["library"] = rail["library"] /\ rail'["presets"] = rail["presets"] BY <1>1
  <2>3. \A family \in Families \ foreign'["rail"] : rail'[family] \in {None, PageSeen(family)'}
      BY <1>2, <2>1, <2>2, GivenUpIs DEF PageInv, RailInv, RailShows, Families
  <2>4. (rail'.imported # None /\ foreign'["rail"] = {}) => rail'.imported = rail.imported /\ foreign["rail"] = {}
      BY <1>1, <1>2
  <2>5. (rail'.imported # None /\ foreign'["rail"] = {}) =>
          \A k \in DOMAIN rail'.imported.ids :
            /\ host'.saved[rail'.imported.ids[k]] = rail'.imported.version
            /\ rail'.imported.ids[k] \in host'.bound
      BY <2>4 DEF PageInv, RailInv, RailShows
  <2>6. rail'.editor.phase # "ready" BY <1>1
  <2> QED BY <2>3, <2>5, <2>6 DEF RailShows
<1> QED BY <1>1, <1>2, <1>3, RailStops

LEMMA CloseEditorKeeps == ASSUME PageAssumption, PageInv, Page!CloseEditor PROVE PageInv'
<1>1. PICK phase : phase = IF None \in {rail.library, rail.presets} THEN "idle" ELSE "ready" OBVIOUS
<1>2. PICK editor : editor = [phase |-> "closed", target |-> None, doc |-> 0] OBVIOUS
<1>3. /\ operation' = None /\ foreign' = [foreign EXCEPT !["rail"] = @ \cup Page!GivenUp]
      /\ rail' = [rail EXCEPT !.phase = phase, !.editor = editor]
      /\ UNCHANGED <<host, wire, creator, crossed, turns>>
    BY <1>1, <1>2 DEF Page!CloseEditor, Page!Closed
<1>4. rail' = [rail EXCEPT !.phase = phase, !.imported = rail.imported, !.editor = editor]
    BY <1>3 DEF PageInv, PageTyped
<1>5. /\ editor = [phase |-> editor.phase, target |-> editor.target, doc |-> editor.doc]
      /\ editor.phase = "closed" /\ editor.doc \in Nat
    BY <1>2
<1>6. wire' \subseteq wire /\ \A m \in wire : m.from = "creator" => m \in wire' BY <1>3
<1> QED BY <1>3, <1>4, <1>5, <1>6, RailLeaves

LEMMA FailKeeps ==
  ASSUME PageAssumption, PageInv, NEW m \in wire, m.from = "rail", wire' = wire \ {m}, Page!Fail,
         UNCHANGED <<host, creator, crossed, turns>>
  PROVE  PageInv'
<1>1. PICK editor : editor = IF rail.editor.phase = "closed" THEN rail.editor ELSE [rail.editor EXCEPT !.phase = "error"]
    OBVIOUS
<1>2. /\ operation' = None /\ foreign' = [foreign EXCEPT !["rail"] = @ \cup Page!GivenUp]
      /\ rail' = [rail EXCEPT !.phase = "error", !.imported = None, !.editor = editor]
    BY <1>1 DEF Page!Fail
<1>3. /\ editor = [phase |-> editor.phase, target |-> rail.editor.target, doc |-> rail.editor.doc]
      /\ editor.phase # "ready" /\ editor.target = rail.editor.target /\ editor.doc = rail.editor.doc
      /\ editor.phase # "closed" => rail.editor.phase # "closed"
    BY <1>1 DEF PageInv, PageTyped
<1>4. /\ rail.editor.phase # "closed" => rail.editor.target \in Page!Ids
      /\ rail.editor.doc \in Nat
    BY DEF PageInv, PageTyped
<1> QED BY <1>2, <1>3, <1>4, RailLeaves

(* An answer that the rail no longer waits for.                             *)
LEMMA IgnoredKeeps ==
  ASSUME PageInv, NEW m \in wire, m.from = "rail", wire' = wire \ {m},
         UNCHANGED <<rail, operation, foreign, host, creator, crossed, turns>>
  PROVE  PageInv'
<1>1. RailInv' BY RailFrame DEF PageInv
<1>2. CreatorInv' BY CreatorFrame DEF PageInv
<1>3. PageTyped'
    BY DEF PageInv, PageTyped, PageMessage, CreatorMessage, PageRequests, PageAnswers, PageCatalogs, Page!Ids, Page!Of
<1> QED BY <1>1, <1>2, <1>3 DEF PageInv

LEMMA RailLosesKeeps == ASSUME PageAssumption, PageInv, NEW m \in wire, Page!RailLoses(m) PROVE PageInv'
BY FailKeeps, IgnoredKeeps DEF Page!RailLoses

LEMMA IsSequence == ASSUME NEW S, NEW n \in Nat, NEW t \in [1..n -> S] PROVE t \in Seq(S)
OBVIOUS

(* What an answer that the rail waits for adds to what it knows.            *)
LEMMA RailLearns ==
  ASSUME PageAssumption, PageInv, NEW m \in wire, RailAsks(m), m.answer # None, m.answer.ok,
         NEW done, done = [operation.done EXCEPT ![m.step] = m.answer],
         NEW o, NEW k, o = operation, k = m.step
  PROVE  /\ RailPlan(o) /\ o \in PageOperations /\ o # None /\ m.from = "rail"
         /\ k \in DOMAIN o.todo /\ m.request = o.todo[k] /\ m.request \in PageRequests
         /\ DOMAIN o.todo = 1..Len(o.todo) /\ Len(o.todo) \in Nat /\ k \in Nat
         /\ DOMAIN o.done = DOMAIN o.todo /\ o.done \in Seq(PageAnswers \cup {None}) /\ m.answer \in PageAnswers
         /\ \A i \in DOMAIN o.todo : o.todo[i] \in PageRequests
         /\ done \in Seq(PageAnswers \cup {None}) /\ DOMAIN done = DOMAIN o.todo /\ done[k] = m.answer
         /\ \A i \in DOMAIN o.todo : i # k => done[i] = o.done[i]
         /\ \A i \in DOMAIN o.todo :
              (done[i] # None /\ o.todo[i].family \notin o.missed
               /\ (o.name = "load" \/ (o.name = "edit" /\ i = 1))) =>
                 done[i].catalog = PageSeen(o.todo[i].family)
<1>1. o = operation /\ k = m.step OBVIOUS
<1>2. /\ RailPlan(o) /\ o \in PageOperations /\ o # None /\ m.from = "rail"
      /\ k \in DOMAIN o.todo /\ m.request = o.todo[k] /\ m.request \in PageRequests
      /\ DOMAIN o.todo = 1..Len(o.todo) /\ Len(o.todo) \in Nat /\ k \in Nat
      /\ DOMAIN o.done = DOMAIN o.todo /\ o.done \in Seq(PageAnswers \cup {None}) /\ m.answer \in PageAnswers
      /\ \A i \in DOMAIN o.todo : o.todo[i] \in PageRequests
  <2>1. RailPlan(o) /\ o # None BY <1>1 DEF PageInv, RailInv, RailAsks
  <2>2. o \in PageOperations /\ DOMAIN o.done = DOMAIN o.todo BY <2>1 DEF RailPlan
  <2>3. k \in DOMAIN o.todo /\ m.request = o.todo[k] BY <1>1 DEF PageInv, RailInv, RailInTurn
  <2>4. o.done \in Seq(PageAnswers \cup {None}) BY <2>2 DEF PageOperations
  <2>5. m.answer \in PageAnswers BY DEF PageInv, PageTyped, PageMessage
  <2>6. DOMAIN o.todo = 1..Len(o.todo) /\ Len(o.todo) \in Nat /\ \A i \in DOMAIN o.todo : o.todo[i] \in PageRequests
      BY <2>1, PlanBegins
  <2> QED BY <2>1, <2>2, <2>3, <2>4, <2>5, <2>6 DEF RailAsks
<1>3. /\ done \in Seq(PageAnswers \cup {None}) /\ DOMAIN done = DOMAIN o.todo /\ done[k] = m.answer
      /\ \A i \in DOMAIN o.todo : i # k => done[i] = o.done[i]
  <2>1. done = [o.done EXCEPT ![k] = m.answer] BY <1>1
  <2>2. PICK S : S = PageAnswers \cup {None} OBVIOUS
  <2>3. m.answer \in S /\ o.done \in Seq(S) /\ k \in DOMAIN o.done BY <1>2, <2>2
  <2>4. PICK n \in Nat : n = Len(o.done) /\ DOMAIN o.done = 1..n BY <2>3
  <2>5. o.done \in [1..n -> S] BY <2>3, <2>4
  <2>6. done = [i \in 1..n |-> IF i = k THEN m.answer ELSE o.done[i]] BY <2>1, <2>4, <2>5
  <2>7. done \in [1..n -> S] BY <2>3, <2>5, <2>6
  <2>8. done \in Seq(S) BY <2>7, IsSequence
  <2> QED BY <1>2, <2>2, <2>3, <2>4, <2>6, <2>8
<1>4. ASSUME NEW i \in DOMAIN o.todo, done[i] # None, o.todo[i].family \notin o.missed,
             o.name = "load" \/ (o.name = "edit" /\ i = 1)
      PROVE  done[i].catalog = PageSeen(o.todo[i].family)
  <2>1. RailKnows /\ operation # None BY DEF PageInv, RailInv, RailAsks
  <2>2. CASE i # k BY <1>1, <1>3, <1>4, <2>1, <2>2 DEF RailKnows
  <2>3. CASE i = k
    <3>1. o.todo[i].action \notin {"save", "remove"}
      <4>1. CASE o.name = "load"
        <5>1. Len(o.todo) = 2 /\ o.todo[1].action = "catalog" /\ o.todo[2].action = "catalog"
            BY <1>2, <4>1 DEF RailPlan
        <5> QED BY <1>2, <2>3, <5>1
      <4>2. CASE o.name = "edit" /\ i = 1 BY <1>2, <4>2 DEF RailPlan
      <4> QED BY <1>4, <4>1, <4>2
    <3> QED BY <1>1, <1>2, <1>3, <1>4, <2>1, <2>3, <3>1 DEF RailKnows
  <2> QED BY <2>2, <2>3
<1> QED BY <1>2, <1>3, <1>4

(* An answer that does not end the operation: the next request is made, or   *)
(* the other one of load() is waited for.                                    *)
LEMMA GoesOnKeeps ==
  ASSUME PageAssumption, PageInv, NEW m \in wire, RailAsks(m), m.answer # None, m.answer.ok,
         NEW done, done = [operation.done EXCEPT ![m.step] = m.answer],
         NEW next, next = {i \in DOMAIN operation.todo : i = m.step + 1 /\ operation.name # "load"},
         wire' = (wire \ {m}) \cup {Page!Message("rail", turns["rail"], i, operation.todo[i]) : i \in next},
         operation' = [operation EXCEPT !.done = done],
         UNCHANGED <<rail, foreign, host, creator, crossed, turns>>
  PROVE  PageInv'
<1>1. PICK o, k : o = operation /\ k = m.step OBVIOUS
<1>2. /\ RailPlan(o) /\ o \in PageOperations /\ o # None /\ m.from = "rail"
      /\ k \in DOMAIN o.todo /\ m.request = o.todo[k] /\ m.request \in PageRequests
      /\ DOMAIN o.todo = 1..Len(o.todo) /\ Len(o.todo) \in Nat /\ k \in Nat
      /\ DOMAIN o.done = DOMAIN o.todo /\ o.done \in Seq(PageAnswers \cup {None}) /\ m.answer \in PageAnswers
      /\ \A i \in DOMAIN o.todo : o.todo[i] \in PageRequests
    BY <1>1, RailLearns
<1>3. /\ done \in Seq(PageAnswers \cup {None}) /\ DOMAIN done = DOMAIN o.todo /\ done[k] = m.answer
      /\ \A i \in DOMAIN o.todo : i # k => done[i] = o.done[i]
    BY <1>1, RailLearns
<1>4. /\ operation' \in PageOperations /\ operation'.done = done /\ operation'.todo = o.todo /\ operation'.name = o.name
      /\ operation'.target = o.target /\ operation'.missed = o.missed /\ operation' # None
    BY <1>1, <1>2, <1>3 DEF PageOperations, PageAssumption
<1>5. PICK sent : sent = {Page!Message("rail", turns["rail"], i, o.todo[i]) : i \in next} OBVIOUS
<1>6. wire' = (wire \ {m}) \cup sent BY <1>1, <1>5
<1>7. \A x \in sent :
        /\ PageMessage(x) /\ x.from = "rail" /\ x.turn = turns["rail"] /\ x.answer = None
        /\ x.step = k + 1 /\ x.step \in DOMAIN o.todo /\ x.request = o.todo[x.step] /\ o.name # "load"
        /\ x = Page!Message("rail", turns["rail"], k + 1, o.todo[k + 1])
    BY <1>1, <1>2, <1>5 DEF PageMessage, Page!Message
<1>8. \A x \in wire' : RailAsks(x)' => (x \in wire /\ x # m /\ RailAsks(x)) \/ x \in sent
    BY <1>1, <1>2, <1>6 DEF RailAsks
<1>9. /\ \A x \in wire : RailAsks(x) =>
           /\ x.step \in DOMAIN o.todo /\ x.request = o.todo[x.step] /\ o.done[x.step] = None
           /\ o.name # "load" => \A i \in DOMAIN o.todo : i >= x.step => o.done[i] = None
      /\ \A x, y \in wire : (RailAsks(x) /\ RailAsks(y) /\ (o.name # "load" \/ x.step = y.step)) => x = y
    BY <1>1 DEF PageInv, RailInv, RailInTurn
<1>10. \A x \in wire' : RailAsks(x)' => \/ x \in wire /\ x.step # k /\ RailAsks(x) /\ o.name = "load"
                                        \/ x \in sent
    BY <1>1, <1>8, <1>9
<1>11. RailPlan(operation)'
  <2>1. PICK p : p = operation' OBVIOUS
  <2>2. /\ p.todo = o.todo /\ p.name = o.name /\ p.target = o.target
        /\ p \in PageOperations /\ DOMAIN p.done = DOMAIN p.todo
      BY <1>3, <1>4, <2>1
  <2>3. RailPlan(p) BY <1>2, <2>2 DEF RailPlan
  <2>4. RailPlan(p)' BY <1>2, <2>1, <2>2, <2>3 DEF RailPlan
  <2> QED BY <2>1, <2>4 DEF RailPlan
<1>12. PageTyped'
  <2>1. \A x \in wire' : PageMessage(x)' /\ (x.from = "creator" => CreatorMessage(x)')
      BY <1>6, <1>7 DEF PageInv, PageTyped, PageMessage, CreatorMessage, PageRequests, PageAnswers, PageCatalogs, Page!Ids, Page!Of
  <2> QED BY <2>1 DEF PageInv, PageTyped, Page!Ids
<1>13. RailInTurn'
  <2>1. \A x \in wire' : x.from = "rail" => x.turn \in Nat /\ x.turn <= turns'["rail"]
      BY <1>6, <1>7 DEF PageInv, PageTyped, RailInv, RailInTurn
  <2>2. ASSUME NEW x \in wire', RailAsks(x)'
        PROVE  /\ x.step \in DOMAIN operation'.todo /\ x.request = operation'.todo[x.step]
               /\ operation'.done[x.step] = None
               /\ operation'.name # "load" => \A i \in DOMAIN operation'.todo : i >= x.step => operation'.done[i] = None
    <3>1. CASE x \in wire /\ x.step # k /\ RailAsks(x) /\ o.name = "load" BY <1>3, <1>4, <1>9, <3>1
    <3>2. CASE x \in sent
      <4>1. o.name # "load" /\ x.step = k + 1 BY <1>7, <3>2
      <4>2. \A i \in DOMAIN o.todo : i >= k => o.done[i] = None BY <1>1, <1>9, <4>1
      <4>3. \A i \in DOMAIN o.todo : i >= k + 1 => done[i] = None BY <1>2, <1>3, <4>2
      <4> QED BY <1>2, <1>4, <1>7, <3>2, <4>3
    <3> QED BY <1>10, <2>2, <3>1, <3>2
  <2>3. \A x, y \in wire' :
          (RailAsks(x)' /\ RailAsks(y)' /\ (operation'.name # "load" \/ x.step = y.step)) => x = y
      BY <1>4, <1>7, <1>9, <1>10
  <2> QED BY <2>1, <2>2, <2>3 DEF RailInTurn
<1>14. \A family : PageSeen(family)' = PageSeen(family) BY DEF PageSeen, Page!CatalogOf, Page!Of
<1>15. RailKnows'
  <2>1. RailKnows /\ operation # None BY DEF PageInv, RailInv, RailAsks
  <2>2. ASSUME NEW x \in wire', RailAsks(x)', x.answer # None, x.answer.ok
        PROVE  /\ x.request.action = "detail" => x.answer.doc \in Nat \ {0}
               /\ (x.request.family \notin o.missed /\ x.request.action \notin {"save", "remove"}) =>
                     x.answer.catalog = PageSeen(x.request.family)
    <3>1. x \in wire /\ RailAsks(x) BY <1>7, <1>10, <2>2
    <3> QED BY <1>1, <2>1, <2>2, <3>1 DEF RailKnows
  <2>3. \A i \in DOMAIN o.todo :
          (done[i] # None /\ o.todo[i].family \notin o.missed
           /\ (o.name = "load" \/ (o.name = "edit" /\ i = 1))) =>
             done[i].catalog = PageSeen(o.todo[i].family)
      BY <1>1, RailLearns
  <2>4. \A i \in DOMAIN o.todo : RailTold(i)' => RailTold(i)
    <3> SUFFICES ASSUME NEW i \in DOMAIN o.todo, RailTold(i)' PROVE RailTold(i) OBVIOUS
    <3>1. CASE operation'.done[i] # None BY <1>1, <1>3, <1>4, <3>1 DEF RailTold
    <3>2. CASE \E x \in wire' : RailAsks(x)' /\ x.step = i /\ x.answer # None /\ x.answer.ok
      <4>1. PICK x \in wire' : RailAsks(x)' /\ x.step = i /\ x.answer # None /\ x.answer.ok BY <3>2
      <4>2. x \in wire /\ RailAsks(x) BY <1>7, <1>10, <4>1
      <4> QED BY <4>1, <4>2 DEF RailTold
    <3> QED BY <3>1, <3>2 DEF RailTold
  <2>5. \A i : RailMeant(operation, i)' <=> RailMeant(operation, i) BY <1>1, <1>4 DEF RailMeant
  <2>6. operation'.missed \subseteq foreign'["rail"] BY <1>1, <1>4, <2>1 DEF RailKnows
  <2>7. (operation'.name = "import" /\ foreign'["rail"] = {}) =>
          \A i \in DOMAIN operation'.todo : RailTold(i)' => RailMeant(operation, i)'
      BY <1>1, <1>4, <2>1, <2>4, <2>5 DEF RailKnows
  <2> QED BY <1>4, <1>14, <2>2, <2>3, <2>6, <2>7 DEF RailKnows
<1>16. RailShows' BY <1>1, <1>2, <1>4, <1>14 DEF PageInv, RailInv, RailShows
<1>17. CreatorInv'
  <2>1. \A x \in wire \cup wire' : x.from = "creator" => (x \in wire <=> x \in wire') BY <1>2, <1>6, <1>7
  <2> QED BY <2>1, CreatorFrame DEF PageInv
<1> QED BY <1>11, <1>12, <1>13, <1>15, <1>16, <1>17 DEF PageInv, RailInv

(* The last answer: the rail shows what it has been told.                   *)
LEMMA FinishKeeps ==
  ASSUME PageAssumption, PageInv, NEW m \in wire, RailAsks(m), m.answer # None, m.answer.ok,
         NEW done, done = [operation.done EXCEPT ![m.step] = m.answer],
         \A i \in DOMAIN done : done[i] # None,
         NEW next, next = {i \in DOMAIN operation.todo : i = m.step + 1 /\ operation.name # "load"},
         wire' = (wire \ {m}) \cup {Page!Message("rail", turns["rail"], i, operation.todo[i]) : i \in next},
         operation' = None, rail' = Page!Finished(operation, done),
         foreign' = IF operation.name = "load" THEN [foreign EXCEPT !["rail"] = operation.missed] ELSE foreign,
         UNCHANGED <<host, creator, crossed, turns>>
  PROVE  PageInv'
<1>1. PICK o, k : o = operation /\ k = m.step OBVIOUS
<1>2. /\ RailPlan(o) /\ o \in PageOperations /\ o # None /\ m.from = "rail"
      /\ k \in DOMAIN o.todo /\ m.request = o.todo[k] /\ m.request \in PageRequests
      /\ DOMAIN o.todo = 1..Len(o.todo) /\ Len(o.todo) \in Nat /\ k \in Nat
      /\ m.answer \in PageAnswers /\ DOMAIN done = DOMAIN o.todo /\ done[k] = m.answer
      /\ \A i \in DOMAIN o.todo : i # k => done[i] = o.done[i]
      /\ \A i \in DOMAIN o.todo :
           (o.todo[i].family \notin o.missed /\ (o.name = "load" \/ (o.name = "edit" /\ i = 1))) =>
              done[i].catalog = PageSeen(o.todo[i].family)
    BY <1>1, RailLearns
<1>3. o.name # "load" => \A i \in DOMAIN o.todo : i >= k => o.done[i] = None
    BY <1>1 DEF PageInv, RailInv, RailInTurn
<1>4. o.name # "load" => k = Len(o.todo)
  <2> SUFFICES ASSUME o.name # "load", k # Len(o.todo) PROVE FALSE OBVIOUS
  <2>1. k + 1 \in DOMAIN o.todo /\ k + 1 >= k /\ k + 1 # k BY <1>2
  <2> QED BY <1>2, <1>3, <2>1
<1>5. wire' = wire \ {m}
  <2>1. next = {} BY <1>1, <1>2, <1>4
  <2> QED BY <2>1
<1>6. RailKnows /\ RailShows /\ operation # None BY DEF PageInv, RailInv, RailAsks
<1>7. o.missed \subseteq foreign["rail"] /\ foreign["rail"] \subseteq Families /\ o.missed \subseteq Families
    BY <1>1, <1>2, <1>6 DEF RailKnows, PageInv, PageTyped, PageOperations
<1>8. PICK missed : missed = (IF o.name = "load" THEN o.missed ELSE foreign["rail"])
    OBVIOUS
<1>9. /\ foreign' \in [{"rail", "creator"} -> SUBSET Families] /\ foreign'["creator"] = foreign["creator"]
      /\ foreign'["rail"] = missed
    BY <1>1, <1>7, <1>8 DEF PageInv, PageTyped
<1>10. PICK shown : shown = Page!Showing(o, done) OBVIOUS
<1>11. PICK editor : editor = (IF o.name \in {"open", "edit"}
                               THEN [phase |-> "ready", target |-> o.target, doc |-> done[Len(done)].doc] ELSE rail.editor)
    OBVIOUS
<1>12. PICK imported : imported = (IF o.name = "import" THEN o.target ELSE None) OBVIOUS
<1>13. rail' = [phase |-> "ready", library |-> shown.library, presets |-> shown.presets,
                imported |-> imported, editor |-> editor]
    BY <1>1, <1>10, <1>11, <1>12 DEF Page!Finished
<1>14. Len(done) = Len(o.todo) BY <1>1, <1>2, RailLearns
<1>15. /\ editor = [phase |-> editor.phase, target |-> editor.target, doc |-> editor.doc]
       /\ editor.phase # "closed" => editor.target \in Page!Ids
       /\ editor.doc \in Nat /\ (editor.phase = "ready" => editor.doc # 0)
  <2>1. CASE o.name \in {"open", "edit"}
    <3>1. o.target \in Page!Ids /\ o.todo[Len(o.todo)].action = "detail" BY <1>2, <2>1 DEF RailPlan
    <3>2. done[Len(done)] = m.answer /\ m.request.action = "detail" BY <1>2, <1>4, <1>14, <2>1, <3>1
    <3>3. m.answer.doc \in Nat \ {0} BY <1>6, <3>2 DEF RailKnows
    <3> QED BY <1>11, <2>1, <3>1, <3>2, <3>3
  <2>2. CASE o.name \notin {"open", "edit"} BY <1>6, <1>11, <2>2 DEF PageInv, PageTyped, RailShows
  <2> QED BY <2>1, <2>2
<1>16. ASSUME NEW family \in Families \ missed PROVE rail'[family] \in {None, PageSeen(family)}
  <2>1. CASE o.name = "load"
    <3>1. Len(o.todo) = 2 /\ o.todo[1].family = "library" /\ o.todo[2].family = "presets" BY <1>2, <2>1 DEF RailPlan
    <3>2. shown = [library |-> done[1].catalog, presets |-> done[2].catalog] BY <1>10, <2>1 DEF Page!Showing
    <3>3. 1 \in DOMAIN o.todo /\ 2 \in DOMAIN o.todo BY <1>2, <3>1
    <3>4. family \notin o.missed BY <1>8, <2>1
    <3>5. CASE family = "library"
      <4>1. done[1].catalog = PageSeen("library") BY <1>2, <2>1, <3>1, <3>3, <3>4, <3>5
      <4> QED BY <1>13, <3>2, <3>5, <4>1
    <3>6. CASE family = "presets"
      <4>1. done[2].catalog = PageSeen("presets") BY <1>2, <2>1, <3>1, <3>3, <3>4, <3>6
      <4> QED BY <1>13, <3>2, <3>6, <4>1
    <3> QED BY <3>5, <3>6 DEF Families
  <2>2. CASE o.name = "open"
    <3>1. shown = [library |-> rail.library, presets |-> rail.presets] BY <1>10, <2>2 DEF Page!Showing
    <3>2. rail[family] \in {None, PageSeen(family)} BY <1>1, <1>6, <1>8, <2>2 DEF RailShows
    <3>3. rail'[family] = rail[family]
      <4>1. CASE family = "library" BY <1>13, <3>1, <4>1
      <4>2. CASE family = "presets" BY <1>13, <3>1, <4>2
      <4> QED BY <4>1, <4>2 DEF Families
    <3> QED BY <3>2, <3>3
  <2>3. CASE o.name \in {"set", "edit", "import"}
    <3>1. family \notin o.missed /\ family \in Families \ foreign["rail"] BY <1>7, <1>8, <2>3
    <3>2. PICK last : last = (IF o.name = "edit" THEN done[1] ELSE done[Len(done)]) OBVIOUS
    <3>3. shown = IF o.todo[1].family = "library" THEN [library |-> last.catalog, presets |-> rail.presets]
                  ELSE [library |-> rail.library, presets |-> last.catalog]
      <4>1. o.todo[1].family \in Families BY <1>2, PlanBegins DEF PageRequests
      <4> QED BY <1>10, <2>3, <3>2, <4>1 DEF Page!Showing, Families
    <3>4. o.todo[1].family \in Families /\ 1 \in DOMAIN o.todo
      <4>1. o.todo[1] \in PageRequests /\ 1 \in DOMAIN o.todo BY <1>2, PlanBegins
      <4> QED BY <4>1 DEF PageRequests
    <3>5. CASE family = o.todo[1].family
      <4>1. last.catalog = PageSeen(family)
        <5>1. CASE o.name = "edit" BY <1>2, <3>1, <3>2, <3>4, <3>5, <5>1
        <5>2. CASE o.name \in {"set", "import"}
          <6>1. last = m.answer /\ k = Len(o.todo) BY <1>2, <1>4, <1>14, <3>2, <5>2
          <6>2. o.todo[Len(o.todo)].action \in {"activate", "deactivate"}
            <7>1. CASE o.name = "set" BY <1>2, <7>1 DEF RailPlan
            <7>2. CASE o.name = "import"
              <8>1. /\ Len(o.target.ids) \in Nat /\ Len(o.target.ids) # 0 /\ Len(o.todo) = 1 + Len(o.target.ids)
                    /\ DOMAIN o.target.ids = 1..Len(o.target.ids)
                  BY <1>2, <7>2 DEF RailPlan, PageAssumption
              <8>2. PICK n \in DOMAIN o.target.ids : n + 1 = Len(o.todo)
                <9>1. Len(o.target.ids) \in DOMAIN o.target.ids /\ Len(o.target.ids) + 1 = Len(o.todo) BY <8>1
                <9> QED BY <9>1
              <8>3. o.todo[n + 1].action = "activate" BY <1>2, <7>2, <8>2 DEF RailPlan
              <8> QED BY <8>2, <8>3
            <7> QED BY <5>2, <7>1, <7>2
          <6>3. m.request.family = family BY <1>2, <3>5, <5>2, PlanBegins
          <6> QED BY <1>1, <1>2, <1>6, <3>1, <6>1, <6>2, <6>3 DEF RailKnows
        <5> QED BY <2>3, <5>1, <5>2
      <4> QED BY <1>13, <3>3, <3>5, <4>1 DEF Families
    <3>6. CASE family # o.todo[1].family
      <4>1. rail[family] \in {None, PageSeen(family)} BY <1>1, <1>6, <3>1, <3>6 DEF RailShows
      <4>2. rail'[family] = rail[family]
        <5>1. CASE family = "library" BY <1>13, <3>3, <3>6, <5>1
        <5>2. CASE family = "presets" BY <1>13, <3>3, <3>4, <3>6, <5>2 DEF Families
        <5> QED BY <5>1, <5>2 DEF Families
      <4> QED BY <4>1, <4>2
    <3> QED BY <3>5, <3>6
  <2> QED BY <1>2, <2>1, <2>2, <2>3 DEF RailPlan
<1>17. ASSUME imported # None, missed = {}
       PROVE  \A n \in DOMAIN imported.ids :
                host.saved[imported.ids[n]] = imported.version /\ imported.ids[n] \in host.bound
  <2>1. o.name = "import" /\ imported = o.target BY <1>12, <1>17
  <2>2. /\ Len(o.target.ids) \in Nat /\ Len(o.todo) = 1 + Len(o.target.ids)
        /\ DOMAIN o.target.ids = 1..Len(o.target.ids)
      BY <1>2, <2>1 DEF RailPlan, PageAssumption
  <2>3. \A i \in DOMAIN o.todo : RailTold(i) BY <1>1, <1>2 DEF RailTold
  <2>4. \A i \in DOMAIN o.todo : RailMeant(o, i) BY <1>1, <1>6, <1>8, <1>17, <2>1, <2>3 DEF RailKnows
  <2>5. \A n \in DOMAIN o.target.ids : host.saved[o.target.ids[n]] = o.target.version
    <3>1. 1 \in DOMAIN o.todo BY <1>2, PlanBegins
    <3> QED BY <2>4, <3>1 DEF RailMeant
  <2>6. ASSUME NEW n \in DOMAIN o.target.ids PROVE o.target.ids[n] \in host.bound
    <3>1. n + 1 \in DOMAIN o.todo /\ n + 1 # 1 /\ (n + 1) - 1 = n BY <1>2, <2>2
    <3> QED BY <2>4, <3>1 DEF RailMeant
  <2> QED BY <2>1, <2>5, <2>6
<1>18. RailShows'
  <2>1. \A family : PageSeen(family)' = PageSeen(family) BY DEF PageSeen, Page!CatalogOf, Page!Of
  <2>2. \A family \in Families \ foreign'["rail"] : rail'[family] \in {None, PageSeen(family)'}
      BY <1>9, <1>16, <2>1
  <2>3. (rail'.imported # None /\ foreign'["rail"] = {}) =>
          \A n \in DOMAIN rail'.imported.ids :
            host'.saved[rail'.imported.ids[n]] = rail'.imported.version /\ rail'.imported.ids[n] \in host'.bound
      BY <1>9, <1>13, <1>17
  <2> QED BY <1>13, <1>15, <2>2, <2>3 DEF RailShows
<1>19. /\ rail' = [phase |-> rail'.phase, library |-> rail'.library, presets |-> rail'.presets,
                    imported |-> rail'.imported, editor |-> rail'.editor]
       /\ rail'.editor = editor
    BY <1>13
<1>20. wire' \subseteq wire /\ \A x \in wire : x.from = "creator" => x \in wire' BY <1>2, <1>5
<1>21. /\ rail'.editor = [phase |-> rail'.editor.phase, target |-> rail'.editor.target, doc |-> rail'.editor.doc]
       /\ rail'.editor.phase # "closed" => rail'.editor.target \in Page!Ids
       /\ rail'.editor.doc \in Nat
    BY <1>15, <1>19
<1> QED BY <1>9, <1>18, <1>19, <1>20, <1>21, RailStops

LEMMA RailReceivesKeeps == ASSUME PageAssumption, PageInv, NEW m \in wire, Page!RailReceives(m) PROVE PageInv'
<1>1. m.from = "rail" /\ m.answer # None /\ UNCHANGED <<host, creator, crossed, turns>> BY DEF Page!RailReceives
<1>2. CASE ~Page!Current(m)
    BY <1>1, <1>2, IgnoredKeeps DEF Page!RailReceives
<1>3. CASE Page!Current(m) /\ ~m.answer.ok
    BY <1>1, <1>3, FailKeeps DEF Page!RailReceives
<1>4. CASE Page!Current(m) /\ m.answer.ok
  <2>1. RailAsks(m) BY <1>1, <1>4 DEF Page!Current, RailAsks
  <2>2. PICK done : done = [operation.done EXCEPT ![m.step] = m.answer] OBVIOUS
  <2>3. PICK next : next = {i \in DOMAIN operation.todo : i = m.step + 1 /\ operation.name # "load"} OBVIOUS
  <2>4. /\ wire' = (wire \ {m}) \cup {Page!Message("rail", turns["rail"], i, operation.todo[i]) : i \in next}
        /\ IF None \in Page!Range(done)
           THEN operation' = [operation EXCEPT !.done = done] /\ UNCHANGED <<rail, foreign>>
           ELSE /\ operation' = None /\ rail' = Page!Finished(operation, done)
                /\ foreign' = IF operation.name = "load" THEN [foreign EXCEPT !["rail"] = operation.missed] ELSE foreign
      BY <1>4, <2>2, <2>3 DEF Page!RailReceives
  <2>5. CASE None \in Page!Range(done) BY <1>1, <1>4, <2>1, <2>2, <2>3, <2>4, <2>5, GoesOnKeeps
  <2>6. CASE None \notin Page!Range(done)
    <3>1. \A i \in DOMAIN done : done[i] # None BY <2>6 DEF Page!Range
    <3> QED BY <1>1, <1>4, <2>1, <2>2, <2>3, <2>4, <2>6, <3>1, FinishKeeps
  <2> QED BY <2>5, <2>6
<1> QED BY <1>2, <1>3, <1>4

-----------------------------------------------------------------------------
(* The Host gets a request.                                                  *)
LEMMA AnswerIs ==
  ASSUME PageAssumption, PageTyped, NEW r \in PageRequests, NEW h, h = Page!Serve(r), NEW a, a = Page!Answer(r, h)
  PROVE  /\ a \in PageAnswers /\ a # None /\ (a.ok <=> ~Page!Refused(r))
         /\ (r.action = "detail" /\ a.ok) => a.doc \in Nat \ {0}
         /\ r.action \notin {"save", "remove"} => a.catalog = Page!CatalogOf(h, r.family, TRUE)
         /\ a.catalog.saved = Page!CatalogOf(h, r.family, TRUE).saved
<1>1. PICK c : c = Page!CatalogOf(h, r.family, r.action \notin {"save", "remove"}) OBVIOUS
<1>2. PICK doc : doc = IF r.action = "detail" THEN h.saved[Head(r.ids)] ELSE 0 OBVIOUS
<1>3. PICK ok : ok = ~Page!Refused(r) OBVIOUS
<1>4. a = [ok |-> ok, doc |-> doc, catalog |-> c] BY <1>1, <1>2, <1>3 DEF Page!Answer
<1>5. a.ok = ok BY <1>4
<1>6. ok \in BOOLEAN BY <1>3, Zenon
<1>7. a.ok <=> ~Page!Refused(r) BY <1>3, <1>5, Zenon
<1>8. a.doc = doc /\ a.catalog = c BY <1>4
<1>9. /\ h.saved \in [Page!Ids -> Nat] /\ h.bound \subseteq Page!Ids BY ServeIs
<1>10. /\ r.family \in Families /\ r.ids \in Seq(Page!Ids) /\ \A i \in DOMAIN r.ids : r.ids[i] \in Page!Of(r.family)
       /\ r.action = "detail" => r.ids # <<>>
    BY DEF PageRequests
<1>11. doc \in Nat
  <2>1. CASE r.action = "detail"
    <3>1. 1 \in DOMAIN r.ids /\ Head(r.ids) = r.ids[1] BY <1>10, <2>1
    <3>2. Head(r.ids) \in Page!Ids BY <1>10, <3>1
    <3> QED BY <1>2, <1>9, <2>1, <3>2
  <2>2. CASE r.action # "detail" BY <1>2, <2>2
  <2> QED BY <2>1, <2>2
<1>12. c \in PageCatalogs
  <2>1. PICK saved : saved = [i \in Page!Of(r.family) |-> h.saved[i]] OBVIOUS
  <2>2. PICK active : active = IF r.action \notin {"save", "remove"} THEN {h.bound \cap Page!Of(r.family)} ELSE {}
      OBVIOUS
  <2>3. c = [saved |-> saved, active |-> active] BY <1>1, <2>1, <2>2 DEF Page!CatalogOf
  <2>4. saved \in [Page!Of(r.family) -> Nat] BY <1>9, <1>10, <2>1, PageIds
  <2>5. Page!Of(r.family) \in {PageLibrary, PagePresets} BY <1>10, PageIds DEF Families
  <2>6. saved \in [PageLibrary -> Nat] \cup [PagePresets -> Nat] BY <2>4, <2>5
  <2>7. active \in SUBSET SUBSET Page!Ids BY <1>9, <2>2
  <2> QED BY <2>3, <2>6, <2>7 DEF PageCatalogs
<1>13. a \in PageAnswers BY <1>4, <1>11, <1>12, <1>6 DEF PageAnswers
<1>14. (r.action = "detail" /\ a.ok) => a.doc \in Nat \ {0} 
  <2> SUFFICES ASSUME r.action = "detail", a.ok PROVE a.doc \in Nat \ {0} OBVIOUS
  <2>1. ~Page!Refused(r) /\ a.doc = h.saved[Head(r.ids)] BY <1>2, <1>7, <1>8
  <2> QED BY <2>1, ServeDoes
<1>15. r.action \notin {"save", "remove"} => c = Page!CatalogOf(h, r.family, TRUE) BY <1>1 DEF Page!CatalogOf
<1>16. c.saved = Page!CatalogOf(h, r.family, TRUE).saved BY <1>1 DEF Page!CatalogOf
<1>17. a # None BY <1>13 DEF PageAssumption
<1> QED BY <1>13, <1>14, <1>15, <1>16, <1>17, <1>7, <1>8

(* An import changes what its request is for and keeps what came before: a   *)
(* file of a preset holds no second one that would take its place.           *)
LEMMA ImportGoes ==
  ASSUME PageAssumption, PageTyped, NEW o, RailPlan(o), o.name = "import",
         NEW k \in DOMAIN o.todo, NEW r, r = o.todo[k], NEW h, h = Page!Serve(r), ~Page!Refused(r)
  PROVE  /\ IF k = 1 THEN \A j \in DOMAIN o.target.ids : h.saved[o.target.ids[j]] = o.target.version
            ELSE h.saved = host.saved /\ o.target.ids[k - 1] \in h.bound
         /\ \A i \in DOMAIN o.todo : (i > 1 /\ i < k /\ o.target.ids[i - 1] \in host.bound) => o.target.ids[i - 1] \in h.bound
<1>1. /\ o.target \in PageFiles /\ Len(o.todo) = 1 + Len(o.target.ids)
      /\ o.todo[1].action = "save" /\ o.todo[1].ids = o.target.ids
      /\ o.todo[1].version # 0 => o.todo[1].version = o.target.version
      /\ \A i \in DOMAIN o.target.ids :
           /\ o.todo[i + 1].action = "activate" /\ o.todo[i + 1].ids = <<o.target.ids[i]>>
           /\ o.todo[i + 1].family = o.todo[1].family
    BY DEF RailPlan
<1>2. /\ o.target.ids # <<>>
      /\ o.target.ids \in Seq(PageLibrary) \/ (o.target.ids \in Seq(PagePresets) /\ Len(o.target.ids) = 1)
    BY <1>1 DEF PageAssumption
<1>3. PICK n \in Nat : n = Len(o.target.ids) /\ DOMAIN o.target.ids = 1..n /\ n >= 1 BY <1>2
<1>4. DOMAIN o.todo = 1..(n + 1) /\ r \in PageRequests BY <1>1, <1>3, PlanBegins
<1>5. CASE k = 1
  <2>1. r.action = "save" /\ r.ids = o.target.ids BY <1>1, <1>5
  <2>2. r.version = o.target.version /\ \A j \in DOMAIN o.target.ids : h.saved[o.target.ids[j]] = r.version
      BY <1>1, <1>4, <1>5, <2>1, ServeDoes
  <2> QED BY <1>4, <1>5, <2>2
<1>6. CASE k # 1
  <2>1. PICK j \in DOMAIN o.target.ids : j = k - 1 /\ j + 1 = k
    <3>1. k - 1 \in DOMAIN o.target.ids /\ (k - 1) + 1 = k BY <1>3, <1>4, <1>6
    <3> QED BY <3>1
  <2>2. r.action = "activate" /\ r.ids = <<o.target.ids[j]>> /\ r.family = o.todo[1].family BY <1>1, <2>1
  <2>3. Head(r.ids) = o.target.ids[j] BY <2>2
  <2>4. h.saved = host.saved /\ o.target.ids[j] \in h.bound /\ (r.family = "library" => host.bound \subseteq h.bound)
      BY <1>4, <2>2, <2>3, ServeDoes
  <2>5. CASE r.family = "library" BY <1>6, <2>1, <2>4, <2>5
  <2>6. CASE r.family # "library"
    <3>1. r.family = "presets" /\ \A i \in DOMAIN r.ids : r.ids[i] \in PagePresets
        BY <1>4, <2>6, PageIds DEF PageRequests, Families
    <3>2. 1 \in DOMAIN r.ids /\ r.ids[1] = o.target.ids[j] BY <2>2
    <3>3. o.target.ids[j] \in PagePresets BY <3>1, <3>2
    <3>4. o.target.ids \notin Seq(PageLibrary) BY <2>1, <3>3 DEF PageAssumption
    <3>5. n = 1 BY <1>2, <1>3, <3>4
    <3>6. ~\E i \in DOMAIN o.todo : i > 1 /\ i < k BY <1>4, <3>5
    <3> QED BY <1>6, <2>1, <2>4, <3>6
  <2> QED BY <2>5, <2>6
<1> QED BY <1>5, <1>6

LEMMA ArriveKeeps == ASSUME PageAssumption, PageInv, NEW m \in wire, Page!Arrive(m) PROVE PageInv'
<1>1. PICK r, h, a : r = m.request /\ h = Page!Serve(r) /\ a = Page!Answer(r, h) OBVIOUS
<1>2. PICK strangers : strangers = {c \in {"rail", "creator"} : h # host /\ (c # m.from \/ ~Page!Current(m))} OBVIOUS
<1>3. PICK n : n = [m EXCEPT !.answer = a] OBVIOUS
<1>4. /\ m.answer = None /\ host' = h /\ wire' = (wire \ {m}) \cup {n}
      /\ foreign' = [c \in {"rail", "creator"} |-> foreign[c] \cup (IF c \in strangers THEN {r.family} ELSE {})]
      /\ operation' = IF operation # None /\ "rail" \in strangers THEN [operation EXCEPT !.missed = @ \cup {r.family}]
                      ELSE operation
      /\ UNCHANGED <<rail, creator, crossed, turns>>
    BY <1>1, <1>2, <1>3 DEF Page!Arrive, Page!Clients
<1>5. PageTyped /\ RailInv /\ CreatorInv /\ PageMessage(m) /\ r \in PageRequests /\ r.family \in Families
    BY <1>1 DEF PageInv, PageTyped, PageMessage, PageRequests
<1>6. n = [from |-> m.from, turn |-> m.turn, step |-> m.step, request |-> r, answer |-> a]
    BY <1>1, <1>3, <1>5 DEF PageMessage
<1>7. /\ n.from = m.from /\ n.turn = m.turn /\ n.step = m.step /\ n.request = r /\ n.answer = a BY <1>6
<1>8. /\ a \in PageAnswers /\ a # None /\ (a.ok <=> ~Page!Refused(r))
      /\ (r.action = "detail" /\ a.ok) => a.doc \in Nat \ {0}
      /\ r.action \notin {"save", "remove"} => a.catalog = Page!CatalogOf(h, r.family, TRUE)
      /\ a.catalog.saved = Page!CatalogOf(h, r.family, TRUE).saved
    BY <1>1, <1>5, AnswerIs
<1>9. /\ h = [saved |-> h.saved, bound |-> h.bound] /\ h.saved \in [Page!Ids -> Nat] /\ h.bound \subseteq Page!Ids
      /\ \A i \in Page!Ids \ Page!Of(r.family) : h.saved[i] = host.saved[i] /\ (i \in h.bound <=> i \in host.bound)
      /\ (Page!Refused(r) \/ r.action \in {"catalog", "detail", "import"}) => h = host
    BY <1>1, <1>5, ServeIs
<1>10. \A family : PageSeen(family)' = Page!CatalogOf(h, family, TRUE) BY <1>4 DEF PageSeen, Page!CatalogOf, Page!Of
<1>11. ASSUME NEW family \in Families, h = host \/ family # r.family PROVE PageSeen(family)' = PageSeen(family)
  <2>1. CASE h = host BY <1>10, <2>1 DEF PageSeen
  <2>2. CASE family # r.family
    <3>1. \A i \in Page!Of(family) : h.saved[i] = host.saved[i] /\ (i \in h.bound <=> i \in host.bound)
        BY <1>5, <1>9, <2>2, PageIds
    <3> QED BY <1>10, <3>1, SeenIs DEF PageSeen
  <2> QED BY <1>11, <2>1, <2>2
<1>12. /\ foreign' \in [{"rail", "creator"} -> SUBSET Families]
       /\ foreign'["rail"] = foreign["rail"] \cup (IF "rail" \in strangers THEN {r.family} ELSE {})
       /\ foreign'["creator"] = foreign["creator"] \cup (IF "creator" \in strangers THEN {r.family} ELSE {})
    BY <1>4, <1>5 DEF PageTyped
<1>13. "rail" \notin strangers => h = host \/ RailAsks(m) BY <1>2 DEF Page!Current, RailAsks
<1>14. "creator" \notin strangers => h = host \/ m.from = "creator"
    BY <1>2
<1>15. PICK o, p : o = operation /\ p = operation' OBVIOUS
<1>16. /\ p = None <=> o = None
       /\ o # None => /\ RailPlan(o) /\ RailPlan(p) /\ p \in PageOperations
                      /\ p.name = o.name /\ p.todo = o.todo /\ p.done = o.done /\ p.target = o.target
                      /\ p.missed = o.missed \cup (IF "rail" \in strangers THEN {r.family} ELSE {})
  <2>1. CASE o = None BY <1>4, <1>15, <2>1
  <2>2. CASE o # None
    <3>1. RailPlan(o) /\ o \in PageOperations BY <1>5, <1>15, <2>2 DEF RailInv, RailPlan
    <3>2. o.missed \subseteq Families BY <3>1 DEF PageOperations
    <3>3. PICK missed : missed = o.missed \cup (IF "rail" \in strangers THEN {r.family} ELSE {}) OBVIOUS
    <3>4. missed \subseteq Families BY <1>5, <3>2, <3>3
    <3>5. /\ p.name = o.name /\ p.todo = o.todo /\ p.done = o.done /\ p.target = o.target
          /\ p.missed = missed /\ p \in PageOperations
      <4>1. CASE "rail" \in strangers
        <5>1. p = [o EXCEPT !.missed = missed] BY <1>4, <1>15, <2>2, <3>3, <4>1
        <5> QED BY <3>1, <3>4, <5>1 DEF PageOperations
      <4>2. CASE "rail" \notin strangers
        <5>1. p = o /\ missed = o.missed BY <1>4, <1>15, <3>3, <4>2
        <5> QED BY <3>1, <5>1
      <4> QED BY <4>1, <4>2
    <3>6. RailPlan(p) BY <3>1, <3>5 DEF RailPlan
    <3> QED BY <2>2, <3>1, <3>3, <3>5, <3>6 DEF PageAssumption
  <2> QED BY <2>1, <2>2
<1>17. /\ RailAsks(n)' <=> RailAsks(m)
       /\ \A x \in wire : RailAsks(x)' <=> RailAsks(x)
    BY <1>4, <1>7, <1>15, <1>16 DEF RailAsks
<1>18. o # None =>
         /\ \A x \in wire : RailAsks(x) =>
              /\ x.step \in DOMAIN o.todo /\ x.request = o.todo[x.step] /\ o.done[x.step] = None
              /\ o.name # "load" => \A i \in DOMAIN o.todo : i >= x.step => o.done[i] = None
         /\ \A x, y \in wire : (RailAsks(x) /\ RailAsks(y) /\ (o.name # "load" \/ x.step = y.step)) => x = y
    BY <1>5, <1>15 DEF RailInv, RailInTurn
<1>19. RailAsks(m) => o # None BY <1>15 DEF RailAsks
(* The rail's own reads change nothing; what changes is of its family. *)
<1>20. ASSUME h # host, "rail" \notin strangers
       PROVE  /\ RailAsks(m) /\ o # None /\ o.name \notin {"load", "open"}
              /\ \A i \in DOMAIN o.todo : o.todo[i].family = r.family
              /\ o.todo[1].family = r.family /\ (o.name = "edit" => m.step = 1)
  <2>1. RailAsks(m) /\ o # None BY <1>13, <1>19, <1>20
  <2>2. m.step \in DOMAIN o.todo /\ r = o.todo[m.step] /\ RailPlan(o) BY <1>1, <1>16, <1>18, <2>1
  <2>3. r.action \notin {"catalog", "detail", "import"} BY <1>9, <1>20
  <2>4. DOMAIN o.todo = 1..Len(o.todo) /\ Len(o.todo) \in Nat /\ 1 \in DOMAIN o.todo BY <2>2, PlanBegins
  <2>5. o.name # "load"
    <3> SUFFICES ASSUME o.name = "load" PROVE FALSE OBVIOUS
    <3>1. Len(o.todo) = 2 /\ o.todo[1].action = "catalog" /\ o.todo[2].action = "catalog" BY <2>2 DEF RailPlan
    <3>2. m.step \in {1, 2} BY <2>2, <2>4, <3>1
    <3> QED BY <2>2, <2>3, <3>1, <3>2
  <2>6. o.name # "open"
    <3> SUFFICES ASSUME o.name = "open" PROVE FALSE OBVIOUS
    <3>1. Len(o.todo) = 1 /\ o.todo[1].action = "detail" BY <2>2 DEF RailPlan
    <3>2. m.step = 1 BY <2>2, <2>4, <3>1
    <3> QED BY <2>2, <2>3, <3>1, <3>2
  <2>7. o.name = "edit" => m.step = 1
    <3> SUFFICES ASSUME o.name = "edit", m.step # 1 PROVE FALSE OBVIOUS
    <3>1. Len(o.todo) = 2 /\ o.todo[2].action = "detail" BY <2>2 DEF RailPlan
    <3>2. m.step = 2 BY <2>2, <2>4, <3>1
    <3> QED BY <2>2, <2>3, <3>1, <3>2
  <2>8. \A i \in DOMAIN o.todo : o.todo[i].family = r.family BY <2>2, <2>5, PlanBegins
  <2> QED BY <2>1, <2>4, <2>5, <2>6, <2>7, <2>8
<1>21. PageTyped'
  <2>1. PageMessage(n)' /\ (n.from = "creator" => CreatorMessage(n)')
      BY <1>1, <1>4, <1>5, <1>6, <1>7, <1>8 DEF PageTyped, PageMessage, CreatorMessage, PageRequests, PageAnswers, PageCatalogs, Page!Ids, Page!Of
  <2>2. \A x \in wire' : PageMessage(x)' /\ (x.from = "creator" => CreatorMessage(x)')
      BY <1>4, <1>5, <2>1 DEF PageTyped, PageMessage, CreatorMessage, PageRequests, PageAnswers, PageCatalogs, Page!Ids, Page!Of
  <2>3. host' = [saved |-> host'.saved, bound |-> host'.bound] /\ host'.saved \in [Page!Ids -> Nat] /\ host'.bound \subseteq Page!Ids
      BY <1>4, <1>9
  <2> QED BY <1>4, <1>5, <1>12, <2>2, <2>3 DEF PageTyped, Page!Ids
<1>22. RailInTurn'
  <2>1. \A x \in wire' : x.from = "rail" => x.turn \in Nat /\ x.turn <= turns'["rail"]
      BY <1>4, <1>5, <1>7 DEF RailInv, RailInTurn
  <2>2. \A x \in wire' : RailAsks(x)' =>
          /\ x.step \in DOMAIN p.todo /\ x.request = p.todo[x.step] /\ p.done[x.step] = None
          /\ p.name # "load" => \A i \in DOMAIN p.todo : i >= x.step => p.done[i] = None
      BY <1>1, <1>4, <1>7, <1>15, <1>16, <1>17, <1>18 DEF RailAsks
  <2>3. \A x, y \in wire' : (RailAsks(x)' /\ RailAsks(y)' /\ (p.name # "load" \/ x.step = y.step)) => x = y
      BY <1>4, <1>7, <1>15, <1>16, <1>17, <1>18 DEF RailAsks
  <2> QED BY <1>15, <2>1, <2>2, <2>3 DEF RailInTurn
<1>23. ASSUME o # None PROVE
         \A x \in wire' : (RailAsks(x)' /\ x.answer # None /\ x.answer.ok) =>
           /\ x.request.action = "detail" => x.answer.doc \in Nat \ {0}
           /\ (x.request.family \notin p.missed /\ x.request.action \notin {"save", "remove"}) =>
                x.answer.catalog = PageSeen(x.request.family)'
  <2> SUFFICES ASSUME NEW x \in wire', RailAsks(x)', x.answer # None, x.answer.ok
               PROVE  /\ x.request.action = "detail" => x.answer.doc \in Nat \ {0}
                      /\ (x.request.family \notin p.missed /\ x.request.action \notin {"save", "remove"}) =>
                           x.answer.catalog = PageSeen(x.request.family)'
    OBVIOUS
  <2>1. CASE x = n BY <1>7, <1>8, <1>10, <2>1
  <2>2. CASE x \in wire /\ x # m
    <3>1. RailAsks(x) /\ x.request \in PageRequests BY <1>5, <1>17, <2>2 DEF PageTyped, PageMessage
    <3>2. /\ x.request.action = "detail" => x.answer.doc \in Nat \ {0}
          /\ (x.request.family \notin o.missed /\ x.request.action \notin {"save", "remove"}) =>
               x.answer.catalog = PageSeen(x.request.family)
        BY <1>5, <1>15, <1>23, <2>2, <3>1 DEF RailInv, RailKnows
    <3>3. ASSUME x.request.family \notin p.missed PROVE PageSeen(x.request.family)' = PageSeen(x.request.family)
      <4>1. x.request.family \in Families BY <3>1 DEF PageRequests
      <4>2. h = host \/ x.request.family # r.family
        <5> SUFFICES ASSUME h # host, x.request.family = r.family PROVE FALSE OBVIOUS
        <5>1. "rail" \notin strangers BY <1>16, <1>23, <3>3
        <5>2. RailAsks(m) /\ o.name # "load" BY <1>20, <5>1
        <5> QED BY <1>18, <1>23, <2>2, <3>1, <5>2
      <4> QED BY <1>11, <4>1, <4>2
    <3> QED BY <1>16, <1>23, <3>2, <3>3
  <2> QED BY <1>4, <2>1, <2>2
<1>24. ASSUME o # None PROVE
         \A i \in DOMAIN o.todo :
           (o.done[i] # None /\ o.todo[i].family \notin p.missed /\ (o.name = "load" \/ (o.name = "edit" /\ i = 1))) =>
             o.done[i].catalog = PageSeen(o.todo[i].family)'
  <2> SUFFICES ASSUME NEW i \in DOMAIN o.todo, o.done[i] # None, o.todo[i].family \notin p.missed,
                      o.name = "load" \/ (o.name = "edit" /\ i = 1)
               PROVE  o.done[i].catalog = PageSeen(o.todo[i].family)'
    OBVIOUS
  <2>1. o.todo[i].family \notin o.missed /\ (o.todo[i].family = r.family => "rail" \notin strangers) BY <1>16, <1>23, <1>24
  <2>2. o.done[i].catalog = PageSeen(o.todo[i].family) BY <1>5, <1>15, <1>24, <2>1 DEF RailInv, RailKnows
  <2>3. o.todo[i].family \in Families BY <1>16, <1>24, PlanBegins DEF PageRequests
  <2>4. h = host \/ o.todo[i].family # r.family
    <3> SUFFICES ASSUME h # host, o.todo[i].family = r.family PROVE FALSE OBVIOUS
    <3>1. RailAsks(m) /\ o.name = "edit" /\ i = 1 /\ m.step = 1 BY <1>20, <2>1
    <3> QED BY <1>18, <1>24, <3>1
  <2> QED BY <1>11, <2>2, <2>3, <2>4
<1>25. ASSUME o # None, o.name = "import", foreign'["rail"] = {}
       PROVE  \A i \in DOMAIN o.todo : RailTold(i)' => RailMeant(o, i)'
  <2>1. "rail" \notin strangers /\ foreign["rail"] = {} BY <1>12, <1>25
  <2>2. \A i \in DOMAIN o.todo : RailTold(i) => RailMeant(o, i) BY <1>5, <1>15, <1>25, <2>1 DEF RailInv, RailKnows
  <2>3. ASSUME NEW i \in DOMAIN o.todo, RailTold(i)'
        PROVE  RailTold(i) \/ (i = m.step /\ RailAsks(m) /\ ~Page!Refused(r))
    <3>1. CASE p.done[i] # None BY <1>15, <1>16, <1>25, <3>1 DEF RailTold
    <3>2. CASE \E x \in wire' : RailAsks(x)' /\ x.step = i /\ x.answer # None /\ x.answer.ok
      <4>1. PICK x \in wire' : RailAsks(x)' /\ x.step = i /\ x.answer # None /\ x.answer.ok BY <3>2
      <4>2. CASE x = n BY <1>7, <1>8, <1>17, <4>1, <4>2
      <4>3. CASE x \in wire
        <5>1. RailAsks(x) BY <1>17, <4>1, <4>3
        <5> QED BY <4>1, <4>3, <5>1 DEF RailTold
      <4> QED BY <1>4, <4>1, <4>2, <4>3
    <3> QED BY <1>15, <2>3, <3>1, <3>2 DEF RailTold
  <2>4. \A i \in DOMAIN o.todo : RailMeant(o, i)' <=>
          IF i = 1 THEN \A j \in DOMAIN o.target.ids : h.saved[o.target.ids[j]] = o.target.version
          ELSE o.target.ids[i - 1] \in h.bound
      BY <1>4 DEF RailMeant
  <2>5. CASE h = host /\ ~(RailAsks(m) /\ ~Page!Refused(r)) BY <2>2, <2>3, <2>4, <2>5 DEF RailMeant
  <2>6. CASE RailAsks(m) /\ ~Page!Refused(r)
    <3>1. m.step \in DOMAIN o.todo /\ r = o.todo[m.step] /\ RailPlan(o) BY <1>1, <1>16, <1>18, <1>25, <2>6
    <3>2. /\ IF m.step = 1 THEN \A j \in DOMAIN o.target.ids : h.saved[o.target.ids[j]] = o.target.version
             ELSE h.saved = host.saved /\ o.target.ids[m.step - 1] \in h.bound
          /\ \A i \in DOMAIN o.todo :
               (i > 1 /\ i < m.step /\ o.target.ids[i - 1] \in host.bound) => o.target.ids[i - 1] \in h.bound
        BY <1>1, <1>5, <1>25, <2>6, <3>1, ImportGoes
    <3>3. DOMAIN o.todo = 1..Len(o.todo) /\ Len(o.todo) \in Nat BY <3>1, PlanBegins
    <3>4. ASSUME NEW i \in DOMAIN o.todo, RailTold(i) PROVE i < m.step
      <4>1. CASE o.done[i] # None BY <1>18, <1>25, <2>6, <3>1, <3>3, <4>1
      <4>2. CASE \E x \in wire : RailAsks(x) /\ x.step = i /\ x.answer # None
        <5>1. PICK x \in wire : RailAsks(x) /\ x.answer # None BY <4>2
        <5>2. x = m BY <1>18, <1>25, <2>6, <5>1
        <5> QED BY <1>4, <5>1, <5>2
      <4> QED BY <1>15, <3>4, <4>1, <4>2 DEF RailTold
    <3>5. ASSUME NEW i \in DOMAIN o.todo, RailTold(i)' PROVE RailMeant(o, i)'
      <4>1. CASE i = m.step BY <2>4, <3>2, <4>1
      <4>2. CASE RailTold(i)
        <5>1. i < m.step /\ RailMeant(o, i) BY <2>2, <3>4, <4>2
        <5>2. m.step # 1 /\ i >= 1 BY <3>1, <3>3, <5>1
        <5>3. CASE i = 1 BY <2>4, <3>2, <5>1, <5>2, <5>3 DEF RailMeant
        <5>4. CASE i # 1
          <6>1. i > 1 /\ o.target.ids[i - 1] \in host.bound BY <3>3, <5>1, <5>2, <5>4 DEF RailMeant
          <6> QED BY <2>4, <3>2, <5>1, <5>4, <6>1
        <5> QED BY <5>3, <5>4
      <4> QED BY <2>3, <3>5, <4>1, <4>2
    <3> QED BY <3>5
  <2>7. CASE h # host /\ ~(RailAsks(m) /\ ~Page!Refused(r)) BY <1>9, <1>13, <2>1, <2>7
  <2> QED BY <2>5, <2>6, <2>7
<1>26. RailKnows'
  <2>1. o # None => p.missed \subseteq foreign'["rail"]
      BY <1>5, <1>12, <1>15, <1>16 DEF RailInv, RailKnows
  <2>3. ASSUME o # None PROVE \A i \in DOMAIN o.todo : RailMeant(operation, i)' <=> RailMeant(o, i)'
      BY <1>15, <1>16, <2>3 DEF RailMeant
  <2> QED BY <1>15, <1>16, <1>23, <1>24, <1>25, <2>1, <2>3 DEF RailKnows
<1>27. RailShows'
  <2>1. ASSUME NEW family \in Families \ foreign'["rail"],
               p = None \/ p.name \in {"load", "open"} \/ p.todo[1].family # family
        PROVE  rail'[family] \in {None, PageSeen(family)'}
    <3>1. family \notin foreign["rail"] /\ (family = r.family => "rail" \notin strangers) BY <1>12, <2>1
    <3>2. o = None \/ o.name \in {"load", "open"} \/ o.todo[1].family # family BY <1>16, <2>1
    <3>3. rail[family] \in {None, PageSeen(family)} BY <1>5, <1>15, <3>1, <3>2 DEF RailInv, RailShows
    <3>4. h = host \/ family # r.family BY <1>20, <3>1, <3>2
    <3> QED BY <1>4, <1>11, <3>3, <3>4
  <2>2. (rail'.imported # None /\ foreign'["rail"] = {}) =>
          \A k \in DOMAIN rail'.imported.ids :
            host'.saved[rail'.imported.ids[k]] = rail'.imported.version /\ rail'.imported.ids[k] \in host'.bound
    <3> SUFFICES ASSUME rail'.imported # None, foreign'["rail"] = {}
                 PROVE  \A k \in DOMAIN rail'.imported.ids :
                          host'.saved[rail'.imported.ids[k]] = rail'.imported.version /\ rail'.imported.ids[k] \in host'.bound
      OBVIOUS
    <3>1. "rail" \notin strangers /\ foreign["rail"] = {} /\ o = None BY <1>4, <1>5, <1>12, <1>15 DEF RailInv, RailShows
    <3>2. h = host BY <1>20, <3>1
    <3> QED BY <1>4, <1>5, <3>1, <3>2 DEF RailInv, RailShows
  <2>3. /\ rail'.imported # None => p = None
        /\ rail'.phase = "ready" => p = None
        /\ rail'.editor.phase = "ready" => rail'.editor.doc # 0
      BY <1>4, <1>5, <1>15, <1>16 DEF RailInv, RailShows
  <2> QED BY <1>15, <2>1, <2>2, <2>3 DEF RailShows
<1>28. RailPlan(operation)' \/ operation' = None
  <2>1. CASE o = None BY <1>15, <1>16, <2>1
  <2>2. CASE o # None BY <1>15, <1>16, <2>2 DEF RailPlan, PageOperations, PageRequests, PageAnswers, PageCatalogs, Page!Ids, Page!Of
  <2> QED BY <2>1, <2>2
<1>29. RailInv' BY <1>22, <1>26, <1>27, <1>28 DEF RailInv
<1>30. CreatorInv'
  <2> SUFFICES ASSUME NEW family \in Families \ crossed'
               PROVE  /\ \A x, y \in wire' : OfCreator(x, family) /\ OfCreator(y, family) => x = y
                      /\ family \notin foreign'["creator"] =>
                           /\ \A x \in wire' : (OfCreator(x, family) /\ x.answer # None) =>
                                /\ x.step = "load" => x.answer.ok
                                /\ (x.answer.ok /\ CreatorWaits(x) /\ (family = "library" => x.step \in {"load", "bind"})) =>
                                     CreatorSees(family, x.answer.catalog)'
                           /\ creator'[family] # None =>
                                \/ CreatorSees(family, creator[family])'
                                \/ \E x \in wire' : OfCreator(x, family) /\ CreatorWaits(x)
    BY DEF CreatorInv, OfCreator, CreatorWaits, CreatorSees
  <2>1. /\ family \in Families \ crossed
        /\ \A x, y \in wire : OfCreator(x, family) /\ OfCreator(y, family) => x = y
      BY <1>4, <1>5 DEF CreatorInv
  <2>2. OfCreator(n, family) <=> OfCreator(m, family) BY <1>1, <1>7 DEF OfCreator
  <2>3. \A x, y \in wire' : OfCreator(x, family) /\ OfCreator(y, family) => x = y BY <1>4, <2>1, <2>2
  <2>4. ASSUME family \notin foreign'["creator"]
        PROVE  \A x \in wire' : (OfCreator(x, family) /\ x.answer # None) =>
                 /\ x.step = "load" => x.answer.ok
                 /\ (x.answer.ok /\ CreatorWaits(x) /\ (family = "library" => x.step \in {"load", "bind"})) =>
                      CreatorSees(family, x.answer.catalog)'
    <3> SUFFICES ASSUME NEW x \in wire', OfCreator(x, family), x.answer # None
                 PROVE  /\ x.step = "load" => x.answer.ok
                        /\ (x.answer.ok /\ CreatorWaits(x) /\ (family = "library" => x.step \in {"load", "bind"})) =>
                             CreatorSees(family, x.answer.catalog)'
      OBVIOUS
    <3>1. family \notin foreign["creator"] /\ (family = r.family => "creator" \notin strangers) BY <1>12, <2>4
    <3>2. CASE x = n
      <4>1. m.from = "creator" /\ r.family = family /\ CreatorMessage(m)
          BY <1>1, <1>5, <2>2, <3>2 DEF OfCreator, PageTyped
      <4>2. m.step = "load" => ~Page!Refused(r) BY <1>1, <4>1 DEF CreatorMessage, Page!Refused
      <4>3. m.step \in {"load", "bind"} => r.action \notin {"save", "remove"} BY <1>1, <4>1 DEF CreatorMessage
      <4>4. a.catalog.saved = PageSeen(family)'.saved BY <1>8, <1>10, <4>1
      <4>5. m.step \in {"load", "bind"} => a.catalog = PageSeen(family)' BY <1>8, <1>10, <4>1, <4>3
      <4> QED BY <1>7, <1>8, <3>2, <4>2, <4>4, <4>5 DEF CreatorSees
    <3>3. CASE x \in wire /\ x # m
      <4>1. h = host \/ family # r.family
        <5> SUFFICES ASSUME h # host, family = r.family PROVE FALSE OBVIOUS
        <5>1. m.from = "creator" BY <1>14, <3>1
        <5>2. OfCreator(m, family) BY <1>1, <5>1 DEF OfCreator
        <5> QED BY <2>1, <3>3, <5>2
      <4>2. PageSeen(family)' = PageSeen(family) BY <1>11, <4>1
      <4>3. \A c : CreatorSees(family, c)' <=> CreatorSees(family, c) BY <4>2 DEF CreatorSees
      <4> QED BY <1>5, <2>1, <3>1, <3>3, <4>3 DEF CreatorInv
    <3> QED BY <1>4, <3>2, <3>3
  <2>5. ASSUME family \notin foreign'["creator"], creator'[family] # None
        PROVE  \/ CreatorSees(family, creator[family])'
               \/ \E x \in wire' : OfCreator(x, family) /\ CreatorWaits(x)
    <3>1. family \notin foreign["creator"] /\ (family = r.family => "creator" \notin strangers) BY <1>12, <2>5
    <3>2. CASE h # host /\ family = r.family
      <4>1. m.from = "creator" /\ CreatorMessage(m) BY <1>5, <1>14, <3>1, <3>2 DEF PageTyped
      <4>2. a.ok /\ r.action \notin {"catalog", "import"} BY <1>8, <1>9, <3>2
      <4>3. m.step # "preview" BY <1>1, <4>1, <4>2 DEF CreatorMessage
      <4>4. OfCreator(n, family) /\ CreatorWaits(n) BY <1>7, <1>8, <3>2, <4>1, <4>2, <4>3 DEF OfCreator, CreatorWaits
      <4> QED BY <1>4, <4>4
    <3>3. CASE h = host \/ family # r.family
      <4>1. PageSeen(family)' = PageSeen(family) BY <1>11, <3>3
      <4>2. \A c : CreatorSees(family, c)' <=> CreatorSees(family, c) BY <4>1 DEF CreatorSees
      <4>3. CreatorSees(family, creator[family]) \/ \E x \in wire : OfCreator(x, family) /\ CreatorWaits(x)
          BY <1>4, <1>5, <2>1, <2>5, <3>1 DEF CreatorInv
      <4>4. CASE CreatorSees(family, creator[family])
        <5>1. creator'[family] = creator[family] BY <1>4
        <5> QED BY <4>1, <4>4, <5>1 DEF CreatorSees
      <4>5. CASE \E x \in wire : OfCreator(x, family) /\ CreatorWaits(x)
        <5>1. PICK x \in wire : OfCreator(x, family) /\ CreatorWaits(x) BY <4>5
        <5>2. CASE x = m
          <6>1. OfCreator(n, family) /\ CreatorWaits(n) BY <1>4, <1>7, <2>2, <5>1, <5>2 DEF CreatorWaits
          <6> QED BY <1>4, <6>1
        <5>3. CASE x # m BY <1>4, <5>1, <5>3
        <5> QED BY <5>2, <5>3
      <4> QED BY <4>3, <4>4, <4>5
    <3> QED BY <3>2, <3>3
  <2> QED BY <2>3, <2>4, <2>5
<1> QED BY <1>21, <1>29, <1>30 DEF PageInv

-----------------------------------------------------------------------------
(* The Creator asks.                                                         *)
LEMMA FileRequestIs ==
  ASSUME PageAssumption, NEW f \in PageFiles, NEW action \in {"import", "save"}
  PROVE  Page!FileRequest(action, f) \in PageRequests /\ Page!FileRequest(action, f).action = action
<1>1. /\ f.valid \in BOOLEAN /\ f.version \in Nat /\ f.ids # <<>>
      /\ f.ids \in Seq(PageLibrary) \/ f.ids \in Seq(PagePresets)
    BY DEF PageAssumption
<1>2. Head(f.ids) = f.ids[1] /\ 1 \in DOMAIN f.ids BY <1>1
<1>3. PICK family : family = Page!Family(Head(f.ids)) OBVIOUS
<1>4. family \in Families /\ f.ids \in Seq(Page!Ids) /\ \A i \in DOMAIN f.ids : f.ids[i] \in Page!Of(family)
  <2>1. CASE f.ids \in Seq(PageLibrary)
    <3>1. \A i \in DOMAIN f.ids : f.ids[i] \in PageLibrary BY <2>1
    <3>2. f.ids \in Seq(Page!Ids) BY <2>1 DEF Page!Ids
    <3> QED BY <1>2, <1>3, <3>1, <3>2 DEF Page!Family, Families, Page!Of, PageAssumption
  <2>2. CASE f.ids \in Seq(PagePresets)
    <3>1. \A i \in DOMAIN f.ids : f.ids[i] \in PagePresets BY <2>2
    <3>2. f.ids \in Seq(Page!Ids) BY <2>2 DEF Page!Ids
    <3> QED BY <1>2, <1>3, <3>1, <3>2 DEF Page!Family, Families, Page!Of, PageAssumption
  <2> QED BY <1>1, <2>1, <2>2
<1>5. PICK version \in Nat : version = IF f.valid THEN f.version ELSE 0 BY <1>1
<1>6. Page!FileRequest(action, f) = [action |-> action, family |-> family, ids |-> f.ids, version |-> version]
    BY <1>3, <1>5 DEF Page!FileRequest, Page!Request
<1> QED BY <1>1, <1>4, <1>6 DEF PageRequests, PageActions

LEMMA CreatorAsks ==
  ASSUME PageAssumption, PageInv, NEW sent, wire' = wire \cup sent, crossed \subseteq crossed',
         \A x \in sent : PageMessage(x) /\ x.from = "creator" /\ x.answer = None /\ CreatorMessage(x)',
         \A x, y \in sent : x.request.family = y.request.family => x = y,
         \A x \in sent : \/ x.request.family \in crossed'
                         \/ \A m \in wire : m.from = "creator" => m.request.family # x.request.family,
         turns' \in [{"rail", "creator"} -> Nat], turns'["rail"] = turns["rail"],
         UNCHANGED <<host, rail, operation, foreign>>,
         creator' = [file |-> creator'.file, preview |-> creator'.preview, library |-> creator.library,
                     presets |-> creator.presets, savedPreset |-> creator'.savedPreset, busy |-> creator'.busy],
         creator'.file \in PageFiles \cup {None}, creator.file \in PageFiles => creator'.file \in PageFiles,
         creator'.preview # None => creator'.file \in PageFiles,
         creator'.savedPreset \in PagePresets \cup {None}
  PROVE  PageInv'
<1>1. RailInv' BY RailFrame DEF PageInv
<1>2. creator'["library"] = creator["library"] /\ creator'["presets"] = creator["presets"] OBVIOUS
<1>3. \A x \in wire' : PageMessage(x)' /\ (x.from = "creator" => CreatorMessage(x)')
    BY DEF PageInv, PageTyped, PageMessage, CreatorMessage, PageRequests, PageAnswers, PageCatalogs, Page!Ids, Page!Of
<1>4. PageTyped' BY <1>2, <1>3 DEF PageInv, PageTyped, Page!Ids
<1>5. \A family : PageSeen(family)' = PageSeen(family) BY DEF PageSeen, Page!CatalogOf, Page!Of
<1>6. \A family, c : CreatorSees(family, c)' <=> CreatorSees(family, c) BY <1>5 DEF CreatorSees
<1>7. ASSUME NEW family \in Families \ crossed'
      PROVE  /\ \A x, y \in wire' : OfCreator(x, family) /\ OfCreator(y, family) => x = y
             /\ family \notin foreign'["creator"] =>
                  /\ \A x \in wire' : (OfCreator(x, family) /\ x.answer # None) =>
                       /\ x.step = "load" => x.answer.ok
                       /\ (x.answer.ok /\ CreatorWaits(x) /\ (family = "library" => x.step \in {"load", "bind"})) =>
                            CreatorSees(family, x.answer.catalog)
                  /\ creator'[family] # None =>
                       \/ CreatorSees(family, creator[family])
                       \/ \E x \in wire' : OfCreator(x, family) /\ CreatorWaits(x)
  <2>1. family \in Families \ crossed /\ creator'[family] = creator[family] BY <1>2, <1>7 DEF Families
  <2>2. \A x, y \in wire' : OfCreator(x, family) /\ OfCreator(y, family) => x = y
      BY <1>7, <2>1 DEF PageInv, CreatorInv, OfCreator
  <2> QED BY <2>1, <2>2 DEF PageInv, CreatorInv
<1>8. \A family \in Families \ crossed' : creator'[family] = creator[family] BY <1>2 DEF Families
<1>9. CreatorInv' BY <1>6, <1>7, <1>8 DEF CreatorInv, OfCreator, CreatorWaits
<1> QED BY <1>1, <1>4, <1>9 DEF PageInv

LEMMA CreatorSendsKeeps ==
  ASSUME PageAssumption, PageInv, NEW step, NEW requests \in SUBSET PageRequests, Page!CreatorSends(step, requests),
         \A r, q \in requests : r.family = q.family => r = q,
         \A r \in requests :
           \/ step = "load" /\ r.action = "catalog"
           \/ step = "preview" /\ r.action = "import" /\ creator'.file \in PageFiles
           \/ step = "save" /\ r.action = "save"
           \/ step = "bind" /\ r.action \in {"activate", "deactivate"}
           \/ step = "remove" /\ r.action = "remove",
         NEW preview, preview = None \/ preview = creator.preview, NEW busy,
         creator' = [creator EXCEPT !.preview = preview, !.busy = busy]
  PROVE  PageInv'
<1>1. PICK k \in Nat : k = turns["creator"] BY DEF PageInv, PageTyped
<1>2. PICK sent : sent = {Page!Message("creator", k + 1, step, r) : r \in requests} OBVIOUS
<1>3. /\ turns' = [turns EXCEPT !["creator"] = k + 1] /\ wire' = wire \cup sent
      /\ crossed' = crossed \cup
           {r.family : r \in {q \in requests : \E m \in wire : m.from = "creator" /\ m.request.family = q.family}}
      /\ UNCHANGED <<host, rail, operation, foreign>>
    BY <1>1, <1>2 DEF Page!CreatorSends
<1>4. \A x \in sent : /\ x.request \in requests /\ x = Page!Message("creator", k + 1, step, x.request)
                      /\ x.from = "creator" /\ x.step = step /\ x.answer = None /\ PageMessage(x)
    BY <1>2 DEF Page!Message, PageMessage
<1>5. \A x \in sent : CreatorMessage(x)' BY <1>4 DEF CreatorMessage
<1>6. \A x, y \in sent : x.request.family = y.request.family => x = y BY <1>4
<1>7. \A x \in sent : \/ x.request.family \in crossed'
                      \/ \A m \in wire : m.from = "creator" => m.request.family # x.request.family
    BY <1>3, <1>4
<1>8. creator' = [file |-> creator.file, preview |-> preview, library |-> creator.library,
                  presets |-> creator.presets, savedPreset |-> creator.savedPreset, busy |-> busy]
    BY DEF PageInv, PageTyped
<1>9. /\ creator' = [file |-> creator'.file, preview |-> creator'.preview, library |-> creator.library,
                     presets |-> creator.presets, savedPreset |-> creator'.savedPreset, busy |-> creator'.busy]
      /\ creator'.file = creator.file /\ creator'.savedPreset = creator.savedPreset
      /\ creator'.preview # None => creator.preview # None
    BY <1>8
<1>10. /\ creator.file \in PageFiles \cup {None} /\ (creator.preview # None => creator.file \in PageFiles)
       /\ creator.savedPreset \in PagePresets \cup {None}
    BY DEF PageInv, PageTyped
<1>11. turns' \in [{"rail", "creator"} -> Nat] /\ turns'["rail"] = turns["rail"]
    BY <1>1, <1>3 DEF PageInv, PageTyped
<1>12. crossed \subseteq crossed' BY <1>3
<1>13. \A x \in sent : PageMessage(x) /\ x.from = "creator" /\ x.answer = None /\ CreatorMessage(x)' BY <1>4, <1>5
<1> QED BY <1>3, <1>6, <1>7, <1>9, <1>10, <1>11, <1>12, <1>13, CreatorAsks

LEMMA CreatorActsKeep ==
  ASSUME PageAssumption, PageInv,
         \/ \E f \in PageFiles : Page!ChooseFile(f)
         \/ Page!CreatorLoads \/ Page!Preview \/ Page!CreatorSaves \/ Page!ActivatePreset
         \/ \E id \in PageLibrary : \E action \in {"activate", "deactivate", "remove"} : Page!MutateAsset(action, id)
  PROVE  PageInv'
<1>1. /\ creator = [file |-> creator.file, preview |-> creator.preview, library |-> creator.library,
                    presets |-> creator.presets, savedPreset |-> creator.savedPreset, busy |-> creator.busy]
      /\ creator.file \in PageFiles \cup {None} /\ (creator.preview # None => creator.file \in PageFiles)
      /\ creator.savedPreset \in PagePresets \cup {None}
      /\ turns \in [{"rail", "creator"} -> Nat]
    BY DEF PageInv, PageTyped
<1>2. ASSUME NEW f \in PageFiles, Page!ChooseFile(f) PROVE PageInv'
  <2>1. PICK same \in BOOLEAN : same = (creator.file # None /\ Page!Family(Head(creator.file.ids)) = Page!Family(Head(f.ids)))
      OBVIOUS
  <2>2. PICK preview, saved : /\ preview = (IF same THEN creator.preview ELSE None)
                              /\ saved = (IF same THEN creator.savedPreset ELSE None)
      OBVIOUS
  <2>3. /\ creator' = [creator EXCEPT !.file = f, !.preview = preview, !.savedPreset = saved]
        /\ UNCHANGED <<host, rail, operation, wire, foreign, crossed, turns>>
      BY <1>2, <2>1, <2>2 DEF Page!ChooseFile
  <2>4. creator' = [file |-> f, preview |-> preview, library |-> creator.library,
                    presets |-> creator.presets, savedPreset |-> saved, busy |-> creator.busy]
      BY <1>1, <2>3
  <2>5. /\ creator' = [file |-> creator'.file, preview |-> creator'.preview, library |-> creator.library,
                       presets |-> creator.presets, savedPreset |-> creator'.savedPreset, busy |-> creator'.busy]
        /\ creator'.file = f /\ creator'.savedPreset = saved
      BY <2>4
  <2>6. saved \in PagePresets \cup {None} BY <1>1, <2>2
  <2>7. PICK sent : sent = {} OBVIOUS
  <2>8. wire' = wire \cup sent /\ \A x : x \notin sent BY <2>3, <2>7
  <2> QED BY <1>1, <2>3, <2>5, <2>6, <2>8, CreatorAsks
<1>3. ASSUME NEW step, NEW r \in PageRequests, Page!CreatorSends(step, {r}),
             NEW preview, preview = None \/ preview = creator.preview, NEW busy,
             creator' = [creator EXCEPT !.preview = preview, !.busy = busy],
             \/ step = "preview" /\ r.action = "import" /\ creator.file \in PageFiles
             \/ step = "save" /\ r.action = "save"
             \/ step = "bind" /\ r.action \in {"activate", "deactivate"}
             \/ step = "remove" /\ r.action = "remove"
      PROVE  PageInv'
  <2>1. PICK requests : requests = {r} OBVIOUS
  <2>2. requests \in SUBSET PageRequests /\ Page!CreatorSends(step, requests) BY <1>3, <2>1
  <2>3. creator'.file = creator.file BY <1>1, <1>3
  <2> QED BY <1>3, <2>1, <2>2, <2>3, CreatorSendsKeeps
<1>4. ASSUME Page!CreatorLoads PROVE PageInv'
  <2>1. PICK r, q : r = Page!Request("catalog", "library", <<>>, 0) /\ q = Page!Request("catalog", "presets", <<>>, 0)
      OBVIOUS
  <2>2. <<>> \in Seq(Page!Ids) OBVIOUS
  <2>3. /\ r \in PageRequests /\ q \in PageRequests /\ r.family # q.family
        /\ r.action = "catalog" /\ q.action = "catalog"
      BY <2>1, <2>2 DEF Page!Request, PageRequests, PageActions, Families
  <2>4. PICK requests : requests = {r, q} OBVIOUS
  <2>5. requests \in SUBSET PageRequests /\ Page!CreatorSends("load", requests) /\ UNCHANGED creator
      BY <1>4, <2>1, <2>3, <2>4 DEF Page!CreatorLoads
  <2>6. PICK step, preview, busy : step = "load" /\ preview = creator.preview /\ busy = creator.busy OBVIOUS
  <2>7. creator' = [creator EXCEPT !.preview = preview, !.busy = busy] BY <1>1, <2>5, <2>6
  <2>8. /\ \A x, y \in requests : x.family = y.family => x = y
        /\ \A x \in requests : step = "load" /\ x.action = "catalog"
      BY <2>3, <2>4, <2>6
  <2>9. Page!CreatorSends(step, requests) BY <2>5, <2>6
  <2> QED BY <2>5, <2>6, <2>7, <2>8, <2>9, CreatorSendsKeeps
<1>5. ASSUME Page!Preview PROVE PageInv'
  <2>1. PICK r : r = Page!FileRequest("import", creator.file) OBVIOUS
  <2>2. creator.file \in PageFiles BY <1>1, <1>5 DEF Page!Preview
  <2>3. r \in PageRequests /\ r.action = "import" BY <2>1, <2>2, FileRequestIs
  <2>4. Page!CreatorSends("preview", {r}) /\ creator' = [creator EXCEPT !.preview = None]
      BY <1>5, <2>1 DEF Page!Preview
  <2>5. creator' = [creator EXCEPT !.preview = None, !.busy = creator.busy] BY <1>1, <2>4
  <2> QED BY <1>3, <2>2, <2>3, <2>4, <2>5
<1>6. ASSUME NEW step, NEW r \in PageRequests, Page!Mutate(step, r),
             \/ step = "save" /\ r.action = "save"
             \/ step = "bind" /\ r.action \in {"activate", "deactivate"}
             \/ step = "remove" /\ r.action = "remove"
      PROVE  PageInv'
  <2>1. PICK busy : busy = creator.busy \cup {r.family} OBVIOUS
  <2>2. Page!CreatorSends(step, {r}) /\ creator' = [creator EXCEPT !.busy = busy] BY <1>6, <2>1 DEF Page!Mutate
  <2>3. PICK preview : preview = creator.preview OBVIOUS
  <2>4. creator' = [creator EXCEPT !.preview = preview, !.busy = busy] BY <1>1, <2>2, <2>3
  <2>5. preview = None \/ preview = creator.preview BY <2>3
  <2>6. Page!CreatorSends(step, {r}) BY <2>2
  <2>7. CASE step = "save" /\ r.action = "save" BY <1>3, <2>4, <2>5, <2>6, <2>7
  <2>8. CASE step = "bind" /\ r.action \in {"activate", "deactivate"} BY <1>3, <2>4, <2>5, <2>6, <2>8
  <2>9. CASE step = "remove" /\ r.action = "remove" BY <1>3, <2>4, <2>5, <2>6, <2>9
  <2> QED BY <1>6, <2>7, <2>8, <2>9
<1>7. ASSUME Page!CreatorSaves PROVE PageInv'
  <2>1. PICK r : r = Page!FileRequest("save", creator.file) OBVIOUS
  <2>2. creator.file \in PageFiles /\ Page!Mutate("save", r) BY <1>1, <1>7, <2>1 DEF Page!CreatorSaves
  <2>3. r \in PageRequests /\ r.action = "save" BY <2>1, <2>2, FileRequestIs
  <2> QED BY <1>6, <2>2, <2>3
<1>8. ASSUME Page!ActivatePreset PROVE PageInv'
  <2>1. PICK r : r = Page!Request("activate", "presets", <<creator.savedPreset>>, 0) OBVIOUS
  <2>2. creator.savedPreset \in PagePresets /\ Page!Mutate("bind", r) BY <1>1, <1>8, <2>1 DEF Page!ActivatePreset
  <2>3. creator.savedPreset \in Page!Ids /\ creator.savedPreset \in Page!Of("presets") /\ "presets" \in Families
      BY <2>2, PageIds DEF Families, Page!Ids
  <2>4. "activate" \in PageActions /\ 0 \in Nat BY DEF PageActions
  <2>5. r \in PageRequests /\ r.action = "activate" BY <2>1, <2>3, <2>4, OneRequest
  <2> QED BY <1>6, <2>2, <2>5
<1>9. ASSUME NEW id \in PageLibrary, NEW action \in {"activate", "deactivate", "remove"}, Page!MutateAsset(action, id)
      PROVE  PageInv'
  <2>1. PICK r, step : r = Page!Request(action, "library", <<id>>, 0) /\ step = IF action = "remove" THEN "remove" ELSE "bind"
      OBVIOUS
  <2>2. Page!Mutate(step, r) BY <1>9, <2>1 DEF Page!MutateAsset
  <2>3. id \in Page!Ids /\ id \in Page!Of("library") /\ "library" \in Families BY PageIds DEF Families, Page!Ids
  <2>4. action \in PageActions /\ 0 \in Nat BY DEF PageActions
  <2>5. r \in PageRequests /\ r.action = action BY <2>1, <2>3, <2>4, OneRequest
  <2> QED BY <1>6, <2>1, <2>2, <2>5
<1> QED BY <1>2, <1>4, <1>5, <1>7, <1>8, <1>9

(* The Creator is told: it shows what it is told, or asks again.             *)
LEMMA CreatorReceivesKeeps == ASSUME PageAssumption, PageInv, NEW m \in wire, Page!CreatorReceives(m) PROVE PageInv'
<1>1. PageTyped /\ RailInv /\ CreatorInv BY DEF PageInv
<1>2. PICK family, r, a : family = m.request.family /\ r = m.request /\ a = m.answer OBVIOUS
<1>3. PICK again \in BOOLEAN : again = (family = "library" /\ m.step \in {"save", "remove"} /\ a.ok)
  <2>1. m.answer \in PageAnswers BY <1>1 DEF PageTyped, PageMessage, Page!CreatorReceives
  <2> QED BY <1>2, <2>1 DEF PageAnswers
<1>4. PICK sent : sent = IF again THEN {Page!Message("creator", m.turn, "load", Page!Request("catalog", "library", <<>>, 0))} ELSE {}
    OBVIOUS
<1>5. /\ m.from = "creator" /\ a # None /\ wire' = (wire \ {m}) \cup sent
      /\ UNCHANGED <<host, rail, operation, foreign, crossed, turns>>
    BY <1>2, <1>3, <1>4 DEF Page!CreatorReceives
<1>6. /\ PageMessage(m) /\ CreatorMessage(m) /\ r \in PageRequests /\ a \in PageAnswers /\ family \in Families
      /\ family = r.family
    BY <1>1, <1>2, <1>5 DEF PageTyped, PageMessage, PageRequests
<1>7. \A x \in sent : /\ PageMessage(x) /\ x.from = "creator" /\ x.step = "load" /\ x.answer = None
                      /\ x.request.family = "library" /\ x.request.action = "catalog" /\ again
                      /\ x = Page!Message("creator", m.turn, "load", Page!Request("catalog", "library", <<>>, 0))
  <2>1. <<>> \in Seq(Page!Ids) OBVIOUS
  <2>2. PICK q : q = Page!Request("catalog", "library", <<>>, 0) OBVIOUS
  <2>3. q \in PageRequests /\ q.family = "library" /\ q.action = "catalog"
      BY <2>1, <2>2 DEF Page!Request, PageRequests, PageActions, Families
  <2> QED BY <1>4, <2>2, <2>3 DEF PageMessage, Page!Message
<1>8. again => \E x \in sent : TRUE BY <1>4
<1>9. /\ creator = [file |-> creator.file, preview |-> creator.preview, library |-> creator.library,
                    presets |-> creator.presets, savedPreset |-> creator.savedPreset, busy |-> creator.busy]
      /\ creator.file \in PageFiles \cup {None} /\ (creator.preview # None => creator.file \in PageFiles)
      /\ creator.savedPreset \in PagePresets \cup {None}
    BY <1>1 DEF PageTyped
<1>10. PICK now : now = IF ~a.ok \/ m.step = "preview" THEN creator[family] ELSE a.catalog OBVIOUS
<1>11. PICK preview, saved, busy :
         /\ preview = creator'.preview /\ saved = creator'.savedPreset /\ busy = creator'.busy
    OBVIOUS
<1>12. /\ creator' = [file |-> creator.file, preview |-> preview,
                      library |-> IF family = "library" THEN now ELSE creator.library,
                      presets |-> IF family = "presets" THEN now ELSE creator.presets,
                      savedPreset |-> saved, busy |-> busy]
       /\ preview # None => creator.file \in PageFiles
       /\ saved \in PagePresets \cup {None}
  <2>1. CASE ~a.ok
    <3>1. creator' = [creator EXCEPT !.busy = busy]
      <4>1. creator' = [creator EXCEPT !.busy = IF m.step \in {"load", "preview"} THEN @ ELSE @ \ {family}]
          BY <1>2, <2>1 DEF Page!CreatorReceives
      <4> QED BY <1>9, <1>11, <4>1
    <3> QED BY <1>6, <1>9, <1>10, <1>11, <2>1, <3>1 DEF Families
  <2>2. CASE a.ok /\ m.step = "preview"
    <3>1. creator' = [creator EXCEPT !.preview = r] BY <1>2, <2>2 DEF Page!CreatorReceives
    <3>2. creator.file \in PageFiles BY <1>6, <2>2 DEF CreatorMessage
    <3> QED BY <1>6, <1>9, <1>10, <1>11, <2>2, <3>1, <3>2 DEF Families
  <2>3. CASE a.ok /\ m.step = "load"
    <3>1. creator' = [creator EXCEPT ![family] = a.catalog] BY <1>2, <2>3 DEF Page!CreatorReceives
    <3> QED BY <1>6, <1>9, <1>10, <1>11, <2>3, <3>1 DEF Families
  <2>4. CASE a.ok /\ m.step \notin {"load", "preview"}
    <3>1. PICK head : head = IF family = "presets" /\ m.step # "load" THEN Head(r.ids) ELSE creator.savedPreset OBVIOUS
    <3>2. creator' = [creator EXCEPT ![family] = a.catalog, !.busy = @ \ {family}, !.savedPreset = head]
        BY <1>2, <2>4, <3>1 DEF Page!CreatorReceives
    <3>3. r.action # "catalog" BY <1>2, <1>6, <2>4 DEF CreatorMessage
    <3>4. family = "presets" => Head(r.ids) \in PagePresets
      <4>1. r.ids \in Seq(Page!Ids) /\ r.ids # <<>> /\ \A i \in DOMAIN r.ids : r.ids[i] \in Page!Of(family)
          BY <1>6, <3>3 DEF PageRequests
      <4>2. 1 \in DOMAIN r.ids /\ Head(r.ids) = r.ids[1] BY <4>1
      <4> QED BY <4>1, <4>2, PageIds
    <3>5. head \in PagePresets \cup {None} BY <1>9, <3>1, <3>4
    <3> QED BY <1>6, <1>9, <1>10, <1>11, <2>4, <3>2, <3>5 DEF Families
  <2> QED BY <2>1, <2>2, <2>3, <2>4
<1>13. /\ \A g \in Families \ {family} : creator'[g] = creator[g]
       /\ creator'[family] = now
    BY <1>6, <1>12 DEF Families
<1>14. RailInv' BY <1>1, <1>5, <1>7, RailFrame
<1>15. PageTyped'
  <2>1. creator' = [file |-> creator'.file, preview |-> creator'.preview, library |-> creator'.library,
                    presets |-> creator'.presets, savedPreset |-> creator'.savedPreset, busy |-> creator'.busy]
      BY <1>12
  <2>2. /\ creator'.file = creator.file /\ creator'.preview = preview /\ creator'.savedPreset = saved BY <1>12
  <2>3. \A x \in wire' : PageMessage(x)' /\ (x.from = "creator" => CreatorMessage(x)')
      BY <1>1, <1>5, <1>7, <2>2 DEF PageTyped, PageMessage, CreatorMessage, PageRequests, PageAnswers, PageCatalogs, Page!Ids, Page!Of
  <2> QED BY <1>1, <1>5, <1>9, <1>12, <2>1, <2>2, <2>3 DEF PageTyped, Page!Ids
<1>16. \A f : PageSeen(f)' = PageSeen(f) BY <1>5 DEF PageSeen, Page!CatalogOf, Page!Of
<1>17. \A f, c : CreatorSees(f, c)' <=> CreatorSees(f, c) BY <1>16 DEF CreatorSees
<1>18. ASSUME NEW g \in Families \ crossed'
       PROVE  /\ \A x, y \in wire' : OfCreator(x, g) /\ OfCreator(y, g) => x = y
              /\ g \notin foreign'["creator"] =>
                   /\ \A x \in wire' : (OfCreator(x, g) /\ x.answer # None) =>
                        /\ x.step = "load" => x.answer.ok
                        /\ (x.answer.ok /\ CreatorWaits(x) /\ (g = "library" => x.step \in {"load", "bind"})) =>
                             CreatorSees(g, x.answer.catalog)
                   /\ creator'[g] # None =>
                        \/ CreatorSees(g, creator'[g])
                        \/ \E x \in wire' : OfCreator(x, g) /\ CreatorWaits(x)
  <2>1. /\ g \in Families \ crossed
        /\ \A x, y \in wire : OfCreator(x, g) /\ OfCreator(y, g) => x = y
        /\ g \notin foreign["creator"] =>
             /\ \A x \in wire : (OfCreator(x, g) /\ x.answer # None) =>
                  /\ x.step = "load" => x.answer.ok
                  /\ (x.answer.ok /\ CreatorWaits(x) /\ (g = "library" => x.step \in {"load", "bind"})) =>
                       CreatorSees(g, x.answer.catalog)
             /\ creator[g] # None =>
                  \/ CreatorSees(g, creator[g])
                  \/ \E x \in wire : OfCreator(x, g) /\ CreatorWaits(x)
      BY <1>1, <1>5 DEF CreatorInv
  <2>2. CASE g # family
    <3>1. \A x \in wire' : OfCreator(x, g) => x \in wire
        BY <1>2, <1>3, <1>5, <1>7, <2>2 DEF OfCreator
    <3>2. \A x \in wire : OfCreator(x, g) => x \in wire' BY <1>2, <1>5, <2>2 DEF OfCreator
    <3>3. creator'[g] = creator[g] BY <1>13, <2>1, <2>2
    <3> QED BY <1>5, <2>1, <3>1, <3>2, <3>3
  <2>3. CASE g = family
    <3>1. OfCreator(m, g) /\ \A x \in wire : OfCreator(x, g) => x = m BY <1>2, <1>5, <2>1, <2>3 DEF OfCreator
    <3>2. \A x \in wire' : OfCreator(x, g) => x \in sent BY <1>5, <3>1
    <3>3. \A x, y \in wire' : OfCreator(x, g) /\ OfCreator(y, g) => x = y BY <1>7, <3>2
    <3>4. \A x \in wire' : OfCreator(x, g) => x.answer = None BY <1>7, <3>2
    <3>5. ASSUME again PROVE \E x \in wire' : OfCreator(x, g) /\ CreatorWaits(x)
      <4>1. PICK x \in sent : TRUE BY <1>8, <3>5
      <4> QED BY <1>3, <1>5, <1>7, <2>3, <4>1 DEF OfCreator, CreatorWaits
    <3>6. ASSUME g \notin foreign["creator"], creator'[g] # None, ~again PROVE CreatorSees(g, creator'[g])
      <4>1. creator'[g] = now BY <1>13, <2>3
      <4>2. CASE ~a.ok \/ m.step = "preview"
        <5>1. now = creator[g] BY <1>10, <2>3, <4>2
        <5>2. m.step # "load" \/ m.step = "preview" BY <1>2, <1>5, <2>1, <3>1, <3>6, <4>2
        <5>3. ~CreatorWaits(m) BY <1>2, <4>2, <5>2 DEF CreatorWaits
        <5> QED BY <2>1, <3>1, <3>6, <4>1, <5>1, <5>3
      <4>3. CASE a.ok /\ m.step # "preview"
        <5>1. now = a.catalog BY <1>10, <4>3
        <5>2. CreatorWaits(m) BY <1>2, <1>5, <4>3 DEF CreatorWaits
        <5>3. g = "library" => m.step \in {"load", "bind"} BY <1>3, <1>6, <2>3, <3>6, <4>3 DEF CreatorMessage
        <5> QED BY <1>2, <1>5, <2>1, <3>1, <3>6, <4>1, <4>3, <5>1, <5>2, <5>3
      <4> QED BY <4>2, <4>3
    <3> QED BY <1>5, <3>3, <3>4, <3>5, <3>6
  <2> QED BY <2>2, <2>3
<1>19. CreatorInv' BY <1>17, <1>18 DEF CreatorInv, OfCreator, CreatorWaits, CreatorSees
<1> QED BY <1>14, <1>15, <1>19 DEF PageInv

-----------------------------------------------------------------------------
LEMMA PageStarts == ASSUME PageAssumption, Page!Init PROVE PageInv
<1>1. /\ host = [saved |-> [i \in Page!Ids |-> 0], bound |-> {}]
      /\ rail = [phase |-> "idle", library |-> None, presets |-> None, imported |-> None, editor |-> Page!Closed]
      /\ operation = None /\ wire = {}
      /\ creator = [file |-> None, preview |-> None, library |-> None, presets |-> None, savedPreset |-> None, busy |-> {}]
      /\ foreign = [c \in {"rail", "creator"} |-> {}] /\ crossed = {} /\ turns = [c \in {"rail", "creator"} |-> 0]
    BY DEF Page!Init, Page!Clients
<1>2. PageTyped BY <1>1 DEF PageTyped, Page!Closed, Families
<1>3. RailInTurn /\ RailKnows BY <1>1 DEF RailInTurn, RailKnows, RailAsks
<1>4. RailShows BY <1>1 DEF RailShows, Page!Closed, Families
<1>5. CreatorInv BY <1>1 DEF CreatorInv, Families
<1> QED BY <1>1, <1>2, <1>3, <1>4, <1>5 DEF PageInv, RailInv

LEMMA PageStutters == ASSUME PageInv, UNCHANGED Page!webVars PROVE PageInv'
<1>1. UNCHANGED <<host, rail, operation, wire, creator, foreign, crossed, turns>> BY DEF Page!webVars
<1>2. PageTyped'
    BY <1>1 DEF PageInv, PageTyped, PageMessage, CreatorMessage, PageRequests, PageAnswers, PageCatalogs, Page!Ids, Page!Of
<1>3. RailInv' BY <1>1, RailFrame DEF PageInv
<1>4. CreatorInv' BY <1>1, CreatorFrame DEF PageInv
<1> QED BY <1>2, <1>3, <1>4 DEF PageInv

(* PageInv holds in every state of the page: in the first, and after every   *)
(* handler of the rail, of the Creator and of the Host.                      *)
THEOREM PageInductive ==
  ASSUME PageAssumption
  PROVE  /\ Page!Init => PageInv
         /\ PageInv /\ [Page!Next]_(Page!webVars) => PageInv'
<1>1. Page!Init => PageInv BY PageStarts
<1>2. ASSUME PageInv, Page!Next PROVE PageInv'
  <2>1. CASE \/ \E refresh \in BOOLEAN : Page!Load(refresh)
             \/ \E f \in PageFiles : Page!ImportFile(f)
             \/ \E id \in Page!Ids : Page!SetActive(id) \/ Page!OpenEditor(id)
             \/ \E version \in 1..LastVersion : Page!SaveEditor(version)
      BY <1>2, <2>1, BeginsKeep
  <2>2. CASE \/ \E f \in PageFiles : Page!ChooseFile(f)
             \/ Page!CreatorLoads \/ Page!Preview \/ Page!CreatorSaves \/ Page!ActivatePreset
             \/ \E id \in PageLibrary : \E action \in {"activate", "deactivate", "remove"} : Page!MutateAsset(action, id)
      BY <1>2, <2>2, CreatorActsKeep
  <2>3. CASE Page!CloseEditor BY <1>2, <2>3, CloseEditorKeeps
  <2>4. CASE \E m \in wire : Page!Arrive(m) \/ Page!RailReceives(m) \/ Page!RailLoses(m) \/ Page!CreatorReceives(m)
      BY <1>2, <2>4, ArriveKeeps, RailReceivesKeeps, RailLosesKeeps, CreatorReceivesKeeps
  <2> QED BY <1>2, <2>1, <2>2, <2>3, <2>4 DEF Page!Next
<1> QED BY <1>1, <1>2, PageStutters

LEMMA PageShows == ASSUME PageAssumption, PageInv PROVE ShownIsTrue
<1>1. ASSUME NEW family \in Families, rail.phase = "ready", family \notin foreign["rail"]
      PROVE  rail[family] \in {None, PageSeen(family)}
    BY <1>1 DEF PageInv, RailInv, RailShows
<1>2. ASSUME NEW family \in Families, Page!Silent("creator"), creator[family] # None, family \notin foreign["creator"] \cup crossed
      PROVE  CreatorSees(family, creator[family])
    BY <1>2 DEF PageInv, CreatorInv, Page!Silent, OfCreator
<1>3. rail.imported # None /\ foreign["rail"] = {} =>
        \A i \in Page!ToSet(rail.imported.ids) : host.saved[i] = rail.imported.version /\ i \in host.bound
    BY DEF PageInv, RailInv, RailShows, Page!ToSet
<1>4. rail.editor.phase = "ready" => rail.editor.doc # 0 BY DEF PageInv, RailInv, RailShows
<1> QED BY <1>1, <1>2, <1>3, <1>4 DEF ShownIsTrue, Page!ShownIsTrue, PageSeen, CreatorSees, Families

(* What the page shows of the Host is so, in every state.                    *)
THEOREM PageIsTrue == ASSUME PageAssumption PROVE Page!Spec => []ShownIsTrue
<1>1. Page!Init => PageInv BY PageInductive
<1>2. PageInv /\ [Page!Next]_(Page!webVars) => PageInv' BY PageInductive
<1>3. PageInv => ShownIsTrue BY PageShows
<1> QED BY <1>1, <1>2, <1>3, PTL DEF Page!Spec
=============================================================================
