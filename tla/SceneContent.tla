----------------------------- MODULE SceneContent -----------------------------
(***************************************************************************)
(* The scoped registries that a turn's context is composed from:           *)
(* packages/rp/prompt, lore, character and persona, and the rule systems   *)
(* of packages/rp/rules.  Plugins register content and dispose of it in    *)
(* any order; a registry's table is an object that is dropped when it is   *)
(* empty and made anew by the next registration, and a disposer keeps the  *)
(* table it was made with.                                                 *)
(*                                                                         *)
(* An item is a record with its registry, id, rank (the place of its id in *)
(* localeCompare order) and size in characters; `whole` is the verdict of  *)
(* its validator.  A text is the set of its words.                         *)
(***************************************************************************)
EXTENDS Integers, FiniteSets, FiniteSetsExt, Sequences, SequencesExt

CONSTANTS
  None,
  Items,         \* [registry, id, rank, size, whole, ...]
  Extras,        \* sets of sections that a caller of compose() adds
  Texts,         \* sets of words that lore is matched against
  EntryLimits, SizeLimits,
  Throws,        \* [seed, count, sides, modifier, target]
  Digest,        \* <<seed, index>> -> the number sha256 starts with
  MaxTables      \* bound: tables ever made

VARIABLES
  tables,        \* table number -> the items it holds
  current,       \* registry -> its table, or None
  handles,       \* disposers not called yet: [item, table]
  rolled         \* dice thrown so far: throw -> result

scVars == <<tables, current, handles, rolled>>
Registries == {i.registry : i \in Items}

Init ==
  /\ tables = <<>> /\ current = [r \in Registries |-> None]
  /\ handles = {} /\ rolled = <<>>

(* validateCharacter() and its like: labels, bounded lists, plain JSON data. *)
Whole(item) == item.whole
Held(registry) == IF current[registry] = None THEN {} ELSE tables[current[registry]]

(* A plausible slip: register() makes a table without looking for one.       *)
SlipRegister(item) ==
  /\ Len(tables) < MaxTables
  /\ Whole(item) /\ \A i \in Held(item.registry) : i.id # item.id
  /\ tables' = Append(tables, {item})
  /\ current' = [current EXCEPT ![item.registry] = Len(tables) + 1]
  /\ handles' = handles \cup {[item |-> item, table |-> Len(tables) + 1]}
  /\ UNCHANGED rolled
Register(item) ==
  LET kept == current[item.registry] # None
      table == IF kept THEN current[item.registry] ELSE Len(tables) + 1
  IN /\ kept \/ Len(tables) < MaxTables
     /\ Whole(item) /\ \A i \in Held(item.registry) : i.id # item.id
     /\ tables' = IF kept THEN [tables EXCEPT ![table] = @ \cup {item}] ELSE Append(tables, {item})
     /\ current' = [current EXCEPT ![item.registry] = table]
     /\ handles' = handles \cup {[item |-> item, table |-> table]}
     /\ UNCHANGED rolled
(* The disposer: it deletes the id from its own table, and whatever table    *)
(* the registry has when its own is empty.                                   *)
Dispose(handle) ==
  LET left == {i \in tables[handle.table] : i.id # handle.item.id} IN
  /\ handles' = handles \ {handle}
  /\ tables' = [tables EXCEPT ![handle.table] = left]
  /\ current' = [current EXCEPT ![handle.item.registry] = IF left = {} THEN None ELSE @]
  /\ UNCHANGED rolled

-----------------------------------------------------------------------------
(* compose(): round after round the sections whose dependencies are all      *)
(* placed, by priority and then by id; Refused is a duplicate id, a missing  *)
(* target or a cycle.                                                        *)
Refused == [refused |-> TRUE]
Follows(sections) ==
  {e \in sections \X sections : e[2].id \in e[1].after \/ e[1].id \in e[2].before}
Named(sections) ==
  /\ \A s, t \in sections : s.id = t.id => s = t
  /\ \A s \in sections : s.before \cup s.after \subseteq {t.id : t \in sections}
BySection(a, b) == a.priority < b.priority \/ (a.priority = b.priority /\ a.rank < b.rank)
Compose(sections) ==
  LET follows == Follows(sections)
      Ready(remaining) == {s \in remaining : \A t \in remaining : <<s, t>> \notin follows}
      rounds[n \in 0..Cardinality(sections)] ==
        IF n = 0 THEN [remaining |-> sections, ordered |-> <<>>]
        ELSE LET last == rounds[n - 1] IN
             [remaining |-> last.remaining \ Ready(last.remaining),
              ordered |-> last.ordered \o SetToSortSeq(Ready(last.remaining), BySection)]
      end == rounds[Cardinality(sections)]
  IN IF ~Named(sections) \/ end.remaining # {} THEN Refused ELSE end

(* The first rows of a list that fit a count and a size: the loop breaks at  *)
(* the first row that does not.                                              *)
Bounded(rows, entries, size) ==
  LET Size(n) == FoldLeft(LAMBDA acc, r: acc + r.size, 0, SubSeq(rows, 1, n))
      fits == {n \in 0..Len(rows) : n <= entries /\ Size(n) <= size}
  IN SubSeq(rows, 1, CHOOSE n \in fits : \A m \in fits : m <= n)

(* matchLoreBooks(): an empty key matches nothing, an empty secondary key    *)
(* anything.                                                                 *)
Active(entry, text) ==
  /\ entry.enabled
  /\ \/ entry.constant
     \/ /\ \E k \in entry.keys : k # "" /\ k \in text
        /\ entry.secondary = {} \/ \E k \in entry.secondary : k = "" \/ k \in text
ByMatch(a, b) ==
  \/ a.priority > b.priority
  \/ a.priority = b.priority /\ (a.book < b.book \/ (a.book = b.book /\ a.rank < b.rank))
LoreRows(books, text) ==
  SetToSortSeq(UNION {{e @@ [book |-> b.rank] : e \in {x \in b.entries : Active(x, text)}} : b \in books}, ByMatch)
MatchLoreBooks(books, text, entries, size) == Bounded(LoreRows(books, text), entries, size)
(* projectCharacterContext() and projectPersonaContext(): by id.             *)
Ranked(items) == SetToSortSeq(items, LAMBDA a, b: a.rank < b.rank)
ProjectContext(items, entries, size) == Bounded(Ranked(items), entries, size)

-----------------------------------------------------------------------------
SeededRoll(seed, index, sides) == (Digest[<<seed, index>>] % sides) + 1
Evaluated(t) ==
  LET rolls == [i \in 1..t.count |-> SeededRoll(t.seed, i - 1, t.sides)]
      total == FoldLeft(LAMBDA acc, r: acc + r, t.modifier, rolls)
  IN [rolls |-> rolls, total |-> total, success |-> t.target = None \/ total >= t.target]
(* evaluate() of the seeded dice, which are registered from the start.       *)
Evaluate(t) ==
  /\ t.count >= 1 /\ t.sides >= 2
  /\ rolled' = (t :> Evaluated(t)) @@ rolled
  /\ UNCHANGED <<tables, current, handles>>

Next ==
  \/ \E item \in Items : Register(item)
  \/ \E handle \in handles : Dispose(handle)
  \/ \E t \in Throws : t \notin DOMAIN rolled /\ Evaluate(t)

Spec == Init /\ [][Next]_scVars

-----------------------------------------------------------------------------
(* Every registration that was not disposed of is seen by its readers, and   *)
(* nothing else is.                                                          *)
RegistrationsAreSeen ==
  \A r \in Registries : Held(r) = {h.item : h \in {x \in handles : x.item.registry = r}}

(* A composed prompt holds every section once, in an order that respects     *)
(* each constraint; it is refused only for a name that is missing or doubled *)
(* or for constraints that no order satisfies.                               *)
PromptIsOrdered ==
  \A extra \in Extras :
    LET sections == Held("sections") \cup extra
        composed == Compose(sections)
        order == composed.ordered
        Respects(line) == \A i, j \in 1..Len(line) : <<line[i], line[j]>> \in Follows(sections) => j < i
    IN IF composed = Refused
       THEN ~Named(sections) \/ \A line \in SetToSeqs(sections) : ~Respects(line)
       ELSE /\ ToSet(order) = sections /\ Len(order) = Cardinality(sections) /\ Respects(order)

(* What a bounded reading leaves out never ranks above what it keeps, and it *)
(* keeps within its bounds.                                                  *)
ReadingsAreBounded ==
  \A entries \in EntryLimits, size \in SizeLimits, text \in Texts :
    LET kept == MatchLoreBooks(Held("books"), text, entries, size)
        all == LoreRows(Held("books"), text)
    IN /\ Len(kept) <= entries /\ FoldLeft(LAMBDA acc, r: acc + r.size, 0, kept) <= size
       /\ \A i \in 1..Len(all), j \in 1..Len(kept) : all[i] \notin ToSet(kept) => ~ByMatch(all[i], kept[j])
       /\ \A r \in {"characters", "personas"} :
            IsPrefix(ProjectContext(Held(r), entries, size), Ranked(Held(r)))

(* The content a turn reads is what plugins have registered and not yet      *)
(* taken back, composed within its constraints and bounds; a throw of dice   *)
(* is worth what its notation allows.                                        *)
ContentIsSound ==
  /\ RegistrationsAreSeen /\ PromptIsOrdered /\ ReadingsAreBounded
  /\ \A t \in DOMAIN rolled :
       rolled[t].total \in (t.count + t.modifier)..(t.count * t.sides + t.modifier)
==============================================================================
