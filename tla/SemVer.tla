------------------------------- MODULE SemVer -------------------------------
(***************************************************************************)
(* The versions and version ranges of packages/rp/registry.  A version is  *)
(* a record of its three numbers and its prerelease identifiers; a range   *)
(* is an operator and a base version.  An identifier is numeric or not,    *)
(* and has a rank among those of its sort: its value, or its place in the  *)
(* collation order.                                                        *)
(***************************************************************************)
EXTENDS Integers, Sequences, FiniteSets

Identifier == [numeric : BOOLEAN, rank : Nat]
Version == [core : Nat \X Nat \X Nat, pre : Seq(Identifier)]
VersionRange == [op : {"any", "exact", "caret", "tilde"}, base : Version]

Release(major, minor, patch) == [core |-> <<major, minor, patch>>, pre |-> <<>>]
Least(S) == CHOOSE i \in S : \A j \in S : i <= j

(* A longer list of identifiers follows its own prefix; numeric            *)
(* identifiers precede the others.                                         *)
ComparePrerelease(a, b) ==
  LET common == {i \in 1..Len(a) : i <= Len(b) /\ a[i] # b[i]}
      x == a[Least(common)]
      y == b[Least(common)]
  IN  IF common = {} THEN Len(a) - Len(b)
      ELSE IF x.numeric = y.numeric THEN x.rank - y.rank
      ELSE IF x.numeric THEN -1 ELSE 1

(* Negative, zero or positive; a prerelease precedes its release.          *)
CompareVersions(v, w) ==
  LET differing == {i \in 1..3 : v.core[i] # w.core[i]}
  IN  IF differing # {} THEN v.core[Least(differing)] - w.core[Least(differing)]
      ELSE IF v.pre = <<>> \/ w.pre = <<>>
           THEN IF v.pre = w.pre THEN 0 ELSE IF v.pre = <<>> THEN 1 ELSE -1
      ELSE ComparePrerelease(v.pre, w.pre)

(* The leading numbers that a caret range holds fixed.                     *)
CaretPrefix(base) == Least({i \in 1..3 : base.core[i] > 0} \cup {3})

Satisfies(v, range) ==
  LET SameUpTo(n) == \A i \in 1..n : v.core[i] = range.base.core[i]
  IN  \/ range.op = "any"
      \/ range.op = "exact" /\ v = range.base
      \/ /\ range.op = "tilde"
         /\ CompareVersions(v, range.base) >= 0
         /\ SameUpTo(2)
      \/ /\ range.op = "caret"
         /\ CompareVersions(v, range.base) >= 0
         /\ SameUpTo(CaretPrefix(range.base))
=============================================================================
