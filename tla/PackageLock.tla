----------------------------- MODULE PackageLock -----------------------------
(***************************************************************************)
(* How packages/rp/registry turns published releases into a lock: which    *)
(* evidence a release must show, which release a range resolves to, and    *)
(* the depth-first walk over dependencies that orders them.                *)
(*                                                                         *)
(* A manifest is known by its hash.  A catalog is a record of what the     *)
(* walk reads: releases (manifest hash -> evidence verified), revocations, *)
(* revokedKeys, trustedKeys and policies.  The dependencies of a manifest  *)
(* are listed in the order of their ids, in which the code sorts them.     *)
(***************************************************************************)
EXTENDS SemVer, SequencesExt

CONSTANTS
  None,
  Hashes,    \* manifest hashes
  Manifest   \* hash -> [id, version, source, trust, deps, sha, key, sbom]

Dependency == [id : {Manifest[h].id : h \in Hashes}, range : VersionRange, optional : BOOLEAN]
ASSUME ManifestAssumption ==
  \A h \in Hashes : /\ Manifest[h].deps \in Seq(Dependency)
                    /\ Manifest[h].trust \in {"L0", "L1", "L2"}
                    /\ Manifest[h].sha \in BOOLEAN /\ Manifest[h].sbom \in BOOLEAN

Id(h) == Manifest[h].id
SameVersion(g, h) == Id(g) = Id(h) /\ Manifest[g].version = Manifest[h].version
Entry == [hash : Hashes, verified : BOOLEAN]
LockIds(lock) == {Id(lock[i].hash) : i \in DOMAIN lock}

PoliciesFor(policies, h) == {p \in policies : Manifest[h].trust \in p.appliesTo}
Requires(policies, h, evidence) == \E p \in PoliciesFor(policies, h) : evidence \in p.requires
RequiresEvidence(policies, h) == \E p \in PoliciesFor(policies, h) : p.requires # {}

IsRevoked(revocations, h) ==
  \E r \in revocations : r.id = Id(h) /\ r.version \in {None, Manifest[h].version}

(* What a source may hand over with manifest h: payload and SBOM each       *)
(* match, do not match, or are absent.                                     *)
Delivery == [payload : {"good", "bad", "absent"}, sbom : {"good", "bad", "absent"}]

(* Why the evidence of an acquired package is refused, in the order of the *)
(* checks, or "none".                                                      *)
EvidenceRefusal(c, h, d) ==
  LET m == Manifest[h]
      refusals == <<
        [code |-> "INTEGRITY", if |-> m.sha /\ d.payload # "good"],
        [code |-> "POLICY", if |-> Requires(c.policies, h, "payload") /\ ~(m.sha /\ d.payload = "good")],
        [code |-> "SIGNATURE", if |-> m.key # None /\ (m.key \in c.revokedKeys \/ m.key \notin c.trustedKeys)],
        [code |-> "POLICY", if |-> m.key = None /\ Requires(c.policies, h, "signature")],
        [code |-> "SBOM", if |-> IF m.sbom THEN d.sbom # "good" ELSE d.sbom # "absent"],
        [code |-> "POLICY", if |-> Requires(c.policies, h, "sbom") /\ ~(m.sbom /\ d.sbom = "good")]>>
      hits == {i \in DOMAIN refusals : refusals[i].if}
  IN  IF hits = {} THEN "none" ELSE refusals[Least(hits)].code

ProvesEvidence(h) == Manifest[h].sha \/ Manifest[h].key # None \/ Manifest[h].sbom

(* The release a range resolves to is the highest match; when that one is  *)
(* revoked or lacks evidence the resolution fails, and no lower match is   *)
(* tried.                                                                  *)
Matches(c, id, range) ==
  {h \in DOMAIN c.releases : Id(h) = id /\ Satisfies(Manifest[h].version, range)}
Highest(H) ==
  CHOOSE h \in H : \A g \in H : CompareVersions(Manifest[h].version, Manifest[g].version) >= 0
ReleaseRefusal(c, h) ==
  IF \/ IsRevoked(c.revocations, h)
     \/ Manifest[h].key # None /\ Manifest[h].key \in c.revokedKeys
  THEN "REVOKED"
  ELSE IF RequiresEvidence(c.policies, h) /\ ~c.releases[h] THEN "POLICY" ELSE "none"
Judged(c, h) == [code |-> ReleaseRefusal(c, h), hash |-> h]
Resolve(c, id, range) ==
  LET H == Matches(c, id, range)
  IN  IF H = {} THEN [code |-> "NOT_FOUND", hash |-> None] ELSE Judged(c, Highest(H))

Exactly(h) == [op |-> "exact", base |-> Manifest[h].version]

(* The walk: visiting keeps a release on which an optional branch failed.  *)
RECURSIVE VisitAll(_, _, _), Visit(_, _, _, _)
Visit(c, walk, id, range) ==
  LET found == Resolve(c, id, range)
      h == found.hash
  IN  IF found.code # "none" THEN [walk EXCEPT !.code = found.code]
      ELSE IF h \in walk.visiting THEN [walk EXCEPT !.code = "DEPENDENCY"]
      ELSE IF h \in walk.visited THEN walk
      ELSE LET below == VisitAll(c, [walk EXCEPT !.visiting = @ \cup {h}], Manifest[h].deps)
           IN  IF below.code # "none" THEN below
               ELSE [below EXCEPT
                       !.visiting = @ \ {h}, !.visited = @ \cup {h},
                       !.ordered = Append(@, [hash |-> h, verified |-> c.releases[h]])]
VisitAll(c, walk, deps) ==
  IF deps = <<>> THEN walk
  ELSE LET next == Visit(c, walk, deps[1].id, deps[1].range)
       IN  IF next.code # "none" /\ ~deps[1].optional THEN next
           ELSE VisitAll(c, [next EXCEPT !.code = "none"], Tail(deps))

LockOf(c, id, range) ==
  LET walk == Visit(c, [code |-> "none", visiting |-> {}, visited |-> {}, ordered |-> <<>>],
                    id, range)
  IN  [code |-> walk.code, entries |-> walk.ordered]

UniqueVersions(lock) ==
  \A i, j \in DOMAIN lock : Id(lock[i].hash) = Id(lock[j].hash) => lock[i].hash = lock[j].hash

-----------------------------------------------------------------------------
(* What a lock promises: the root is last, what a package requires stands   *)
(* before it in a version it accepts, and no id stands for two versions.    *)
IsLockOf(lock, root) ==
  /\ lock # <<>> /\ Id(lock[Len(lock)].hash) = root
  /\ UniqueVersions(lock)
  /\ \A i \in DOMAIN lock : \A k \in DOMAIN Manifest[lock[i].hash].deps :
       LET dep == Manifest[lock[i].hash].deps[k]
       IN  \/ dep.optional
           \/ \E j \in 1..(i - 1) : /\ Id(lock[j].hash) = dep.id
                                    /\ Satisfies(Manifest[lock[j].hash].version, dep.range)
=============================================================================
