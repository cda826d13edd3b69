--------------------------- MODULE RegistryServer ---------------------------
(***************************************************************************)
(* RpReferenceRegistry of packages/rp/registry-server and its HTTP routes:  *)
(* releases published into directories and listed in one index file, which *)
(* several server processes may share.  Writers hold a file lock around     *)
(* the index; readers take no lock.  A process may crash between any two    *)
(* file operations, and a stored file may rot.                             *)
(***************************************************************************)
EXTENDS SemVer

CONSTANTS
  None,
  Clients,       \* requests in flight, of whichever process
  Packages,      \* package ids
  Versions,      \* exact versions
  Publications,  \* what may be published: see Publication
  PublisherKeys, \* keys the server was configured with
  Targets,       \* revocations that may be asked for: [id, version or None]
  Reasons,
  MaxServerFaults  \* bound on crashes, failing file operations and rot

Rotten == 0
Slot == Packages \X Versions
Publication == [release : Slot, content : Nat \ {Rotten}, valid : BOOLEAN, hashes : BOOLEAN,
                trust : {"L0", "L1", "L2"}, key : PublisherKeys \cup {None, "stranger"},
                signed : BOOLEAN, archive : BOOLEAN]

VARIABLES
  index,    \* [releases, revocations, keys]; None before it is first written
  dirs,     \* release -> None, the content of its directory, or Rotten
  lock,     \* the client that holds the lock on the index, or None
  req,      \* client -> its request
  mishaps

vars == <<index, dirs, lock, req, mishaps>>
Done == {"created", "same", "revoked", "served"}
Replied(code) == [phase |-> "idle", code |-> code]
EmptyIndex == [releases |-> {}, revocations |-> {}, keys |-> {}]
Start(c, fields) == req' = [req EXCEPT ![c] = fields]
Go(c, phase) == req' = [req EXCEPT ![c].phase = phase]
Answered(c, code) == req' = [req EXCEPT ![c] = Replied(IF code \in Done THEN "done" ELSE "refused")]
StartOr(c, code, fields) ==
  IF code = "none" THEN Start(c, fields) ELSE Answered(c, code)
Mishap == mishaps < MaxServerFaults /\ mishaps' = mishaps + 1
Init ==
  /\ index = EmptyIndex /\ dirs = [r \in Slot |-> None] /\ lock = None
  /\ req = [c \in Clients |-> Replied("none")] /\ mishaps = 0

(* What a publication is refused for before the index is looked at.         *)
Unsigned(p) == p.key = None /\ ~p.signed
PublicationRefusal(p) ==
  IF ~p.valid THEN "INVALID"
  ELSE IF ~p.hashes \/ (p.trust = "L2" /\ (p.key = None \/ ~p.signed)) THEN "INTEGRITY"
  ELSE IF ~Unsigned(p) /\ ~(p.signed /\ p.key \in PublisherKeys) THEN "INTEGRITY"
  ELSE IF ~p.archive THEN "INVALID" ELSE "none"

IsPackageRevoked(i, release) ==
  \E r \in i.revocations : r.id = release[1] /\ r.version \in {None, release[2]}
IsRevoked(i, p) ==
  IsPackageRevoked(i, p.release) \/ \E k \in i.keys : k.key = p.key
Indexed(i, release) == {p \in i.releases : p.release = release}

-----------------------------------------------------------------------------
(* POST: the token, the parts of the body, then the request itself.         *)
Denied(c) ==
  /\ req[c].phase = "idle"
  /\ \E code \in {"READ_ONLY", "AUTH", "INVALID"} : Answered(c, code)
  /\ UNCHANGED <<index, dirs, lock, mishaps>>

Publish(c, p) ==
  /\ req[c].phase = "idle"
  /\ StartOr(c, PublicationRefusal(p), [kind |-> "publish", pub |-> p, phase |-> "waiting", code |-> "none"])
  /\ UNCHANGED <<index, dirs, lock, mishaps>>

RevokePackage(c, t, reason) ==
  /\ req[c].phase = "idle"
  /\ Start(c, [kind |-> "revokePackage", of |-> [id |-> t.id, version |-> t.version, reason |-> reason],
               phase |-> "waiting", code |-> "none"])
  /\ UNCHANGED <<index, dirs, lock, mishaps>>
RevokeKey(c, k, reason) ==
  /\ req[c].phase = "idle"
  /\ Start(c, [kind |-> "revokeKey", of |-> [key |-> k, reason |-> reason],
               phase |-> "waiting", code |-> "none"])
  /\ UNCHANGED <<index, dirs, lock, mishaps>>

SlipMayLock(c) == TRUE   \* slip: the lock is not waited for
MayLock(c) == lock = None
Unlock(c) == lock' = IF lock = c THEN None ELSE lock

(* With the lock, the index is read and the publication decided: repeated,  *)
(* refused, or staged in a directory of its own.                           *)
DecidePublish(c) ==
  LET p == req[c].pub
      same == Indexed(index, p.release)
      code == IF IsRevoked(index, p) THEN "REVOKED"
              ELSE IF same = {} THEN "none"
              ELSE IF p \notin same THEN "CONFLICT"
              ELSE IF dirs[p.release] # p.content THEN "CORRUPT" ELSE "same"
  IN  Start(c, [kind |-> "publish", pub |-> p, seen |-> index,
                phase |-> IF code = "none" THEN "staged" ELSE "decided", code |-> code])

(* A revocation already there answers for itself, unless its reason differs. *)
DecideRevoke(c) ==
  LET new == req[c].of
      old == {r \in (IF req[c].kind = "revokeKey" THEN index.keys ELSE index.revocations) :
                [r EXCEPT !.reason = new.reason] = new}
      next == IF req[c].kind = "revokeKey" THEN [index EXCEPT !.keys = @ \cup {new}]
              ELSE [index EXCEPT !.revocations = @ \cup {new}]
  IN  Start(c, [kind |-> req[c].kind, of |-> new, next |-> next,
                phase |-> IF old = {} THEN "writing" ELSE "decided",
                code |-> IF old # {} /\ new \notin old THEN "CONFLICT" ELSE "revoked"])

TakeLock(c) ==
  /\ req[c].phase = "waiting" /\ MayLock(c)
  /\ lock' = c
  /\ IF req[c].kind = "publish" THEN DecidePublish(c) ELSE DecideRevoke(c)
  /\ UNCHANGED <<index, dirs, mishaps>>

(* The stage is renamed into place; a directory that is there already, left  *)
(* behind by a crash, is adopted when it holds the same bytes.              *)
SlipSameBytes(c) == TRUE   \* slip: whatever is there is adopted
SameBytes(c) == dirs[req[c].pub.release] = req[c].pub.content
Promote(c) ==
  /\ req[c].phase = "staged"
  /\ LET p == req[c].pub
         absent == dirs[p.release] = None
         listed == [req[c].seen EXCEPT !.releases = @ \cup {p}]
     IN  /\ dirs' = [dirs EXCEPT ![p.release] = IF absent THEN p.content ELSE @]
         /\ IF absent \/ SameBytes(c)
            THEN Start(c, [kind |-> "publish", pub |-> p, next |-> listed, promoted |-> absent,
                           phase |-> "writing", code |-> "created"])
            ELSE req' = [req EXCEPT ![c].phase = "decided", ![c].code = "CONFLICT"]
  /\ UNCHANGED <<index, lock, mishaps>>
StageFails(c) ==
  /\ req[c].phase = "staged" /\ Mishap
  /\ req' = [req EXCEPT ![c].phase = "decided", ![c].code = "CORRUPT"]
  /\ UNCHANGED <<index, dirs, lock>>

(* The index is replaced whole.  When that fails, a directory this call      *)
(* created goes again; an adopted one stays.                               *)
WriteIndex(c) ==
  /\ req[c].phase = "writing"
  /\ index' = req[c].next /\ Go(c, "decided")
  /\ UNCHANGED <<dirs, lock, mishaps>>
WriteIndexFails(c) ==
  /\ req[c].phase = "writing" /\ Mishap
  /\ dirs' = IF req[c].kind = "publish" /\ req[c].promoted
             THEN [dirs EXCEPT ![req[c].pub.release] = None] ELSE dirs
  /\ req' = [req EXCEPT ![c].phase = "decided", ![c].code = "CORRUPT"]
  /\ UNCHANGED <<index, lock>>

Finish(c) ==
  /\ req[c].phase = "decided"
  /\ Unlock(c) /\ Answered(c, req[c].code)
  /\ UNCHANGED <<index, dirs, mishaps>>

-----------------------------------------------------------------------------
(* GET: the index is read, the evidence of the release verified, and the     *)
(* payload or SBOM read once more.  Without a version the highest release   *)
(* that is not revoked is taken.                                           *)
Highest(P) == CHOOSE p \in P : \A q \in P : CompareVersions(p.release[2], q.release[2]) >= 0
Candidate(i, id, version) ==
  LET P == {p \in i.releases : p.release[1] = id /\ version \in {None, p.release[2]}}
      active == {p \in P : ~IsRevoked(i, p)}
  IN  IF P = {} THEN [code |-> "NOT_FOUND", of |-> None]
      ELSE IF active = {} THEN [code |-> "REVOKED", of |-> None]
      ELSE [code |-> "none", of |-> Highest(active)]

Get(c, id, version) ==
  /\ req[c].phase = "idle"
  /\ LET found == Candidate(index, id, version)
     IN  StartOr(c, found.code, [kind |-> "get", found |-> found.of, phase |-> "verify", code |-> "none"])
  /\ UNCHANGED <<index, dirs, lock, mishaps>>
Verify(c) ==
  /\ req[c].phase = "verify"
  /\ IF dirs[req[c].found.release] = req[c].found.content THEN Go(c, "read")
     ELSE Answered(c, "CORRUPT")
  /\ UNCHANGED <<index, dirs, lock, mishaps>>
Serve(c) ==
  /\ req[c].phase = "read"
  /\ Answered(c, IF dirs[req[c].found.release] = req[c].found.content THEN "served" ELSE "CORRUPT")
  /\ UNCHANGED <<index, dirs, lock, mishaps>>
(* A process dies in the middle of a request: its lock is free again, its    *)
(* files stay.                                                             *)
Crash(c) ==
  /\ req[c].phase # "idle" /\ Mishap
  /\ Unlock(c) /\ req' = [req EXCEPT ![c] = Replied("none")]
  /\ UNCHANGED <<index, dirs>>
Rot(release) ==
  /\ dirs[release] # None /\ Mishap
  /\ dirs' = [dirs EXCEPT ![release] = Rotten]
  /\ UNCHANGED <<index, lock, req>>

Next ==
  \/ \E c \in Clients :
       \/ Denied(c) \/ TakeLock(c) \/ Promote(c) \/ StageFails(c) \/ WriteIndex(c)
       \/ WriteIndexFails(c) \/ Finish(c) \/ Verify(c) \/ Serve(c) \/ Crash(c)
       \/ \E p \in Publications : Publish(c, p)
       \/ \E t \in Targets, reason \in Reasons : RevokePackage(c, t, reason)
       \/ \E k \in PublisherKeys, reason \in Reasons : RevokeKey(c, k, reason)
       \/ \E id \in Packages, v \in Versions \cup {None} : Get(c, id, v)
  \/ \E r \in Slot : Rot(r)
Spec == Init /\ [][Next]_vars

-----------------------------------------------------------------------------
(* What the index lists is there: one publication per release, each with    *)
(* the directory it was published with, whatever crashed or failed between, *)
(* and revocations with one reason each.  A publisher who is told that its   *)
(* release was created, or was there, finds it listed.                      *)
TypeOK ==
  /\ index.releases \subseteq Publications /\ Publications \subseteq Publication
  /\ lock \in Clients \cup {None} /\ mishaps \in 0..MaxServerFaults
ListedIsWhole ==
  /\ TypeOK
  /\ \A p \in index.releases :
       /\ PublicationRefusal(p) = "none"
       /\ Indexed(index, p.release) = {p}
       /\ dirs[p.release] \in {p.content, Rotten}
  /\ \A r, s \in index.revocations : [r EXCEPT !.reason = s.reason] = s => r = s
  /\ \A c \in Clients : req[c].phase = "decided" /\ req[c].code \in {"created", "same"} =>
                           req[c].pub \in index.releases

(* A release and a revocation, once listed, stay listed as they are.        *)
NothingIsDelisted ==
  /\ index.releases \subseteq index'.releases
  /\ index.revocations \subseteq index'.revocations /\ index.keys \subseteq index'.keys
=============================================================================
