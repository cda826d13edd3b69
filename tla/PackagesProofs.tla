---------------------------- MODULE PackagesProofs ----------------------------
(***************************************************************************)
(* Proofs about RegistryServer and PackageSources: for any clients, hosts, *)
(* publications and places, whatever crashes or fails, the index of the    *)
(* reference registry lists what is there and loses nothing, and what is   *)
(* acquired is of one version and stays in the cache.  PackagesMC gives    *)
(* values to the constants.                                                *)
(***************************************************************************)
EXTENDS Naturals, Sequences, TLAPS

CONSTANTS
  Nil,
  Clients, Packages, Versions, Publications, PublisherKeys, Targets, Reasons, MaxServerFaults,
  Hosts, Feeds, FeedVersions, Origins, Allowed, Declares, Size, SourceLimit, CacheLimit,
  MaxEdits, MaxBegun, MaxSourceFaults

VARIABLES
  index, dirs, lock, req, mishaps,
  place, acq, files, temps, writer, stored, admitted, count

Server == INSTANCE RegistryServer WITH None <- Nil
Acquisition == INSTANCE PackageSources WITH
  None <- Nil, Sources <- Feeds, Versions <- FeedVersions, lock <- writer, MaxFaults <- MaxSourceFaults

(* What the index lists is stored with it and was published once, whatever   *)
(* crashed or failed.  (registry-server)                                     *)
ListedIsWhole == Server!ListedIsWhole

(* Nothing that the index lists, releases or revocations, ever leaves it.    *)
(* (registry-server)                                                         *)
ListingsAreForEver == [][Server!NothingIsDelisted]_(Server!vars)

(* An acquired package is of one version though its place was edited while   *)
(* it was read, and the shared cache holds whole archives under their names. *)
(* (registry-sources, registry-artifacts-local, registry)                    *)
SourcesAreSound == Acquisition!SourcesAreSound

-----------------------------------------------------------------------------
(* RegistryServer.                                                          *)
ServerAssumption ==
  /\ Nil \notin Clients /\ MaxServerFaults \in Nat
  /\ Publications \subseteq Server!Publication

Revocations == {[id |-> t.id, version |-> t.version, reason |-> r] : t \in Targets, r \in Reasons}
KeyRevocations == {[key |-> k, reason |-> r] : k \in PublisherKeys, r \in Reasons}
Index == [releases : SUBSET Publications, revocations : SUBSET Revocations, keys : SUBSET KeyRevocations]

Locked == {"staged", "writing", "decided"}
(* Who has not been answered asked for something that may be asked for, and  *)
(* only who holds the lock is past waiting for it.                           *)
RequestIsTyped(r) ==
  /\ {"phase", "code"} \subseteq DOMAIN r
  /\ r.phase \in {"idle", "waiting", "verify", "read"} \cup Locked
  /\ r.phase \in {"waiting"} \cup Locked =>
       /\ "kind" \in DOMAIN r /\ r.kind \in {"publish", "revokePackage", "revokeKey"}
       /\ r.kind = "publish" =>
            /\ "pub" \in DOMAIN r /\ r.pub \in Publications
            /\ Server!PublicationRefusal(r.pub) = "none"
       /\ r.kind = "revokePackage" => "of" \in DOMAIN r /\ r.of \in Revocations
       /\ r.kind = "revokeKey" => "of" \in DOMAIN r /\ r.of \in KeyRevocations

(* What the holder of the lock knows of the index is still so.               *)
StagedIsFresh(r) ==
  /\ r.kind = "publish" /\ "seen" \in DOMAIN r /\ r.seen = index
  /\ Server!Indexed(index, r.pub.release) = {}
PublishIsFresh(r) ==
  /\ {"next", "promoted"} \subseteq DOMAIN r
  /\ r.next = [index EXCEPT !.releases = @ \cup {r.pub}]
  /\ Server!Indexed(index, r.pub.release) = {}
  /\ dirs[r.pub.release] \in {r.pub.content, Server!Rotten}
RevokeIsFresh(r) ==
  /\ "next" \in DOMAIN r /\ r.code = "revoked"
  /\ r.kind = "revokeKey" => r.next = [index EXCEPT !.keys = @ \cup {r.of}]
  /\ r.kind = "revokePackage" =>
       /\ r.next = [index EXCEPT !.revocations = @ \cup {r.of}]
       /\ \A s \in index.revocations : [s EXCEPT !.reason = r.of.reason] # r.of
HolderIsRight(r) ==
  /\ r.phase = "staged" => StagedIsFresh(r)
  /\ r.phase = "writing" => IF r.kind = "publish" THEN PublishIsFresh(r) ELSE RevokeIsFresh(r)
  /\ r.phase = "decided" /\ r.code \in {"created", "same"} =>
       r.kind = "publish" /\ r.pub \in index.releases

ReleaseIsWhole(p) ==
  /\ Server!PublicationRefusal(p) = "none"
  /\ Server!Indexed(index, p.release) = {p}
  /\ dirs[p.release] \in {p.content, Server!Rotten}
RevokedOnce == \A r, s \in index.revocations : [r EXCEPT !.reason = s.reason] = s => r = s

ServerTyped ==
  /\ index \in Index /\ dirs \in [Server!Slot -> Nat \cup {Nil}]
  /\ lock \in Clients \cup {Nil} /\ mishaps \in 0..MaxServerFaults
  /\ DOMAIN req = Clients
ServerInv ==
  /\ ServerTyped
  /\ \A c \in Clients : RequestIsTyped(req[c]) /\ (req[c].phase \in Locked => lock = c)
  /\ \A c \in Clients : HolderIsRight(req[c])
  /\ \A p \in index.releases : ReleaseIsWhole(p)
  /\ RevokedOnce

(* A step of one client that leaves the index and the directories alone.    *)
LEMMA ClientStep ==
  ASSUME ServerInv, NEW c \in Clients, NEW r,
         req' = [req EXCEPT ![c] = r], UNCHANGED <<index, dirs>>, mishaps' \in 0..MaxServerFaults,
         RequestIsTyped(r), HolderIsRight(r), lock' \in Clients \cup {Nil},
         r.phase \in Locked => lock' = c,
         \A d \in Clients \ {c} : lock = d => lock' = d
  PROVE  ServerInv'
<1>1. \A d \in Clients : req'[d] = IF d = c THEN r ELSE req[d]
    BY DEF ServerInv, ServerTyped
<1>2. ServerTyped' BY DEF ServerInv, ServerTyped
<1>3. \A x : HolderIsRight(x)' = HolderIsRight(x)
    BY DEF HolderIsRight, StagedIsFresh, PublishIsFresh, RevokeIsFresh, Server!Indexed
<1>4. ASSUME NEW d \in Clients
      PROVE  RequestIsTyped(req'[d]) /\ (req'[d].phase \in Locked => lock' = d) /\ HolderIsRight(req'[d])
    BY <1>1 DEF ServerInv
<1>5. \A p \in index.releases : ReleaseIsWhole(p)' BY DEF ServerInv, ReleaseIsWhole, Server!Indexed
<1>6. RevokedOnce' BY DEF ServerInv, RevokedOnce
<1> QED BY <1>2, <1>3, <1>4, <1>5, <1>6 DEF ServerInv

(* A step of the holder of the lock that changes them: no one else is past   *)
(* waiting.                                                                 *)
LEMMA HolderStep ==
  ASSUME ServerInv, NEW c \in Clients, Nil \notin Clients, lock = c, UNCHANGED lock, NEW r,
         req' = [req EXCEPT ![c] = r], RequestIsTyped(r), HolderIsRight(r)',
         ServerTyped', \A p \in index'.releases : ReleaseIsWhole(p)', RevokedOnce'
  PROVE  ServerInv'
<1>1. \A d \in Clients : req'[d] = IF d = c THEN r ELSE req[d]
    BY DEF ServerInv, ServerTyped
<1>2. \A d \in Clients : RequestIsTyped(req'[d]) /\ (req'[d].phase \in Locked => lock' = d)
    BY <1>1 DEF ServerInv
<1>3. ASSUME NEW d \in Clients PROVE HolderIsRight(req[d])'
  <2>1. CASE d = c
    <3>1. req'[d] = r BY <1>1, <2>1
    <3> QED BY <3>1 DEF HolderIsRight, StagedIsFresh, PublishIsFresh, RevokeIsFresh
  <2>2. CASE d # c
    <3>1. req'[d] = req[d] /\ req[d].phase \notin Locked BY <1>1, <2>2 DEF ServerInv
    <3> QED BY <3>1 DEF HolderIsRight, Locked
  <2> QED BY <2>1, <2>2
<1> QED BY <1>2, <1>3 DEF ServerInv

(* An answer puts a client back where it began.                             *)
LEMMA AnsweredStep ==
  ASSUME ServerInv, NEW c \in Clients, NEW code, Server!Answered(c, code), UNCHANGED <<index, dirs>>,
         mishaps' \in 0..MaxServerFaults, lock' \in Clients \cup {Nil},
         \A d \in Clients \ {c} : lock = d => lock' = d
  PROVE  ServerInv'
<1>1. PICK r : /\ r = Server!Replied(IF code \in Server!Done THEN "done" ELSE "refused")
               /\ req' = [req EXCEPT ![c] = r]
    BY DEF Server!Answered
<1>2. r.phase = "idle" /\ DOMAIN r = {"phase", "code"} BY <1>1 DEF Server!Replied
<1>3. RequestIsTyped(r) /\ HolderIsRight(r) /\ r.phase \notin Locked
    BY <1>2 DEF RequestIsTyped, HolderIsRight, Locked
<1> QED BY <1>1, <1>3, ClientStep

LEMMA ServerInitInv ==
  ASSUME ServerAssumption, Server!Init
  PROVE  ServerInv
<1>1. index \in Index BY DEF Server!Init, Server!EmptyIndex, Index
<1>2. ServerTyped BY <1>1 DEF ServerAssumption, Server!Init, ServerTyped
<1>3. \A c \in Clients : req[c].phase = "idle" /\ DOMAIN req[c] = {"phase", "code"}
    BY DEF Server!Init, Server!Replied
<1>4. index.releases = {} /\ index.revocations = {} BY DEF Server!Init, Server!EmptyIndex
<1> QED BY <1>2, <1>3, <1>4 DEF ServerInv, RequestIsTyped, HolderIsRight, Locked, RevokedOnce

(* Requests before they hold the lock, and those that only read.             *)
LEMMA OpensKeep ==
  ASSUME ServerInv, NEW c \in Clients, NEW code, NEW r, Server!StartOr(c, code, r), UNCHANGED <<index, dirs, lock, mishaps>>,
         code = "none" => RequestIsTyped(r) /\ r.phase \in {"waiting", "verify"}
  PROVE  ServerInv'
<1>0. lock \in Clients \cup {Nil} /\ mishaps \in 0..MaxServerFaults BY DEF ServerInv, ServerTyped
<1>1. CASE code = "none"
  <2>1. req' = [req EXCEPT ![c] = r] BY <1>1 DEF Server!StartOr, Server!Start
  <2>2. HolderIsRight(r) /\ r.phase \notin Locked BY <1>1 DEF HolderIsRight, Locked
  <2> QED BY <1>0, <1>1, <2>1, <2>2, ClientStep
<1>2. CASE code # "none"
  <2>1. Server!Answered(c, code) BY <1>2 DEF Server!StartOr
  <2> QED BY <1>0, <2>1, AnsweredStep
<1> QED BY <1>1, <1>2

LEMMA ReadersKeep ==
  ASSUME ServerInv, NEW c \in Clients, Server!Denied(c) \/ Server!Verify(c) \/ Server!Serve(c)
  PROVE  ServerInv'
<1>0. lock \in Clients \cup {Nil} /\ mishaps \in 0..MaxServerFaults BY DEF ServerInv, ServerTyped
<1>1. CASE \E code : Server!Answered(c, code) /\ UNCHANGED <<index, dirs, lock, mishaps>>
    BY <1>0, <1>1, AnsweredStep
<1>2. CASE Server!Verify(c) /\ Server!Go(c, "read")
  <2>1. PICK r : r = [req[c] EXCEPT !.phase = "read"] /\ req' = [req EXCEPT ![c] = r] BY <1>2 DEF Server!Go
  <2>2. RequestIsTyped(req[c]) /\ req[c].phase = "verify" BY <1>2 DEF ServerInv, Server!Verify
  <2>3. r.phase = "read" /\ DOMAIN r = DOMAIN req[c] BY <2>1, <2>2 DEF RequestIsTyped
  <2>4. RequestIsTyped(r) /\ HolderIsRight(r) /\ r.phase \notin Locked
      BY <2>2, <2>3 DEF RequestIsTyped, HolderIsRight, Locked
  <2>5. UNCHANGED <<index, dirs, lock, mishaps>> BY <1>2 DEF Server!Verify
  <2> QED BY <1>0, <2>1, <2>4, <2>5, ClientStep
<1> QED BY <1>1, <1>2 DEF Server!Denied, Server!Verify, Server!Serve

LEMMA AsksKeep ==
  ASSUME ServerInv, NEW c \in Clients,
         \/ \E p \in Publications : Server!Publish(c, p)
         \/ \E t \in Targets, reason \in Reasons : Server!RevokePackage(c, t, reason)
         \/ \E k \in PublisherKeys, reason \in Reasons : Server!RevokeKey(c, k, reason)
         \/ \E id \in Packages, v \in Versions \cup {Nil} : Server!Get(c, id, v)
  PROVE  ServerInv'
<1>1. ASSUME NEW p \in Publications, Server!Publish(c, p) PROVE ServerInv'
  <2>1. PICK r : r = [kind |-> "publish", pub |-> p, phase |-> "waiting", code |-> "none"] OBVIOUS
  <2>2. Server!StartOr(c, Server!PublicationRefusal(p), r) /\ UNCHANGED <<index, dirs, lock, mishaps>>
      BY <1>1, <2>1 DEF Server!Publish
  <2>3. Server!PublicationRefusal(p) = "none" => RequestIsTyped(r) /\ r.phase \in {"waiting", "verify"}
      BY <2>1 DEF RequestIsTyped, Locked
  <2> QED BY <2>2, <2>3, OpensKeep
<1>2. ASSUME NEW t \in Targets, NEW reason \in Reasons, Server!RevokePackage(c, t, reason) PROVE ServerInv'
  <2>1. PICK r : r = [kind |-> "revokePackage", of |-> [id |-> t.id, version |-> t.version, reason |-> reason],
                      phase |-> "waiting", code |-> "none"] OBVIOUS
  <2>2. Server!StartOr(c, "none", r) /\ UNCHANGED <<index, dirs, lock, mishaps>>
      BY <1>2, <2>1 DEF Server!RevokePackage, Server!StartOr
  <2>3. RequestIsTyped(r) /\ r.phase \in {"waiting", "verify"}
      BY <2>1 DEF RequestIsTyped, Locked, Revocations
  <2> QED BY <2>2, <2>3, OpensKeep
<1>3. ASSUME NEW k \in PublisherKeys, NEW reason \in Reasons, Server!RevokeKey(c, k, reason) PROVE ServerInv'
  <2>1. PICK r : r = [kind |-> "revokeKey", of |-> [key |-> k, reason |-> reason],
                      phase |-> "waiting", code |-> "none"] OBVIOUS
  <2>2. Server!StartOr(c, "none", r) /\ UNCHANGED <<index, dirs, lock, mishaps>>
      BY <1>3, <2>1 DEF Server!RevokeKey, Server!StartOr
  <2>3. RequestIsTyped(r) /\ r.phase \in {"waiting", "verify"}
      BY <2>1 DEF RequestIsTyped, Locked, KeyRevocations
  <2> QED BY <2>2, <2>3, OpensKeep
<1>4. ASSUME NEW id \in Packages, NEW v \in Versions \cup {Nil}, Server!Get(c, id, v) PROVE ServerInv'
  <2>1. PICK found, r : /\ found = Server!Candidate(index, id, v)
                        /\ r = [kind |-> "get", found |-> found.of, phase |-> "verify", code |-> "none"] OBVIOUS
  <2>2. Server!StartOr(c, found.code, r) /\ UNCHANGED <<index, dirs, lock, mishaps>>
      BY <1>4, <2>1 DEF Server!Get
  <2>3. RequestIsTyped(r) /\ r.phase \in {"waiting", "verify"}
      BY <2>1 DEF RequestIsTyped, Locked
  <2> QED BY <2>2, <2>3, OpensKeep
<1> QED BY <1>1, <1>2, <1>3, <1>4

(* Taking the lock: the index as it is decides.                             *)
LEMMA DecisionsKeep ==
  ASSUME ServerInv, Nil \notin Clients, NEW c \in Clients, Server!TakeLock(c)
  PROVE  ServerInv'
<1>0. mishaps' \in 0..MaxServerFaults /\ lock = Nil /\ lock' = c /\ UNCHANGED <<index, dirs>>
    BY DEF ServerInv, ServerTyped, Server!TakeLock, Server!MayLock
<1>1. RequestIsTyped(req[c]) /\ req[c].phase = "waiting" BY DEF ServerInv, Server!TakeLock
<1>2. CASE req[c].kind = "publish"
  <2>1. PICK same, code, r :
          /\ same = Server!Indexed(index, req[c].pub.release)
          /\ code = IF Server!IsRevoked(index, req[c].pub) THEN "REVOKED"
                    ELSE IF same = {} THEN "none"
                    ELSE IF req[c].pub \notin same THEN "CONFLICT"
                    ELSE IF dirs[req[c].pub.release] # req[c].pub.content THEN "CORRUPT" ELSE "same"
          /\ r = [kind |-> "publish", pub |-> req[c].pub, seen |-> index,
                  phase |-> IF code = "none" THEN "staged" ELSE "decided", code |-> code]
      OBVIOUS
  <2>2. req' = [req EXCEPT ![c] = r]
      BY <1>2, <2>1 DEF Server!TakeLock, Server!DecidePublish, Server!Start
  <2>3. RequestIsTyped(r) BY <1>1, <1>2, <2>1 DEF RequestIsTyped, Locked
  <2>4. HolderIsRight(r)
    <3>1. r.phase = "staged" => same = {} BY <2>1
    <3>2. r.phase = "decided" /\ r.code \in {"created", "same"} => r.pub \in index.releases
        BY <2>1 DEF Server!Indexed
    <3> QED BY <2>1, <3>1, <3>2 DEF HolderIsRight, StagedIsFresh
  <2> QED BY <1>0, <2>2, <2>3, <2>4, ClientStep
<1>3. CASE req[c].kind # "publish"
  <2>1. PICK new, old, next, r :
          /\ new = req[c].of
          /\ old = {x \in (IF req[c].kind = "revokeKey" THEN index.keys ELSE index.revocations) :
                      [x EXCEPT !.reason = new.reason] = new}
          /\ next = IF req[c].kind = "revokeKey" THEN [index EXCEPT !.keys = @ \cup {new}]
                    ELSE [index EXCEPT !.revocations = @ \cup {new}]
          /\ r = [kind |-> req[c].kind, of |-> new, next |-> next,
                  phase |-> IF old = {} THEN "writing" ELSE "decided",
                  code |-> IF old # {} /\ new \notin old THEN "CONFLICT" ELSE "revoked"]
      OBVIOUS
  <2>2. req' = [req EXCEPT ![c] = r]
      BY <1>3, <2>1 DEF Server!TakeLock, Server!DecideRevoke, Server!Start
  <2>3. RequestIsTyped(r) BY <1>1, <1>3, <2>1 DEF RequestIsTyped, Locked
  <2>4. r.code \notin {"created", "same"} /\ r.phase # "staged" /\ r.kind # "publish" BY <1>3, <2>1
  <2>5. r.phase = "writing" => RevokeIsFresh(r)
    <3> SUFFICES ASSUME old = {} PROVE RevokeIsFresh(r) BY <2>1
    <3>1. "next" \in DOMAIN r /\ r.code = "revoked" /\ r.next = next /\ r.of = new /\ r.kind = req[c].kind BY <2>1
    <3>2. req[c].kind = "revokePackage" =>
            \A s \in index.revocations : [s EXCEPT !.reason = new.reason] # new BY <2>1
    <3> QED BY <2>1, <3>1, <3>2 DEF RevokeIsFresh
  <2> QED BY <1>0, <2>2, <2>3, <2>4, <2>5, ClientStep DEF HolderIsRight
<1> QED BY <1>2, <1>3

(* What fails, ends or dies gives its answer, or none, and the lock back.    *)
LEMMA EndsKeep ==
  ASSUME ServerInv, MaxServerFaults \in Nat, NEW c \in Clients,
         Server!StageFails(c) \/ Server!Finish(c) \/ Server!Crash(c)
  PROVE  ServerInv'
<1>0. UNCHANGED <<index, dirs>> /\ mishaps' \in 0..MaxServerFaults
    BY DEF ServerInv, ServerTyped, Server!StageFails, Server!Finish, Server!Crash, Server!Mishap
<1>1. CASE Server!StageFails(c)
  <2>1. PICK r : r = [req[c] EXCEPT !.phase = "decided", !.code = "CORRUPT"] OBVIOUS
  <2>2. req' = [req EXCEPT ![c] = r] BY <1>1, <2>1 DEF Server!StageFails
  <2>3. RequestIsTyped(req[c]) /\ req[c].phase = "staged" /\ lock = c /\ UNCHANGED lock
      BY <1>1 DEF ServerInv, Server!StageFails, Locked
  <2>4. /\ r.phase = "decided" /\ r.code = "CORRUPT" /\ DOMAIN r = DOMAIN req[c]
        /\ \A f \in DOMAIN r \ {"phase", "code"} : r[f] = req[c][f]
      BY <2>1, <2>3 DEF RequestIsTyped
  <2>5. RequestIsTyped(r) BY <2>3, <2>4 DEF RequestIsTyped, Locked
  <2>6. HolderIsRight(r) BY <2>4 DEF HolderIsRight
  <2> QED BY <1>0, <2>2, <2>3, <2>5, <2>6, ClientStep
<1>2. CASE Server!Finish(c)
  <2>1. Server!Unlock(c) /\ Server!Answered(c, req[c].code) BY <1>2 DEF Server!Finish
  <2>2. lock' \in Clients \cup {Nil} /\ \A d \in Clients \ {c} : lock = d => lock' = d
      BY <2>1 DEF Server!Unlock, ServerInv, ServerTyped
  <2>3. PICK code : code = req[c].code OBVIOUS
  <2> QED BY <1>0, <2>1, <2>2, <2>3, AnsweredStep
<1>3. CASE Server!Crash(c)
  <2>1. PICK r : r = Server!Replied("none") /\ req' = [req EXCEPT ![c] = r] BY <1>3 DEF Server!Crash
  <2>2. lock' \in Clients \cup {Nil} /\ \A d \in Clients \ {c} : lock = d => lock' = d
      BY <1>3 DEF Server!Crash, Server!Unlock, ServerInv, ServerTyped
  <2>3. r.phase = "idle" /\ DOMAIN r = {"phase", "code"} BY <2>1 DEF Server!Replied
  <2>4. RequestIsTyped(r) /\ HolderIsRight(r) /\ r.phase \notin Locked
      BY <2>3 DEF RequestIsTyped, HolderIsRight, Locked
  <2> QED BY <1>0, <2>1, <2>2, <2>4, ClientStep
<1> QED BY <1>1, <1>2, <1>3

(* The stage is renamed into the place of a release that is not listed.      *)
LEMMA PromoteKeeps ==
  ASSUME ServerInv, ServerAssumption, NEW c \in Clients, Server!Promote(c)
  PROVE  ServerInv'
<1>1. RequestIsTyped(req[c]) /\ req[c].phase = "staged" /\ lock = c /\ StagedIsFresh(req[c])
    BY DEF ServerInv, HolderIsRight, Server!Promote, Locked
<1>2. PICK p, absent : p = req[c].pub /\ absent = (dirs[req[c].pub.release] = Nil) OBVIOUS
<1>3. /\ p \in Publications /\ Server!PublicationRefusal(p) = "none" /\ req[c].kind = "publish"
      /\ Server!Indexed(index, p.release) = {}
    BY <1>1, <1>2 DEF RequestIsTyped, StagedIsFresh, Locked
<1>4. p.release \in Server!Slot /\ p.content \in Nat BY <1>3 DEF ServerAssumption, Server!Publication
<1>5. UNCHANGED <<index, lock, mishaps>> /\ dirs' = [dirs EXCEPT ![p.release] = IF absent THEN p.content ELSE @]
    BY <1>2 DEF Server!Promote
<1>6. /\ dirs' \in [Server!Slot -> Nat \cup {Nil}]
      /\ dirs'[p.release] = IF absent THEN p.content ELSE dirs[p.release]
      /\ \A q \in Server!Slot : q # p.release => dirs'[q] = dirs[q]
    BY <1>4, <1>5 DEF ServerInv, ServerTyped
<1>7. ASSUME NEW q \in index.releases PROVE ReleaseIsWhole(q)'
  <2>1. q.release # p.release BY <1>3 DEF Server!Indexed
  <2>2. q.release \in Server!Slot BY DEF ServerInv, ServerTyped, Index, ServerAssumption, Server!Publication
  <2>3. dirs'[q.release] = dirs[q.release] /\ ReleaseIsWhole(q) BY <1>6, <2>1, <2>2 DEF ServerInv
  <2> QED BY <1>5, <2>3 DEF ReleaseIsWhole, Server!Indexed
<1>8. RevokedOnce' BY <1>5 DEF ServerInv, RevokedOnce
<1>9. DOMAIN req' = Clients /\ ServerTyped'
    BY <1>5, <1>6 DEF ServerInv, ServerTyped, Server!Promote, Server!Start
<1>10. CASE absent \/ Server!SameBytes(c)
  <2>1. PICK r : r = [kind |-> "publish", pub |-> p, next |-> [index EXCEPT !.releases = @ \cup {p}], promoted |-> absent,
                      phase |-> "writing", code |-> "created"] OBVIOUS
  <2>2. req' = [req EXCEPT ![c] = r]
      BY <1>1, <1>2, <1>10, <2>1 DEF Server!Promote, Server!Start, StagedIsFresh
  <2>3. RequestIsTyped(r) BY <1>3, <2>1 DEF RequestIsTyped, Locked
  <2>4. dirs'[p.release] \in {p.content, Server!Rotten} BY <1>2, <1>6, <1>10 DEF Server!SameBytes
  <2>5. HolderIsRight(r)'
    <3>1. r.phase = "writing" /\ r.kind = "publish" /\ r.pub = p BY <2>1
    <3>2. PublishIsFresh(r)' BY <1>3, <1>5, <2>1, <2>4 DEF PublishIsFresh, Server!Indexed
    <3> QED BY <3>1, <3>2 DEF HolderIsRight
  <2> QED BY <1>1, <1>5, <1>7, <1>8, <1>9, <2>2, <2>3, <2>5, HolderStep DEF ServerAssumption
<1>11. CASE ~(absent \/ Server!SameBytes(c))
  <2>1. PICK r : r = [req[c] EXCEPT !.phase = "decided", !.code = "CONFLICT"] OBVIOUS
  <2>2. req' = [req EXCEPT ![c] = r] BY <1>2, <1>11, <2>1 DEF Server!Promote
  <2>3. /\ r.phase = "decided" /\ r.code = "CONFLICT" /\ DOMAIN r = DOMAIN req[c]
        /\ \A f \in DOMAIN r \ {"phase", "code"} : r[f] = req[c][f]
      BY <1>1, <2>1 DEF RequestIsTyped
  <2>4. RequestIsTyped(r) BY <1>1, <2>3 DEF RequestIsTyped, Locked
  <2>5. HolderIsRight(r)' BY <2>3 DEF HolderIsRight
  <2> QED BY <1>1, <1>5, <1>7, <1>8, <1>9, <2>2, <2>4, <2>5, HolderStep DEF ServerAssumption
<1> QED BY <1>10, <1>11

(* The index is replaced by one that extends it.                            *)
LEMMA NextExtends ==
  ASSUME ServerInv, ServerAssumption, NEW c \in Clients, Server!WriteIndex(c)
  PROVE  /\ index' \in Index
         /\ index.releases \subseteq index'.releases
         /\ index.revocations \subseteq index'.revocations /\ index.keys \subseteq index'.keys
         /\ \A p \in index'.releases : ReleaseIsWhole(p)'
         /\ RevokedOnce'
         /\ req[c].kind = "publish" => req[c].pub \in index'.releases
<1>1. /\ RequestIsTyped(req[c]) /\ req[c].phase = "writing" /\ lock = c /\ index' = req[c].next /\ UNCHANGED dirs
      /\ IF req[c].kind = "publish" THEN PublishIsFresh(req[c]) ELSE RevokeIsFresh(req[c])
    BY DEF ServerInv, HolderIsRight, Server!WriteIndex, Locked
<1>2. index \in Index BY DEF ServerInv, ServerTyped
<1>3. CASE req[c].kind = "publish"
  <2>1. PICK p : p = req[c].pub OBVIOUS
  <2>2. /\ p \in Publications /\ Server!PublicationRefusal(p) = "none"
        /\ Server!Indexed(index, p.release) = {} /\ dirs[p.release] \in {p.content, Server!Rotten}
        /\ index' = [index EXCEPT !.releases = @ \cup {p}]
      BY <1>1, <1>3, <2>1 DEF RequestIsTyped, PublishIsFresh, Locked
  <2>3. /\ index' \in Index /\ index'.releases = index.releases \cup {p}
        /\ index'.revocations = index.revocations /\ index'.keys = index.keys
      BY <1>2, <2>2 DEF Index
  <2>4. ASSUME NEW q \in index'.releases PROVE ReleaseIsWhole(q)'
    <3>1. CASE q = p
      <4>1. Server!Indexed(index', p.release) = {p} BY <2>2, <2>3 DEF Server!Indexed
      <4> QED BY <1>1, <2>2, <3>1, <4>1 DEF ReleaseIsWhole, Server!Indexed
    <3>2. CASE q # p
      <4>1. q \in index.releases /\ ReleaseIsWhole(q) BY <2>3, <3>2 DEF ServerInv
      <4>2. q.release # p.release BY <2>2, <4>1 DEF Server!Indexed
      <4>3. Server!Indexed(index', q.release) = {q} BY <2>3, <4>1, <4>2 DEF ReleaseIsWhole, Server!Indexed
      <4> QED BY <1>1, <4>1, <4>3 DEF ReleaseIsWhole, Server!Indexed
    <3> QED BY <3>1, <3>2
  <2>5. RevokedOnce' BY <2>3 DEF ServerInv, RevokedOnce
  <2> QED BY <2>1, <2>3, <2>4, <2>5
<1>4. CASE req[c].kind # "publish"
  <2>1. PICK r : r = req[c].of OBVIOUS
  <2>2. CASE req[c].kind = "revokeKey"
    <3>1. r \in KeyRevocations /\ index' = [index EXCEPT !.keys = @ \cup {r}]
        BY <1>1, <1>4, <2>1, <2>2 DEF RequestIsTyped, RevokeIsFresh, Locked
    <3>2. /\ index' \in Index /\ index'.releases = index.releases
          /\ index'.revocations = index.revocations /\ index'.keys = index.keys \cup {r}
        BY <1>2, <3>1 DEF Index
    <3>3. RevokedOnce' BY <3>2 DEF ServerInv, RevokedOnce
    <3>4. \A p \in index'.releases : ReleaseIsWhole(p)'
        BY <1>1, <3>2 DEF ServerInv, ReleaseIsWhole, Server!Indexed
    <3> QED BY <1>4, <3>2, <3>3, <3>4
  <2>3. CASE req[c].kind = "revokePackage"
    <3>1. /\ r \in Revocations /\ index' = [index EXCEPT !.revocations = @ \cup {r}]
          /\ \A s \in index.revocations : [s EXCEPT !.reason = r.reason] # r
        BY <1>1, <1>4, <2>1, <2>3 DEF RequestIsTyped, RevokeIsFresh, Locked
    <3>2. /\ index' \in Index /\ index'.releases = index.releases
          /\ index'.revocations = index.revocations \cup {r} /\ index'.keys = index.keys
        BY <1>2, <3>1 DEF Index
    <3>3. RevokedOnce'
      <4> SUFFICES ASSUME NEW s \in index'.revocations, NEW t \in index'.revocations,
                          [s EXCEPT !.reason = t.reason] = t
                   PROVE  s = t
          BY DEF RevokedOnce
      <4>1. CASE s \in index.revocations /\ t \in index.revocations BY <4>1 DEF ServerInv, RevokedOnce
      <4>2. CASE t = r BY <3>1, <3>2, <4>2
      <4>3. CASE s = r /\ t \in index.revocations
        <5>1. s \in Revocations /\ t \in Revocations BY <1>2, <3>1, <4>3 DEF Index
        <5>2. [t EXCEPT !.reason = s.reason] = s BY <5>1 DEF Revocations
        <5> QED BY <3>1, <4>3, <5>2
      <4> QED BY <3>2, <4>1, <4>2, <4>3
    <3>4. \A p \in index'.releases : ReleaseIsWhole(p)'
        BY <1>1, <3>2 DEF ServerInv, ReleaseIsWhole, Server!Indexed
    <3> QED BY <1>4, <3>2, <3>3, <3>4
  <2> QED BY <1>1, <1>4, <2>2, <2>3 DEF RequestIsTyped, Locked
<1> QED BY <1>3, <1>4

LEMMA WriteIndexKeeps ==
  ASSUME ServerInv, ServerAssumption, NEW c \in Clients, Server!WriteIndex(c)
  PROVE  ServerInv'
<1>1. /\ RequestIsTyped(req[c]) /\ req[c].phase = "writing" /\ lock = c /\ UNCHANGED <<dirs, lock, mishaps>>
      /\ IF req[c].kind = "publish" THEN PublishIsFresh(req[c]) ELSE RevokeIsFresh(req[c])
    BY DEF ServerInv, HolderIsRight, Server!WriteIndex, Locked
<1>2. PICK r : r = [req[c] EXCEPT !.phase = "decided"] OBVIOUS
<1>3. req' = [req EXCEPT ![c] = r] BY <1>2 DEF Server!WriteIndex, Server!Go
<1>4. /\ r.phase = "decided" /\ DOMAIN r = DOMAIN req[c]
      /\ \A f \in DOMAIN r \ {"phase"} : r[f] = req[c][f]
    BY <1>1, <1>2 DEF RequestIsTyped
<1>5. RequestIsTyped(r) BY <1>1, <1>4 DEF RequestIsTyped, Locked
<1>6. HolderIsRight(r)'
  <2>1. CASE req[c].kind = "publish"
      BY <1>1, <1>4, <1>5, <2>1, NextExtends DEF HolderIsRight, RequestIsTyped, Locked
  <2>2. CASE req[c].kind # "publish"
    <3>1. r.code = "revoked" BY <1>1, <1>4, <2>2 DEF RevokeIsFresh, RequestIsTyped
    <3> QED BY <1>4, <3>1 DEF HolderIsRight
  <2> QED BY <2>1, <2>2
<1>7. ServerTyped' BY <1>1, <1>3, NextExtends DEF ServerInv, ServerTyped
<1> QED BY <1>1, <1>3, <1>5, <1>6, <1>7, NextExtends, HolderStep DEF ServerAssumption

(* A directory is taken away again only while its release is not listed.    *)
LEMMA WriteIndexFailsKeeps ==
  ASSUME ServerInv, ServerAssumption, NEW c \in Clients, Server!WriteIndexFails(c)
  PROVE  ServerInv'
<1>1. /\ RequestIsTyped(req[c]) /\ req[c].phase = "writing" /\ lock = c /\ UNCHANGED <<index, lock>>
      /\ mishaps' \in 0..MaxServerFaults
      /\ IF req[c].kind = "publish" THEN PublishIsFresh(req[c]) ELSE RevokeIsFresh(req[c])
    BY DEF ServerInv, ServerTyped, ServerAssumption, HolderIsRight, Server!WriteIndexFails, Server!Mishap, Locked
<1>2. PICK r : r = [req[c] EXCEPT !.phase = "decided", !.code = "CORRUPT"] OBVIOUS
<1>3. req' = [req EXCEPT ![c] = r] BY <1>2 DEF Server!WriteIndexFails
<1>4. /\ r.phase = "decided" /\ r.code = "CORRUPT" /\ DOMAIN r = DOMAIN req[c]
      /\ \A f \in DOMAIN r \ {"phase", "code"} : r[f] = req[c][f]
    BY <1>1, <1>2 DEF RequestIsTyped
<1>5. RequestIsTyped(r) BY <1>1, <1>4 DEF RequestIsTyped, Locked
<1>6. HolderIsRight(r)' BY <1>4 DEF HolderIsRight
<1>7. /\ dirs' \in [Server!Slot -> Nat \cup {Nil}]
      /\ \A q \in index.releases : dirs'[q.release] = dirs[q.release]
  <2>1. CASE req[c].kind = "publish" /\ req[c].promoted
    <3>1. Server!Indexed(index, req[c].pub.release) = {} BY <1>1, <2>1 DEF PublishIsFresh
    <3>2. \A q \in index.releases : q.release # req[c].pub.release BY <3>1 DEF Server!Indexed
    <3>3. dirs' = [dirs EXCEPT ![req[c].pub.release] = Nil] BY <2>1 DEF Server!WriteIndexFails
    <3>4. \A q \in index.releases : q.release \in Server!Slot
        BY DEF ServerInv, ServerTyped, Index, ServerAssumption, Server!Publication
    <3> QED BY <3>2, <3>3, <3>4 DEF ServerInv, ServerTyped
  <2>2. CASE ~(req[c].kind = "publish" /\ req[c].promoted)
      BY <2>2 DEF Server!WriteIndexFails, ServerInv, ServerTyped
  <2> QED BY <2>1, <2>2
<1>8. ServerTyped' BY <1>1, <1>3, <1>7 DEF ServerInv, ServerTyped
<1>9. \A q \in index'.releases : ReleaseIsWhole(q)' BY <1>1, <1>7 DEF ServerInv, ReleaseIsWhole, Server!Indexed
<1>10. RevokedOnce' BY <1>1 DEF ServerInv, RevokedOnce
<1> QED BY <1>1, <1>3, <1>5, <1>6, <1>8, <1>9, <1>10, HolderStep DEF ServerAssumption

LEMMA RotKeeps ==
  ASSUME ServerInv, ServerAssumption, NEW s \in Server!Slot, Server!Rot(s)
  PROVE  ServerInv'
<1>1. UNCHANGED <<index, lock, req>> /\ dirs' = [dirs EXCEPT ![s] = Server!Rotten] BY DEF Server!Rot
<1>2. Server!Rotten \in Nat /\ mishaps' \in 0..MaxServerFaults
    BY DEF Server!Rotten, Server!Rot, Server!Mishap, ServerInv, ServerTyped, ServerAssumption
<1>3. ServerTyped' BY <1>1, <1>2 DEF ServerInv, ServerTyped
<1>4. \A q \in Server!Slot : dirs'[q] \in {dirs[q], Server!Rotten} BY <1>1 DEF ServerInv, ServerTyped
<1>5. \A p \in Publications : p.release \in Server!Slot BY DEF ServerAssumption, Server!Publication
<1>6. ASSUME NEW p \in index.releases PROVE ReleaseIsWhole(p)'
  <2>1. ReleaseIsWhole(p) /\ p \in Publications BY DEF ServerInv, ServerTyped, Index
  <2>2. Server!Indexed(index', p.release) = {p} BY <1>1, <2>1 DEF ReleaseIsWhole
  <2>3. dirs'[p.release] \in {p.content, Server!Rotten} BY <1>4, <1>5, <2>1 DEF ReleaseIsWhole
  <2> QED BY <2>1, <2>2, <2>3 DEF ReleaseIsWhole, Server!Indexed
<1>7. ASSUME NEW c \in Clients PROVE HolderIsRight(req[c])'
  <2>1. HolderIsRight(req[c]) /\ RequestIsTyped(req[c]) BY DEF ServerInv
  <2>2. CASE req[c].phase = "writing" /\ req[c].kind = "publish"
    <3>1. PublishIsFresh(req[c]) /\ req[c].pub \in Publications
        BY <2>1, <2>2 DEF HolderIsRight, RequestIsTyped, Locked
    <3>2. dirs'[req[c].pub.release] \in {req[c].pub.content, Server!Rotten}
        BY <1>4, <1>5, <3>1 DEF PublishIsFresh
    <3>3. PublishIsFresh(req[c])' BY <1>1, <3>1, <3>2 DEF PublishIsFresh, Server!Indexed
    <3> QED BY <1>1, <2>2, <3>3 DEF HolderIsRight
  <2>3. CASE ~(req[c].phase = "writing" /\ req[c].kind = "publish")
      BY <1>1, <2>1, <2>3 DEF HolderIsRight, StagedIsFresh, RevokeIsFresh, Server!Indexed
  <2> QED BY <2>2, <2>3
<1>8. RevokedOnce' BY <1>1 DEF ServerInv, RevokedOnce
<1> QED BY <1>1, <1>3, <1>6, <1>7, <1>8 DEF ServerInv

(* The inductive invariant of the reference registry: what the holder of the *)
(* lock read and prepared still fits the index, no one else is past waiting, *)
(* and every listed release has its directory.                              *)
THEOREM ServerInductive == ServerAssumption /\ ServerInv /\ [Server!Next]_(Server!vars) => ServerInv'
<1> SUFFICES ASSUME ServerAssumption, ServerInv, [Server!Next]_(Server!vars) PROVE ServerInv'
    OBVIOUS
<1>1. Nil \notin Clients /\ MaxServerFaults \in Nat BY DEF ServerAssumption
<1>2. ASSUME NEW c \in Clients, Server!Denied(c) \/ Server!Verify(c) \/ Server!Serve(c)
      PROVE  ServerInv'
    BY <1>2, ReadersKeep
<1>3. ASSUME NEW c \in Clients, Server!TakeLock(c) PROVE ServerInv' BY <1>1, <1>3, DecisionsKeep
<1>4. ASSUME NEW c \in Clients, Server!Promote(c) PROVE ServerInv' BY <1>4, PromoteKeeps
<1>5. ASSUME NEW c \in Clients, Server!WriteIndex(c) PROVE ServerInv' BY <1>5, WriteIndexKeeps
<1>6. ASSUME NEW c \in Clients, Server!WriteIndexFails(c) PROVE ServerInv' BY <1>6, WriteIndexFailsKeeps
<1>7. ASSUME NEW c \in Clients, Server!StageFails(c) \/ Server!Finish(c) \/ Server!Crash(c)
      PROVE  ServerInv'
    BY <1>1, <1>7, EndsKeep
<1>8. ASSUME NEW c \in Clients,
             \/ \E p \in Publications : Server!Publish(c, p)
             \/ \E t \in Targets, reason \in Reasons : Server!RevokePackage(c, t, reason)
             \/ \E k \in PublisherKeys, reason \in Reasons : Server!RevokeKey(c, k, reason)
             \/ \E id \in Packages, v \in Versions \cup {Nil} : Server!Get(c, id, v)
      PROVE  ServerInv'
    BY <1>8, AsksKeep
<1>9. ASSUME NEW s \in Server!Slot, Server!Rot(s) PROVE ServerInv' BY <1>9, RotKeeps
<1>10. CASE UNCHANGED Server!vars
  <2>1. UNCHANGED <<index, dirs, lock, req, mishaps>> BY <1>10 DEF Server!vars
  <2> QED BY <2>1 DEF ServerInv, ServerTyped, HolderIsRight, StagedIsFresh, PublishIsFresh, RevokeIsFresh,
               ReleaseIsWhole, RevokedOnce, Server!Indexed
<1> QED BY <1>2, <1>3, <1>4, <1>5, <1>6, <1>7, <1>8, <1>9, <1>10 DEF Server!Next

(* What the index lists is stored as it was published, once, and whoever was *)
(* told so finds it there, whatever crashed, failed or rotted.              *)
THEOREM ListingsAreWhole == ASSUME ServerAssumption PROVE Server!Spec => []ListedIsWhole
<1>1. Server!Init => ServerInv BY ServerInitInv
<1>2. ServerInv => ListedIsWhole
    BY DEF ServerInv, ServerTyped, HolderIsRight, ReleaseIsWhole, RevokedOnce, Index, ServerAssumption,
           ListedIsWhole, Server!ListedIsWhole, Server!TypeOK
<1>3. ServerInv /\ [Server!Next]_(Server!vars) => ServerInv' BY ServerInductive
<1> QED BY <1>1, <1>2, <1>3, PTL DEF Server!Spec

(* No step of a publisher, a reader, a crash or rot takes a release or a     *)
(* revocation out of the index.                                             *)
THEOREM NothingLeavesTheIndex == ASSUME ServerAssumption PROVE Server!Spec => ListingsAreForEver
<1>1. Server!Init => ServerInv BY ServerInitInv
<1>2. ServerInv /\ [Server!Next]_(Server!vars) => [Server!NothingIsDelisted]_(Server!vars)
  <2> SUFFICES ASSUME ServerInv, Server!Next PROVE Server!NothingIsDelisted
      BY DEF Server!NothingIsDelisted
  <2>1. CASE \E c \in Clients : Server!WriteIndex(c)
      BY <2>1, NextExtends DEF Server!NothingIsDelisted
  <2>2. CASE UNCHANGED index BY <2>2 DEF Server!NothingIsDelisted
  <2> QED BY <2>1, <2>2
      DEF Server!Next, Server!Denied, Server!TakeLock, Server!Promote, Server!StageFails, Server!WriteIndexFails,
          Server!Finish, Server!Verify, Server!Serve, Server!Crash, Server!Publish, Server!RevokePackage,
          Server!RevokeKey, Server!Get, Server!Rot
<1>3. ServerInv /\ [Server!Next]_(Server!vars) => ServerInv' BY ServerInductive
<1> QED BY <1>1, <1>2, <1>3, PTL DEF Server!Spec, ListingsAreForEver

-----------------------------------------------------------------------------
(* PackageSources.                                                          *)
PartsFound == [version : FeedVersions, origin : Origins]
Acquisitions ==
  [source : Feeds, pc : {"manifest", "evidence", "judged", "put", "write", "rename"},
   todo : Seq({"payload", "sbom"}), manifest : FeedVersions \cup {Nil}, payload : FeedVersions \cup {Nil},
   sbom : FeedVersions \cup {Nil}, origins : SUBSET Origins]
SourcesAssumption == Nil \notin Hosts \cup FeedVersions \cup Acquisitions \cup {"dead"} /\ "dead" \notin Hosts

Holding(h) == acq[h] # Nil /\ acq[h].pc \in {"write", "rename"}

SourcesTyped ==
  /\ place \in [Feeds -> [Acquisition!Parts -> PartsFound \cup {Nil}]]
  /\ acq \in [Hosts -> Acquisitions \cup {Nil}]
  /\ files \in [FeedVersions -> {"none", "whole", "rotten"}]
  /\ writer \in [FeedVersions -> Hosts \cup {Nil, "dead"}]

(* What an acquisition has read was allowed; it reads an archive only when   *)
(* the manifest is bound to one; what goes to the cache was proven.         *)
Reads(a) ==
  /\ a.source.kind \notin {"git", "bare"} => a.origins \subseteq Allowed[a.source.kind]
  /\ a.pc = "manifest" => a.payload = Nil
  /\ a.pc # "manifest" =>
       /\ a.manifest \in FeedVersions
       /\ "payload" \notin Declares[a.manifest] =>
            a.payload = Nil /\ a.todo \in Seq({"sbom"})
  /\ a.pc = "evidence" => a.todo # <<>>
  /\ a.pc \in {"put", "write", "rename"} =>
       /\ "payload" \in Declares[a.manifest] /\ a.payload = a.manifest
       /\ a.sbom = IF "sbom" \in Declares[a.manifest] THEN a.manifest ELSE Nil

(* A host that writes holds the lock of the name and has one temporary file, *)
(* whole when it is about to be renamed; nobody else has either.             *)
TempOf(h) == [version |-> acq[h].payload, by |-> h, whole |-> acq[h].pc = "rename"]
Writers ==
  /\ \A h \in Hosts : Holding(h) => writer[acq[h].payload] = h /\ TempOf(h) \in temps
  /\ \A v \in FeedVersions, h \in Hosts : writer[v] = h => Holding(h) /\ acq[h].payload = v
  /\ \A t \in temps : t.by = "dead" \/ \E h \in Hosts : Holding(h) /\ t = TempOf(h)

AdmissionIsSound(r) ==
  /\ r.payload = (IF "payload" \in Declares[r.manifest] THEN r.manifest ELSE Nil)
  /\ r.sbom = (IF "sbom" \in Declares[r.manifest] THEN r.manifest ELSE Nil)
  /\ r.source.kind \notin {"git", "bare"} => r.origins \subseteq Allowed[r.source.kind]
  /\ r.kept => r.payload \in FeedVersions /\ files[r.payload] # "none"
Admissions ==
  [source : Feeds, manifest : FeedVersions, payload : FeedVersions \cup {Nil}, sbom : FeedVersions \cup {Nil},
   origins : SUBSET Origins, kept : BOOLEAN]

SourcesInv ==
  /\ SourcesTyped /\ Writers
  /\ \A h \in Hosts : acq[h] # Nil => Reads(acq[h])
  /\ admitted \subseteq Admissions /\ \A r \in admitted : AdmissionIsSound(r)

(* A step of a host that holds no lock before or after it.                  *)
LEMMA QuietStep ==
  ASSUME SourcesInv, NEW h \in Hosts, ~Holding(h), NEW a \in Acquisitions \cup {Nil},
         acq' = [acq EXCEPT ![h] = a], a # Nil => Reads(a) /\ a.pc \notin {"write", "rename"},
         UNCHANGED <<place, files, temps, writer>>,
         admitted' \subseteq Admissions, \A r \in admitted' : AdmissionIsSound(r)
  PROVE  SourcesInv'
<1>1. \A g \in Hosts : acq'[g] = IF g = h THEN a ELSE acq[g] BY DEF SourcesInv, SourcesTyped
<1>2. SourcesTyped' BY DEF SourcesInv, SourcesTyped
<1>3. \A g \in Hosts : acq'[g] # Nil => Reads(acq'[g]) BY <1>1 DEF SourcesInv
<1>4. \A g \in Hosts : /\ Holding(g)' = Holding(g)
                       /\ Holding(g) => acq'[g] = acq[g]
    BY <1>1 DEF Holding
<1>5. \A g \in Hosts : Holding(g) => TempOf(g)' = TempOf(g) BY <1>4 DEF TempOf
<1>6. Writers' BY <1>4, <1>5 DEF SourcesInv, Writers
<1>7. \A r \in admitted' : AdmissionIsSound(r)' BY DEF AdmissionIsSound
<1>8. \A x : Reads(x)' = Reads(x) BY DEF Reads
<1> QED BY <1>2, <1>3, <1>6, <1>7, <1>8 DEF SourcesInv

LEMMA SourcesInitInv ==
  ASSUME SourcesAssumption, Acquisition!Init
  PROVE  SourcesInv
<1>1. SourcesTyped BY DEF Acquisition!Init, Acquisition!Absent, SourcesTyped
<1>2. \A h \in Hosts : acq[h] = Nil BY DEF Acquisition!Init
<1>3. Writers BY <1>2 DEF Acquisition!Init, Writers, Holding, SourcesAssumption
<1> QED BY <1>1, <1>2, <1>3 DEF Acquisition!Init, SourcesInv

LEMMA PlacesKeep ==
  ASSUME SourcesInv, NEW s \in Feeds, NEW p \in Acquisition!Parts, NEW v \in FeedVersions, NEW o \in Origins,
         Acquisition!Edit(s, p, v, o)
  PROVE  SourcesInv'
<1>1. UNCHANGED <<acq, files, temps, writer, admitted>>
      /\ place' = [place EXCEPT ![s][p] = [version |-> v, origin |-> o]]
    BY DEF Acquisition!Edit
<1>2. place' \in [Feeds -> [Acquisition!Parts -> PartsFound \cup {Nil}]]
    BY <1>1 DEF SourcesInv, SourcesTyped, PartsFound
<1>3. SourcesTyped' BY <1>1, <1>2 DEF SourcesInv, SourcesTyped
<1> QED BY <1>1, <1>3 DEF SourcesInv, Writers, Holding, TempOf, Reads, AdmissionIsSound

LEMMA BeginKeeps ==
  ASSUME SourcesInv, NEW h \in Hosts, NEW s \in Feeds, Acquisition!Begin(h, s)
  PROVE  SourcesInv'
<1>1. PICK a : a = [source |-> s, pc |-> "manifest", todo |-> <<>>, manifest |-> Nil,
                    payload |-> Nil, sbom |-> Nil, origins |-> {}] OBVIOUS
<1>2. /\ acq[h] = Nil /\ acq' = [acq EXCEPT ![h] = a]
      /\ UNCHANGED <<place, files, temps, writer, admitted>>
    BY <1>1 DEF Acquisition!Begin
<1>3. a \in Acquisitions /\ Reads(a) /\ a.pc = "manifest" BY <1>1 DEF Acquisitions, Reads
<1>4. ~Holding(h) BY <1>2 DEF Holding
<1> QED BY <1>2, <1>3, <1>4, QuietStep DEF SourcesInv

(* The evidence that is read is what the manifest is bound to.              *)
LEMMA EvidenceIsBound ==
  ASSUME NEW s, NEW v
  PROVE  /\ Acquisition!EvidenceOf(s, v) \in Seq({"payload", "sbom"})
         /\ "payload" \notin Declares[v] => Acquisition!EvidenceOf(s, v) \in Seq({"sbom"})
<1> DEFINE pays == IF "payload" \in Declares[v] THEN <<"payload">> ELSE <<>>
           boms == IF "sbom" \in Declares[v] /\ ~s.inline THEN <<"sbom">> ELSE <<>>
<1>0. /\ <<>> \in Seq({"payload", "sbom"}) /\ <<>> \in Seq({"sbom"}) /\ <<"payload">> \in Seq({"payload", "sbom"})
      /\ <<"sbom">> \in Seq({"payload", "sbom"}) /\ <<"sbom">> \in Seq({"sbom"})
    OBVIOUS
<1>1. pays \in Seq({"payload", "sbom"}) /\ boms \in Seq({"payload", "sbom"}) BY <1>0, Zenon
<1>2. "payload" \notin Declares[v] => pays \in Seq({"sbom"}) /\ boms \in Seq({"sbom"}) BY <1>0, Zenon
<1>3. \/ Acquisition!EvidenceOf(s, v) = <<>>
      \/ Acquisition!EvidenceOf(s, v) = pays
      \/ Acquisition!EvidenceOf(s, v) = pays \o boms
    BY DEF Acquisition!EvidenceOf
<1> HIDE DEF pays, boms
<1>4. pays \o boms \in Seq({"payload", "sbom"}) BY <1>1
<1>5. "payload" \notin Declares[v] => pays \o boms \in Seq({"sbom"}) BY <1>2
<1> QED BY <1>0, <1>1, <1>2, <1>3, <1>4, <1>5

LEMMA ManifestKeeps ==
  ASSUME SourcesInv, SourcesAssumption, NEW h \in Hosts, Acquisition!ReadManifest(h)
  PROVE  SourcesInv'
<1>1. PICK a, part, todo, b, pc, sbom :
        /\ a = acq[h] /\ part = place[a.source].manifest
        /\ todo = Acquisition!EvidenceOf(a.source, part.version)
        /\ b = (a.source.kind = "registry" /\ a.source.inline /\ "sbom" \in Declares[part.version])
        /\ pc = IF todo = <<>> THEN "judged" ELSE "evidence"
        /\ sbom = IF b THEN place[a.source].sbom.version ELSE Nil
    OBVIOUS
<1>2. PICK next : next = [a EXCEPT !.pc = pc, !.manifest = part.version, !.todo = todo,
                                   !.origins = {part.origin}, !.sbom = sbom]
    OBVIOUS
<1>3. /\ a # Nil /\ a.pc = "manifest" /\ part # Nil /\ Acquisition!Authorized(a.source, part)
      /\ b => place[a.source].sbom # Nil
      /\ acq' = [acq EXCEPT ![h] = next]
      /\ UNCHANGED <<place, files, temps, writer, admitted>>
    BY <1>1, <1>2 DEF Acquisition!ReadManifest
<1>4. a \in Acquisitions /\ Reads(a) BY <1>1, <1>3 DEF SourcesInv, SourcesTyped
<1>5. a.source \in Feeds BY <1>4 DEF Acquisitions
<1>6. part \in PartsFound /\ place[a.source].sbom \in PartsFound \cup {Nil}
    BY <1>1, <1>3, <1>5 DEF SourcesInv, SourcesTyped, Acquisition!Parts
<1>7. /\ todo \in Seq({"payload", "sbom"})
      /\ "payload" \notin Declares[part.version] => todo \in Seq({"sbom"})
    BY <1>1, EvidenceIsBound
<1>12. sbom \in FeedVersions \cup {Nil} /\ pc \in {"judged", "evidence"} /\ (pc = "evidence" => todo # <<>>)
      /\ part.version \in FeedVersions /\ {part.origin} \in SUBSET Origins
    BY <1>1, <1>3, <1>6 DEF PartsFound
<1>8. next \in Acquisitions BY <1>2, <1>4, <1>7, <1>12 DEF Acquisitions
<1>9. /\ next.source = a.source /\ next.origins = {part.origin} /\ next.pc \in {"judged", "evidence"}
      /\ next.pc = "evidence" => todo # <<>>
      /\ next.todo = todo /\ next.manifest = part.version /\ next.payload = Nil
    BY <1>2, <1>3, <1>4, <1>12 DEF Acquisitions, Reads
<1>10. Reads(next)
  <2>1. a.source.kind \notin {"git", "bare"} => {part.origin} \subseteq Allowed[a.source.kind]
      BY <1>3 DEF Acquisition!Authorized
  <2> QED BY <1>7, <1>9, <1>12, <2>1 DEF Reads
<1>11. ~Holding(h) BY <1>1, <1>3 DEF Holding
<1> QED BY <1>3, <1>8, <1>9, <1>10, <1>11, QuietStep DEF SourcesInv

(* A part of the evidence: its archive only when the manifest is bound to    *)
(* one.                                                                     *)
LEMMA EvidenceKeeps ==
  ASSUME SourcesInv, SourcesAssumption, NEW h \in Hosts, Acquisition!ReadEvidence(h)
  PROVE  SourcesInv'
<1>1. PICK a, p, part, npm, bom, pc :
        /\ a = acq[h] /\ p = Head(a.todo) /\ part = place[a.source][p] /\ npm = (a.source.kind = "npm")
        /\ bom = (p = "sbom" \/ (npm /\ "sbom" \in Declares[a.manifest]))
        /\ pc = IF Len(a.todo) = 1 THEN "judged" ELSE a.pc
    OBVIOUS
<1>2. PICK next : next = [a EXCEPT ![p] = part.version, !.todo = Tail(@), !.origins = @ \cup {part.origin},
                                   !.sbom = IF bom THEN part.version ELSE @, !.pc = pc]
    OBVIOUS
<1>3. /\ a # Nil /\ a.pc = "evidence" /\ part # Nil /\ Acquisition!Authorized(a.source, part)
      /\ acq' = [acq EXCEPT ![h] = next]
      /\ UNCHANGED <<place, files, temps, writer, admitted>>
    BY <1>1, <1>2 DEF Acquisition!ReadEvidence
<1>4. a \in Acquisitions /\ Reads(a) BY <1>1, <1>3 DEF SourcesInv, SourcesTyped
<1>5. a.source \in Feeds /\ a.todo \in Seq({"payload", "sbom"}) /\ a.todo # <<>> BY <1>3, <1>4 DEF Acquisitions, Reads
<1>6. p \in {"payload", "sbom"} /\ Tail(a.todo) \in Seq({"payload", "sbom"}) BY <1>1, <1>5
<1>7. part.version \in FeedVersions /\ part.origin \in Origins
  <2>1. part \in PartsFound
      BY <1>1, <1>3, <1>5, <1>6 DEF SourcesInv, SourcesTyped, Acquisition!Parts
  <2> QED BY <2>1 DEF PartsFound
<1>8. /\ pc \in {"judged", "evidence"}
      /\ pc = "evidence" => Tail(a.todo) # <<>>
  <2>1. Len(Tail(a.todo)) = Len(a.todo) - 1 /\ Len(a.todo) \in Nat BY <1>5
  <2>2. Tail(a.todo) = <<>> => Len(a.todo) = 1
    <3>1. Len(<<>>) = 0 OBVIOUS
    <3> SUFFICES ASSUME Tail(a.todo) = <<>> PROVE Len(a.todo) = 1 OBVIOUS
    <3>2. Len(Tail(a.todo)) = 0 BY <3>1, Zenon
    <3> QED BY <2>1, <3>2
  <2> QED BY <1>1, <1>3, <2>2
<1>9. "payload" \notin Declares[a.manifest] => p = "sbom" /\ Tail(a.todo) \in Seq({"sbom"})
  <2> SUFFICES ASSUME "payload" \notin Declares[a.manifest] PROVE p = "sbom" /\ Tail(a.todo) \in Seq({"sbom"})
      OBVIOUS
  <2>1. a.todo \in Seq({"sbom"}) BY <1>3, <1>4 DEF Reads
  <2> QED BY <1>1, <1>5, <2>1
<1>10. /\ next \in Acquisitions /\ next.source = a.source /\ next.origins = a.origins \cup {part.origin}
       /\ next.pc = pc /\ next.todo = Tail(a.todo) /\ next.manifest = a.manifest
       /\ p = "sbom" => next.payload = a.payload
  <2>1. CASE p = "payload" BY <1>2, <1>4, <1>6, <1>7, <1>8, <2>1 DEF Acquisitions
  <2>2. CASE p = "sbom" BY <1>2, <1>4, <1>6, <1>7, <1>8, <2>2 DEF Acquisitions
  <2> QED BY <1>6, <2>1, <2>2
<1>11. Reads(next)
  <2>1. a.source.kind \notin {"git", "bare"} => a.origins \cup {part.origin} \subseteq Allowed[a.source.kind]
      BY <1>3, <1>4 DEF Acquisition!Authorized, Reads
  <2> QED BY <1>3, <1>4, <1>8, <1>9, <1>10, <2>1 DEF Reads
<1>12. ~Holding(h) BY <1>1, <1>3 DEF Holding
<1> QED BY <1>3, <1>8, <1>10, <1>11, <1>12, QuietStep DEF SourcesInv

LEMMA GiveUpKeeps ==
  ASSUME SourcesInv, NEW h \in Hosts, Acquisition!GiveUp(h)
  PROVE  SourcesInv'
<1>1. ~Holding(h) BY DEF Acquisition!GiveUp, Holding
<1>2. PICK a : a = Nil /\ acq' = [acq EXCEPT ![h] = a] BY DEF Acquisition!GiveUp
<1> QED BY <1>1, <1>2, QuietStep DEF Acquisition!GiveUp, SourcesInv

(* What is admitted is sound when it was proven.                            *)
LEMMA AdmitIsSound ==
  ASSUME SourcesInv, NEW h \in Hosts, acq[h] # Nil, NEW payload \in FeedVersions \cup {Nil}, NEW kept \in BOOLEAN,
         acq[h].manifest \in FeedVersions,
         payload = (IF "payload" \in Declares[acq[h].manifest] THEN acq[h].manifest ELSE Nil),
         acq[h].sbom = (IF "sbom" \in Declares[acq[h].manifest] THEN acq[h].manifest ELSE Nil),
         kept => payload \in FeedVersions /\ files[payload] # "none",
         Acquisition!Admit(h, payload, kept)
  PROVE  admitted' \subseteq Admissions /\ \A r \in admitted' : AdmissionIsSound(r)
<1>1. PICK a, new : /\ a = acq[h]
                    /\ new = [source |-> a.source, manifest |-> a.manifest, payload |-> payload,
                              sbom |-> a.sbom, origins |-> a.origins, kept |-> kept]
    OBVIOUS
<1>2. a \in Acquisitions /\ Reads(a) BY <1>1 DEF SourcesInv, SourcesTyped
<1>3. new \in Admissions BY <1>1, <1>2 DEF Acquisitions, Admissions
<1>4. AdmissionIsSound(new) BY <1>1, <1>2 DEF AdmissionIsSound, Reads
<1>5. admitted' = admitted \cup {new} BY <1>1 DEF Acquisition!Admit
<1> QED BY <1>3, <1>4, <1>5 DEF SourcesInv

LEMMA JudgeKeeps ==
  ASSUME SourcesInv, SourcesAssumption, NEW h \in Hosts, Acquisition!Judge(h)
  PROVE  SourcesInv'
<1>1. PICK a, bound, asked, payload, refused, cached :
        /\ a = acq[h] /\ bound = ("payload" \in Declares[a.manifest])
        /\ asked = (a.payload = Nil /\ bound /\ stored)
        /\ payload = IF asked /\ files[a.manifest] = "whole" THEN a.manifest ELSE a.payload
        /\ refused = ((asked /\ files[a.manifest] \notin {"none", "whole"})
                        \/ ~Acquisition!Proven(a.manifest, payload, a.sbom))
        /\ cached = (bound /\ payload # Nil /\ stored)
    OBVIOUS
<1>2. /\ a # Nil /\ a.pc = "judged" /\ UNCHANGED <<place, files, temps, writer>>
      /\ \/ acq' = [acq EXCEPT ![h] = Nil] /\ UNCHANGED admitted
         \/ /\ ~refused /\ cached /\ UNCHANGED admitted
            /\ acq' = [acq EXCEPT ![h] = [a EXCEPT !.pc = "put", !.payload = payload]]
         \/ ~refused /\ ~cached /\ Acquisition!Admit(h, payload, FALSE)
    BY <1>1 DEF Acquisition!Judge
<1>3. a \in Acquisitions /\ Reads(a) /\ a.manifest \in FeedVersions /\ ~Holding(h)
    BY <1>1, <1>2 DEF SourcesInv, SourcesTyped, Reads, Holding
<1>4. payload \in FeedVersions \cup {Nil} BY <1>1, <1>3 DEF Acquisitions
<1>5. ~refused => /\ payload = IF bound THEN a.manifest ELSE Nil
                  /\ a.sbom = IF "sbom" \in Declares[a.manifest] THEN a.manifest ELSE Nil
    BY <1>1, <1>2, <1>3 DEF Acquisition!Proven, Reads
<1>6. CASE acq' = [acq EXCEPT ![h] = Nil] /\ UNCHANGED admitted
  <2>1. PICK n : n = Nil /\ acq' = [acq EXCEPT ![h] = n] BY <1>6
  <2> QED BY <1>2, <1>3, <1>6, <2>1, QuietStep DEF SourcesInv
<1>7. CASE /\ ~refused /\ cached /\ UNCHANGED admitted
           /\ acq' = [acq EXCEPT ![h] = [a EXCEPT !.pc = "put", !.payload = payload]]
  <2>1. PICK n : n = [a EXCEPT !.pc = "put", !.payload = payload] /\ acq' = [acq EXCEPT ![h] = n] BY <1>7
  <2>2. /\ n \in Acquisitions /\ n.pc = "put" /\ n.payload = payload /\ n.manifest = a.manifest
        /\ n.source = a.source /\ n.origins = a.origins /\ n.sbom = a.sbom
      BY <1>3, <1>4, <2>1 DEF Acquisitions
  <2>3. Reads(n) BY <1>1, <1>3, <1>5, <1>7, <2>2 DEF Reads
  <2> QED BY <1>2, <1>3, <1>7, <2>1, <2>2, <2>3, QuietStep DEF SourcesInv
<1>8. CASE ~refused /\ ~cached /\ Acquisition!Admit(h, payload, FALSE)
  <2>1. admitted' \subseteq Admissions /\ \A r \in admitted' : AdmissionIsSound(r)
      BY <1>1, <1>2, <1>3, <1>4, <1>5, <1>8, AdmitIsSound
  <2>2. PICK n : n = Nil /\ acq' = [acq EXCEPT ![h] = n] BY <1>8 DEF Acquisition!Admit
  <2> QED BY <1>2, <1>3, <2>1, <2>2, QuietStep
<1> QED BY <1>2, <1>6, <1>7, <1>8

-----------------------------------------------------------------------------
(* The temporary file of a host that writes is the one it is about.         *)
LEMMA TempIsItsOwn ==
  ASSUME SourcesInv, SourcesAssumption, NEW h \in Hosts, Holding(h)
  PROVE  Acquisition!Temp(h) = TempOf(h)
<1>1. TempOf(h) \in temps /\ TempOf(h).by = h BY DEF SourcesInv, Writers, TempOf
<1>2. \A t \in temps : t.by = h => t = TempOf(h) BY DEF SourcesInv, Writers, TempOf, SourcesAssumption
<1> QED BY <1>1, <1>2 DEF Acquisition!Temp

(* A step of a host that may hold a lock before or after it.                *)
LEMMA HolderMoves ==
  ASSUME SourcesInv, NEW h \in Hosts, NEW a \in Acquisitions \cup {Nil},
         acq' = [acq EXCEPT ![h] = a], a # Nil => Reads(a), UNCHANGED place,
         files' \in [FeedVersions -> {"none", "whole", "rotten"}],
         writer' \in [FeedVersions -> Hosts \cup {Nil, "dead"}], Writers',
         admitted' \subseteq Admissions, \A r \in admitted' : AdmissionIsSound(r)'
  PROVE  SourcesInv'
<1>1. \A g \in Hosts : acq'[g] = IF g = h THEN a ELSE acq[g] BY DEF SourcesInv, SourcesTyped
<1>2. SourcesTyped' BY DEF SourcesInv, SourcesTyped
<1>3. \A g \in Hosts : acq'[g] # Nil => Reads(acq'[g]) BY <1>1 DEF SourcesInv
<1>4. \A x : Reads(x)' = Reads(x) BY DEF Reads
<1> QED BY <1>2, <1>3, <1>4 DEF SourcesInv

LEMMA TakeLockKeeps ==
  ASSUME SourcesInv, SourcesAssumption, NEW h \in Hosts, Acquisition!TakeLock(h)
  PROVE  SourcesInv'
<1>1. PICK a, v : a = acq[h] /\ v = a.payload OBVIOUS
<1>2. a # Nil /\ a.pc = "put" /\ writer[v] = Nil /\ UNCHANGED <<place, files>>
    BY <1>1 DEF Acquisition!TakeLock
<1>3. a \in Acquisitions /\ Reads(a) /\ a.manifest \in FeedVersions /\ v = a.manifest /\ ~Holding(h)
    BY <1>1, <1>2 DEF SourcesInv, SourcesTyped, Reads, Holding
<1>4. CASE files[v] = "none"
  <2>1. PICK n, t : n = [a EXCEPT !.pc = "write"] /\ t = [version |-> v, by |-> h, whole |-> FALSE] OBVIOUS
  <2>2. /\ writer' = [writer EXCEPT ![v] = h] /\ temps' = temps \cup {t} /\ UNCHANGED admitted
        /\ acq' = [acq EXCEPT ![h] = n]
      BY <1>1, <1>4, <2>1 DEF Acquisition!TakeLock
  <2>3. /\ n \in Acquisitions /\ n.pc = "write" /\ n.payload = v /\ n.manifest = a.manifest
        /\ n.source = a.source /\ n.origins = a.origins /\ n.sbom = a.sbom /\ n.todo = a.todo
      BY <1>1, <1>3, <2>1 DEF Acquisitions
  <2>4. Reads(n) BY <1>1, <1>2, <1>3, <2>3 DEF Reads
  <2>5. \A g \in Hosts : acq'[g] = IF g = h THEN n ELSE acq[g] BY <2>2 DEF SourcesInv, SourcesTyped
  <2>6. h # Nil /\ n # Nil BY <2>3 DEF SourcesAssumption
  <2>7. \A g \in Hosts \ {h} : /\ Holding(g)' = Holding(g) /\ TempOf(g)' = TempOf(g)
                              /\ acq'[g].payload = acq[g].payload
      BY <2>5 DEF Holding, TempOf
  <2>8. Holding(h)' /\ acq'[h].payload = v /\ TempOf(h)' = t
      BY <2>1, <2>3, <2>5, <2>6 DEF Holding, TempOf
  <2>9. /\ writer' \in [FeedVersions -> Hosts \cup {Nil, "dead"}]
        /\ writer'[v] = h /\ \A w \in FeedVersions \ {v} : writer'[w] = writer[w]
      BY <1>3, <2>2 DEF SourcesInv, SourcesTyped
  <2>10. \A g \in Hosts : Holding(g)' => writer'[acq'[g].payload] = g /\ TempOf(g)' \in temps'
    <3> SUFFICES ASSUME NEW g \in Hosts \ {h}, Holding(g)
                 PROVE  writer'[acq[g].payload] = g /\ TempOf(g) \in temps'
        BY <2>2, <2>7, <2>8, <2>9
    <3>1. writer[acq[g].payload] = g /\ TempOf(g) \in temps BY DEF SourcesInv, Writers
    <3>2. acq[g].payload \in FeedVersions BY DEF SourcesInv, Reads, Holding
    <3> QED BY <1>2, <2>2, <2>9, <3>1, <3>2 DEF SourcesAssumption
  <2>11. \A w \in FeedVersions, g \in Hosts : writer'[w] = g => Holding(g)' /\ acq'[g].payload = w
      BY <1>3, <2>7, <2>8, <2>9 DEF SourcesInv, Writers
  <2>12. \A u \in temps' : u.by = "dead" \/ \E g \in Hosts : Holding(g)' /\ u = TempOf(g)'
    <3>1. \A u \in temps : u.by = "dead" \/ \E g \in Hosts : Holding(g)' /\ u = TempOf(g)'
        BY <1>3, <2>7 DEF SourcesInv, Writers
    <3>2. t.by = h BY <2>1
    <3> QED BY <2>2, <2>8, <3>1, <3>2
  <2>13. Writers' BY <2>10, <2>11, <2>12 DEF Writers
  <2>14. admitted' \subseteq Admissions /\ \A r \in admitted' : AdmissionIsSound(r)'
      BY <1>2, <2>2 DEF SourcesInv, AdmissionIsSound
  <2>15. files' \in [FeedVersions -> {"none", "whole", "rotten"}] BY <1>2 DEF SourcesInv, SourcesTyped
  <2> QED BY <1>2, <2>2, <2>3, <2>4, <2>9, <2>13, <2>14, <2>15, HolderMoves
<1>5. CASE files[v] = "whole"
  <2>1. Acquisition!Admit(h, v, TRUE) /\ UNCHANGED <<writer, temps>>
      BY <1>1, <1>5 DEF Acquisition!TakeLock
  <2>2. admitted' \subseteq Admissions /\ \A r \in admitted' : AdmissionIsSound(r)
      BY <1>1, <1>2, <1>3, <1>5, <2>1, AdmitIsSound DEF Reads
  <2>3. PICK n : n = Nil /\ acq' = [acq EXCEPT ![h] = n] BY <2>1 DEF Acquisition!Admit
  <2> QED BY <1>2, <1>3, <2>1, <2>2, <2>3, QuietStep
<1>6. CASE files[v] \notin {"none", "whole"}
  <2>1. UNCHANGED <<writer, temps, admitted>> /\ acq' = [acq EXCEPT ![h] = Nil]
      BY <1>1, <1>6 DEF Acquisition!TakeLock
  <2>2. PICK n : n = Nil /\ acq' = [acq EXCEPT ![h] = n] BY <2>1
  <2> QED BY <1>2, <1>3, <2>1, <2>2, QuietStep DEF SourcesInv
<1> QED BY <1>4, <1>5, <1>6

LEMMA WriteKeeps ==
  ASSUME SourcesInv, SourcesAssumption, NEW h \in Hosts, Acquisition!Write(h)
  PROVE  SourcesInv'
<1>1. PICK a, n, t, u : /\ a = acq[h] /\ n = [a EXCEPT !.pc = "rename"]
                        /\ t = TempOf(h) /\ u = [t EXCEPT !.whole = TRUE]
    OBVIOUS
<1>2. a # Nil /\ a.pc = "write" /\ Holding(h) BY <1>1 DEF Acquisition!Write, Holding
<1>3. /\ acq' = [acq EXCEPT ![h] = n] /\ temps' = (temps \ {t}) \cup {u}
      /\ UNCHANGED <<place, files, writer, admitted>>
    BY <1>1, <1>2, TempIsItsOwn DEF Acquisition!Write
<1>4. a \in Acquisitions /\ Reads(a) BY <1>1, <1>2 DEF SourcesInv, SourcesTyped
<1>5. /\ n \in Acquisitions /\ n.pc = "rename" /\ n.payload = a.payload /\ n.manifest = a.manifest
      /\ n.source = a.source /\ n.origins = a.origins /\ n.sbom = a.sbom /\ n.todo = a.todo
    BY <1>1, <1>4 DEF Acquisitions
<1>6. Reads(n) BY <1>2, <1>4, <1>5 DEF Reads
<1>7. \A g \in Hosts : acq'[g] = IF g = h THEN n ELSE acq[g] BY <1>3 DEF SourcesInv, SourcesTyped
<1>8. n # Nil BY <1>5 DEF SourcesAssumption
<1>9. \A g \in Hosts : Holding(g)' = Holding(g) /\ acq'[g].payload = acq[g].payload
    BY <1>1, <1>2, <1>5, <1>7, <1>8 DEF Holding
<1>10. \A g \in Hosts \ {h} : TempOf(g)' = TempOf(g) BY <1>7 DEF TempOf
<1>11. t = [version |-> a.payload, by |-> h, whole |-> FALSE] /\ u = [version |-> a.payload, by |-> h, whole |-> TRUE]
    BY <1>1, <1>2 DEF TempOf
<1>12. TempOf(h)' = u BY <1>5, <1>7, <1>11 DEF TempOf
<1>13. \A g \in Hosts : Holding(g)' => writer'[acq'[g].payload] = g /\ TempOf(g)' \in temps'
  <2>1. \A g \in Hosts : TempOf(g).by = g BY DEF TempOf
  <2>2. t.by = h BY <1>11
  <2> QED BY <1>3, <1>9, <1>10, <1>12, <2>1, <2>2 DEF SourcesInv, Writers
<1>14. \A w \in FeedVersions, g \in Hosts : writer'[w] = g => Holding(g)' /\ acq'[g].payload = w
    BY <1>3, <1>9 DEF SourcesInv, Writers
<1>15. \A x \in temps' : x.by = "dead" \/ \E g \in Hosts : Holding(g)' /\ x = TempOf(g)'
  <2>1. \A x \in temps \ {t} : x.by = "dead" \/ \E g \in Hosts \ {h} : Holding(g) /\ x = TempOf(g)
      BY <1>1 DEF SourcesInv, Writers
  <2>2. \A x \in temps \ {t} : x.by = "dead" \/ \E g \in Hosts : Holding(g)' /\ x = TempOf(g)'
      BY <1>9, <1>10, <2>1
  <2>3. \E g \in Hosts : Holding(g)' /\ u = TempOf(g)' BY <1>2, <1>9, <1>12
  <2> QED BY <1>3, <2>2, <2>3
<1>16. Writers' BY <1>13, <1>14, <1>15 DEF Writers
<1>17. \A r \in admitted' : AdmissionIsSound(r)' BY <1>3 DEF SourcesInv, AdmissionIsSound
<1> QED BY <1>3, <1>5, <1>6, <1>16, <1>17, HolderMoves DEF SourcesInv, SourcesTyped

(* A host that writes lets go of the lock and of its temporary file.        *)
LEMMA WriterLeaves ==
  ASSUME SourcesInv, SourcesAssumption, NEW h \in Hosts, Holding(h), NEW v, v = acq[h].payload,
         acq' = [acq EXCEPT ![h] = Nil], writer' = [writer EXCEPT ![v] = Nil], temps' = temps \ {TempOf(h)}
  PROVE  Writers' /\ v \in FeedVersions /\ writer' \in [FeedVersions -> Hosts \cup {Nil, "dead"}]
<1>1. \A g \in Hosts : acq'[g] = IF g = h THEN Nil ELSE acq[g] BY DEF SourcesInv, SourcesTyped
<1>2. \A g \in Hosts : Holding(g) => acq[g].payload \in FeedVersions BY DEF SourcesInv, Reads, Holding
<1>3. /\ writer' \in [FeedVersions -> Hosts \cup {Nil, "dead"}]
      /\ writer'[v] = Nil /\ \A w \in FeedVersions \ {v} : writer'[w] = writer[w]
    BY <1>2 DEF SourcesInv, SourcesTyped
<1>4. ~Holding(h)' BY <1>1 DEF Holding
<1>5. \A g \in Hosts \ {h} : /\ Holding(g)' = Holding(g) /\ TempOf(g)' = TempOf(g)
                            /\ acq'[g].payload = acq[g].payload
    BY <1>1 DEF Holding, TempOf
<1>6. \A g \in Hosts : Holding(g)' => writer'[acq'[g].payload] = g /\ TempOf(g)' \in temps'
  <2> SUFFICES ASSUME NEW g \in Hosts \ {h}, Holding(g)
               PROVE  writer'[acq[g].payload] = g /\ TempOf(g) \in temps'
      BY <1>4, <1>5
  <2>1. writer[acq[g].payload] = g /\ writer[v] = h /\ TempOf(g) \in temps BY DEF SourcesInv, Writers
  <2>2. TempOf(g) # TempOf(h) BY DEF TempOf
  <2> QED BY <1>2, <1>3, <2>1, <2>2
<1>7. \A w \in FeedVersions, g \in Hosts : writer'[w] = g => Holding(g)' /\ acq'[g].payload = w
    BY <1>3, <1>5 DEF SourcesInv, Writers, SourcesAssumption
<1>8. \A x \in temps' : x.by = "dead" \/ \E g \in Hosts : Holding(g)' /\ x = TempOf(g)'
    BY <1>5 DEF SourcesInv, Writers
<1> QED BY <1>2, <1>3, <1>6, <1>7, <1>8 DEF Writers

(* What is renamed is whole: it was the host's own file, written to its end. *)
LEMMA RenameKeeps ==
  ASSUME SourcesInv, SourcesAssumption, NEW h \in Hosts, Acquisition!Rename(h)
  PROVE  SourcesInv'
<1>1. PICK a, v : a = acq[h] /\ v = a.payload OBVIOUS
<1>2. a # Nil /\ a.pc = "rename" /\ Holding(h) BY <1>1 DEF Acquisition!Rename, Holding
<1>3. Acquisition!Temp(h) = TempOf(h) /\ TempOf(h).whole = TRUE BY <1>1, <1>2, TempIsItsOwn DEF TempOf
<1>4. /\ files' = [files EXCEPT ![v] = "whole"] /\ temps' = temps \ {TempOf(h)}
      /\ writer' = [writer EXCEPT ![v] = Nil] /\ Acquisition!Admit(h, v, TRUE) /\ UNCHANGED place
    BY <1>1, <1>3 DEF Acquisition!Rename
<1>5. acq' = [acq EXCEPT ![h] = Nil] BY <1>4 DEF Acquisition!Admit
<1>6. Writers' /\ v \in FeedVersions /\ writer' \in [FeedVersions -> Hosts \cup {Nil, "dead"}]
    BY <1>1, <1>2, <1>4, <1>5, WriterLeaves
<1>7. a \in Acquisitions /\ Reads(a) /\ a.manifest \in FeedVersions BY <1>1, <1>2 DEF SourcesInv, SourcesTyped, Reads
<1>8. /\ files' \in [FeedVersions -> {"none", "whole", "rotten"}] /\ files'[v] = "whole"
      /\ \A w \in FeedVersions : files[w] # "none" => files'[w] # "none"
    BY <1>4, <1>6 DEF SourcesInv, SourcesTyped
<1>9. PICK new : new = [source |-> a.source, manifest |-> a.manifest, payload |-> v,
                        sbom |-> a.sbom, origins |-> a.origins, kept |-> TRUE]
    OBVIOUS
<1>10. admitted' = admitted \cup {new} BY <1>1, <1>4, <1>9 DEF Acquisition!Admit
<1>11. new \in Admissions BY <1>6, <1>7, <1>9 DEF Acquisitions, Admissions
<1>12. AdmissionIsSound(new)' BY <1>1, <1>2, <1>6, <1>7, <1>8, <1>9 DEF AdmissionIsSound, Reads
<1>13. \A r \in admitted : AdmissionIsSound(r)' BY <1>8 DEF SourcesInv, AdmissionIsSound
<1>14. PICK n : n = Nil /\ acq' = [acq EXCEPT ![h] = n] BY <1>5
<1> QED BY <1>4, <1>6, <1>8, <1>10, <1>11, <1>12, <1>13, <1>14, HolderMoves DEF SourcesInv

LEMMA WriteFailsKeeps ==
  ASSUME SourcesInv, SourcesAssumption, NEW h \in Hosts, Acquisition!WriteFails(h)
  PROVE  SourcesInv'
<1>1. PICK v : v = acq[h].payload OBVIOUS
<1>2. Holding(h) BY DEF Acquisition!WriteFails, Holding
<1>3. /\ temps' = temps \ {TempOf(h)} /\ writer' = [writer EXCEPT ![v] = Nil]
      /\ acq' = [acq EXCEPT ![h] = Nil] /\ UNCHANGED <<place, files, admitted>>
    BY <1>1, <1>2, TempIsItsOwn DEF Acquisition!WriteFails
<1>4. Writers' /\ writer' \in [FeedVersions -> Hosts \cup {Nil, "dead"}] BY <1>1, <1>2, <1>3, WriterLeaves
<1>5. \A r \in admitted' : AdmissionIsSound(r)' BY <1>3 DEF SourcesInv, AdmissionIsSound
<1>6. PICK n : n = Nil /\ acq' = [acq EXCEPT ![h] = n] BY <1>3
<1> QED BY <1>3, <1>4, <1>5, <1>6, HolderMoves DEF SourcesInv, SourcesTyped

(* The dead leave their lock and their temporary file behind.               *)
LEMMA CrashKeeps ==
  ASSUME SourcesInv, SourcesAssumption, NEW h \in Hosts, Acquisition!Crash(h)
  PROVE  SourcesInv'
<1>1. /\ writer' = [v \in FeedVersions |-> IF writer[v] = h THEN "dead" ELSE writer[v]]
      /\ temps' = {IF t.by = h THEN [t EXCEPT !.by = "dead"] ELSE t : t \in temps}
      /\ acq' = [acq EXCEPT ![h] = Nil] /\ UNCHANGED <<place, files, admitted>>
    BY DEF Acquisition!Crash
<1>2. \A g \in Hosts : acq'[g] = IF g = h THEN Nil ELSE acq[g] BY <1>1 DEF SourcesInv, SourcesTyped
<1>3. ~Holding(h)' BY <1>2 DEF Holding
<1>4. \A g \in Hosts \ {h} : /\ Holding(g)' = Holding(g) /\ TempOf(g)' = TempOf(g)
                            /\ acq'[g].payload = acq[g].payload
    BY <1>2 DEF Holding, TempOf
<1>5. writer' \in [FeedVersions -> Hosts \cup {Nil, "dead"}] BY <1>1 DEF SourcesInv, SourcesTyped
<1>6. \A g \in Hosts : Holding(g)' => writer'[acq'[g].payload] = g /\ TempOf(g)' \in temps'
  <2> SUFFICES ASSUME NEW g \in Hosts \ {h}, Holding(g)
               PROVE  writer'[acq[g].payload] = g /\ TempOf(g) \in temps'
      BY <1>3, <1>4
  <2>1. writer[acq[g].payload] = g /\ TempOf(g) \in temps /\ TempOf(g).by = g BY DEF SourcesInv, Writers, TempOf
  <2>2. acq[g].payload \in FeedVersions BY DEF SourcesInv, Reads, Holding
  <2> QED BY <1>1, <2>1, <2>2
<1>7. \A w \in FeedVersions, g \in Hosts : writer'[w] = g => Holding(g)' /\ acq'[g].payload = w
    BY <1>1, <1>4 DEF SourcesInv, Writers, SourcesAssumption
<1>8. \A x \in temps' : x.by = "dead" \/ \E g \in Hosts : Holding(g)' /\ x = TempOf(g)'
  <2> SUFFICES ASSUME NEW t \in temps
               PROVE  \/ t.by = h /\ [t EXCEPT !.by = "dead"].by = "dead"
                      \/ t.by # h /\ (t.by = "dead" \/ \E g \in Hosts : Holding(g)' /\ t = TempOf(g)')
      BY <1>1
  <2>1. t.by = "dead" \/ \E g \in Hosts : Holding(g) /\ t = TempOf(g) BY DEF SourcesInv, Writers
  <2>2. CASE t.by = h
    <3>1. t = [version |-> acq[h].payload, by |-> h, whole |-> acq[h].pc = "rename"]
        BY <2>1, <2>2 DEF TempOf, SourcesAssumption
    <3> QED BY <2>2, <3>1
  <2>3. CASE t.by # h
    <3>1. \A g \in Hosts : TempOf(g).by = g BY DEF TempOf
    <3> QED BY <1>4, <2>1, <2>3, <3>1
  <2> QED BY <2>2, <2>3
<1>9. Writers' BY <1>6, <1>7, <1>8 DEF Writers
<1>10. \A r \in admitted' : AdmissionIsSound(r)' BY <1>1 DEF SourcesInv, AdmissionIsSound
<1>11. PICK n : n = Nil /\ acq' = [acq EXCEPT ![h] = n] BY <1>1
<1> QED BY <1>1, <1>5, <1>9, <1>10, <1>11, HolderMoves DEF SourcesInv, SourcesTyped

LEMMA FileRotKeeps ==
  ASSUME SourcesInv, NEW v \in FeedVersions, Acquisition!Rot(v)
  PROVE  SourcesInv'
<1>1. files' = [files EXCEPT ![v] = "rotten"] /\ UNCHANGED <<place, acq, temps, writer, admitted>>
    BY DEF Acquisition!Rot
<1>2. /\ files' \in [FeedVersions -> {"none", "whole", "rotten"}]
      /\ \A w \in FeedVersions : files[w] # "none" => files'[w] # "none"
    BY <1>1 DEF SourcesInv, SourcesTyped
<1>3. SourcesTyped' BY <1>1, <1>2 DEF SourcesInv, SourcesTyped
<1>4. \A r \in admitted : AdmissionIsSound(r)' BY <1>2 DEF SourcesInv, AdmissionIsSound
<1> QED BY <1>1, <1>3, <1>4 DEF SourcesInv, Writers, Holding, TempOf, Reads

(* Nobody alive holds the lock that is broken; who relied on the rot no      *)
(* longer has the archive kept.                                             *)
LEMMA RepairKeeps ==
  ASSUME SourcesInv, SourcesAssumption, NEW v \in FeedVersions, Acquisition!Repair(v)
  PROVE  SourcesInv'
<1>1. PICK rotten : rotten = (files[v] = "rotten") OBVIOUS
<1>2. /\ writer[v] \in {"dead", Nil} /\ writer' = [writer EXCEPT ![v] = Nil]
      /\ files' = [files EXCEPT ![v] = IF rotten THEN "none" ELSE @]
      /\ admitted' = {IF r.payload = v /\ rotten THEN [r EXCEPT !.kept = FALSE] ELSE r : r \in admitted}
      /\ UNCHANGED <<place, acq, temps>>
    BY <1>1 DEF Acquisition!Repair
<1>3. /\ writer' \in [FeedVersions -> Hosts \cup {Nil, "dead"}]
      /\ writer'[v] = Nil /\ \A w \in FeedVersions \ {v} : writer'[w] = writer[w]
    BY <1>2 DEF SourcesInv, SourcesTyped
<1>4. /\ files' \in [FeedVersions -> {"none", "whole", "rotten"}]
      /\ \A w \in FeedVersions : w # v \/ ~rotten => files'[w] = files[w]
    BY <1>2 DEF SourcesInv, SourcesTyped
<1>5. SourcesTyped' BY <1>2, <1>3, <1>4 DEF SourcesInv, SourcesTyped
<1>6. \A h \in Hosts : Holding(h) => acq[h].payload \in FeedVersions BY DEF SourcesInv, Reads, Holding
<1>7. \A h \in Hosts : Holding(h)' = Holding(h) /\ TempOf(h)' = TempOf(h) BY <1>2 DEF Holding, TempOf
<1>8. Writers'
  <2>1. \A h \in Hosts : Holding(h) => writer'[acq[h].payload] = h /\ TempOf(h) \in temps
      BY <1>2, <1>3, <1>6 DEF SourcesInv, Writers, SourcesAssumption
  <2>2. \A w \in FeedVersions, g \in Hosts : writer'[w] = g => Holding(g) /\ acq[g].payload = w
      BY <1>3 DEF SourcesInv, Writers, SourcesAssumption
  <2> QED BY <1>2, <1>7, <2>1, <2>2 DEF SourcesInv, Writers
<1>9. \A r \in admitted' : r \in Admissions /\ AdmissionIsSound(r)'
  <2> SUFFICES ASSUME NEW r \in admitted, NEW q, q = IF r.payload = v /\ rotten THEN [r EXCEPT !.kept = FALSE] ELSE r
               PROVE  q \in Admissions /\ AdmissionIsSound(q)'
      BY <1>2
  <2>1. r \in Admissions /\ AdmissionIsSound(r) BY DEF SourcesInv
  <2>2. CASE r.payload = v /\ rotten
    <3>1. /\ q \in Admissions /\ q.kept = FALSE /\ q.payload = r.payload /\ q.manifest = r.manifest
          /\ q.sbom = r.sbom /\ q.source = r.source /\ q.origins = r.origins
        BY <2>1, <2>2 DEF Admissions
    <3> QED BY <2>1, <3>1 DEF AdmissionIsSound
  <2>3. CASE ~(r.payload = v /\ rotten) BY <1>4, <2>1, <2>3 DEF AdmissionIsSound
  <2> QED BY <2>2, <2>3
<1>10. \A x : Reads(x)' = Reads(x) BY DEF Reads
<1> QED BY <1>2, <1>5, <1>8, <1>9, <1>10 DEF SourcesInv

LEMMA CacheLoadKeeps ==
  ASSUME SourcesInv, Acquisition!Load \/ UNCHANGED Acquisition!srcVars
  PROVE  SourcesInv'
<1>1. UNCHANGED <<place, acq, files, temps, writer, admitted>> BY DEF Acquisition!Load, Acquisition!srcVars
<1> QED BY <1>1 DEF SourcesInv, SourcesTyped, Writers, Holding, TempOf, Reads, AdmissionIsSound

(* Every step of the hosts, of those who publish and of the disk keeps the   *)
(* invariant.                                                               *)
THEOREM SourcesInductive ==
  SourcesAssumption /\ SourcesInv /\ [Acquisition!Next]_(Acquisition!srcVars) => SourcesInv'
<1> SUFFICES ASSUME SourcesAssumption, SourcesInv, [Acquisition!Next]_(Acquisition!srcVars) PROVE SourcesInv' OBVIOUS
<1>1. CASE \E s \in Feeds, p \in Acquisition!Parts, v \in FeedVersions, o \in Origins : Acquisition!Edit(s, p, v, o)
    BY <1>1, PlacesKeep
<1>2. ASSUME NEW h \in Hosts, \E s \in Feeds : Acquisition!Begin(h, s) PROVE SourcesInv' BY <1>2, BeginKeeps
<1>3. ASSUME NEW h \in Hosts, Acquisition!ReadManifest(h) PROVE SourcesInv' BY <1>3, ManifestKeeps
<1>4. ASSUME NEW h \in Hosts, Acquisition!ReadEvidence(h) PROVE SourcesInv' BY <1>4, EvidenceKeeps
<1>5. ASSUME NEW h \in Hosts, Acquisition!GiveUp(h) PROVE SourcesInv' BY <1>5, GiveUpKeeps
<1>6. ASSUME NEW h \in Hosts, Acquisition!Judge(h) PROVE SourcesInv' BY <1>6, JudgeKeeps
<1>7. ASSUME NEW h \in Hosts, Acquisition!TakeLock(h) PROVE SourcesInv' BY <1>7, TakeLockKeeps
<1>8. ASSUME NEW h \in Hosts, Acquisition!Write(h) PROVE SourcesInv' BY <1>8, WriteKeeps
<1>9. ASSUME NEW h \in Hosts, Acquisition!Rename(h) PROVE SourcesInv' BY <1>9, RenameKeeps
<1>10. ASSUME NEW h \in Hosts, Acquisition!WriteFails(h) PROVE SourcesInv' BY <1>10, WriteFailsKeeps
<1>11. ASSUME NEW h \in Hosts, Acquisition!Crash(h) PROVE SourcesInv' BY <1>11, CrashKeeps
<1>12. CASE \E v \in FeedVersions : Acquisition!Rot(v) BY <1>12, FileRotKeeps
<1>13. CASE \E v \in FeedVersions : Acquisition!Repair(v) BY <1>13, RepairKeeps
<1>14. CASE Acquisition!Load \/ UNCHANGED Acquisition!srcVars BY <1>14, CacheLoadKeeps
<1> QED BY <1>1, <1>2, <1>3, <1>4, <1>5, <1>6, <1>7, <1>8, <1>9, <1>10, <1>11, <1>12, <1>13, <1>14
      DEF Acquisition!Next

(* What a Host acquires is of one version, though its place was edited while *)
(* it was read, and every part was read where the configuration allows; the  *)
(* cache holds nothing half written, however hosts die over it; what was     *)
(* admitted with the cache stays in it; and one host at a time writes a name.*)
THEOREM AcquisitionsAreSound == ASSUME SourcesAssumption PROVE Acquisition!Spec => []SourcesAreSound
<1>1. Acquisition!Init => SourcesInv BY SourcesInitInv
<1>2. SourcesInv /\ [Acquisition!Next]_(Acquisition!srcVars) => SourcesInv' BY SourcesInductive
<1>3. SourcesInv => SourcesAreSound
  <2> SUFFICES ASSUME SourcesInv PROVE SourcesAreSound OBVIOUS
  <2>1. \A r \in admitted : AdmissionIsSound(r) BY DEF SourcesInv
  <2>2. \A v \in FeedVersions : files[v] \in {"none", "whole", "rotten"} BY DEF SourcesInv, SourcesTyped
  <2>3. \A h \in Hosts : acq[h] # Nil /\ acq[h].pc \in {"write", "rename"} => writer[acq[h].payload] = h
      BY DEF SourcesInv, Writers, Holding
  <2> QED BY <2>1, <2>2, <2>3 DEF SourcesAreSound, Acquisition!SourcesAreSound, AdmissionIsSound
<1> QED BY <1>1, <1>2, <1>3, PTL DEF Acquisition!Spec
=============================================================================
