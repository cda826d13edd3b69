--------------------------- MODULE PackageRegistry ---------------------------
(***************************************************************************)
(* RpRegistry of packages/rp/registry: published releases, revocations,    *)
(* evidence policies, and the mutations install, update, uninstall and     *)
(* restore, of which one at a time is under way.  A mutation runs to its   *)
(* next await: a source that resolves, an adapter that prepares, the       *)
(* installation store (packages/rp/registry-durable) that writes.  Between *)
(* two awaits everything else may change: releases come and go, revocations *)
(* and policies change, adapters and the store are unregistered, the       *)
(* process crashes.                                                        *)
(*                                                                         *)
(* Disposers of lifecycles are total, as the package's README requires; a  *)
(* preparation, an activation, a source and the store may fail.  What one  *)
(* acquisition awaits, its source, then the artifact store for a payload   *)
(* and again to keep it, is one step.                                      *)
(***************************************************************************)
EXTENDS PackageLock

CONSTANTS
  Policies,      \* install policies: [appliesTo, requires]
  Keys,          \* signing keys
  Revocable,     \* revocations that may be made: [id, version or None]
  Services,      \* what plugins register: "provider", "cache", adapters by trust level
  Dynamic,       \* services whose plugin may go away and come back
  Deliveries,    \* what sources hand over beside the manifest
  Firsthand,     \* manifests some plugin publishes as metadata
  MaxFaults,     \* bound on failures and crashes
  MaxChanges     \* bound on changes from outside

ASSUME RegistryAssumption ==
  /\ Dynamic \subseteq Services
  /\ Deliveries \subseteq Delivery /\ Firsthand \subseteq Hashes
  /\ {MaxFaults, MaxChanges} \subseteq Nat

VARIABLES
  releases,      \* manifest hash -> evidence verified, for published releases
  published,     \* releases whose publish() disposer would still remove them
  cache,         \* archives in the artifact store
  admin,         \* services, policies, trusted keys, revocations
  installations, \* root -> None or its lock
  active,        \* activePackages: id -> None or [hash, owners, adapted]
  live,          \* hashes whose activation is in force in the runtime
  prepared,      \* preparations neither activated nor disposed of
  op,            \* the mutation under way
  answer,        \* how the last mutation ended
  durable,       \* root -> None or the lock the installation store holds
  boot,          \* whether registry-durable has loaded: "no", "ok", "failed"
  unsaved,       \* roots last committed while no store was registered
  lost,          \* an adapter failed on the way back, so what was there is gone
  stranded,      \* the root whose update threw after the store was written, and
                 \* the packages of its previous and of its new lock
  used           \* mishaps so far

vars == <<releases, published, cache, admin, installations, active, live, prepared, op,
          answer, durable, boot, unsaved, lost, stranded, used>>

Ids == {Id(h) : h \in Hashes}
Sources == {Manifest[h].source : h \in Hashes}
Idle == op.kind = "none"
NoOp == [kind |-> "none", phase |-> "none", root |-> None, source |-> None, fresh |-> {},
         lock |-> <<>>, acquire |-> <<>>, todo |-> <<>>, ready |-> <<>>, old |-> <<>>,
         oldTodo |-> <<>>, records |-> <<>>, done |-> <<>>, banned |-> {}, storing |-> FALSE,
         before |-> None]

Fresh == [services |-> Services, policies |-> {}, trustedKeys |-> Keys,
          revocations |-> {}, revokedKeys |-> {}]
Nothing == [i \in Ids |-> None]
NotStranded == [root |-> None, packages |-> {}]
Empty == [h \in {} |-> FALSE]

Init ==
  /\ releases = Empty /\ published = {} /\ cache = {} /\ admin = Fresh
  /\ installations = Nothing /\ active = Nothing /\ live = {} /\ prepared = {}
  /\ op = NoOp /\ answer = "none"
  /\ durable = Nothing /\ boot = "no" /\ unsaved = {} /\ lost = FALSE
  /\ stranded = NotStranded
  /\ used = [faults |-> 0, changes |-> 0]

Faults(n) == used.faults + n <= MaxFaults /\ used' = [used EXCEPT !.faults = @ + n]
Fault == Faults(1)
Change == used.changes < MaxChanges /\ used' = [used EXCEPT !.changes = @ + 1]

Catalog(rels) ==
  [releases |-> rels, revocations |-> admin.revocations, revokedKeys |-> admin.revokedKeys,
   trustedKeys |-> admin.trustedKeys, policies |-> admin.policies]
Without(rels, H) == [h \in DOMAIN rels \ H |-> rels[h]]
StoreRegistered == boot = "ok" \/ op.kind = "restore"

-----------------------------------------------------------------------------
(* Everything beside the mutations.                                        *)

Administered == UNCHANGED <<cache, installations, active, live, prepared, answer, durable,
                            boot, unsaved, lost, stranded>>

Publish(h) ==
  /\ h \in Firsthand /\ Change
  /\ ~RequiresEvidence(admin.policies, h)
  /\ \A g \in DOMAIN releases : ~SameVersion(g, h)
  /\ releases' = releases @@ (h :> FALSE)
  /\ published' = published \cup {h}
  /\ UNCHANGED <<admin, op>> /\ Administered

Withdraw(h) ==
  /\ h \in published /\ Change
  /\ releases' = Without(releases, {h})
  /\ published' = published \ {h}
  /\ UNCHANGED <<admin, op>> /\ Administered

Toggle(set, x) == IF x \in set THEN set \ {x} ELSE set \cup {x}

(* revoke() and the disposer it returns; a mutation remembers which          *)
(* revocations have been in force since it was called.                     *)
Revoke(r) ==
  /\ r \in Revocable /\ Change
  /\ admin' = [admin EXCEPT !.revocations = Toggle(@, r)]
  /\ op' = [op EXCEPT !.banned = @ \ {r}]
  /\ UNCHANGED <<releases, published>> /\ Administered

RevokeSigningKey(k) ==
  /\ k \in Keys /\ Change
  /\ admin' = [admin EXCEPT !.revokedKeys = Toggle(@, k)]
  /\ UNCHANGED <<releases, published, op>> /\ Administered

TrustSigningKey(k) ==
  /\ k \in Keys /\ Change
  /\ admin' = [admin EXCEPT !.trustedKeys = Toggle(@, k)]
  /\ UNCHANGED <<releases, published, op>> /\ Administered

SetPolicy(p) ==
  /\ p \in Policies /\ Change
  /\ admin' = [admin EXCEPT !.policies = Toggle(@, p)]
  /\ UNCHANGED <<releases, published, op>> /\ Administered

Provide(s) ==
  /\ s \in Dynamic /\ Change
  /\ admin' = [admin EXCEPT !.services = Toggle(@, s)]
  /\ UNCHANGED <<releases, published, op>> /\ Administered

-----------------------------------------------------------------------------
(* Acquisition: one manifest and what comes with it, verified, cached and  *)
(* published as a release unless it already is one.                        *)

Acquire(h, d) ==
  LET m == Manifest[h]
      caching == "cache" \in admin.services /\ m.sha
      payload == IF d.payload = "absent" /\ caching /\ h \in cache THEN "good" ELSE d.payload
      refusal == EvidenceRefusal(Catalog(releases), h, [d EXCEPT !.payload = payload])
      cached == IF caching /\ refusal = "none" THEN cache \cup {h} ELSE cache
      code == IF refusal # "none" THEN refusal
              ELSE IF \E g \in DOMAIN releases \ {h} : SameVersion(g, h) THEN "DUPLICATE"
              ELSE "none"
      known == h \in DOMAIN releases
      stored == h :> (ProvesEvidence(h) \/ (known /\ releases[h]))
  IN  [code |-> code, cache |-> cached,
       releases |-> IF code = "none" THEN stored @@ releases ELSE releases,
       fresh |-> IF code = "none" /\ ~known THEN {h} ELSE {},
       promoted |-> IF code = "none" /\ known /\ ~releases[h] /\ ProvesEvidence(h) THEN {h} ELSE {}]

Offered(source) == {h \in Hashes : Manifest[h].source = source}

SameAsActive(h) == active[Id(h)] # None /\ Manifest[active[Id(h)].hash].version = Manifest[h].version
NewEntries(lock) == SelectSeq(lock, LAMBDA e : ~SameAsActive(e.hash))

(* A version in use may be replaced only by the root that alone owns it.    *)
Conflicts(lock, replacing) ==
  \E i \in DOMAIN lock :
    LET a == active[Id(lock[i].hash)]
    IN  /\ a # None /\ ~SameAsActive(lock[i].hash)
        /\ a.owners # replacing \/ replacing = {}

ExclusiveTo(root, lock) ==
  SelectSeq([i \in DOMAIN lock |-> Id(lock[i].hash)], LAMBDA i : active[i].owners = {root})
Replaced(root, lock) ==
  SelectSeq(ExclusiveTo(root, installations[root]),
            LAMBDA i : \A k \in DOMAIN lock : Id(lock[k].hash) = i => ~SameAsActive(lock[k].hash))
Adapted(ids) == SelectSeq(ids, LAMBDA i : active[i].adapted)
HashesOf(ids) == {active[ids[i]].hash : i \in DOMAIN ids}

(* What a mutation that fails must leave as it found it.                    *)
Kept == [installations |-> installations, active |-> active, live |-> live, durable |-> durable]

(* No mutation is called once an adapter failed on the way back or an update *)
(* was stranded: what follows, until the Host restarts, is not explored.    *)
Begin(kind, fields) ==
  /\ Idle /\ ~lost /\ stranded = NotStranded
  /\ op' = fields @@ [NoOp EXCEPT !.kind = kind, !.banned = admin.revocations,
                        !.before = Kept]
  /\ answer' = "none"
  /\ UNCHANGED <<releases, published, cache, admin, installations, active, live, prepared,
                 durable, unsaved, lost, stranded, used>>

StartInstall(s) ==
  /\ "provider" \in admin.services
  /\ Begin("install", [phase |-> "acquire", source |-> s]) /\ UNCHANGED boot
StartUpdate(s) ==
  /\ "provider" \in admin.services
  /\ Begin("update", [phase |-> "acquire", source |-> s]) /\ UNCHANGED boot
StartUninstall(root) ==
  /\ installations[root] # None
  /\ LET old == ExclusiveTo(root, installations[root])
     IN  Begin("uninstall", [phase |-> "prepare", root |-> root, old |-> old,
                             oldTodo |-> Adapted(old)])
  /\ UNCHANGED boot

(* The mutation ends; what it published goes again unless it is kept.       *)
End(result) == op' = NoOp /\ answer' = result /\ prepared' = {}

Acquired ==
  /\ op.phase = "acquire"
  /\ \E h \in Offered(op.source), d \in Deliveries : \E a \in {Acquire(h, d)} :
     \E found \in {LockOf(Catalog(a.releases), Id(h), Exactly(h))} :
       LET root == Id(h)
           lock == found.entries
           current == installations[root]
           unchanged == current # None /\ found.code = "none" /\ current = lock
           refused == \/ a.code # "none" \/ found.code # "none"
                      \/ op.kind = "update" /\ current = None
                      \/ ~UniqueVersions(lock)
                      \/ ~unchanged /\ \/ op.kind = "install" /\ current # None
                                       \/ Conflicts(lock, IF op.kind = "update" THEN {root} ELSE {})
           old == IF op.kind = "update" THEN Replaced(root, lock) ELSE <<>>
       IN  /\ cache' = a.cache
           /\ published' = published \ a.promoted
           /\ releases' = IF refused THEN Without(a.releases, a.fresh) ELSE a.releases
           /\ IF refused \/ unchanged THEN End(IF refused THEN "failed" ELSE "ok")
              ELSE /\ op' = [op EXCEPT !.phase = "prepare", !.root = root, !.fresh = a.fresh,
                               !.lock = lock, !.todo = NewEntries(lock), !.old = old,
                               !.oldTodo = Adapted(old)]
                   /\ UNCHANGED <<answer, prepared>>
  /\ UNCHANGED <<admin, installations, active, live, durable, boot, unsaved, lost, stranded, used>>

AcquireFails ==
  /\ op.phase = "acquire" /\ Fault
  /\ End("failed")
  /\ UNCHANGED <<releases, published, cache, admin, installations, active, live, durable,
                 boot, unsaved, lost, stranded>>

-----------------------------------------------------------------------------
(* A mutation fails before anything was activated or after it was taken    *)
(* back: preparations are disposed of and fresh releases withdrawn.  A      *)
(* restoration goes on to take back the roots it has already restored.     *)

Unwind(roots) ==
  LET old == ExclusiveTo(roots[1], installations[roots[1]])
  IN  op' = [op EXCEPT !.phase = "unwind", !.done = roots, !.todo = <<>>, !.ready = <<>>,
               !.fresh = {}, !.old = IF roots = <<>> THEN <<>> ELSE old,
               !.oldTodo = IF roots = <<>> THEN <<>> ELSE Adapted(old)]

Abandon ==
  /\ releases' = Without(releases, op.fresh)
  /\ IF op.kind = "restore" THEN prepared' = {} /\ Unwind(Reverse(op.done)) /\ UNCHANGED answer
     ELSE End("failed")

HasAdapter(h) == Manifest[h].trust \in admin.services /\ Manifest[h].runtime

(* The release a locked entry stands for now, and whether an adapter runs it. *)
Found(e) == Resolve(Catalog(releases), Id(e.hash), Exactly(e.hash))
CanRun(h) == HasAdapter(h) \/ Manifest[h].trust = "L0"

PrepareNew ==
  /\ op.phase = "prepare" /\ op.todo # <<>>
  /\ LET found == Found(Head(op.todo))
         h == found.hash
         runs == found.code = "none" /\ CanRun(h)
     IN  \/ /\ runs
            /\ op' = [op EXCEPT !.todo = Tail(@),
                         !.ready = Append(@, [hash |-> h, adapted |-> HasAdapter(h)])]
            /\ prepared' = IF HasAdapter(h) THEN prepared \cup {<<h, "new">>} ELSE prepared
            /\ UNCHANGED <<releases, answer, used>>
         \/ ~runs /\ Abandon /\ UNCHANGED used
         \/ runs /\ HasAdapter(h) /\ Fault /\ Abandon
  /\ UNCHANGED <<published, cache, admin, installations, active, live, durable, boot, unsaved, lost, stranded>>

(* The way back is prepared before anything is deactivated.                 *)
PrepareOld ==
  /\ op.phase \in {"prepare", "unwind"} /\ op.todo = <<>> /\ op.oldTodo # <<>>
  /\ op' = [op EXCEPT !.oldTodo = Tail(@)]
  /\ prepared' = prepared \cup {<<active[Head(op.oldTodo)].hash, "old">>}
  /\ UNCHANGED <<releases, published, cache, admin, installations, active, live, answer,
                 durable, boot, unsaved, lost, stranded, used>>

PrepareOldFails ==
  /\ op.phase = "prepare" /\ op.todo = <<>> /\ op.oldTodo # <<>> /\ Fault
  /\ Abandon
  /\ UNCHANGED <<published, cache, admin, installations, active, live, durable, boot, unsaved, lost, stranded>>

ReadyHashes == {op.ready[i].hash : i \in {j \in DOMAIN op.ready : op.ready[j].adapted}}
OldHashes == HashesOf(Adapted(op.old))
Claims(H) == UNION {Manifest[h].claims : h \in H}
Clash(H, running) ==
  \/ Claims(H) \cap Claims(running) # {}
  \/ \E g, h \in H : g # h /\ Claims({g}) \cap Claims({h}) # {}

(* Slip: the new lifecycles are left running beside the previous ones.      *)
SlipTakeBackAfter(faults) ==
  \/ live' = live \cup OldHashes /\ UNCHANGED lost /\ Faults(faults)
  \/ /\ OldHashes # {} /\ Faults(faults + 1)
     /\ live' = live \ (ReadyHashes \cup OldHashes) /\ lost' = TRUE

(* What a failure after the deactivation leaves: the previous lifecycles    *)
(* again, or, when one of them fails too, none of them.                    *)
TakeBackAfter(faults) ==
  \/ live' = (live \ ReadyHashes) \cup OldHashes /\ UNCHANGED lost /\ Faults(faults)
  \/ /\ OldHashes # {} /\ Faults(faults + 1)
     /\ live' = live \ (ReadyHashes \cup OldHashes) /\ lost' = TRUE

(* Deactivation of what goes and activation of what comes are one          *)
(* synchronous step.                                                       *)
Swap ==
  /\ op.phase = "prepare" /\ op.kind # "restore" /\ op.todo = <<>> /\ op.oldTodo = <<>>
  /\ \/ /\ ~Clash(ReadyHashes, live \ OldHashes)
        /\ live' = (live \ OldHashes) \cup ReadyHashes
        /\ prepared' = {p \in prepared : p[2] = "old"}
        /\ op' = [op EXCEPT !.phase = "persist", !.storing = StoreRegistered]
        /\ UNCHANGED <<releases, answer, lost, used>>
     \/ Clash(ReadyHashes, live \ OldHashes) /\ TakeBackAfter(0) /\ Abandon
     \/ ReadyHashes # {} /\ TakeBackAfter(1) /\ Abandon
  /\ UNCHANGED <<published, cache, admin, installations, active, durable, boot, unsaved, stranded>>

-----------------------------------------------------------------------------
(* Slip: a shared package is dropped with the first of its owners.          *)
SlipDisowned(root) ==
  [i \in Ids |-> IF active[i] = None \/ root \in active[i].owners THEN None ELSE active[i]]

(* Ownership after root is given up, and after it has taken a lock.         *)
Disowned(root) ==
  [i \in Ids |-> IF active[i] = None \/ active[i].owners = {root} THEN None
                 ELSE [active[i] EXCEPT !.owners = @ \ {root}]]

Owned(act, root, lock) ==
  [i \in Ids |->
     IF i \notin LockIds(lock) THEN act[i]
     ELSE LET e == lock[CHOOSE k \in DOMAIN lock : Id(lock[k].hash) = i]
              kept == act[i] # None /\ Manifest[act[i].hash].version = Manifest[e.hash].version
              new == op.ready[CHOOSE k \in DOMAIN op.ready : Id(op.ready[k].hash) = i]
          IN  IF kept THEN [act[i] EXCEPT !.owners = @ \cup {root}]
              ELSE [hash |-> new.hash, owners |-> {root}, adapted |-> new.adapted]]

PutActive(root, lock) ==
  active' = Owned(IF op.kind = "update" THEN Disowned(root) ELSE active, root, lock)
Stored(lock) == durable' = IF op.storing THEN [durable EXCEPT ![op.root] = lock] ELSE durable

(* An update gives up what its root owned before it takes the new lock: a    *)
(* package that the root alone owned, and keeps in the same version, is      *)
(* gone by then, and was not prepared either.                              *)
Stranded ==
  IF op.kind # "update" THEN {}
  ELSE {k \in DOMAIN op.lock :
          LET i == Id(op.lock[k].hash)
          IN  Disowned(op.root)[i] = None /\ i \notin {Id(op.ready[j].hash) : j \in DOMAIN op.ready}}

Persist ==
  /\ op.phase = "persist" /\ Stranded = {}
  /\ LET lock == IF op.kind = "uninstall" THEN None ELSE op.lock
     IN  /\ installations' = [installations EXCEPT ![op.root] = lock]
         /\ IF op.kind = "uninstall" THEN active' = Disowned(op.root) ELSE PutActive(op.root, lock)
         /\ Stored(lock)
         /\ unsaved' = IF op.storing THEN unsaved \ {op.root} ELSE unsaved \cup {op.root}
  /\ End("ok")
  /\ UNCHANGED <<releases, published, cache, admin, live, boot, lost, stranded, used>>

(* The commit throws at the first stranded entry, after the store has been   *)
(* written: the previous lifecycles are activated beside the new ones, if    *)
(* the runtime takes them, and come back without an owner.                  *)
PersistStrands ==
  /\ op.phase = "persist" /\ Stranded # {}
  /\ LET taken == Owned(Disowned(op.root), op.root, SubSeq(op.lock, 1, Least(Stranded) - 1))
         back == ~Clash(OldHashes, live)
         ids == ToSet(op.old)
     IN  /\ live' = IF back THEN live \cup OldHashes ELSE live
         /\ active' = [i \in Ids |-> IF back /\ i \in ids THEN [active[i] EXCEPT !.owners = {}]
                                     ELSE taken[i]]
  /\ Stored(op.lock)
  /\ stranded' = [root |-> op.root, packages |-> LockIds(op.lock) \cup LockIds(installations[op.root])]
  /\ Abandon
  /\ UNCHANGED <<published, cache, admin, installations, boot, unsaved, lost, used>>

PersistFails ==
  /\ op.phase = "persist" /\ op.storing
  /\ TakeBackAfter(1) /\ Abandon
  /\ UNCHANGED <<published, cache, admin, installations, active, durable, boot, unsaved, stranded>>

-----------------------------------------------------------------------------
(* The plugin registry-durable loads: the store is registered, and every     *)
(* durable root is acquired, prepared and activated again.                 *)

StartRestore ==
  /\ boot = "no"
  /\ boot' = "failed"      \* until the restoration has ended well
  /\ Begin("restore", [phase |-> "load"])

Loaded ==
  /\ op.phase = "load"
  /\ op' = [op EXCEPT !.phase = "record",
              !.records = SetToSortSeq({r \in Ids : durable[r] # None},
                                       LAMBDA q, r : Manifest[CHOOSE h \in Hashes : Id(h) = q].rank
                                                       < Manifest[CHOOSE h \in Hashes : Id(h) = r].rank)]
  /\ UNCHANGED <<releases, published, cache, admin, installations, active, live, prepared,
                 answer, durable, boot, unsaved, lost, stranded, used>>

RestoreNext ==
  /\ op.phase = "record" /\ op.records # <<>>
  /\ LET root == Head(op.records)
         lock == durable[root]
     IN  IF installations[root] # None \/ Conflicts(lock, {})
         THEN Unwind(Reverse(op.done))
         ELSE op' = [op EXCEPT !.phase = "reacquire", !.root = root, !.lock = lock,
                       !.acquire = lock, !.fresh = {}, !.ready = <<>>, !.records = Tail(@)]
  /\ UNCHANGED <<releases, published, cache, admin, installations, active, live, prepared,
                 answer, durable, boot, unsaved, lost, stranded, used>>

(* Every entry must come back with the manifest and the evidence it had.    *)
Reacquired ==
  /\ op.phase = "reacquire"
  /\ \E e \in {Head(op.acquire)} :
     \E h \in Offered(Manifest[e.hash].source), d \in Deliveries : \E a \in {Acquire(h, d)} :
       LET refused == a.code # "none" \/ "provider" \notin admin.services
       IN  /\ cache' = a.cache
           /\ published' = published \ a.promoted
           /\ prepared' = prepared
           /\ IF refused \/ h # e.hash \/ (e.verified /\ ~a.releases[h])
              THEN releases' = Without(a.releases, op.fresh \cup a.fresh) /\ Unwind(Reverse(op.done))
              ELSE /\ releases' = a.releases
                   /\ op' = [op EXCEPT
                        !.acquire = Tail(@), !.fresh = @ \cup a.fresh,
                        !.phase = IF Len(op.acquire) = 1 THEN "prepare" ELSE @,
                        !.todo = IF Len(op.acquire) = 1 THEN NewEntries(op.lock) ELSE @]
  /\ UNCHANGED <<admin, installations, active, live, answer, durable, boot, unsaved, lost, stranded, used>>

RestoreFails ==
  /\ op.phase \in {"load", "reacquire"} /\ Fault
  /\ Abandon
  /\ UNCHANGED <<published, cache, admin, installations, active, live, durable, boot, unsaved, lost, stranded>>

RestoreSwap ==
  /\ op.phase = "prepare" /\ op.kind = "restore" /\ op.todo = <<>>
  /\ prepared' = {}
  /\ \/ /\ ~Clash(ReadyHashes, live)
        /\ live' = live \cup ReadyHashes
        /\ PutActive(op.root, op.lock)
        /\ installations' = [installations EXCEPT ![op.root] = op.lock]
        /\ op' = [op EXCEPT !.phase = "record", !.done = Append(@, op.root), !.fresh = {}]
        /\ UNCHANGED <<releases, used>>
     \/ /\ \/ Clash(ReadyHashes, live) /\ UNCHANGED used
           \/ ReadyHashes # {} /\ Fault
        /\ releases' = Without(releases, op.fresh) /\ Unwind(Reverse(op.done))
        /\ UNCHANGED <<live, active, installations>>
  /\ UNCHANGED <<published, cache, admin, answer, durable, boot, unsaved, lost, stranded>>

(* uninstallInternal(root, false) of the roots restored so far, last first. *)
UnwindNext ==
  /\ op.phase = "unwind" /\ op.done # <<>> /\ op.oldTodo = <<>>
  /\ LET root == Head(op.done)
         rest == Tail(op.done)
         act == Disowned(root)
         old == IF rest = <<>> THEN <<>>
                ELSE SelectSeq([i \in DOMAIN installations[rest[1]] |-> Id(installations[rest[1]][i].hash)],
                               LAMBDA i : act[i].owners = {rest[1]})
     IN  /\ active' = act
         /\ live' = live \ OldHashes
         /\ installations' = [installations EXCEPT ![root] = None]
         /\ op' = [op EXCEPT !.done = rest, !.old = old,
                             !.oldTodo = SelectSeq(old, LAMBDA i : act[i].adapted)]
  /\ prepared' = {}
  /\ UNCHANGED <<releases, published, cache, admin, answer, durable, boot, unsaved, lost, stranded, used>>

(* An adapter that cannot prepare the way back ends the unwinding early.    *)
UnwindFails ==
  /\ op.phase = "unwind" /\ op.oldTodo # <<>> /\ Fault
  /\ lost' = TRUE /\ End("failed")
  /\ UNCHANGED <<releases, published, cache, admin, installations, active, live, durable, boot, unsaved, stranded>>

RestoreEnds ==
  /\ \/ op.phase = "record" /\ op.records = <<>> /\ boot' = "ok" /\ End("ok")
     \/ op.phase = "unwind" /\ op.done = <<>> /\ UNCHANGED boot /\ End("failed")
  /\ UNCHANGED <<releases, published, cache, admin, installations, active, live, durable,
                 unsaved, lost, stranded, used>>

(* The plugin registry-durable unloads: installations are process-local.    *)
UnloadStore ==
  /\ boot = "ok" /\ Change
  /\ boot' = "failed"
  /\ UNCHANGED <<releases, published, cache, admin, installations, active, live, prepared, op,
                 answer, durable, unsaved, lost, stranded>>

Crash ==
  /\ Fault
  /\ releases' = Empty /\ published' = {} /\ admin' = Fresh
  /\ installations' = Nothing /\ active' = Nothing /\ live' = {} /\ prepared' = {}
  /\ op' = NoOp /\ answer' = "none" /\ boot' = "no" /\ unsaved' = {}
  /\ lost' = FALSE /\ stranded' = NotStranded
  /\ UNCHANGED <<cache, durable>>

-----------------------------------------------------------------------------
Goes ==
  \/ Acquired \/ PrepareNew \/ PrepareOld \/ Swap \/ Persist \/ PersistStrands
  \/ Loaded \/ RestoreNext \/ Reacquired \/ RestoreSwap \/ UnwindNext \/ RestoreEnds
Fails ==
  \/ AcquireFails \/ PrepareOldFails \/ PersistFails \/ RestoreFails \/ UnwindFails
Administers ==
  \/ \E h \in Hashes : Publish(h) \/ Withdraw(h)
  \/ \E r \in Revocable : Revoke(r)
  \/ \E k \in Keys : RevokeSigningKey(k) \/ TrustSigningKey(k)
  \/ \E p \in Policies : SetPolicy(p)
  \/ \E s \in Dynamic : Provide(s)
  \/ UnloadStore
Calls ==
  \/ \E s \in Sources : StartInstall(s) \/ StartUpdate(s)
  \/ \E root \in Ids : StartUninstall(root)
  \/ StartRestore

Next == Goes \/ Fails \/ Administers \/ Calls \/ Crash

Spec == Init /\ [][Next]_vars

-----------------------------------------------------------------------------
Lock == Seq(Entry)
TypeOK ==
  /\ DOMAIN releases \subseteq Hashes /\ published \subseteq DOMAIN releases
  /\ cache \subseteq Hashes /\ live \subseteq Hashes
  /\ prepared \subseteq Hashes \X {"new", "old"}
  /\ installations \in [Ids -> Lock \cup {None}] /\ durable \in [Ids -> Lock \cup {None}]
  /\ \A i \in Ids : active[i] = None \/ (Id(active[i].hash) = i /\ active[i].owners \subseteq Ids)
  /\ boot \in {"no", "ok", "failed"} /\ answer \in {"none", "ok", "failed"}

(* Every package of an installed lock is active in the locked version and   *)
(* counts the root among its owners, nothing is active for another reason, *)
(* and every lock satisfies the requirements of all its packages.  What a   *)
(* stranded update has torn is left out, the packages of its two locks; the *)
(* ownership of all others is held to it.                                  *)
OwnersAreInstallations ==
  ~lost =>
    \A i \in Ids :
      LET roots == {r \in Ids : installations[r] # None /\ i \in LockIds(installations[r])}
      IN  /\ installations[i] # None => IsLockOf(installations[i], i)
          /\ i \notin stranded.packages =>
               /\ active[i] = None <=> roots = {}
               /\ active[i] # None =>
                    /\ active[i].owners = roots
                    /\ \A r \in roots : \E k \in DOMAIN installations[r] :
                         SameVersion(installations[r][k].hash, active[i].hash)

(* Between mutations the runtime runs exactly the active packages that an  *)
(* adapter prepared, but for those of a stranded update, and no             *)
(* preparation is left behind.                                             *)
RuntimeMatches ==
  Idle /\ ~lost =>
    /\ prepared = {}
    /\ \A h \in Hashes :
         Id(h) \notin stranded.packages =>
           (h \in live <=> active[Id(h)] # None /\ active[Id(h)].adapted /\ active[Id(h)].hash = h)

(* While the store is registered it holds the lock of every root, so that  *)
(* a restart finds what was acknowledged and nothing half done; of the root *)
(* of a stranded update it holds the lock that was refused.                *)
DurableAgrees ==
  boot = "ok" /\ ~lost => \A r \in Ids \ (unsaved \cup {stranded.root}) : durable[r] = installations[r]

Consistent == TypeOK /\ OwnersAreInstallations /\ RuntimeMatches /\ DurableAgrees

(* A package revoked from the call on is not activated by it, whatever is   *)
(* revoked or published while it prepares.                                 *)
RevokedStaysOut ==
  op.phase = "persist" => \A h \in ReadyHashes : ~IsRevoked(op.banned, h)

(* A mutation that fails leaves installations, ownership, the runtime and   *)
(* the store as it found them, at whatever await it failed, with two         *)
(* exceptions.  Where an adapter also fails on the way back nothing is said. *)
(* An update whose root alone owns a package that the new lock keeps in the  *)
(* same version always throws once the new lock is written: it leaves        *)
(* everything but the packages of its two locks, and its root in the store.  *)
FailsWhole == [][
  answer' = "failed" /\ op # NoOp /\ op' = NoOp /\ ~lost' =>
    LET was == op.before
        torn == stranded'.packages
    IN  /\ installations' = was.installations
        /\ \A i \in Ids \ torn : active'[i] = was.active[i]
        /\ \A h \in Hashes : Id(h) \notin torn => (h \in live' <=> h \in was.live)
        /\ \A r \in Ids \ {stranded'.root} : durable'[r] = was.durable[r]]_vars

(* "Atomically replace one installed root with a newly acquired exact        *)
(* graph": an update that fails leaves installations, ownership, the runtime *)
(* and the store as it found them, unless an adapter failed on the way back. *)
UpdatesAreAtomic == [][
  op.kind = "update" /\ op' = NoOp /\ answer' = "failed" /\ ~lost' => Kept' = op.before]_vars
=============================================================================
