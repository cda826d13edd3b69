--------------------------- MODULE PackageSources ---------------------------
(***************************************************************************)
(* packages/rp/registry-sources and registry-artifacts-local: how Hosts    *)
(* acquire a package from a place that others edit (a directory, a Git     *)
(* ref, an npm or an open Registry), part by part, and keep its archive in *)
(* one cache that they share and that outlives them.  The judgement of     *)
(* what was acquired is acquireRelease of packages/rp/registry.            *)
(*                                                                         *)
(* A part of a place is [version, origin]: the part of that version, found *)
(* at that origin.  The origins of a Git place are the ones the Provider   *)
(* derives.  The place of a "bare" source belongs to a Provider of another *)
(* plugin that returns the manifest only.                                  *)
(***************************************************************************)
EXTENDS Naturals, Sequences, SequencesExt, FiniteSets, Functions

CONSTANTS
  None,
  Hosts,             \* each makes one acquisition at a time
  Sources,           \* [name, kind, ref, inline]
  Versions,          \* of one package; the archive's hash stands for them
  Origins, Allowed,  \* kind -> origins of the configuration
  Declares,          \* version -> kinds of evidence the manifest is bound to
  Size, SourceLimit, CacheLimit,
  MaxEdits, MaxBegun, MaxFaults      \* bounds

VARIABLES
  place,     \* source -> [manifest, payload, sbom], parts or None
  acq,       \* host -> its acquisition, or None
  files,     \* version -> what the cache has under its name
  temps,     \* temporary files: [version, by, whole]
  lock,      \* version -> the host that writes it, "dead", or None
  stored,    \* whether the cache is registered
  admitted,  \* acquisitions that succeeded
  count      \* [edits, begun, faults]

srcVars == <<place, acq, files, temps, lock, stored, admitted, count>>
Parts == {"manifest", "payload", "sbom"}
Absent == [p \in Parts |-> None]

Init ==
  /\ place = [s \in Sources |-> Absent]
  /\ acq = [h \in Hosts |-> None]
  /\ files = [v \in Versions |-> "none"] /\ temps = {} /\ lock = [v \in Versions |-> None]
  /\ stored = TRUE /\ admitted = {}
  /\ count = [edits |-> 0, begun |-> 0, faults |-> 0]

(* Those who publish: one part after the other.                             *)
Edit(s, p, v, o) ==
  /\ count.edits < MaxEdits /\ count' = [count EXCEPT !.edits = @ + 1]
  /\ place' = [place EXCEPT ![s][p] = [version |-> v, origin |-> o]]
  /\ UNCHANGED <<acq, files, temps, lock, stored, admitted>>

-----------------------------------------------------------------------------
(* A Provider reads the manifest, and then the evidence it is bound to.     *)
MayAsk(s) ==
  CASE s.kind = "git" -> s.ref # "none"
    [] s.kind = "npm" -> s.ref = "exact" /\ Cardinality(Allowed["npm"]) = 1
    [] OTHER -> TRUE
Authorized(s, part) == s.kind \notin {"git", "bare"} => part.origin \in Allowed[s.kind]
EvidenceOf(s, v) ==
  CASE s.kind = "bare" -> <<>>
    [] s.kind = "npm" -> IF "payload" \in Declares[v] THEN <<"payload">> ELSE <<>>
    [] OTHER -> (IF "payload" \in Declares[v] THEN <<"payload">> ELSE <<>>)
                \o (IF "sbom" \in Declares[v] /\ ~s.inline THEN <<"sbom">> ELSE <<>>)

Begin(h, s) ==
  /\ acq[h] = None /\ MayAsk(s) /\ (s.kind # "git" => Allowed["git"] \cap Origins # {})
  /\ count.begun < MaxBegun /\ count' = [count EXCEPT !.begun = @ + 1]
  /\ acq' = [acq EXCEPT ![h] = [source |-> s, pc |-> "manifest", todo |-> <<>>, manifest |-> None,
                                payload |-> None, sbom |-> None, origins |-> {}]]
  /\ UNCHANGED <<place, files, temps, lock, stored, admitted>>

ReadManifest(h) ==
  LET a == acq[h]
      part == place[a.source].manifest
      inline == a.source.kind = "registry" /\ a.source.inline
      sbom == place[a.source].sbom
  IN /\ a # None /\ a.pc = "manifest" /\ part # None /\ Authorized(a.source, part)
     /\ ("sbom" \in Declares[part.version] =>
           CASE a.source.kind = "npm" -> "payload" \in Declares[part.version]
             [] inline -> sbom # None
             [] OTHER -> TRUE)
     /\ acq' = [acq EXCEPT ![h] = [a EXCEPT
          !.pc = IF EvidenceOf(a.source, part.version) = <<>> THEN "judged" ELSE "evidence",
          !.manifest = part.version, !.todo = EvidenceOf(a.source, part.version), !.origins = {part.origin},
          !.sbom = IF inline /\ "sbom" \in Declares[part.version] THEN sbom.version ELSE None]]
     /\ UNCHANGED <<place, files, temps, lock, stored, admitted, count>>

(* The tarball of npm holds the manifest, the archive and the SBOM, and must *)
(* hold the manifest of the metadata.                                        *)
ReadEvidence(h) ==
  LET a == acq[h]
      p == Head(a.todo)
      part == place[a.source][p]
      npm == a.source.kind = "npm"
  IN /\ a # None /\ a.pc = "evidence" /\ part # None /\ Authorized(a.source, part)
     /\ p = "payload" => Size[part.version] <= SourceLimit
     /\ npm => part.version = a.manifest
     /\ acq' = [acq EXCEPT ![h] = [a EXCEPT
          ![p] = part.version, !.todo = Tail(@), !.origins = @ \cup {part.origin},
          !.sbom = IF p = "sbom" \/ (npm /\ "sbom" \in Declares[a.manifest]) THEN part.version ELSE @,
          !.pc = IF Len(a.todo) = 1 THEN "judged" ELSE @]]
     /\ UNCHANGED <<place, files, temps, lock, stored, admitted, count>>

(* No part, one that is refused, an abort or a transport that breaks.       *)
GiveUp(h) ==
  /\ acq[h] # None /\ acq[h].pc \in {"manifest", "evidence"}
  /\ acq' = [acq EXCEPT ![h] = None]
  /\ UNCHANGED <<place, files, temps, lock, stored, admitted, count>>

-----------------------------------------------------------------------------
(* The Registry.  Without an archive it asks the cache; then the archive and *)
(* the SBOM must be the ones the manifest is bound to, and the archive goes  *)
(* to the cache before anything else knows of the release.  A slip: evidence *)
(* has only to be there.                                                     *)
SlipProven(v, payload, sbom) ==
  \A e \in Declares[v] : (IF e = "payload" THEN payload ELSE sbom) # None
Proven(v, payload, sbom) ==
  /\ "payload" \in Declares[v] => payload = v
  /\ sbom = IF "sbom" \in Declares[v] THEN v ELSE None
Admit(h, payload, kept) ==
  /\ admitted' = admitted \cup {[source |-> acq[h].source, manifest |-> acq[h].manifest, payload |-> payload,
                                 sbom |-> acq[h].sbom, origins |-> acq[h].origins, kept |-> kept]}
  /\ acq' = [acq EXCEPT ![h] = None]
Judge(h) ==
  LET a == acq[h]
      bound == "payload" \in Declares[a.manifest]
      asked == a.payload = None /\ bound /\ stored
      payload == IF asked /\ files[a.manifest] = "whole" THEN a.manifest ELSE a.payload
      refused == (asked /\ files[a.manifest] \notin {"none", "whole"}) \/ ~Proven(a.manifest, payload, a.sbom)
      cached == bound /\ payload # None /\ stored
  IN /\ a # None /\ a.pc = "judged"
     /\ IF refused \/ (cached /\ Size[payload] > CacheLimit)
        THEN acq' = [acq EXCEPT ![h] = None] /\ UNCHANGED admitted
        ELSE IF cached THEN acq' = [acq EXCEPT ![h] = [a EXCEPT !.pc = "put", !.payload = payload]] /\ UNCHANGED admitted
        ELSE Admit(h, payload, FALSE)
     /\ UNCHANGED <<place, files, temps, lock, stored, count>>

-----------------------------------------------------------------------------
(* The cache: under the lock of the name, a file that is there must be the   *)
(* archive; else a temporary file is written, flushed and renamed.           *)
TakeLock(h) ==
  LET a == acq[h]
      file == files[a.payload]
  IN /\ a # None /\ a.pc = "put" /\ lock[a.payload] = None
     /\ CASE file = "none" ->
               /\ lock' = [lock EXCEPT ![a.payload] = h] /\ acq' = [acq EXCEPT ![h].pc = "write"]
               /\ temps' = temps \cup {[version |-> a.payload, by |-> h, whole |-> FALSE]}
               /\ UNCHANGED admitted
          [] file = "whole" -> Admit(h, a.payload, TRUE) /\ UNCHANGED <<lock, temps>>
          [] OTHER -> acq' = [acq EXCEPT ![h] = None] /\ UNCHANGED <<lock, temps, admitted>>
     /\ UNCHANGED <<place, files, stored, count>>
Temp(h) == CHOOSE t \in temps : t.by = h
Write(h) ==
  /\ acq[h] # None /\ acq[h].pc = "write"
  /\ temps' = (temps \ {Temp(h)}) \cup {[Temp(h) EXCEPT !.whole = TRUE]} /\ acq' = [acq EXCEPT ![h].pc = "rename"]
  /\ UNCHANGED <<place, files, lock, stored, admitted, count>>
Rename(h) ==
  LET v == acq[h].payload
  IN /\ acq[h] # None /\ acq[h].pc = "rename"
     /\ files' = [files EXCEPT ![v] = IF Temp(h).whole THEN "whole" ELSE "part"]
     /\ temps' = temps \ {Temp(h)} /\ lock' = [lock EXCEPT ![v] = None] /\ Admit(h, v, TRUE)
     /\ UNCHANGED <<place, stored, count>>

(* Faults: the disk refuses a write or the rename, and the temporary file is *)
(* removed; a Host dies, and leaves it and the lock behind; a cached file    *)
(* rots.  An operator breaks the lock of the dead and removes the rot.       *)
Faulty == count.faults < MaxFaults /\ count' = [count EXCEPT !.faults = @ + 1]
WriteFails(h) ==
  /\ acq[h] # None /\ acq[h].pc \in {"write", "rename"} /\ Faulty
  /\ temps' = temps \ {Temp(h)} /\ lock' = [lock EXCEPT ![acq[h].payload] = None]
  /\ acq' = [acq EXCEPT ![h] = None] /\ UNCHANGED <<place, files, stored, admitted>>
Crash(h) ==
  /\ acq[h] # None /\ Faulty
  /\ lock' = [v \in Versions |-> IF lock[v] = h THEN "dead" ELSE lock[v]]
  /\ temps' = {IF t.by = h THEN [t EXCEPT !.by = "dead"] ELSE t : t \in temps}
  /\ acq' = [acq EXCEPT ![h] = None] /\ UNCHANGED <<place, files, stored, admitted>>
Rot(v) ==
  /\ files[v] = "whole" /\ Faulty /\ files' = [files EXCEPT ![v] = "rotten"]
  /\ UNCHANGED <<place, acq, temps, lock, stored, admitted>>
Repair(v) ==
  /\ lock[v] = "dead" \/ (files[v] = "rotten" /\ lock[v] = None)
  /\ lock' = [lock EXCEPT ![v] = None] /\ files' = [files EXCEPT ![v] = IF @ = "rotten" THEN "none" ELSE @]
  /\ admitted' = {IF r.payload = v /\ files[v] = "rotten" THEN [r EXCEPT !.kept = FALSE] ELSE r : r \in admitted}
  /\ UNCHANGED <<place, acq, temps, stored, count>>
(* The plugin of the cache is unloaded, or loaded again: the files stay.     *)
Load ==
  /\ Faulty /\ stored' = ~stored /\ UNCHANGED <<place, acq, files, temps, lock, admitted>>

Next ==
  \/ \E s \in Sources, p \in Parts, v \in Versions, o \in Origins : Edit(s, p, v, o)
  \/ \E h \in Hosts : \/ \E s \in Sources : Begin(h, s)
                      \/ ReadManifest(h) \/ ReadEvidence(h) \/ GiveUp(h) \/ Judge(h)
                      \/ TakeLock(h) \/ Write(h) \/ Rename(h) \/ WriteFails(h) \/ Crash(h)
  \/ \E v \in Versions : Rot(v) \/ Repair(v)
  \/ Load
Spec == Init /\ [][Next]_srcVars

-----------------------------------------------------------------------------
(* What is acquired is of one version, though its place was edited between  *)
(* the reads, and was read where the configuration allows; nothing is ever  *)
(* found under a name of the cache but that archive, whole, or what others  *)
(* made of it; and an archive, once acquired with the cache, stays in it.   *)
SourcesAreSound ==
  /\ \A r \in admitted :
       /\ r.payload = (IF "payload" \in Declares[r.manifest] THEN r.manifest ELSE None)
       /\ r.sbom = (IF "sbom" \in Declares[r.manifest] THEN r.manifest ELSE None)
       /\ r.source.kind \notin {"git", "bare"} => r.origins \subseteq Allowed[r.source.kind]
       /\ r.kept => files[r.payload] # "none"
  /\ \A v \in Versions : files[v] \in {"none", "whole", "rotten"}
  /\ \A h \in Hosts : acq[h] # None /\ acq[h].pc \in {"write", "rename"} => lock[acq[h].payload] = h
=============================================================================
