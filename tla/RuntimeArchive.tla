--------------------------- MODULE RuntimeArchive ---------------------------
(***************************************************************************)
(* packages/rp/package-runtime: what a runtime archive must look like to   *)
(* be accepted for a manifest.  An archive is the sequence of entries that *)
(* its tar stream holds and the descriptor that its rp.runtime.json says;  *)
(* a path is <<under package/, name>>.  The shape of a record (its fields, *)
(* their types, non-empty strings, ids without duplicates in a list) is    *)
(* one Boolean "shape"; everything that relates two parts is spelled out.  *)
(***************************************************************************)
EXTENDS Naturals, FiniteSets, SequencesExt

CONSTANTS
  None,
  Unsafe,   \* the name of every path that is absolute, climbs or has controls
  Html      \* names that end in .html

Plain(name) == <<FALSE, name>>
SafePath(path) == path[2] # Unsafe
IsHtml(path) == path[2] \in Html
Well(record) == record.shape
Levels == <<"L0", "L1", "L2">>
TrustRank(t) == CHOOSE i \in DOMAIN Levels : Levels[i] = t

(* The first check that fails, or "none".                                  *)
FirstRefusal(checks) ==
  LET failing == SelectSeq(checks, LAMBDA c : c[2]) IN IF failing = <<>> THEN "none" ELSE failing[1][1]

-----------------------------------------------------------------------------
(* Limits: the configuration of an adapter, and of the archive writer.      *)
LimitsValid(l) ==
  /\ l.maxFiles > 0 /\ l.maxFileBytes > 0 /\ l.maxUnpackedBytes > 0
  /\ l.maxFileBytes <= l.maxUnpackedBytes

(* One entry of the tar stream after the other; directories count for the   *)
(* unpacked bytes only.                                                    *)
EntryRefusal(read, e, l) ==
  FirstRefusal(<<
    <<"LIMIT", read.bytes + e.size > l.maxUnpackedBytes>>,
    <<"INVALID_ARCHIVE", ~SafePath(e.path)>>,
    <<"INVALID_ARCHIVE", e.type \notin {"directory", "file"}>>,
    <<"LIMIT", e.type = "file" /\ read.count >= l.maxFiles>>,
    <<"INVALID_ARCHIVE", e.type = "file" /\ e.path \in read.files>>,
    <<"LIMIT", e.type = "file" /\ (e.declared > l.maxFileBytes \/ e.size > l.maxFileBytes)>>,
    <<"INVALID_ARCHIVE", e.type = "file" /\ e.size # e.declared>> >>)
ReadEntry(read, e, l) ==
  IF read.code # "none" THEN read
  ELSE LET code == EntryRefusal(read, e, l)
           isFile == code = "none" /\ e.type = "file"
       IN  [code |-> code, bytes |-> read.bytes + e.size,
            count |-> IF isFile THEN read.count + 1 ELSE read.count,
            files |-> IF isFile THEN read.files \cup {e.path} ELSE read.files]
ReadTarGzip(entries, l) ==
  FoldLeft(LAMBDA read, e : ReadEntry(read, e, l),
           [code |-> "none", files |-> {}, count |-> 0, bytes |-> 0], entries)

(* An npm tarball holds everything below package/.                          *)
NormalizeNpmPrefix(files) ==
  IF files # {} /\ \A path \in files : path[1] THEN {Plain(path[2]) : path \in files} ELSE files

(* The writer takes the same exception to paths, sizes and repetitions, and *)
(* keeps one file for the descriptor.                                      *)
WriterRefusal(files, l, reserve) ==
  LET before(i) == {files[k].path : k \in 1..(i - 1)} \cup reserve
  IN  IF Len(files) + Cardinality(reserve) > l.maxFiles THEN "LIMIT"
      ELSE IF \E i \in DOMAIN files : ~SafePath(files[i].path) \/ files[i].path \in before(i)
      THEN "INVALID_ARCHIVE"
      ELSE IF \E i \in DOMAIN files : files[i].size > l.maxFileBytes THEN "LIMIT" ELSE "none"
FileEntry(f) == [path |-> f.path, type |-> "file", declared |-> f.size, size |-> f.size]

-----------------------------------------------------------------------------
(* The parts of a descriptor.                                              *)
ImplementationRefused(impl, files) ==
  /\ impl # None
  /\ \/ impl.kind \notin {"expression", "quickjs", "native", "wasm"}
     \/ impl.kind # "expression" /\ ~(SafePath(impl.path) /\ impl.path \in files)
ComponentRefused(c) == ~Well(c) \/ c.scopes = {}
CapabilityRefused(c, files) ==
  ~Well(c) \/ c.scopes = {} \/ ImplementationRefused(c.impl, files)

OperationRefused(op) == op.kind \notin {"invoke-capability", "invoke-pipeline", "conditional"}
StageRefused(s) == ~Well(s) \/ OperationRefused(s.op)
StageIds(p) == {p.stages[i].id : i \in DOMAIN p.stages}
RepeatsId(seq) == \E i, j \in DOMAIN seq : i # j /\ seq[i].id = seq[j].id

StageDependencies(p, id) ==
  UNION {p.stages[i].after : i \in {k \in DOMAIN p.stages : p.stages[k].id = id}}
  \cup {p.stages[i].id : i \in {k \in DOMAIN p.stages : id \in p.stages[k].before}}
GraphRefused(p) ==
  LET ids == StageIds(p)
      left[n \in 0..Cardinality(ids)] ==
        IF n = 0 THEN ids
        ELSE {id \in left[n - 1] : StageDependencies(p, id) \cap left[n - 1] # {}}
  IN  \/ \E i \in DOMAIN p.stages : ~((p.stages[i].after \cup p.stages[i].before) \subseteq ids)
      \/ \E i \in DOMAIN p.stages :
           p.stages[i].op.kind = "invoke-pipeline" /\ p.stages[i].op.target = p.id
      \/ left[Cardinality(ids)] # {}
PipelineRefused(p) ==
  \/ ~Well(p) \/ p.stages = <<>> \/ RepeatsId(p.stages)
  \/ \E i \in DOMAIN p.stages : StageRefused(p.stages[i])
  \/ GraphRefused(p)

(* A reference of an HTML document: to a fragment, to a path inside the      *)
(* package or to anything else; links navigate, other references load.     *)
ReferenceRefusal(slot, ref) ==
  IF ref.kind = "fragment" /\ ref.navigates THEN "none"
  ELSE FirstRefusal(<<
    <<"INVALID_DESCRIPTOR", ref.kind # "path">>,
    <<"DECLARATION_MISMATCH", ref.path \notin slot.assets>>,
    <<"INVALID_DESCRIPTOR", ref.navigates /\ ~IsHtml(ref.path)>> >>)
DocumentRefusal(slot, doc) ==
  IF doc.forbidden THEN "INVALID_DESCRIPTOR"
  ELSE FirstRefusal([i \in DOMAIN doc.refs |->
         LET code == ReferenceRefusal(slot, doc.refs[i]) IN <<code, code # "none">>])
SlotRefused(slot, files) ==
  \/ ~Well(slot) \/ slot.script \notin {"none", "sandbox"}
  \/ ~(slot.assets \subseteq files) \/ \E path \in slot.assets : ~SafePath(path)
  \/ ~IsHtml(slot.entry) \/ slot.entry \notin slot.assets

(* Pipelines are the capabilities of kind pipeline, and their stages ask    *)
(* for no permission that the capability does not.                         *)
IdsOf(seq) == {seq[i].id : i \in DOMAIN seq}
PipelineDeclarationRefusal(d) ==
  LET graphs == {d.capabilities[i] : i \in {k \in DOMAIN d.capabilities : d.capabilities[k].kind = "pipeline"}}
      grants(p) == UNION {p.stages[i].op.permissions :
                            i \in {k \in DOMAIN p.stages : p.stages[k].op.kind = "invoke-capability"}}
  IN  FirstRefusal(<<
        <<"DECLARATION_MISMATCH", {c.id : c \in graphs} # IdsOf(d.pipelines)>>,
        <<"INVALID_DESCRIPTOR", \E c \in graphs : c.impl # None>>,
        <<"DECLARATION_MISMATCH", \E i \in DOMAIN d.pipelines, c \in graphs :
            c.id = d.pipelines[i].id /\ ~(grants(d.pipelines[i]) \subseteq c.permissions)>> >>)
DescriptorRefusal(d, files) ==
  LET refusals(slot) == {DocumentRefusal(slot, slot.documents[path]) : path \in {a \in slot.assets : IsHtml(a)}}
      refused == UNION {refusals(d.slots[i]) : i \in DOMAIN d.slots} \ {"none"}
  IN  IF \/ ~Well(d)
         \/ \E i \in DOMAIN d.components : ComponentRefused(d.components[i])
         \/ \E i \in DOMAIN d.capabilities : CapabilityRefused(d.capabilities[i], files)
         \/ \E i \in DOMAIN d.pipelines : PipelineRefused(d.pipelines[i])
         \/ \E i \in DOMAIN d.slots : SlotRefused(d.slots[i], files)
         \/ RepeatsId(d.components) \/ RepeatsId(d.capabilities)
         \/ RepeatsId(d.pipelines) \/ RepeatsId(d.slots)
      THEN "INVALID_DESCRIPTOR"
      ELSE IF refused # {} THEN CHOOSE code \in refused : TRUE
      ELSE PipelineDeclarationRefusal(d)

(* What the manifest declares is what the descriptor holds.                 *)
ManifestDeclarationRefused(d, m) ==
  \/ IdsOf(d.components) # m.components \/ IdsOf(d.capabilities) # m.capabilities
  \/ IdsOf(d.slots) # m.slots
  \/ \E i \in DOMAIN d.slots : ~(d.slots[i].assets \subseteq m.assets)
(* Each trust level has its kinds of implementation, and no stage asks for  *)
(* more trust than the package has.                                        *)
AllowedKinds(trust) ==
  CASE trust = "L0" -> {"expression"} [] trust = "L1" -> {"quickjs", "wasm"} [] OTHER -> {"native"}
TrustRefused(d, m) ==
  \/ \E i \in DOMAIN d.capabilities :
       d.capabilities[i].impl # None /\ d.capabilities[i].impl.kind \notin AllowedKinds(m.trust)
  \/ \E i \in DOMAIN d.pipelines : \E k \in DOMAIN d.pipelines[i].stages :
       LET op == d.pipelines[i].stages[k].op
       IN  op.kind = "invoke-capability" /\ op.trust # None /\ TrustRank(op.trust) > TrustRank(m.trust)
  \/ \E i \in DOMAIN d.slots : d.slots[i].script # "none"

ParseArchive(archive, m, l) ==
  LET read == ReadTarGzip(archive.entries, l)
      files == NormalizeNpmPrefix(read.files)
      checks == <<
        <<"LIMIT", ~LimitsValid(l)>>,
        <<"INVALID_DESCRIPTOR", ~m.runtime>>,
        <<read.code, read.code # "none">>,
        <<"INVALID_DESCRIPTOR", Plain("rp.runtime.json") \notin files>> >>
      code == FirstRefusal(checks)
      d == archive.descriptor
  IN  IF code # "none" THEN code
      ELSE IF DescriptorRefusal(d, files) # "none" THEN DescriptorRefusal(d, files)
      ELSE FirstRefusal(<<
        <<"DECLARATION_MISMATCH", ManifestDeclarationRefused(d, m)>>,
        <<"TRUST", TrustRefused(d, m)>>,
        <<"INVALID_ARCHIVE", \E asset \in m.assets : ~SafePath(asset)>>,
        <<"INVALID_DESCRIPTOR", ~(m.assets \subseteq files)>> >>)

(* createRpRuntimeArchive(): the written archive goes through the reader.    *)
WrittenArchive(files, descriptor, size) ==
  LET sorted == <<[path |-> Plain("rp.runtime.json"), size |-> size]>> \o files
  IN  [entries |-> [i \in DOMAIN sorted |-> FileEntry(sorted[i])], descriptor |-> descriptor]
CreateRefusal(files, descriptor, size, m, l) ==
  LET code == WriterRefusal(files, l, {Plain("rp.runtime.json")})
  IN  IF ~LimitsValid(l) \/ size > l.maxFileBytes THEN "LIMIT"
      ELSE IF code # "none" THEN code ELSE ParseArchive(WrittenArchive(files, descriptor, size), m, l)
=============================================================================
