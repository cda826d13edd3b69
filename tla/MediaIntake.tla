------------------------------ MODULE MediaIntake ------------------------------
(***************************************************************************)
(* packages/rp/media: providers that generate an artifact and adapters     *)
(* that take a batch of uploaded inputs; packages/rp/media-input-          *)
(* attachment: the adapter that validates and saves images one by one.     *)
(*                                                                         *)
(* A batch chooses an adapter for each of its inputs before it waits for   *)
(* the first one; adapters come and go meanwhile, an adapter may answer    *)
(* with anything, and the batch may be aborted between two of them.  What  *)
(* an adapter made of an input is a record with the number of the input it *)
(* stands for; a wrong answer is one that takeOutput refuses.              *)
(***************************************************************************)
EXTENDS Naturals, FiniteSets, FiniteSetsExt, Sequences, SequencesExt

CONSTANTS
  None,
  Adapters,      \* [id, rank, trust, permissions, mimes, saves]
  Providers,     \* [id, rank, kinds]
  Batches,       \* sequences of inputs [mime, adapter, sound]; sound: what the image check says
  Authorities,   \* [trust, permissions]
  Intakes,       \* the callers
  Kinds,
  ImagesPerMessage,
  MaxMediaFaults \* bound: aborts, failures, wrong answers, failed saves

VARIABLES
  adapters, providers,  \* what is registered
  intake,        \* caller -> None, or its batch under way
  answered,      \* caller -> the artifacts it got, with its batch and authority; or None
  stored,        \* attachments saved: [batch, group, input]: the places of its group and its own
  drawing,       \* caller -> None or [kind, provider]: a generation under way
  drawn,         \* caller -> None or the artifact it got
  mediaFaults

miVars == <<adapters, providers, intake, answered, stored, drawing, drawn, mediaFaults>>

Init ==
  /\ adapters = {} /\ providers = {} /\ stored = {} /\ mediaFaults = 0
  /\ intake = [c \in Intakes |-> None] /\ answered = [c \in Intakes |-> None]
  /\ drawing = [c \in Intakes |-> None] /\ drawn = [c \in Intakes |-> None]

RegisterInputAdapter(a) ==
  /\ \A b \in adapters : b.id # a.id
  /\ adapters' = adapters \cup {a}
  /\ UNCHANGED <<providers, intake, answered, stored, drawing, drawn, mediaFaults>>
DisposeAdapter(a) ==
  /\ adapters' = adapters \ {a}
  /\ UNCHANGED <<providers, intake, answered, stored, drawing, drawn, mediaFaults>>
RegisterProvider(p) ==
  /\ \A q \in providers : q.id # p.id
  /\ providers' = providers \cup {p}
  /\ UNCHANGED <<adapters, intake, answered, stored, drawing, drawn, mediaFaults>>
DisposeProvider(p) ==
  /\ providers' = providers \ {p}
  /\ UNCHANGED <<adapters, intake, answered, stored, drawing, drawn, mediaFaults>>

-----------------------------------------------------------------------------
First(S) == CHOOSE a \in S : \A b \in S : a.rank <= b.rank
Supporting(input) == {a \in adapters : input.adapter \in {None, a.id} /\ input.mime \in a.mimes}
Authorized(a, authority) == a.trust <= authority.trust /\ a.permissions \subseteq authority.permissions
(* A plausible slip: the first adapter that supports the input takes it.     *)
SlipSelectInputAdapter(input, authority) ==
  IF Supporting(input) = {} THEN None ELSE First(Supporting(input))
(* selectInputAdapter(): by id the first that supports the input and that    *)
(* the authority covers, or a refusal.                                       *)
SelectInputAdapter(input, authority) ==
  LET covered == {a \in Supporting(input) : Authorized(a, authority)} IN
  IF covered = {} THEN None ELSE First(covered)
(* The groups, each with the places of its inputs.                           *)
Groups(selected) ==
  {[adapter |-> a, indexes |-> {i \in DOMAIN selected : selected[i] = a}] : a \in ToSet(selected)}

(* ingestInputs() up to its first wait: nothing is taken unless every input  *)
(* has an adapter.                                                           *)
IngestInputs(c, batch, authority) ==
  LET selected == [i \in DOMAIN batch |-> SelectInputAdapter(batch[i], authority)] IN
  /\ intake[c] = None /\ answered[c] = None
  /\ None \notin ToSet(selected)
  /\ intake' = [intake EXCEPT ![c] = [batch |-> batch, authority |-> authority, groups |-> Groups(selected),
                                      artifacts |-> [i \in DOMAIN batch |-> None], checked |-> {}, saved |-> {}]]
  /\ UNCHANGED <<adapters, providers, answered, stored, drawing, drawn, mediaFaults>>

Fault == mediaFaults < MaxMediaFaults /\ mediaFaults' = mediaFaults + 1
Fails(c) == intake' = [intake EXCEPT ![c] = None] /\ UNCHANGED <<answered, stored>>
(* Groups come in the order of their adapters' ids, images in that of the    *)
(* batch.                                                                   *)
Group(c) == CHOOSE g \in intake[c].groups : \A h \in intake[c].groups : g.adapter.rank <= h.adapter.rank
(* The artifacts of one adapter, checked for their number, kind, MIME type   *)
(* and claimed owner, go to the places of their inputs.                      *)
TakeOutput(c) ==
  intake' = [intake EXCEPT
    ![c].artifacts = [i \in DOMAIN @ |-> IF i \in Group(c).indexes
                                         THEN [input |-> i, mime |-> intake[c].batch[i].mime, owner |-> Group(c).adapter]
                                         ELSE @[i]],
    ![c].groups = @ \ {Group(c)}, ![c].checked = {}, ![c].saved = {}]
(* Any adapter but the attachment store: one wait, and an answer that is     *)
(* taken or refused.                                                         *)
Ingest(c) ==
  /\ intake[c] # None /\ intake[c].groups # {} /\ ~Group(c).adapter.saves
  /\ \/ TakeOutput(c) /\ UNCHANGED <<answered, stored, mediaFaults>>
     \/ Fault /\ Fails(c)
  /\ UNCHANGED <<adapters, providers, drawing, drawn>>
(* ingestImages(): every image of the group is checked before any is saved.  *)
ValidateImage(c) ==
  LET images == Group(c).indexes
      image == Min(images \ intake[c].checked)
      fits == Cardinality(images) <= ImagesPerMessage /\ intake[c].batch[image].sound
  IN /\ intake[c] # None /\ intake[c].groups # {} /\ Group(c).adapter.saves
     /\ intake[c].checked # images
     /\ \/ ~fits /\ Fails(c) /\ UNCHANGED mediaFaults
        \/ Fault /\ Fails(c)
        \/ /\ fits /\ intake' = [intake EXCEPT ![c].checked = @ \cup {image}]
           /\ UNCHANGED <<answered, stored, mediaFaults>>
     /\ UNCHANGED <<adapters, providers, drawing, drawn>>
Attachment(batch, images, i) == [batch |-> batch, group |-> images, input |-> i]
SaveImage(c) ==
  LET images == Group(c).indexes
      image == Min(images \ intake[c].saved)
  IN /\ intake[c] # None /\ intake[c].groups # {} /\ Group(c).adapter.saves
     /\ intake[c].checked = images
     /\ \/ Fault /\ Fails(c)
        \/ /\ intake[c].saved # images
           /\ stored' = stored \cup {Attachment(intake[c].batch, images, image)}
           /\ intake' = [intake EXCEPT ![c].saved = @ \cup {image}]
           /\ UNCHANGED <<answered, mediaFaults>>
        \/ /\ intake[c].saved = images /\ TakeOutput(c)
           /\ UNCHANGED <<answered, stored, mediaFaults>>
     /\ UNCHANGED <<adapters, providers, drawing, drawn>>
(* The whole batch is answered at once, in the order of the inputs.          *)
Answer(c) ==
  /\ intake[c] # None /\ intake[c].groups = {}
  /\ answered' = [answered EXCEPT ![c] = intake[c]]
  /\ intake' = [intake EXCEPT ![c] = None]
  /\ UNCHANGED <<adapters, providers, stored, drawing, drawn, mediaFaults>>
(* modelInput(): only an artifact whose own adapter is live; the attachment  *)
(* adapter knows only what it has saved.                                     *)
ModelInput(artifact) ==
  \E a \in adapters : a.id = artifact.owner.id /\ artifact.mime \in a.mimes

(* generate(): the provider that is named, or the first one that draws the   *)
(* kind; the artifact must be of the kind asked for.                         *)
Generate(c, kind, name) ==
  LET able == {p \in providers : kind \in p.kinds /\ name \in {None, p.id}} IN
  /\ drawing[c] = None /\ drawn[c] = None /\ able # {}
  /\ drawing' = [drawing EXCEPT ![c] = [kind |-> kind, provider |-> First(able)]]
  /\ UNCHANGED <<adapters, providers, intake, answered, stored, drawn, mediaFaults>>
Drawn(c) ==
  /\ drawing[c] # None
  /\ drawing' = [drawing EXCEPT ![c] = None]
  /\ \E kind \in Kinds :
       \/ /\ kind = drawing[c].kind /\ UNCHANGED mediaFaults
          /\ drawn' = [drawn EXCEPT ![c] = [kind |-> kind, request |-> drawing[c]]]
       \/ kind # drawing[c].kind /\ Fault /\ UNCHANGED drawn
  /\ UNCHANGED <<adapters, providers, intake, answered, stored>>

Next ==
  \/ \E a \in Adapters : RegisterInputAdapter(a) \/ (a \in adapters /\ DisposeAdapter(a))
  \/ \E p \in Providers : RegisterProvider(p) \/ (p \in providers /\ DisposeProvider(p))
  \/ \E c \in Intakes :
       \/ \E batch \in Batches, authority \in Authorities : IngestInputs(c, batch, authority)
       \/ Ingest(c) \/ ValidateImage(c) \/ SaveImage(c) \/ Answer(c) \/ Drawn(c)
       \/ \E kind \in Kinds, name \in {None} \cup {p.id : p \in Providers} : Generate(c, kind, name)

Spec == Init /\ [][Next]_miVars

-----------------------------------------------------------------------------
(* A batch that is answered has for each input the artifact made of that     *)
(* input, by an adapter that the caller's authority covered; no image is     *)
(* saved before every image of its group has passed its check, and every     *)
(* artifact of the attachment store stands for a saved image.                *)
IntakeIsSound ==
  /\ \A c \in Intakes : answered[c] # None =>
       \A i \in DOMAIN answered[c].batch :
         LET artifact == answered[c].artifacts[i] IN
         /\ artifact # None /\ artifact.input = i /\ artifact.mime = answered[c].batch[i].mime
         /\ Authorized(artifact.owner, answered[c].authority)
         /\ artifact.owner.saves => \E s \in stored : s.batch = answered[c].batch /\ s.input = i
         /\ artifact.owner \in adapters => ModelInput(artifact)
  /\ \A s \in stored : \A i \in s.group : s.batch[i].sound
  /\ \A c \in Intakes : drawn[c] # None => drawn[c].kind = drawn[c].request.kind
==============================================================================
