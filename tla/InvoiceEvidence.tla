---------------------------- MODULE InvoiceEvidence ----------------------------
(***************************************************************************)
(* The evidence of one invoice reconciliation: the artifact register in its *)
(* evidence document, the row of each stored file and the objects in the    *)
(* external store (billing.service.ts, the invoice part of                  *)
(* api-database.repository.ts, invoice-artifact-storage.service.ts).        *)
(*                                                                         *)
(* A handler reads the whole document with its hash, computes the document  *)
(* to write from what it read, and writes it if the hash is still the same. *)
(* Every write carries a timestamp or a new id, so a hash stands for one    *)
(* revision.  An upload puts its bytes in the object store before it writes *)
(* the row; the retention run deletes bytes before it deletes rows.         *)
(***************************************************************************)
EXTENDS Naturals

CONSTANTS
  Artifacts,   \* ids of the reconciliation's artifacts
  Contents,    \* the bytes of a file, known by their SHA-256
  NoContent,   \* no file stored, no digest registered
  Requests,    \* requests in flight at a time
  Sweeps,      \* retention runs in flight at a time
  Days,        \* the retention an upload may ask for
  External,    \* whether bytes go to an object store or stay in the row
  Decisions,   \* what a review or a policy exception may say, "none" first
  Controls,    \* how the totals of a control packet compare, "none" first
  MaxTime,     \* bound: clock
  MaxWrites    \* bound: revisions of the document

ASSUME NoContentAssumption == NoContent \notin Contents
ASSUME DaysAssumption == Days \subseteq Nat
ASSUME ExternalAssumption == External \in BOOLEAN
ASSUME OutcomesAssumption == "none" \in Decisions /\ "none" \in Controls
ASSUME TimeAssumption == MaxTime \in Nat /\ MaxWrites \in Nat

VARIABLES
  clock,
  evidence,   \* the artifact register of the evidence document
  revision,   \* stands for md5(evidence::text)
  row,        \* invoice_artifact_blobs
  objects,    \* what the object store holds, by artifact and content
  request,    \* what each request in flight has read
  sweep,      \* what each retention run in flight has listed
  gone,       \* the reconciliation is deleted, and its evidence with it
  written     \* ghost: what the last committed request on an artifact wrote

vars == <<clock, evidence, revision, row, objects, request, sweep, gone, written>>

Statuses == {"registered", "verified", "rejected"}

\* An artifact of the register, with its storedBlob and governance.
Artifact ==
  [status : Statuses, digest : Contents \union {NoContent},
   stored : Contents \union {NoContent}, until : Nat, hold : BOOLEAN,
   proof : BOOLEAN, review : Decisions, exception : Decisions, control : Controls]

Unregistered == [status |-> "unregistered"]
NoRow == [id |-> 0]
Row == [id : Nat \ {0}, content : Contents, until : Nat, hold : BOOLEAN, proof : BOOLEAN]

Registers == [Artifacts -> Artifact \union {Unregistered}]

NoRequest == [step |-> "none"]
ReadRequest == [step : {"read"}, doc : Registers, rev : Nat]
UploadRequest ==
  [step : {"checked", "stored"}, doc : Registers, rev : Nat,
   artifact : Artifacts, content : Contents, at : Nat]

NoSweep == [step |-> "none"]
\* A candidate of a retention run: the row's id and the object it points to.
Candidate == [artifact : Artifacts, id : Nat \ {0}, content : Contents]
ListedSweep == [step : {"listed"}, at : Nat, rows : SUBSET Candidate, todo : SUBSET Candidate]

TypeOK ==
  /\ clock \in Nat
  /\ evidence \in Registers
  /\ revision \in Nat
  /\ row \in [Artifacts -> Row \union {NoRow}]
  /\ objects \subseteq Artifacts \X Contents
  /\ request \in [Requests -> {NoRequest} \union ReadRequest \union UploadRequest]
  /\ sweep \in [Sweeps -> {NoSweep} \union ListedSweep]
  /\ gone \in BOOLEAN
  /\ written \in Registers

\* saveInvoiceReconciliation: a new reconciliation has no artifact.
Init ==
  /\ clock = 0
  /\ evidence = [a \in Artifacts |-> Unregistered]
  /\ revision = 0
  /\ row = [a \in Artifacts |-> NoRow]
  /\ objects = {}
  /\ request = [r \in Requests |-> NoRequest]
  /\ sweep = [s \in Sweeps |-> NoSweep]
  /\ gone = FALSE
  /\ written = [a \in Artifacts |-> Unregistered]

Larger(m, n) == IF m >= n THEN m ELSE n
Registered(doc, a) == doc[a] # Unregistered
Stored(doc, a) == Registered(doc, a) /\ doc[a].stored # NoContent

-----------------------------------------------------------------------------
(* Reading and writing the evidence document.                              *)

Forget(r) == request' = [request EXCEPT ![r] = NoRequest]

\* getInvoiceReconciliation at the start of every handler; after the last
\* revision of the bound no request starts
Read(r) ==
  /\ request[r] = NoRequest
  /\ ~gone
  /\ revision < MaxWrites
  /\ request' = [request EXCEPT ![r] = [step |-> "read", doc |-> evidence, rev |-> revision]]
  /\ UNCHANGED <<clock, evidence, revision, row, objects, sweep, gone, written>>

\* Mutant: the document is written whatever happened since it was read.
AnyHash(r) == TRUE

\* WHERE md5(evidence::text) = $3; otherwise ApiConflictError and a rollback
SameHash(r) == request[r].rev = revision

\* replaceInvoiceGradeArtifactEvidence, appendInvoiceGradeArtifactEvidence
Replace(r, a, artifact) ==
  /\ SameHash(r)
  /\ ~gone
  /\ revision < MaxWrites
  /\ evidence' = [request[r].doc EXCEPT ![a] = artifact]
  /\ revision' = revision + 1
  /\ written' = [written EXCEPT ![a] = artifact]
  /\ Forget(r)
  /\ UNCHANGED <<clock, sweep, gone>>

\* updateInvoiceReconciliationEvidence: only the document changes.
Update(r, a, artifact) == Replace(r, a, artifact) /\ UNCHANGED <<row, objects>>

\* registerInvoiceGradeArtifact: a new id, with or without a digest
Register(r, a, digest) ==
  /\ request[r].step = "read"
  /\ ~Registered(request[r].doc, a)
  /\ Update(r, a, [status |-> "registered", digest |-> digest, stored |-> NoContent,
                   until |-> 0, hold |-> FALSE, proof |-> FALSE, review |-> "none",
                   exception |-> "none", control |-> "none"])

\* verifyInvoiceGradeArtifact: a checksum, if given, is the registered one
Verify(r, a, verdict, sha) ==
  LET artifact == request[r].doc[a] IN
  /\ request[r].step = "read"
  /\ Registered(request[r].doc, a)
  /\ NoContent \in {artifact.digest, sha} \/ artifact.digest = sha
  /\ Update(r, a, [artifact EXCEPT !.status = verdict])

\* validateInvoiceControlPacket: how the totals compare is an input here.
ValidateControl(r, a, control) ==
  LET artifact == request[r].doc[a] IN
  /\ request[r].step = "read"
  /\ Stored(request[r].doc, a)
  /\ artifact.status = "verified"
  /\ Update(r, a, [artifact EXCEPT !.control = control])

\* updateInvoiceArtifactReview
Review(r, a, decision) ==
  /\ request[r].step = "read"
  /\ Stored(request[r].doc, a)
  /\ Update(r, a, [request[r].doc[a] EXCEPT !.review = decision])

\* updateInvoiceArtifactPolicyException
Except(r, a, decision) ==
  /\ request[r].step = "read"
  /\ Stored(request[r].doc, a)
  /\ Update(r, a, [request[r].doc[a] EXCEPT !.exception = decision])

-----------------------------------------------------------------------------
(* Changing the document and the row of the stored file together.          *)

\* Mutant: only the document learns of the hold.
SetLegalHoldInDocument(r, a, hold) ==
  /\ request[r].step = "read"
  /\ Stored(request[r].doc, a)
  /\ Update(r, a, [request[r].doc[a] EXCEPT !.hold = hold])

\* setInvoiceArtifactLegalHold, in one transaction; no row, no change
SetLegalHold(r, a, hold) ==
  /\ request[r].step = "read"
  /\ Stored(request[r].doc, a)
  /\ row[a] # NoRow
  /\ row' = [row EXCEPT ![a].hold = hold]
  /\ Replace(r, a, [request[r].doc[a] EXCEPT !.hold = hold])
  /\ UNCHANGED objects

\* attachInvoiceArtifactProviderRetentionProof: external storage only
AttachProof(r, a) ==
  /\ request[r].step = "read"
  /\ External
  /\ Stored(request[r].doc, a)
  /\ row[a] # NoRow
  /\ row' = [row EXCEPT ![a].proof = TRUE]
  /\ Replace(r, a, [request[r].doc[a] EXCEPT !.proof = TRUE])
  /\ UNCHANGED objects

-----------------------------------------------------------------------------
(* uploadInvoiceArtifactBlob: check, put the bytes, write row and document. *)

Checked(r, a, c) ==
  request' = [request EXCEPT ![r] = [step |-> "checked", doc |-> request[r].doc,
                                     rev |-> request[r].rev, artifact |-> a,
                                     content |-> c, at |-> clock]]

\* Mutant: any file may replace the one registered.
CheckUploadOfAnything(r, a, c) ==
  /\ request[r].step = "read"
  /\ Registered(request[r].doc, a)
  /\ request[r].doc[a].status # "verified"
  /\ ~(row[a] # NoRow /\ row[a].hold)
  /\ Checked(r, a, c)
  /\ UNCHANGED <<clock, evidence, revision, row, objects, sweep, gone, written>>

\* Mutant: a verified artifact may be uploaded again.
CheckUploadOfVerified(r, a, c) ==
  /\ request[r].step = "read"
  /\ Registered(request[r].doc, a)
  /\ ~(row[a] # NoRow /\ row[a].hold)
  /\ request[r].doc[a].digest \in {NoContent, c}
  /\ Checked(r, a, c)
  /\ UNCHANGED <<clock, evidence, revision, row, objects, sweep, gone, written>>

\* A verified or held artifact is refused, and a file with another digest;
\* the hold is probed in the row, the rest is read in the document.
CheckUpload(r, a, c) ==
  /\ request[r].step = "read"
  /\ Registered(request[r].doc, a)
  /\ request[r].doc[a].status # "verified"
  /\ ~(row[a] # NoRow /\ row[a].hold)
  /\ request[r].doc[a].digest \in {NoContent, c}
  /\ Checked(r, a, c)
  /\ UNCHANGED <<clock, evidence, revision, row, objects, sweep, gone, written>>

\* store: the malware scan passed and the object is put under its key
PutObject(r) ==
  /\ request[r].step = "checked"
  /\ objects' = IF External THEN objects \union {<<request[r].artifact, request[r].content>>}
                ELSE objects
  /\ request' = [request EXCEPT ![r].step = "stored"]
  /\ UNCHANGED <<clock, evidence, revision, row, sweep, gone, written>>

\* INSERT ... ON CONFLICT DO UPDATE: retention and hold only grow.
Upserted(a, c, until, hold) ==
  IF row[a] = NoRow
  THEN [id |-> revision + 1, content |-> c, until |-> until, hold |-> hold, proof |-> FALSE]
  ELSE [id |-> row[a].id, content |-> c, until |-> Larger(row[a].until, until),
        hold |-> row[a].hold \/ hold, proof |-> FALSE]

\* saveInvoiceArtifactBlobAndUpdateEvidence, with storedInvoiceGradeArtifact
SaveUpload(r, days, hold) ==
  LET a == request[r].artifact
      c == request[r].content
      until == request[r].at + days
  IN  /\ request[r].step = "stored"
      /\ row' = [row EXCEPT ![a] = Upserted(a, c, until, hold)]
      /\ Replace(r, a, [request[r].doc[a] EXCEPT !.digest = c, !.stored = c, !.until = until,
                                                 !.hold = hold, !.proof = FALSE])
      /\ UNCHANGED objects

\* A refusal, a conflict, a failing scanner or store, or a restart.
GiveUp(r) ==
  /\ request[r] # NoRequest
  /\ Forget(r)
  /\ UNCHANGED <<clock, evidence, revision, row, objects, sweep, gone, written>>

-----------------------------------------------------------------------------
(* enforceInvoiceArtifactRetention when it is set to delete.               *)

Expired(a, at) == row[a] # NoRow /\ row[a].until <= at /\ ~row[a].hold

CandidateOf(a) == [artifact |-> a, id |-> row[a].id, content |-> row[a].content]

\* listExpiredInvoiceArtifactBlobDeletionCandidates; with none to list the
\* run ends and has changed nothing
ListExpired(s) ==
  LET listed == {CandidateOf(a) : a \in {b \in Artifacts : Expired(b, clock)}} IN
  /\ sweep[s] = NoSweep
  /\ listed # {}
  /\ sweep' = [sweep EXCEPT ![s] = [step |-> "listed", at |-> clock, rows |-> listed,
                                    todo |-> IF External THEN listed ELSE {}]]
  /\ UNCHANGED <<clock, evidence, revision, row, objects, request, gone, written>>

\* artifactStorageService.delete of the next candidate; a missing object is fine
DeleteObject(s) ==
  /\ sweep[s] # NoSweep
  /\ \E candidate \in sweep[s].todo :
       /\ objects' = objects \ {<<candidate.artifact, candidate.content>>}
       /\ sweep' = [sweep EXCEPT ![s].todo = @ \ {candidate}]
  /\ UNCHANGED <<clock, evidence, revision, row, request, gone, written>>

\* Mutant: whatever was listed is deleted.
PurgedAsListed(s, a) ==
  row[a] # NoRow /\ row[a].id \in {c.id : c \in {d \in sweep[s].rows : d.artifact = a}}

\* WHERE id = ANY($1) AND retention_until <= $2 AND legal_hold = false
Purged(s, a) ==
  /\ Expired(a, sweep[s].at)
  /\ row[a].id \in {c.id : c \in {d \in sweep[s].rows : d.artifact = a}}

\* deleteInvoiceArtifactBlobsByIds, after the last object
DeleteRows(s) ==
  /\ sweep[s] # NoSweep
  /\ sweep[s].todo = {}
  /\ row' = [a \in Artifacts |-> IF Purged(s, a) THEN NoRow ELSE row[a]]
  /\ sweep' = [sweep EXCEPT ![s] = NoSweep]
  /\ UNCHANGED <<clock, evidence, revision, objects, request, gone, written>>

\* The store refuses a delete, or the process restarts: rows stay.
AbortSweep(s) ==
  /\ sweep[s] # NoSweep
  /\ sweep' = [sweep EXCEPT ![s] = NoSweep]
  /\ UNCHANGED <<clock, evidence, revision, row, objects, request, gone, written>>

\* External: the comparison of the reconciliation is deleted, by the data sweep once
\* its team is, or the import run.  The cascade takes the document and the rows,
\* expired or not, held or not; nobody deletes the objects.
Cascade ==
  /\ ~gone
  /\ gone' = TRUE
  /\ evidence' = [a \in Artifacts |-> Unregistered]
  /\ written' = evidence'
  /\ row' = [a \in Artifacts |-> NoRow]
  /\ UNCHANGED <<clock, revision, objects, request, sweep>>

Tick ==
  /\ clock < MaxTime
  /\ clock' = clock + 1
  /\ UNCHANGED <<evidence, revision, row, objects, request, sweep, gone, written>>

-----------------------------------------------------------------------------

UpdateStep(r, a) ==
  \/ \E digest \in Contents \union {NoContent} : Register(r, a, digest)
  \/ \E verdict \in {"verified", "rejected"}, sha \in Contents \union {NoContent} :
       Verify(r, a, verdict, sha)
  \/ \E control \in Controls \ {"none"} : ValidateControl(r, a, control)
  \/ \E decision \in Decisions \ {"none"} : Review(r, a, decision)
  \/ \E decision \in Decisions \ {"none"} : Except(r, a, decision)

FileStep(r, a) ==
  \/ \E hold \in BOOLEAN : SetLegalHold(r, a, hold)
  \/ AttachProof(r, a)
  \/ \E c \in Contents : CheckUpload(r, a, c)

RequestStep(r) ==
  \/ Read(r)
  \/ \E a \in Artifacts : UpdateStep(r, a) \/ FileStep(r, a)
  \/ PutObject(r)
  \/ \E days \in Days, hold \in BOOLEAN : SaveUpload(r, days, hold)
  \/ GiveUp(r)

SweepStep(s) ==
  \/ ListExpired(s)
  \/ DeleteObject(s)
  \/ DeleteRows(s)
  \/ AbortSweep(s)

Next ==
  \/ \E r \in Requests : RequestStep(r)
  \/ \E s \in Sweeps : SweepStep(s)
  \/ Cascade
  \/ Tick

Spec == Init /\ [][Next]_vars

-----------------------------------------------------------------------------
(* Properties                                                              *)

\* What a committed request decided about an artifact stays until another
\* request on the same artifact: concurrent writers of the one document
\* never undo each other (the optimistic guard of every update).
NoLostUpdate == evidence = written

\* The document and the row of a stored file agree on the bytes, the hold and
\* the proof, and the row is kept at least as long as the document says.
RowMatches(a) ==
  /\ Stored(evidence, a)
  /\ evidence[a].stored = row[a].content
  /\ evidence[a].hold = row[a].hold
  /\ evidence[a].proof = row[a].proof
  /\ evidence[a].until <= row[a].until

DocumentMatchesRows == \A a \in Artifacts : row[a] # NoRow => RowMatches(a)

\* Once a file is stored for an artifact, the artifact never names other bytes as
\* long as the document is there, whatever uploads overlap and even after the row
\* was purged.
WriteOnce ==
  [][\A a \in Artifacts : ~gone' /\ Stored(evidence, a) =>
       Stored(evidence', a) /\ evidence'[a].stored = evidence[a].stored]_vars

\* GLOSSARY.md, WORM: the file of a verified artifact is not replaced nor its
\* retention changed; all that may happen to it is the retention run, or that its
\* reconciliation is deleted.
VerifiedIsKept ==
  [][\A a \in Artifacts : Registered(evidence, a) /\ evidence[a].status = "verified" =>
       \/ row'[a] = NoRow
       \/ /\ row[a] # NoRow
          /\ row'[a].content = row[a].content
          /\ row'[a].until = row[a].until]_vars

\* As long as its reconciliation is there, a row leaves the table only when its
\* retention has run out and it is not held at that moment, although the
\* retention run listed it earlier.
PurgeHonoursHold ==
  [][\A a \in Artifacts :
       ~gone' /\ row[a] # NoRow /\ row'[a] = NoRow => Expired(a, clock)]_vars

\* "A flag preventing deletion regardless of retention window" (GLOSSARY.md:41): not
\* the deletion of the comparison that was reconciled, which no hold stops.
HeldRowsStay ==
  [][\A a \in Artifacts : row[a] # NoRow /\ row[a].hold => row'[a] # NoRow]_vars

\* GLOSSARY.md:41: a legal hold prevents deletion regardless of retention, so
\* the bytes of a held row are in the store.
HeldBytesKept ==
  \A a \in Artifacts : External /\ row[a] # NoRow /\ row[a].hold =>
    <<a, row[a].content>> \in objects

(* What keeps a retention run out of the way of HeldBytesKept; the code     *)
(* ensures none of the three.                                              *)

ListedBy(s) == IF sweep[s] = NoSweep THEN {} ELSE {c.artifact : c \in sweep[s].rows}

\* No upload is between its bytes and its row for an artifact that a run listed.
UploadsApart ==
  \A r \in Requests, s \in Sweeps :
    request[r].step = "stored" => request[r].artifact \notin ListedBy(s)

\* No hold is set or lifted on an artifact that a run listed.
HoldsWait ==
  \A s \in Sweeps : \A a \in ListedBy(s) : row'[a] # NoRow => row'[a].hold = row[a].hold

\* A run that ends has deleted no object of a row it leaves.
RunsComplete ==
  \A s \in Sweeps : sweep[s] # NoSweep /\ sweep'[s] = NoSweep =>
    \A c \in sweep[s].rows \ sweep[s].todo : row'[c.artifact] = NoRow

=============================================================================
