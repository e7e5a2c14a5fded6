------------------------ MODULE InvoiceEvidenceProofs ------------------------
(***************************************************************************)
(* Proofs about InvoiceEvidence, for any artifacts, contents, requests,    *)
(* retention runs and bounds, with and without an object store.  The last  *)
(* section says which overlaps alone part a held file from its bytes.      *)
(***************************************************************************)
EXTENDS InvoiceEvidence, TLAPS

RequestRecords == {NoRequest} \union ReadRequest \union UploadRequest
Rows == Row \union {NoRow}
Documents == Artifact \union {Unregistered}

-----------------------------------------------------------------------------
(* The inductive invariant.                                                *)

\* A request holds a past document, and the current one if its hash is and
\* the reconciliation is there.
FreshReads ==
  \A r \in Requests : request[r] # NoRequest =>
    /\ request[r].rev <= revision
    /\ request[r].rev = revision /\ ~gone => request[r].doc = evidence

\* What an upload checked is still so while the hash is the same.
UploadStillAllowed(r) ==
  LET a == request[r].artifact IN
  /\ Registered(evidence, a)
  /\ evidence[a].status # "verified"
  /\ evidence[a].digest \in {NoContent, request[r].content}
  /\ row[a] = NoRow \/ ~row[a].hold

UploadsChecked ==
  \A r \in Requests :
    request[r] \in UploadRequest /\ request[r].rev = revision /\ ~gone => UploadStillAllowed(r)

StoredDigest ==
  \A a \in Artifacts : Stored(evidence, a) => evidence[a].digest = evidence[a].stored

SweepsArePast == \A s \in Sweeps : sweep[s] # NoSweep => sweep[s].at <= clock

IInv ==
  /\ TypeOK
  /\ NoLostUpdate
  /\ DocumentMatchesRows
  /\ FreshReads
  /\ UploadsChecked
  /\ StoredDigest
  /\ SweepsArePast

LEMMA InitInv == Init => IInv
<1> SUFFICES ASSUME Init PROVE IInv
  OBVIOUS
<1>1. TypeOK
  BY DEF Init, TypeOK, Registers
<1>2. \A r \in Requests : request[r] = NoRequest /\ request[r] \notin UploadRequest
  BY DEF Init, NoRequest, UploadRequest
<1>3. \A a \in Artifacts : row[a] = NoRow /\ ~Stored(evidence, a)
  BY DEF Init, Stored, Registered
<1>4. \A s \in Sweeps : sweep[s] = NoSweep
  BY DEF Init
<1>5. NoLostUpdate
  BY DEF Init, NoLostUpdate
<1> QED
  BY <1>1, <1>2, <1>3, <1>4, <1>5
  DEF IInv, DocumentMatchesRows, FreshReads, UploadsChecked, StoredDigest, SweepsArePast

-----------------------------------------------------------------------------
(* Kinds of requests and rows.                                             *)

LEMMA RequestTypes ==
  ASSUME TypeOK, NEW r \in Requests
  PROVE  /\ request[r].step = "read" => request[r] \in ReadRequest
         /\ request[r].step \in {"checked", "stored"} => request[r] \in UploadRequest
         /\ request[r] # NoRequest =>
              request[r].doc \in Registers /\ request[r].rev \in Nat
         /\ request[r].step = "none" => request[r] = NoRequest
  BY DEF TypeOK, NoRequest, ReadRequest, UploadRequest

LEMMA ArtifactTypes ==
  ASSUME NEW doc \in Registers, NEW a \in Artifacts, Registered(doc, a)
  PROVE  doc[a] \in Artifact
  BY DEF Registers, Registered

LEMMA RowTypes ==
  ASSUME TypeOK, NEW a \in Artifacts, row[a] # NoRow
  PROVE  row[a] \in Row
  BY DEF TypeOK

LEMMA SweepTypes ==
  ASSUME TypeOK, NEW s \in Sweeps, sweep[s] # NoSweep
  PROVE  sweep[s] \in ListedSweep
  BY DEF TypeOK

-----------------------------------------------------------------------------
(* A write of the document, whatever it writes.                            *)

LEMMA WriteEffect ==
  ASSUME IInv, NEW r \in Requests, NEW a \in Artifacts, NEW artifact \in Artifact,
         request[r] # NoRequest, Replace(r, a, artifact)
  PROVE  /\ evidence' = [evidence EXCEPT ![a] = artifact]
         /\ evidence' \in Registers
         /\ written' = evidence'
         /\ revision' = revision + 1 /\ revision' \in Nat
         /\ request' \in [Requests -> RequestRecords]
         /\ \A q \in Requests : request'[q] # NoRequest =>
              request'[q] = request[q] /\ request'[q].rev < revision'
         /\ clock' = clock /\ sweep' = sweep /\ gone' = gone
<1>1. request[r].doc = evidence
  BY DEF IInv, FreshReads, Replace, SameHash
<1>2. evidence' = [evidence EXCEPT ![a] = artifact]
  BY <1>1 DEF Replace
<1>3. evidence' \in Registers
  BY <1>2 DEF IInv, TypeOK, Registers
<1>4. written' = evidence'
  BY <1>2 DEF Replace, IInv, NoLostUpdate
<1>5. revision' = revision + 1 /\ revision' \in Nat
  BY DEF Replace, IInv, TypeOK
<1>6. request' \in [Requests -> RequestRecords]
  BY DEF Replace, Forget, IInv, TypeOK, RequestRecords
<1>7. ASSUME NEW q \in Requests, request'[q] # NoRequest
      PROVE  request'[q] = request[q] /\ request'[q].rev < revision'
  <2>1. request'[q] = request[q]
    BY <1>7 DEF Replace, Forget, IInv, TypeOK
  <2>2. request[q].rev <= revision /\ request[q].rev \in Nat
    BY <1>7, <2>1, RequestTypes DEF IInv, FreshReads
  <2> QED BY <2>1, <2>2, <1>5 DEF IInv, TypeOK
<1> QED BY <1>2, <1>3, <1>4, <1>5, <1>6, <1>7 DEF Replace

\* A write preserves the invariant if what it writes fits the row it leaves.
LEMMA WriteInv ==
  ASSUME IInv, NEW r \in Requests, NEW a \in Artifacts, NEW artifact \in Artifact,
         request[r] # NoRequest, Replace(r, a, artifact),
         objects' = objects,
         row' \in [Artifacts -> Rows],
         \A b \in Artifacts \ {a} : row'[b] = row[b],
         artifact.stored # NoContent => artifact.digest = artifact.stored,
         row'[a] # NoRow =>
           /\ artifact.stored = row'[a].content
           /\ artifact.hold = row'[a].hold
           /\ artifact.proof = row'[a].proof
           /\ artifact.until <= row'[a].until
  PROVE  IInv'
<1>1. /\ evidence' = [evidence EXCEPT ![a] = artifact]
      /\ evidence' \in Registers
      /\ written' = evidence'
      /\ revision' \in Nat
      /\ request' \in [Requests -> RequestRecords]
      /\ \A q \in Requests : request'[q] # NoRequest =>
           request'[q] = request[q] /\ request'[q].rev < revision'
      /\ clock' = clock /\ sweep' = sweep /\ gone' = gone
  BY WriteEffect
<1>2. TypeOK'
  BY <1>1 DEF IInv, TypeOK, RequestRecords, Rows
<1>3. /\ evidence'[a] = artifact
      /\ \A b \in Artifacts \ {a} : evidence'[b] = evidence[b]
  BY <1>1 DEF IInv, TypeOK, Registers
<1>4. Registered(evidence', a)
  BY <1>3 DEF Registered, Artifact, Unregistered, Statuses
<1>5. DocumentMatchesRows'
  <2> SUFFICES ASSUME NEW b \in Artifacts, row'[b] # NoRow PROVE RowMatches(b)'
    BY DEF DocumentMatchesRows
  <2>1. CASE b = a
    <3>1. row'[a] \in Row
      BY <2>1 DEF Rows
    <3>2. artifact.stored # NoContent
      BY <2>1, <3>1, NoContentAssumption DEF Row
    <3> QED BY <2>1, <3>2, <1>3, <1>4 DEF RowMatches, Stored
  <2>2. CASE b # a
    BY <2>2, <1>3 DEF IInv, DocumentMatchesRows, RowMatches, Stored, Registered
  <2> QED BY <2>1, <2>2
<1>6. StoredDigest'
  BY <1>3 DEF IInv, StoredDigest, Stored, Registered
<1>7. FreshReads'
  <2> SUFFICES ASSUME NEW q \in Requests, request'[q] # NoRequest
               PROVE  request'[q].rev < revision' /\ request'[q].rev \in Nat
    BY <1>1 DEF FreshReads
  <2> QED BY <1>1, RequestTypes DEF IInv
<1>8. UploadsChecked'
  <2> SUFFICES ASSUME NEW q \in Requests, request'[q] \in UploadRequest
               PROVE  request'[q].rev # revision'
    BY DEF UploadsChecked
  <2>1. request'[q] # NoRequest
    BY DEF UploadRequest, NoRequest
  <2>2. request'[q].rev < revision' /\ request'[q].rev \in Nat
    BY <2>1, <1>1, RequestTypes DEF IInv
  <2> QED BY <2>2, <1>1
<1> QED BY <1>1, <1>2, <1>5, <1>6, <1>7, <1>8 DEF IInv, NoLostUpdate, SweepsArePast

-----------------------------------------------------------------------------
(* The writes that store no new file.                                      *)

\* What such a write leaves alone: the bytes, the digest and the retention.
KeepsFile(a, artifact) ==
  /\ Registered(evidence, a) =>
       /\ artifact.stored = evidence[a].stored
       /\ artifact.digest = evidence[a].digest
       /\ artifact.until = evidence[a].until
  /\ ~Registered(evidence, a) => artifact.stored = NoContent

\* What it does to the rows: at most the hold and the proof of this one.
KeepsRows(a, artifact) ==
  /\ row' \in [Artifacts -> Rows]
  /\ \A b \in Artifacts \ {a} : row'[b] = row[b]
  /\ row[a] = NoRow => row'[a] = NoRow
  /\ row[a] # NoRow =>
       /\ row'[a] # NoRow
       /\ row'[a].id = row[a].id
       /\ row'[a].content = row[a].content
       /\ row'[a].until = row[a].until
       /\ row'[a].hold = artifact.hold
       /\ row'[a].proof = artifact.proof

Annotates(r, a) ==
  \E artifact \in Artifact :
    /\ Replace(r, a, artifact)
    /\ KeepsFile(a, artifact)
    /\ KeepsRows(a, artifact)
    /\ objects' = objects

\* An update of a registered artifact that leaves file, hold and proof alone.
LEMMA UpdateAnnotates ==
  ASSUME IInv, NEW r \in Requests, NEW a \in Artifacts, NEW artifact \in Artifact,
         request[r].step = "read", Registered(request[r].doc, a),
         Update(r, a, artifact),
         artifact.stored = request[r].doc[a].stored,
         artifact.digest = request[r].doc[a].digest,
         artifact.until = request[r].doc[a].until,
         artifact.hold = request[r].doc[a].hold,
         artifact.proof = request[r].doc[a].proof
  PROVE  Annotates(r, a)
<1>1. request[r] # NoRequest
  BY DEF NoRequest
<1>2. request[r].doc = evidence
  BY <1>1 DEF IInv, FreshReads, Update, Replace, SameHash
<1>3. KeepsFile(a, artifact)
  BY <1>2 DEF KeepsFile
<1>4. row' = row /\ objects' = objects
  BY DEF Update
<1>5. row[a] # NoRow => evidence[a].hold = row[a].hold /\ evidence[a].proof = row[a].proof
  BY DEF IInv, DocumentMatchesRows, RowMatches
<1>6. KeepsRows(a, artifact)
  BY <1>2, <1>4, <1>5 DEF KeepsRows, IInv, TypeOK, Rows
<1> QED BY <1>3, <1>4, <1>6 DEF Annotates, Update

LEMMA RegisterAnnotates ==
  ASSUME IInv, NEW r \in Requests, NEW a \in Artifacts,
         NEW digest \in Contents \union {NoContent}, Register(r, a, digest)
  PROVE  Annotates(r, a)
<1> DEFINE artifact == [status |-> "registered", digest |-> digest, stored |-> NoContent,
                        until |-> 0, hold |-> FALSE, proof |-> FALSE, review |-> "none",
                        exception |-> "none", control |-> "none"]
<1>1. artifact \in Artifact
  BY OutcomesAssumption DEF Artifact, Statuses
<1>2. request[r] # NoRequest
  BY DEF Register, NoRequest
<1>3. request[r].doc = evidence
  BY <1>2 DEF IInv, FreshReads, Register, Update, Replace, SameHash
<1>4. ~Registered(evidence, a) /\ row[a] = NoRow
  BY <1>3 DEF Register, IInv, DocumentMatchesRows, RowMatches, Stored
<1>5. KeepsFile(a, artifact)
  BY <1>4 DEF KeepsFile
<1>6. row' = row /\ objects' = objects /\ Replace(r, a, artifact)
  BY DEF Register, Update
<1>7. KeepsRows(a, artifact)
  BY <1>4, <1>6 DEF KeepsRows, IInv, TypeOK, Rows
<1> QED BY <1>1, <1>5, <1>6, <1>7 DEF Annotates

LEMMA UpdateStepAnnotates ==
  ASSUME IInv, NEW r \in Requests, NEW a \in Artifacts, UpdateStep(r, a)
  PROVE  Annotates(r, a)
<1> DEFINE old == request[r].doc[a]
<1>0. ASSUME request[r].step = "read", Registered(request[r].doc, a) PROVE old \in Artifact
  <2>1. request[r].doc \in Registers
    BY <1>0, RequestTypes DEF IInv, NoRequest
  <2> QED BY <2>1, <1>0, ArtifactTypes
<1>1. ASSUME NEW digest \in Contents \union {NoContent}, Register(r, a, digest)
      PROVE  Annotates(r, a)
  BY <1>1, RegisterAnnotates
<1>2. ASSUME NEW verdict \in {"verified", "rejected"}, NEW sha \in Contents \union {NoContent},
             Verify(r, a, verdict, sha)
      PROVE  Annotates(r, a)
  <2> DEFINE new == [old EXCEPT !.status = verdict]
  <2>1. old \in Artifact
    BY <1>2, <1>0 DEF Verify
  <2>2. /\ new \in Artifact
        /\ new.stored = old.stored /\ new.digest = old.digest /\ new.until = old.until
        /\ new.hold = old.hold /\ new.proof = old.proof
    BY <2>1 DEF Artifact, Statuses
  <2>3. /\ request[r].step = "read" /\ Registered(request[r].doc, a)
        /\ Update(r, a, new)
    BY <1>2 DEF Verify
  <2> HIDE DEF new
  <2> QED BY <2>2, <2>3, UpdateAnnotates
<1>3. ASSUME NEW control \in Controls \ {"none"}, ValidateControl(r, a, control)
      PROVE  Annotates(r, a)
  <2> DEFINE new == [old EXCEPT !.control = control]
  <2>1. old \in Artifact
    BY <1>3, <1>0 DEF ValidateControl, Stored
  <2>2. /\ new \in Artifact
        /\ new.stored = old.stored /\ new.digest = old.digest /\ new.until = old.until
        /\ new.hold = old.hold /\ new.proof = old.proof
    BY <2>1 DEF Artifact
  <2>3. /\ request[r].step = "read" /\ Registered(request[r].doc, a)
        /\ Update(r, a, new)
    BY <1>3 DEF ValidateControl, Stored
  <2> HIDE DEF new
  <2> QED BY <2>2, <2>3, UpdateAnnotates
<1>4. ASSUME NEW decision \in Decisions \ {"none"}, Review(r, a, decision)
      PROVE  Annotates(r, a)
  <2> DEFINE new == [old EXCEPT !.review = decision]
  <2>1. old \in Artifact
    BY <1>4, <1>0 DEF Review, Stored
  <2>2. /\ new \in Artifact
        /\ new.stored = old.stored /\ new.digest = old.digest /\ new.until = old.until
        /\ new.hold = old.hold /\ new.proof = old.proof
    BY <2>1 DEF Artifact
  <2>3. /\ request[r].step = "read" /\ Registered(request[r].doc, a)
        /\ Update(r, a, new)
    BY <1>4 DEF Review, Stored
  <2> HIDE DEF new
  <2> QED BY <2>2, <2>3, UpdateAnnotates
<1>5. ASSUME NEW decision \in Decisions \ {"none"}, Except(r, a, decision)
      PROVE  Annotates(r, a)
  <2> DEFINE new == [old EXCEPT !.exception = decision]
  <2>1. old \in Artifact
    BY <1>5, <1>0 DEF Except, Stored
  <2>2. /\ new \in Artifact
        /\ new.stored = old.stored /\ new.digest = old.digest /\ new.until = old.until
        /\ new.hold = old.hold /\ new.proof = old.proof
    BY <2>1 DEF Artifact
  <2>3. /\ request[r].step = "read" /\ Registered(request[r].doc, a)
        /\ Update(r, a, new)
    BY <1>5 DEF Except, Stored
  <2> HIDE DEF new
  <2> QED BY <2>2, <2>3, UpdateAnnotates
<1> QED BY <1>1, <1>2, <1>3, <1>4, <1>5 DEF UpdateStep

\* The hold and the proof are written to the document and the row together.
LEMMA RowStepAnnotates ==
  ASSUME IInv, NEW r \in Requests, NEW a \in Artifacts,
         (\E hold \in BOOLEAN : SetLegalHold(r, a, hold)) \/ AttachProof(r, a)
  PROVE  Annotates(r, a)
<1> DEFINE old == request[r].doc[a]
<1>1. /\ request[r].step = "read" /\ Registered(request[r].doc, a) /\ row[a] # NoRow
      /\ SameHash(r) /\ ~gone /\ objects' = objects
  BY DEF SetLegalHold, AttachProof, Stored, Replace
<1>2. request[r] # NoRequest
  BY <1>1 DEF NoRequest
<1>3. request[r].doc = evidence
  BY <1>1, <1>2 DEF IInv, FreshReads, SameHash
<1>4. old \in Artifact /\ row[a] \in Row
  BY <1>1, <1>2, RequestTypes, ArtifactTypes, RowTypes DEF IInv
<1>5. evidence[a].hold = row[a].hold /\ evidence[a].proof = row[a].proof
  BY <1>1 DEF IInv, DocumentMatchesRows, RowMatches
<1>6. ASSUME NEW hold \in BOOLEAN, SetLegalHold(r, a, hold) PROVE Annotates(r, a)
  <2> DEFINE new == [old EXCEPT !.hold = hold]
             kept == [row[a] EXCEPT !.hold = hold]
  <2>1. /\ new \in Artifact
        /\ new.stored = old.stored /\ new.digest = old.digest /\ new.until = old.until
        /\ new.hold = hold /\ new.proof = old.proof
    BY <1>4 DEF Artifact
  <2>2. /\ kept \in Row
        /\ kept.id = row[a].id /\ kept.content = row[a].content /\ kept.until = row[a].until
        /\ kept.hold = hold /\ kept.proof = row[a].proof
    BY <1>4 DEF Row
  <2>3. row' = [row EXCEPT ![a] = kept] /\ Replace(r, a, new)
    BY <1>6 DEF SetLegalHold
  <2> HIDE DEF new, kept
  <2>4. kept # NoRow
    BY <2>2 DEF Row, NoRow
  <2>5. KeepsRows(a, new)
    BY <2>1, <2>2, <2>3, <2>4, <1>1, <1>3, <1>5 DEF KeepsRows, IInv, TypeOK, Rows
  <2>6. KeepsFile(a, new)
    BY <2>1, <1>1, <1>3 DEF KeepsFile
  <2> QED BY <2>1, <2>3, <2>5, <2>6, <1>1 DEF Annotates
<1>7. ASSUME AttachProof(r, a) PROVE Annotates(r, a)
  <2> DEFINE new == [old EXCEPT !.proof = TRUE]
             kept == [row[a] EXCEPT !.proof = TRUE]
  <2>1. /\ new \in Artifact
        /\ new.stored = old.stored /\ new.digest = old.digest /\ new.until = old.until
        /\ new.hold = old.hold /\ new.proof = TRUE
    BY <1>4 DEF Artifact
  <2>2. /\ kept \in Row
        /\ kept.id = row[a].id /\ kept.content = row[a].content /\ kept.until = row[a].until
        /\ kept.hold = row[a].hold /\ kept.proof = TRUE
    BY <1>4 DEF Row
  <2>3. row' = [row EXCEPT ![a] = kept] /\ Replace(r, a, new)
    BY <1>7 DEF AttachProof
  <2> HIDE DEF new, kept
  <2>4. kept # NoRow
    BY <2>2 DEF Row, NoRow
  <2>5. KeepsRows(a, new)
    BY <2>1, <2>2, <2>3, <2>4, <1>1, <1>3, <1>5 DEF KeepsRows, IInv, TypeOK, Rows
  <2>6. KeepsFile(a, new)
    BY <2>1, <1>1, <1>3 DEF KeepsFile
  <2> QED BY <2>1, <2>3, <2>5, <2>6, <1>1 DEF Annotates
<1> QED BY <1>6, <1>7

LEMMA AnnotatesInv ==
  ASSUME IInv, NEW r \in Requests, NEW a \in Artifacts, request[r] # NoRequest, Annotates(r, a)
  PROVE  IInv'
<1>1. PICK artifact \in Artifact :
        /\ Replace(r, a, artifact)
        /\ KeepsFile(a, artifact)
        /\ KeepsRows(a, artifact)
        /\ objects' = objects
  BY DEF Annotates
<1>2. artifact.stored # NoContent => artifact.digest = artifact.stored
  BY <1>1 DEF KeepsFile, IInv, StoredDigest, Stored
<1>3. ASSUME row'[a] # NoRow
      PROVE  /\ artifact.stored = row'[a].content
             /\ artifact.hold = row'[a].hold
             /\ artifact.proof = row'[a].proof
             /\ artifact.until <= row'[a].until
  <2>1. row[a] # NoRow
    BY <1>1, <1>3 DEF KeepsRows
  <2>2. RowMatches(a)
    BY <2>1 DEF IInv, DocumentMatchesRows
  <2> QED BY <1>1, <2>1, <2>2 DEF KeepsRows, KeepsFile, RowMatches, Stored
<1> QED BY <1>1, <1>2, <1>3, WriteInv DEF KeepsRows

-----------------------------------------------------------------------------
(* The write that ends an upload.                                          *)

\* What is known when it commits: the checks still hold.
LEMMA UploadFacts ==
  ASSUME IInv, NEW r \in Requests, NEW days \in Days, NEW hold \in BOOLEAN,
         SaveUpload(r, days, hold)
  PROVE  /\ request[r] \in UploadRequest
         /\ request[r].doc = evidence
         /\ UploadStillAllowed(r)
         /\ evidence[request[r].artifact] \in Artifact
         /\ request[r].at + days \in Nat
<1>1. request[r] \in UploadRequest
  BY RequestTypes DEF SaveUpload, IInv
<1>2. request[r] # NoRequest /\ request[r].rev = revision /\ ~gone
  BY <1>1 DEF UploadRequest, NoRequest, SaveUpload, Replace, SameHash
<1>3. request[r].doc = evidence /\ UploadStillAllowed(r)
  BY <1>1, <1>2 DEF IInv, FreshReads, UploadsChecked
<1>4. evidence[request[r].artifact] \in Artifact
  BY <1>1, <1>3, ArtifactTypes DEF UploadStillAllowed, IInv, TypeOK, UploadRequest
<1>5. request[r].at \in Nat /\ days \in Nat
  BY <1>1, DaysAssumption DEF UploadRequest
<1> QED BY <1>1, <1>3, <1>4, <1>5

\* The row after the upload fits what the document says of it.
LEMMA UpsertedRow ==
  ASSUME TypeOK, NEW a \in Artifacts, NEW c \in Contents, NEW until \in Nat,
         NEW hold \in BOOLEAN, row[a] = NoRow \/ ~row[a].hold
  PROVE  /\ Upserted(a, c, until, hold) \in Row
         /\ Upserted(a, c, until, hold).content = c
         /\ Upserted(a, c, until, hold).hold = hold
         /\ Upserted(a, c, until, hold).proof = FALSE
         /\ until <= Upserted(a, c, until, hold).until
<1>1. CASE row[a] = NoRow
  BY <1>1 DEF Upserted, Row, TypeOK
<1>2. CASE row[a] # NoRow
  <2>1. row[a] \in Row
    BY <1>2 DEF TypeOK
  <2>2. /\ Upserted(a, c, until, hold).content = c
        /\ Upserted(a, c, until, hold).proof = FALSE
        /\ Upserted(a, c, until, hold).until = Larger(row[a].until, until)
        /\ Upserted(a, c, until, hold).id = row[a].id
    BY <1>2 DEF Upserted
  <2>3. Upserted(a, c, until, hold).hold = (row[a].hold \/ hold)
    BY <1>2 DEF Upserted
  <2>4. Upserted(a, c, until, hold).hold = hold
    BY <2>1, <2>3, <1>2 DEF Row
  <2>5. Larger(row[a].until, until) \in Nat /\ until <= Larger(row[a].until, until)
    BY <2>1 DEF Larger, Row
  <2>6. Upserted(a, c, until, hold) =
          [id |-> row[a].id, content |-> c, until |-> Larger(row[a].until, until),
           hold |-> hold, proof |-> FALSE]
    BY <2>3, <2>4, <1>2 DEF Upserted
  <2>7. Upserted(a, c, until, hold) \in Row
    BY <2>1, <2>5, <2>6 DEF Row
  <2> QED BY <2>2, <2>4, <2>5, <2>7
<1> QED BY <1>1, <1>2

\* What an upload leaves in the document.
UploadedTo(r, until, hold) ==
  [evidence[request[r].artifact] EXCEPT !.digest = request[r].content,
     !.stored = request[r].content, !.until = until, !.hold = hold, !.proof = FALSE]

LEMMA SaveUploadInv ==
  ASSUME IInv, NEW r \in Requests, NEW days \in Days, NEW hold \in BOOLEAN,
         SaveUpload(r, days, hold)
  PROVE  IInv'
<1> DEFINE a == request[r].artifact
           c == request[r].content
           until == request[r].at + days
           new == UploadedTo(r, until, hold)
           saved == Upserted(a, c, until, hold)
<1>1. /\ request[r] \in UploadRequest
      /\ request[r].doc = evidence
      /\ UploadStillAllowed(r)
      /\ evidence[a] \in Artifact
      /\ until \in Nat
  BY UploadFacts
<1>2. a \in Artifacts /\ c \in Contents /\ request[r] # NoRequest
  BY <1>1 DEF UploadRequest, NoRequest
<1>3. /\ new \in Artifact
      /\ new.digest = c /\ new.stored = c /\ new.until = until
      /\ new.hold = hold /\ new.proof = FALSE
  BY <1>1, <1>2 DEF UploadedTo, Artifact
<1>4. row[a] = NoRow \/ ~row[a].hold
  BY <1>1 DEF UploadStillAllowed
<1>5. /\ saved \in Row
      /\ saved.content = c /\ saved.hold = hold /\ saved.proof = FALSE
      /\ until <= saved.until
  <2> HIDE DEF a, c, until
  <2>1. TypeOK
    BY DEF IInv
  <2>2. until \in Nat /\ a \in Artifacts /\ c \in Contents
    BY <1>1, <1>2
  <2> HIDE DEF new
  <2>3. saved \in Row
    BY <1>4, <2>1, <2>2, UpsertedRow
  <2>4. saved.content = c
    BY <1>4, <2>1, <2>2, UpsertedRow
  <2>5. saved.hold = hold
    BY <1>4, <2>1, <2>2, UpsertedRow, ZenonT(40)
  <2>6. saved.proof = FALSE
    BY DEF Upserted
  <2>7. until <= saved.until
    BY <1>4, <2>1, <2>2, UpsertedRow
  <2> QED BY <2>3, <2>4, <2>5, <2>6, <2>7
<1>6. Replace(r, a, new) /\ row' = [row EXCEPT ![a] = saved] /\ objects' = objects
  BY <1>1 DEF SaveUpload, UploadedTo
<1> HIDE DEF a, c, until, new, saved
<1>7. row' \in [Artifacts -> Rows] /\ row'[a] = saved
  BY <1>2, <1>5, <1>6 DEF IInv, TypeOK, Rows
<1>8. \A b \in Artifacts \ {a} : row'[b] = row[b]
  BY <1>6 DEF IInv, TypeOK
<1> QED BY <1>2, <1>3, <1>5, <1>6, <1>7, <1>8, WriteInv

-----------------------------------------------------------------------------
(* The steps that write no document.                                       *)

Quiet == UNCHANGED <<evidence, revision, gone, written>>

\* One request changes hands; documents and rows stay.
LEMMA RequestInv ==
  ASSUME IInv, NEW r \in Requests, NEW new \in RequestRecords,
         request' = [request EXCEPT ![r] = new],
         objects' \subseteq Artifacts \X Contents,
         UNCHANGED <<clock, row, sweep>>, Quiet,
         new # NoRequest =>
           new.rev <= revision /\ (new.rev = revision /\ ~gone => new.doc = evidence),
         new \in UploadRequest /\ new.rev = revision /\ ~gone =>
           /\ Registered(evidence, new.artifact)
           /\ evidence[new.artifact].status # "verified"
           /\ evidence[new.artifact].digest \in {NoContent, new.content}
           /\ row[new.artifact] = NoRow \/ ~row[new.artifact].hold
  PROVE  IInv'
<1>1. TypeOK'
  BY DEF IInv, TypeOK, Quiet, RequestRecords
<1>2. request'[r] = new /\ \A q \in Requests \ {r} : request'[q] = request[q]
  BY DEF IInv, TypeOK
<1>3. FreshReads'
  BY <1>2 DEF IInv, FreshReads, Quiet
<1>4. UploadsChecked'
  BY <1>2 DEF IInv, UploadsChecked, UploadStillAllowed, Registered, Quiet
<1>5. (NoLostUpdate /\ DocumentMatchesRows /\ StoredDigest /\ SweepsArePast)'
  BY DEF IInv, NoLostUpdate, DocumentMatchesRows, RowMatches, StoredDigest, SweepsArePast,
         Stored, Registered, Quiet
<1> QED BY <1>1, <1>3, <1>4, <1>5 DEF IInv

LEMMA ReadInv ==
  ASSUME IInv, NEW r \in Requests, Read(r) \/ GiveUp(r)
  PROVE  IInv'
<1>1. NoRequest \notin UploadRequest /\ NoRequest \in RequestRecords
  BY DEF NoRequest, UploadRequest, RequestRecords
<1>2. CASE GiveUp(r)
  BY <1>1, <1>2, RequestInv DEF GiveUp, Forget, Quiet, IInv, TypeOK
<1>3. CASE Read(r)
  <2> DEFINE new == [step |-> "read", doc |-> evidence, rev |-> revision]
  <2>1. new \in RequestRecords /\ new \notin UploadRequest
    BY DEF RequestRecords, ReadRequest, UploadRequest, IInv, TypeOK
  <2>2. new.rev <= revision /\ new.doc = evidence
    BY DEF IInv, TypeOK
  <2>3. request' = [request EXCEPT ![r] = new] /\ UNCHANGED <<clock, row, sweep, objects>> /\ Quiet
    BY <1>3 DEF Read, Quiet
  <2>4. objects' \subseteq Artifacts \X Contents
    BY <2>3 DEF IInv, TypeOK
  <2> HIDE DEF new
  <2> QED BY <2>1, <2>2, <2>3, <2>4, RequestInv
<1> QED BY <1>2, <1>3

LEMMA CheckUploadInv ==
  ASSUME IInv, NEW r \in Requests, NEW a \in Artifacts, NEW c \in Contents,
         CheckUpload(r, a, c)
  PROVE  IInv'
<1> DEFINE new == [step |-> "checked", doc |-> request[r].doc, rev |-> request[r].rev,
                   artifact |-> a, content |-> c, at |-> clock]
<1>1. request[r] \in ReadRequest /\ request[r] # NoRequest
  BY RequestTypes DEF CheckUpload, IInv, NoRequest
<1>2. new \in UploadRequest
  BY <1>1 DEF UploadRequest, ReadRequest, IInv, TypeOK
<1>3. request' = [request EXCEPT ![r] = new] /\ UNCHANGED <<clock, row, sweep, objects>> /\ Quiet
  BY DEF CheckUpload, Checked, Quiet
<1>4. /\ new.rev = request[r].rev /\ new.doc = request[r].doc
      /\ new.artifact = a /\ new.content = c
  OBVIOUS
<1>5. new.rev <= revision /\ (new.rev = revision /\ ~gone => new.doc = evidence)
  BY <1>1, <1>4 DEF IInv, FreshReads
<1>6. /\ Registered(request[r].doc, a)
      /\ request[r].doc[a].status # "verified"
      /\ request[r].doc[a].digest \in {NoContent, c}
      /\ row[a] = NoRow \/ ~row[a].hold
  BY DEF CheckUpload
<1>7. objects' \subseteq Artifacts \X Contents
  BY <1>3 DEF IInv, TypeOK
<1> HIDE DEF new
<1>8. new \in RequestRecords
  BY <1>2 DEF RequestRecords
<1> QED BY <1>3, <1>4, <1>5, <1>6, <1>7, <1>8, RequestInv

LEMMA PutObjectInv ==
  ASSUME IInv, NEW r \in Requests, PutObject(r)
  PROVE  IInv'
<1> DEFINE new == [request[r] EXCEPT !.step = "stored"]
<1>1. request[r] \in UploadRequest /\ request[r] # NoRequest
  BY RequestTypes DEF PutObject, IInv, NoRequest
<1>2. /\ new \in UploadRequest
      /\ new.rev = request[r].rev /\ new.doc = request[r].doc
      /\ new.artifact = request[r].artifact /\ new.content = request[r].content
  BY <1>1 DEF UploadRequest
<1>3. request' = [request EXCEPT ![r] = new] /\ UNCHANGED <<clock, row, sweep>> /\ Quiet
  BY DEF PutObject, Quiet
<1>4. objects' \subseteq Artifacts \X Contents
  BY <1>1 DEF PutObject, IInv, TypeOK, UploadRequest
<1>5. new.rev <= revision /\ (new.rev = revision /\ ~gone => new.doc = evidence)
  BY <1>1, <1>2 DEF IInv, FreshReads
<1>6. request[r].rev = revision /\ ~gone => UploadStillAllowed(r)
  BY <1>1 DEF IInv, UploadsChecked
<1> HIDE DEF new
<1>7. new \in RequestRecords
  BY <1>2 DEF RequestRecords
<1> QED BY <1>2, <1>3, <1>4, <1>5, <1>6, <1>7, RequestInv DEF UploadStillAllowed

LEMMA ListType ==
  ASSUME IInv, NEW s \in Sweeps, ListExpired(s)
  PROVE  sweep' \in [Sweeps -> {NoSweep} \union ListedSweep] /\ sweep'[s].at = clock
<1> DEFINE listed == {CandidateOf(a) : a \in {b \in Artifacts : Expired(b, clock)}}
           new == [step |-> "listed", at |-> clock, rows |-> listed,
                   todo |-> IF External THEN listed ELSE {}]
<1>1. listed \subseteq Candidate
  BY RowTypes DEF IInv, Expired, CandidateOf, Candidate, Row
<1>2. new \in ListedSweep /\ new.at = clock
  BY <1>1 DEF ListedSweep, IInv, TypeOK
<1>3. sweep' = [sweep EXCEPT ![s] = new]
  BY DEF ListExpired
<1> HIDE DEF new
<1> QED BY <1>2, <1>3 DEF IInv, TypeOK

\* A retention run steps: documents and requests stay.
LEMMA SweepInv ==
  ASSUME IInv, NEW s \in Sweeps, SweepStep(s)
  PROVE  IInv'
<1>1. Quiet /\ UNCHANGED <<clock, request>>
  BY DEF SweepStep, ListExpired, DeleteObject, DeleteRows, AbortSweep, Quiet
<1>2. /\ sweep' \in [Sweeps -> {NoSweep} \union ListedSweep]
      /\ SweepsArePast'
  <2>1. CASE ListExpired(s)
    BY <2>1, <1>1, ListType DEF IInv, TypeOK, SweepsArePast, ListExpired
  <2>2. CASE DeleteObject(s)
    <3>1. PICK candidate \in sweep[s].todo : sweep' = [sweep EXCEPT ![s].todo = @ \ {candidate}]
      BY <2>2 DEF DeleteObject
    <3> DEFINE new == [sweep[s] EXCEPT !.todo = @ \ {candidate}]
    <3>2. new \in ListedSweep /\ new.at = sweep[s].at /\ sweep[s] # NoSweep
      BY <2>2, SweepTypes DEF ListedSweep, DeleteObject, IInv
    <3>3. sweep' = [sweep EXCEPT ![s] = new]
      BY <3>1
    <3> HIDE DEF new
    <3> QED BY <3>2, <3>3, <1>1 DEF IInv, TypeOK, SweepsArePast
  <2>3. CASE DeleteRows(s) \/ AbortSweep(s)
    BY <2>3, <1>1 DEF DeleteRows, AbortSweep, IInv, TypeOK, SweepsArePast
  <2> QED BY <2>1, <2>2, <2>3 DEF SweepStep
<1>3. objects' \subseteq Artifacts \X Contents
  BY DEF SweepStep, ListExpired, DeleteObject, DeleteRows, AbortSweep, IInv, TypeOK
<1>4. /\ row' \in [Artifacts -> Rows]
      /\ \A a \in Artifacts : row'[a] \in {row[a], NoRow}
  BY DEF SweepStep, ListExpired, DeleteObject, DeleteRows, AbortSweep, IInv, TypeOK, Rows
<1>5. TypeOK'
  BY <1>1, <1>2, <1>3, <1>4 DEF IInv, TypeOK, Rows, Quiet
<1>6. (NoLostUpdate /\ FreshReads /\ StoredDigest)'
  BY <1>1 DEF IInv, NoLostUpdate, FreshReads, StoredDigest, Stored, Registered, Quiet
<1>7. DocumentMatchesRows'
  BY <1>1, <1>4 DEF IInv, DocumentMatchesRows, RowMatches, Stored, Registered, Quiet
<1>8. UploadsChecked'
  <2> SUFFICES ASSUME NEW q \in Requests, request[q] \in UploadRequest,
                      request[q].rev = revision, ~gone
               PROVE  UploadStillAllowed(q)'
    BY <1>1 DEF UploadsChecked, Quiet
  <2>1. UploadStillAllowed(q) /\ request[q].artifact \in Artifacts
    BY DEF IInv, UploadsChecked, UploadRequest
  <2> QED BY <2>1, <1>1, <1>4 DEF UploadStillAllowed, Registered, Quiet
<1> QED BY <1>2, <1>5, <1>6, <1>7, <1>8 DEF IInv

LEMMA IdleInv ==
  ASSUME IInv, Tick \/ UNCHANGED vars
  PROVE  IInv'
<1>1. UNCHANGED <<row, objects, request, sweep>> /\ Quiet
  BY DEF Tick, vars, Quiet
<1>2. clock' \in Nat /\ clock' >= clock
  BY DEF Tick, vars, IInv, TypeOK
<1>3. TypeOK'
  BY <1>1, <1>2 DEF IInv, TypeOK, Quiet
<1>4. SweepsArePast'
  <2> SUFFICES ASSUME NEW s \in Sweeps, sweep[s] # NoSweep PROVE sweep[s].at <= clock'
    BY <1>1 DEF SweepsArePast
  <2>1. sweep[s].at <= clock /\ sweep[s].at \in Nat
    BY SweepTypes DEF IInv, SweepsArePast, ListedSweep
  <2> QED BY <2>1, <1>2 DEF IInv, TypeOK
<1>5. (NoLostUpdate /\ DocumentMatchesRows /\ FreshReads /\ UploadsChecked /\ StoredDigest)'
  BY <1>1 DEF IInv, NoLostUpdate, DocumentMatchesRows, RowMatches, FreshReads, UploadsChecked,
              UploadStillAllowed, StoredDigest, Stored, Registered, Quiet
<1> QED BY <1>3, <1>4, <1>5 DEF IInv

\* The reconciliation goes, and with it the rows.
LEMMA CascadeInv ==
  ASSUME IInv, Cascade
  PROVE  IInv'
<1>1. UNCHANGED <<clock, revision, objects, request, sweep>> /\ gone'
  BY DEF Cascade
<1>2. /\ evidence' = [a \in Artifacts |-> Unregistered]
      /\ written' = evidence'
      /\ row' = [a \in Artifacts |-> NoRow]
  BY DEF Cascade
<1>3. TypeOK'
  BY <1>1, <1>2 DEF IInv, TypeOK, Registers, Cascade
<1>4. (NoLostUpdate /\ DocumentMatchesRows /\ StoredDigest /\ SweepsArePast)'
  BY <1>1, <1>2 DEF IInv, NoLostUpdate, DocumentMatchesRows, StoredDigest, SweepsArePast,
                    Stored, Registered
<1>5. (FreshReads /\ UploadsChecked)'
  BY <1>1 DEF IInv, FreshReads, UploadsChecked
<1> QED BY <1>3, <1>4, <1>5 DEF IInv

-----------------------------------------------------------------------------
(* Every step is one of these.                                             *)

LEMMA Steps ==
  ASSUME IInv, [Next]_vars
  PROVE  \/ \E r \in Requests, a \in Artifacts : request[r] # NoRequest /\ Annotates(r, a)
         \/ \E r \in Requests, days \in Days, hold \in BOOLEAN : SaveUpload(r, days, hold)
         \/ \E r \in Requests : Read(r) \/ GiveUp(r) \/ PutObject(r)
         \/ \E r \in Requests, a \in Artifacts, c \in Contents : CheckUpload(r, a, c)
         \/ \E s \in Sweeps : SweepStep(s)
         \/ Cascade \/ Tick \/ UNCHANGED vars
<1>1. ASSUME NEW r \in Requests, NEW a \in Artifacts, UpdateStep(r, a)
      PROVE  request[r] # NoRequest /\ Annotates(r, a)
  <2>1. request[r].step = "read"
    BY <1>1 DEF UpdateStep, Register, Verify, ValidateControl, Review, Except
  <2> QED BY <1>1, <2>1, UpdateStepAnnotates DEF NoRequest
<1>2. ASSUME NEW r \in Requests, NEW a \in Artifacts, FileStep(r, a)
      PROVE  \/ request[r] # NoRequest /\ Annotates(r, a)
             \/ \E c \in Contents : CheckUpload(r, a, c)
  <2>1. CASE (\E hold \in BOOLEAN : SetLegalHold(r, a, hold)) \/ AttachProof(r, a)
    <3>1. request[r].step = "read"
      BY <2>1 DEF SetLegalHold, AttachProof
    <3> QED BY <2>1, <3>1, RowStepAnnotates DEF NoRequest
  <2> QED BY <1>2, <2>1 DEF FileStep
<1> QED BY <1>1, <1>2 DEF Next, RequestStep

LEMMA NextInv == IInv /\ [Next]_vars => IInv'
  BY Steps, AnnotatesInv, SaveUploadInv, ReadInv, PutObjectInv, CheckUploadInv, SweepInv,
     CascadeInv, IdleInv

\* The inductive invariant holds in every reachable state.
THEOREM InvariantHolds == Spec => []IInv
  BY InitInv, NextInv, PTL DEF Spec

\* Every variable keeps its type.
THEOREM TypeCorrect == Spec => []TypeOK
<1>1. IInv => TypeOK
  BY DEF IInv
<1> QED BY <1>1, InvariantHolds, PTL

\* Concurrent requests on one evidence document never undo each other.
THEOREM NoLostUpdateHolds == Spec => []NoLostUpdate
<1>1. IInv => NoLostUpdate
  BY DEF IInv
<1> QED BY <1>1, InvariantHolds, PTL

\* The document and the row of every stored file agree.
THEOREM DocumentMatchesRowsHolds == Spec => []DocumentMatchesRows
<1>1. IInv => DocumentMatchesRows
  BY DEF IInv
<1> QED BY <1>1, InvariantHolds, PTL

-----------------------------------------------------------------------------
(* What a step may never do.                                               *)

LEMMA WriteOnceStep ==
  ASSUME IInv, [Next]_vars, NEW b \in Artifacts, ~gone', Stored(evidence, b)
  PROVE  Stored(evidence', b) /\ evidence'[b].stored = evidence[b].stored
<1>1. ASSUME NEW r \in Requests, NEW a \in Artifacts, request[r] # NoRequest, Annotates(r, a)
      PROVE  Stored(evidence', b) /\ evidence'[b].stored = evidence[b].stored
  <2>1. PICK artifact \in Artifact : Replace(r, a, artifact) /\ KeepsFile(a, artifact)
    BY <1>1 DEF Annotates
  <2>2. evidence' = [evidence EXCEPT ![a] = artifact]
    BY <2>1, <1>1, WriteEffect
  <2>3. artifact # Unregistered
    BY DEF Artifact, Unregistered, Statuses
  <2> QED BY <2>1, <2>2, <2>3 DEF KeepsFile, Stored, Registered, IInv, TypeOK, Registers
<1>2. ASSUME NEW r \in Requests, NEW days \in Days, NEW hold \in BOOLEAN,
             SaveUpload(r, days, hold)
      PROVE  Stored(evidence', b) /\ evidence'[b].stored = evidence[b].stored
  <2> DEFINE a == request[r].artifact
             c == request[r].content
             until == request[r].at + days
             new == UploadedTo(r, until, hold)
  <2>1. /\ request[r] \in UploadRequest /\ request[r].doc = evidence
        /\ UploadStillAllowed(r) /\ evidence[a] \in Artifact /\ until \in Nat
    BY <1>2, UploadFacts
  <2>2. a \in Artifacts /\ c \in Contents /\ request[r] # NoRequest /\ Replace(r, a, new)
    BY <2>1, <1>2 DEF UploadRequest, NoRequest, SaveUpload, UploadedTo
  <2>3. new \in Artifact /\ new.stored = c
    BY <2>1, <2>2 DEF UploadedTo, Artifact
  <2>4. evidence[a].digest \in {NoContent, c}
    BY <2>1 DEF UploadStillAllowed
  <2> HIDE DEF a, c, until, new
  <2>5. evidence' = [evidence EXCEPT ![a] = new]
    BY <2>2, <2>3, WriteEffect
  <2>6. new # Unregistered /\ c # NoContent
    BY <2>2, <2>3, NoContentAssumption DEF Artifact, Unregistered, Statuses
  <2>7. Stored(evidence, a) => evidence[a].stored = c
    BY <2>2, <2>4 DEF IInv, StoredDigest, Stored
  <2> QED BY <2>3, <2>5, <2>6, <2>7 DEF Stored, Registered, IInv, TypeOK, Registers
<1>3. ASSUME evidence' = evidence
      PROVE  Stored(evidence', b) /\ evidence'[b].stored = evidence[b].stored
  BY <1>3 DEF Stored, Registered
<1>4. ASSUME NEW s \in Sweeps, SweepStep(s) PROVE evidence' = evidence
  BY <1>4 DEF SweepStep, ListExpired, DeleteObject, DeleteRows, AbortSweep
<1>5. ASSUME NEW r \in Requests, Read(r) \/ GiveUp(r) \/ PutObject(r) PROVE evidence' = evidence
  BY <1>5 DEF Read, GiveUp, PutObject
<1>6. ASSUME NEW r \in Requests, NEW a \in Artifacts, NEW c \in Contents, CheckUpload(r, a, c)
      PROVE  evidence' = evidence
  BY <1>6 DEF CheckUpload
<1>7. ASSUME Tick \/ UNCHANGED vars PROVE evidence' = evidence
  BY <1>7 DEF Tick, vars
<1>8. ~Cascade
  BY DEF Cascade
<1> QED BY <1>1, <1>2, <1>3, <1>4, <1>5, <1>6, <1>7, <1>8, Steps

\* The bytes an artifact names are never replaced, whatever uploads overlap.
THEOREM WriteOnceHolds == Spec => WriteOnce
<1>1. IInv /\ [Next]_vars =>
        [\A a \in Artifacts : ~gone' /\ Stored(evidence, a) =>
           Stored(evidence', a) /\ evidence'[a].stored = evidence[a].stored]_vars
  BY WriteOnceStep
<1> QED BY <1>1, InvariantHolds, PTL DEF Spec, WriteOnce

LEMMA VerifiedStep ==
  ASSUME IInv, [Next]_vars, NEW b \in Artifacts,
         Registered(evidence, b), evidence[b].status = "verified", row'[b] # NoRow
  PROVE  row[b] # NoRow /\ row'[b].content = row[b].content /\ row'[b].until = row[b].until
<1>1. ASSUME NEW r \in Requests, NEW a \in Artifacts, Annotates(r, a)
      PROVE  row[b] # NoRow /\ row'[b].content = row[b].content /\ row'[b].until = row[b].until
  BY <1>1 DEF Annotates, KeepsRows
<1>2. ASSUME NEW r \in Requests, NEW days \in Days, NEW hold \in BOOLEAN,
             SaveUpload(r, days, hold)
      PROVE  row'[b] = row[b]
  <2>1. /\ request[r] \in UploadRequest
        /\ UploadStillAllowed(r)
    BY <1>2, UploadFacts
  <2>2. b # request[r].artifact
    BY <2>1 DEF UploadStillAllowed
  <2>3. \E saved : row' = [row EXCEPT ![request[r].artifact] = saved]
    BY <1>2 DEF SaveUpload
  <2> QED BY <2>2, <2>3 DEF IInv, TypeOK
<1>3. ASSUME NEW s \in Sweeps, SweepStep(s) PROVE row'[b] = row[b]
  BY <1>3 DEF SweepStep, ListExpired, DeleteObject, DeleteRows, AbortSweep
<1>4. ASSUME NEW r \in Requests, Read(r) \/ GiveUp(r) \/ PutObject(r) PROVE row' = row
  BY <1>4 DEF Read, GiveUp, PutObject
<1>5. ASSUME NEW r \in Requests, NEW a \in Artifacts, NEW c \in Contents, CheckUpload(r, a, c)
      PROVE  row' = row
  BY <1>5 DEF CheckUpload
<1>6. ASSUME Tick \/ UNCHANGED vars PROVE row' = row
  BY <1>6 DEF Tick, vars
<1>7. ~Cascade
  BY DEF Cascade
<1> QED BY <1>1, <1>2, <1>3, <1>4, <1>5, <1>6, <1>7, Steps

\* The file of a verified artifact is not replaced, nor its retention moved.
THEOREM VerifiedIsKeptHolds == Spec => VerifiedIsKept
<1>1. IInv /\ [Next]_vars =>
        [\A a \in Artifacts : Registered(evidence, a) /\ evidence[a].status = "verified" =>
           \/ row'[a] = NoRow
           \/ /\ row[a] # NoRow
              /\ row'[a].content = row[a].content
              /\ row'[a].until = row[a].until]_vars
  BY VerifiedStep
<1> QED BY <1>1, InvariantHolds, PTL DEF Spec, VerifiedIsKept

LEMMA PurgeStep ==
  ASSUME IInv, [Next]_vars, NEW b \in Artifacts, ~gone', row[b] # NoRow, row'[b] = NoRow
  PROVE  Expired(b, clock)
<1>1. ASSUME NEW r \in Requests, NEW a \in Artifacts, Annotates(r, a) PROVE FALSE
  BY <1>1 DEF Annotates, KeepsRows
<1>2. ASSUME NEW r \in Requests, NEW days \in Days, NEW hold \in BOOLEAN,
             SaveUpload(r, days, hold)
      PROVE  FALSE
  <2> DEFINE a == request[r].artifact
             saved == Upserted(a, request[r].content, request[r].at + days, hold)
  <2>1. /\ request[r] \in UploadRequest /\ UploadStillAllowed(r) /\ request[r].at + days \in Nat
    BY <1>2, UploadFacts
  <2>2. a \in Artifacts /\ request[r].content \in Contents /\ (row[a] = NoRow \/ ~row[a].hold)
    BY <2>1 DEF UploadRequest, UploadStillAllowed
  <2>3. saved \in Row
    BY <2>1, <2>2, UpsertedRow DEF IInv
  <2>4. saved # NoRow /\ row' = [row EXCEPT ![a] = saved]
    BY <2>3, <1>2 DEF Row, NoRow, SaveUpload
  <2> HIDE DEF a, saved
  <2> QED BY <2>4 DEF IInv, TypeOK
<1>3. ASSUME NEW s \in Sweeps, SweepStep(s) PROVE Expired(b, clock)
  <2>1. DeleteRows(s) /\ Purged(s, b)
    BY <1>3 DEF SweepStep, ListExpired, DeleteObject, DeleteRows, AbortSweep
  <2>2. sweep[s] \in ListedSweep /\ sweep[s].at <= clock
    BY <2>1, SweepTypes DEF DeleteRows, IInv, SweepsArePast
  <2>3. row[b] \in Row
    BY RowTypes DEF IInv
  <2> QED BY <2>1, <2>2, <2>3 DEF Purged, Expired, ListedSweep, Row, IInv, TypeOK
<1>4. ASSUME NEW r \in Requests, Read(r) \/ GiveUp(r) \/ PutObject(r) PROVE row' = row
  BY <1>4 DEF Read, GiveUp, PutObject
<1>5. ASSUME NEW r \in Requests, NEW a \in Artifacts, NEW c \in Contents, CheckUpload(r, a, c)
      PROVE  row' = row
  BY <1>5 DEF CheckUpload
<1>6. ASSUME Tick \/ UNCHANGED vars PROVE row' = row
  BY <1>6 DEF Tick, vars
<1>7. ~Cascade
  BY DEF Cascade
<1> QED BY <1>1, <1>2, <1>3, <1>4, <1>5, <1>6, <1>7, Steps

\* As long as the reconciliation is there, no row goes that is held or not expired
\* by then: the retention run looks again when it deletes.
THEOREM PurgeHonoursHoldHolds == Spec => PurgeHonoursHold
<1>1. IInv /\ [Next]_vars =>
        [\A a \in Artifacts :
           ~gone' /\ row[a] # NoRow /\ row'[a] = NoRow => Expired(a, clock)]_vars
  BY PurgeStep
<1> QED BY <1>1, InvariantHolds, PTL DEF Spec, PurgeHonoursHold

-----------------------------------------------------------------------------
(* The bytes of held rows.                                                 *)

\* A row that a run listed is as it was listed, or purged by another run.
ListedAsIs ==
  \A s \in Sweeps : sweep[s] # NoSweep =>
    /\ sweep[s].todo \subseteq sweep[s].rows
    /\ \A c \in sweep[s].rows : row[c.artifact] # NoRow =>
         c = CandidateOf(c.artifact) /\ Expired(c.artifact, sweep[s].at)

DeletedBy(s, a) == sweep[s] # NoSweep /\ CandidateOf(a) \in sweep[s].rows \ sweep[s].todo

\* Only a run under way leaves a row without its bytes, one it listed.
BytesOrListed ==
  \A a \in Artifacts : row[a] # NoRow /\ <<a, row[a].content>> \notin objects =>
    \E s \in Sweeps : DeletedBy(s, a)

StoredBytesPut ==
  \A r \in Requests : request[r].step = "stored" =>
    <<request[r].artifact, request[r].content>> \in objects

HeldInv == ListedAsIs /\ (External => BytesOrListed /\ StoredBytesPut)

\* Requests that go on are as they were.
RequestsStay ==
  \A q \in Requests : request'[q].step = "stored" => request'[q] = request[q]

\* A step that leaves runs and objects alone and of the rows at most the proof and
\* the hold, the hold of listed rows aside.
LEMMA RowsStayInv ==
  ASSUME HeldInv, HoldsWait, UNCHANGED <<objects, sweep>>, RequestsStay,
         \A b \in Artifacts : row'[b] # NoRow =>
           /\ row[b] # NoRow
           /\ row'[b].id = row[b].id
           /\ row'[b].content = row[b].content
           /\ row'[b].until = row[b].until,
         TypeOK
  PROVE  HeldInv'
<1>1. ListedAsIs'
  <2> SUFFICES ASSUME NEW s \in Sweeps, sweep[s] # NoSweep
               PROVE  /\ sweep[s].todo \subseteq sweep[s].rows
                      /\ \A c \in sweep[s].rows : row'[c.artifact] # NoRow =>
                           c = CandidateOf(c.artifact)' /\ Expired(c.artifact, sweep[s].at)'
    BY DEF ListedAsIs
  <2>1. sweep[s].todo \subseteq sweep[s].rows
    BY DEF HeldInv, ListedAsIs
  <2>2. ASSUME NEW c \in sweep[s].rows, row'[c.artifact] # NoRow
        PROVE  c = CandidateOf(c.artifact)' /\ Expired(c.artifact, sweep[s].at)'
    <3> DEFINE b == c.artifact
    <3>1. b \in Artifacts /\ b \in ListedBy(s)
      BY SweepTypes DEF ListedSweep, Candidate, ListedBy
    <3>2. row[b] # NoRow /\ row'[b].hold = row[b].hold
      BY <2>2, <3>1 DEF HoldsWait
    <3>3. c = CandidateOf(b) /\ Expired(b, sweep[s].at)
      BY <3>2 DEF HeldInv, ListedAsIs
    <3> QED BY <2>2, <3>1, <3>2, <3>3 DEF CandidateOf, Expired
  <2> QED BY <2>1, <2>2
<1>2. ASSUME External PROVE BytesOrListed'
  <2> SUFFICES ASSUME NEW a \in Artifacts, row'[a] # NoRow, <<a, row'[a].content>> \notin objects
               PROVE  \E s \in Sweeps : DeletedBy(s, a)'
    BY DEF BytesOrListed
  <2>1. PICK s \in Sweeps : DeletedBy(s, a)
    BY <1>2 DEF HeldInv, BytesOrListed
  <2>2. CandidateOf(a)' = CandidateOf(a)
    BY DEF CandidateOf
  <2> QED BY <2>1, <2>2 DEF DeletedBy
<1>3. ASSUME External PROVE StoredBytesPut'
  BY <1>3 DEF HeldInv, StoredBytesPut, RequestsStay
<1> QED BY <1>1, <1>2, <1>3 DEF HeldInv

LEMMA SaveUploadHeld ==
  ASSUME IInv, HeldInv, UploadsApart, NEW r \in Requests, NEW days \in Days, NEW hold \in BOOLEAN,
         SaveUpload(r, days, hold)
  PROVE  HeldInv'
<1> DEFINE a == request[r].artifact
           saved == Upserted(a, request[r].content, request[r].at + days, hold)
<1>1. /\ request[r] \in UploadRequest /\ UploadStillAllowed(r) /\ request[r].at + days \in Nat
      /\ request[r].step = "stored"
  BY UploadFacts DEF SaveUpload
<1>2. a \in Artifacts /\ request[r].content \in Contents /\ (row[a] = NoRow \/ ~row[a].hold)
  BY <1>1 DEF UploadRequest, UploadStillAllowed
<1>3. saved.content = request[r].content
  BY <1>1, <1>2, UpsertedRow DEF IInv
<1>4. row' = [row EXCEPT ![a] = saved] /\ UNCHANGED <<objects, sweep>> /\ RequestsStay
  BY DEF SaveUpload, Replace, Forget, RequestsStay, IInv, TypeOK, NoRequest
<1> HIDE DEF saved
<1>5. /\ row'[a].content = request[r].content
      /\ \A b \in Artifacts \ {a} : row'[b] = row[b]
  BY <1>2, <1>3, <1>4 DEF IInv, TypeOK
<1>6. \A s \in Sweeps : a \notin ListedBy(s)
  BY <1>1 DEF UploadsApart
<1>7. ListedAsIs'
  <2> SUFFICES ASSUME NEW s \in Sweeps, sweep[s] # NoSweep
               PROVE  /\ sweep[s].todo \subseteq sweep[s].rows
                      /\ \A c \in sweep[s].rows : row'[c.artifact] # NoRow =>
                           c = CandidateOf(c.artifact)' /\ Expired(c.artifact, sweep[s].at)'
    BY <1>4 DEF ListedAsIs
  <2>1. ASSUME NEW c \in sweep[s].rows PROVE row'[c.artifact] = row[c.artifact]
    <3>1. c.artifact \in Artifacts /\ c.artifact \in ListedBy(s)
      BY SweepTypes DEF IInv, ListedSweep, Candidate, ListedBy
    <3> QED BY <3>1, <1>5, <1>6
  <2>2. sweep[s].todo \subseteq sweep[s].rows
    BY DEF HeldInv, ListedAsIs
  <2>3. ASSUME NEW c \in sweep[s].rows, row'[c.artifact] # NoRow
        PROVE  c = CandidateOf(c.artifact)' /\ Expired(c.artifact, sweep[s].at)'
    <3>1. c = CandidateOf(c.artifact) /\ Expired(c.artifact, sweep[s].at)
      BY <2>1, <2>3 DEF HeldInv, ListedAsIs
    <3> QED BY <2>1, <3>1, <1>4 DEF CandidateOf, Expired
  <2> QED BY <2>2, <2>3
<1>8. ASSUME External PROVE BytesOrListed'
  <2> SUFFICES ASSUME NEW b \in Artifacts, row'[b] # NoRow, <<b, row'[b].content>> \notin objects
               PROVE  \E s \in Sweeps : DeletedBy(s, b)'
    BY <1>4 DEF BytesOrListed
  <2>1. b # a
    BY <1>1, <1>5, <1>8 DEF HeldInv, StoredBytesPut
  <2>2. row'[b] = row[b]
    BY <2>1, <1>5
  <2>3. PICK s \in Sweeps : DeletedBy(s, b)
    BY <2>2, <1>8 DEF HeldInv, BytesOrListed
  <2> QED BY <2>2, <2>3, <1>4 DEF DeletedBy, CandidateOf
<1>9. ASSUME External PROVE StoredBytesPut'
  BY <1>4, <1>9 DEF HeldInv, StoredBytesPut, RequestsStay
<1> QED BY <1>7, <1>8, <1>9 DEF HeldInv

LEMMA PutObjectHeld ==
  ASSUME IInv, HeldInv, NEW r \in Requests, PutObject(r)
  PROVE  HeldInv'
<1>1. /\ UNCHANGED <<row, sweep>>
      /\ objects \subseteq objects'
      /\ \A q \in Requests \ {r} : request'[q] = request[q]
  BY DEF PutObject, IInv, TypeOK
<1>2. request[r] \in UploadRequest
  BY RequestTypes DEF PutObject, IInv
<1>3. request'[r].artifact = request[r].artifact /\ request'[r].content = request[r].content
  BY <1>2 DEF PutObject, IInv, TypeOK, UploadRequest
<1>4. ASSUME External PROVE <<request[r].artifact, request[r].content>> \in objects'
  BY <1>4 DEF PutObject
<1> QED
  BY <1>1, <1>3, <1>4
  DEF HeldInv, ListedAsIs, BytesOrListed, StoredBytesPut, DeletedBy, CandidateOf, Expired

LEMMA ListExpiredHeld ==
  ASSUME IInv, HeldInv, NEW s \in Sweeps, ListExpired(s)
  PROVE  HeldInv'
<1> DEFINE listed == {CandidateOf(a) : a \in {b \in Artifacts : Expired(b, clock)}}
           new == [step |-> "listed", at |-> clock, rows |-> listed,
                   todo |-> IF External THEN listed ELSE {}]
<1>1. /\ sweep' = [sweep EXCEPT ![s] = new] /\ sweep[s] = NoSweep
      /\ UNCHANGED <<row, objects, request>>
  BY DEF ListExpired
<1>2. /\ new.rows = listed /\ new.at = clock /\ new.todo \subseteq new.rows
      /\ \A c \in new.rows : c = CandidateOf(c.artifact) /\ Expired(c.artifact, clock)
  BY DEF CandidateOf
<1> HIDE DEF new, listed
<1>3. sweep'[s] = new /\ \A q \in Sweeps \ {s} : sweep'[q] = sweep[q]
  BY <1>1 DEF IInv, TypeOK
<1>4. ListedAsIs'
  BY <1>1, <1>2, <1>3 DEF HeldInv, ListedAsIs, CandidateOf, Expired
<1>5. ASSUME NEW q \in Sweeps, NEW a \in Artifacts, DeletedBy(q, a) PROVE DeletedBy(q, a)'
  BY <1>1, <1>3, <1>5 DEF DeletedBy, CandidateOf
<1> QED BY <1>1, <1>4, <1>5 DEF HeldInv, BytesOrListed, StoredBytesPut

LEMMA DeleteObjectHeld ==
  ASSUME IInv, HeldInv, UploadsApart, NEW s \in Sweeps, DeleteObject(s)
  PROVE  HeldInv'
<1>1. PICK c \in sweep[s].todo :
        /\ objects' = objects \ {<<c.artifact, c.content>>}
        /\ sweep' = [sweep EXCEPT ![s].todo = @ \ {c}]
  BY DEF DeleteObject
<1>2. UNCHANGED <<row, request>> /\ sweep[s] # NoSweep
  BY DEF DeleteObject
<1> DEFINE new == [sweep[s] EXCEPT !.todo = @ \ {c}]
<1>3. /\ sweep[s] \in ListedSweep
      /\ new \in ListedSweep /\ new # NoSweep
      /\ new.rows = sweep[s].rows /\ new.at = sweep[s].at /\ new.todo = sweep[s].todo \ {c}
  BY <1>2, SweepTypes DEF IInv, ListedSweep, NoSweep
<1>4. sweep' = [sweep EXCEPT ![s] = new]
  BY <1>1
<1> HIDE DEF new
<1>5. sweep'[s] = new /\ \A q \in Sweeps \ {s} : sweep'[q] = sweep[q]
  BY <1>4 DEF IInv, TypeOK
<1>6. c \in sweep[s].rows /\ c \in Candidate
  BY <1>2, <1>3 DEF HeldInv, ListedAsIs, ListedSweep
<1>7. ListedAsIs'
  BY <1>2, <1>3, <1>5 DEF HeldInv, ListedAsIs, CandidateOf, Expired
<1>8. ASSUME NEW q \in Sweeps, NEW a \in Artifacts, DeletedBy(q, a) PROVE DeletedBy(q, a)'
  BY <1>2, <1>3, <1>5, <1>8 DEF DeletedBy, CandidateOf
<1>9. ASSUME External PROVE BytesOrListed'
  <2> SUFFICES ASSUME NEW a \in Artifacts, row[a] # NoRow, <<a, row[a].content>> \notin objects'
               PROVE  \E q \in Sweeps : DeletedBy(q, a)'
    BY <1>2 DEF BytesOrListed
  <2>1. CASE <<a, row[a].content>> \notin objects
    BY <2>1, <1>8, <1>9 DEF HeldInv, BytesOrListed
  <2>2. CASE <<a, row[a].content>> \in objects
    <3>1. a = c.artifact
      BY <2>2, <1>1
    <3>2. c = CandidateOf(a)
      BY <3>1, <1>2, <1>6 DEF HeldInv, ListedAsIs
    <3>3. DeletedBy(s, a)'
      BY <3>2, <1>2, <1>3, <1>5, <1>6 DEF DeletedBy, CandidateOf
    <3> QED BY <3>3
  <2> QED BY <2>1, <2>2
<1>10. ASSUME External PROVE StoredBytesPut'
  <2> SUFFICES ASSUME NEW r \in Requests, request[r].step = "stored"
               PROVE  <<request[r].artifact, request[r].content>> \in objects'
    BY <1>2 DEF StoredBytesPut
  <2>1. c.artifact \in ListedBy(s)
    BY <1>2, <1>6 DEF ListedBy
  <2>2. request[r].artifact # c.artifact
    BY <2>1 DEF UploadsApart
  <2> QED BY <2>2, <1>1, <1>10 DEF HeldInv, StoredBytesPut
<1> QED BY <1>7, <1>9, <1>10 DEF HeldInv

LEMMA RunEndsHeld ==
  ASSUME IInv, HeldInv, RunsComplete, NEW s \in Sweeps, DeleteRows(s) \/ AbortSweep(s)
  PROVE  HeldInv'
<1>1. /\ UNCHANGED <<objects, request>>
      /\ sweep'[s] = NoSweep /\ sweep[s] # NoSweep
      /\ \A q \in Sweeps \ {s} : sweep'[q] = sweep[q]
  BY DEF DeleteRows, AbortSweep, IInv, TypeOK
<1>2. \A a \in Artifacts : row'[a] # NoRow => row'[a] = row[a]
  BY DEF DeleteRows, AbortSweep
<1>3. ListedAsIs'
  <2> SUFFICES ASSUME NEW q \in Sweeps \ {s}, sweep[q] # NoSweep
               PROVE  /\ sweep[q].todo \subseteq sweep[q].rows
                      /\ \A c \in sweep[q].rows : row'[c.artifact] # NoRow =>
                           c = CandidateOf(c.artifact)' /\ Expired(c.artifact, sweep[q].at)'
    BY <1>1 DEF ListedAsIs
  <2>1. sweep[q].todo \subseteq sweep[q].rows
    BY DEF HeldInv, ListedAsIs
  <2>2. ASSUME NEW c \in sweep[q].rows, row'[c.artifact] # NoRow
        PROVE  c = CandidateOf(c.artifact)' /\ Expired(c.artifact, sweep[q].at)'
    <3>1. c.artifact \in Artifacts
      BY SweepTypes DEF IInv, ListedSweep, Candidate
    <3>2. row'[c.artifact] = row[c.artifact] /\ sweep'[q] = sweep[q]
      BY <2>2, <3>1, <1>1, <1>2
    <3>3. c = CandidateOf(c.artifact) /\ Expired(c.artifact, sweep[q].at)
      BY <2>2, <3>2 DEF HeldInv, ListedAsIs
    <3> QED BY <3>2, <3>3 DEF CandidateOf, Expired
  <2> QED BY <2>1, <2>2
<1>4. ASSUME External PROVE BytesOrListed'
  <2> SUFFICES ASSUME NEW a \in Artifacts, row'[a] # NoRow, <<a, row'[a].content>> \notin objects
               PROVE  \E q \in Sweeps : DeletedBy(q, a)'
    BY <1>1 DEF BytesOrListed
  <2>1. row'[a] = row[a]
    BY <1>2
  <2>2. PICK q \in Sweeps : DeletedBy(q, a)
    BY <2>1, <1>4 DEF HeldInv, BytesOrListed
  <2>3. q # s
    BY <2>2, <1>1 DEF DeletedBy, RunsComplete, CandidateOf
  <2> QED BY <2>1, <2>2, <2>3, <1>1 DEF DeletedBy, CandidateOf
<1> QED BY <1>1, <1>3, <1>4 DEF HeldInv, StoredBytesPut

LEMMA HeldNext ==
  IInv /\ HeldInv /\ UploadsApart /\ [Next]_vars /\ HoldsWait /\ RunsComplete => HeldInv'
<1> SUFFICES ASSUME IInv, HeldInv, UploadsApart, [Next]_vars, HoldsWait, RunsComplete
             PROVE  HeldInv'
  OBVIOUS
<1>0. TypeOK
  BY DEF IInv
<1>1. ASSUME NEW r \in Requests, NEW a \in Artifacts, request[r] # NoRequest, Annotates(r, a)
      PROVE  HeldInv'
  <2>1. PICK artifact \in Artifact :
          Replace(r, a, artifact) /\ KeepsRows(a, artifact) /\ objects' = objects
    BY <1>1 DEF Annotates
  <2>2. UNCHANGED <<objects, sweep>> /\ RequestsStay
    BY <2>1, <1>1, WriteEffect DEF RequestsStay, NoRequest
  <2> QED BY <2>1, <2>2, <1>0, RowsStayInv DEF KeepsRows
<1>2. ASSUME NEW r \in Requests, Read(r) \/ GiveUp(r) PROVE HeldInv'
  <2>1. UNCHANGED <<row, objects, sweep>> /\ RequestsStay
    BY <1>0, <1>2 DEF Read, GiveUp, Forget, RequestsStay, TypeOK, NoRequest
  <2> QED BY <2>1, <1>0, RowsStayInv
<1>3. ASSUME NEW r \in Requests, NEW a \in Artifacts, NEW c \in Contents, CheckUpload(r, a, c)
      PROVE  HeldInv'
  <2>1. UNCHANGED <<row, objects, sweep>> /\ RequestsStay
    BY <1>0, <1>3 DEF CheckUpload, Checked, RequestsStay, TypeOK
  <2> QED BY <2>1, <1>0, RowsStayInv
<1>4. ASSUME Tick \/ UNCHANGED vars PROVE HeldInv'
  <2>1. UNCHANGED <<row, objects, sweep>> /\ RequestsStay
    BY <1>4 DEF Tick, vars, RequestsStay
  <2> QED BY <2>1, <1>0, RowsStayInv
<1>5. ASSUME NEW s \in Sweeps, SweepStep(s) PROVE HeldInv'
  BY <1>5, ListExpiredHeld, DeleteObjectHeld, RunEndsHeld DEF SweepStep
<1>6. ASSUME Cascade PROVE HeldInv'
  <2>1. UNCHANGED <<objects, sweep>> /\ RequestsStay /\ \A b \in Artifacts : row'[b] = NoRow
    BY <1>6 DEF Cascade, RequestsStay
  <2> QED BY <2>1, <1>0, RowsStayInv
<1> QED BY <1>1, <1>2, <1>3, <1>4, <1>5, <1>6, SaveUploadHeld, PutObjectHeld, Steps

(* With a store, a held row has its bytes as long as no upload and no       *)
(* change of the hold falls between the listing and the deletion of a       *)
(* retention run, and every run that began to delete gets to the rows.      *)
THEOREM HeldBytesKeptApart ==
  Spec /\ []UploadsApart /\ [][HoldsWait /\ RunsComplete]_vars => []HeldBytesKept
<1>1. Init => HeldInv
  BY DEF Init, HeldInv, ListedAsIs, BytesOrListed, StoredBytesPut, NoRequest
<1>2. IInv /\ HeldInv /\ UploadsApart /\ [Next]_vars /\ [HoldsWait /\ RunsComplete]_vars
        => HeldInv'
  <2>1. UNCHANGED vars => HoldsWait /\ RunsComplete
    BY DEF vars, HoldsWait, RunsComplete
  <2> QED BY <2>1, HeldNext
<1>3. HeldInv => HeldBytesKept
  <2> SUFFICES ASSUME HeldInv, NEW a \in Artifacts, External, row[a] # NoRow, row[a].hold,
                      <<a, row[a].content>> \notin objects
               PROVE  FALSE
    BY DEF HeldBytesKept
  <2>1. PICK s \in Sweeps : DeletedBy(s, a)
    BY DEF HeldInv, BytesOrListed
  <2>2. CandidateOf(a) \in sweep[s].rows /\ CandidateOf(a).artifact = a /\ sweep[s] # NoSweep
    BY <2>1 DEF DeletedBy, CandidateOf
  <2> QED BY <2>2 DEF HeldInv, ListedAsIs, Expired
<1> QED BY <1>1, <1>2, <1>3, InvariantHolds, PTL DEF Spec

=============================================================================
