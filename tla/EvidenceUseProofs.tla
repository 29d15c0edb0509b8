--------------------------- MODULE EvidenceUseProofs ---------------------------
(***************************************************************************)
(* Proofs about evidence and its use.  UploadInv says for each stage of an *)
(* upload what its row, its object and its answer are.  From it follows    *)
(* what the rest is built on: a row never changes once it is there, and it *)
(* holds bytes that were valid and clean.                                  *)
(***************************************************************************)
EXTENDS EvidenceUse, FiniteSetTheorems, SequenceTheorems, TLAPS

CleanContents == Valid \ Infected

-----------------------------------------------------------------------------
(* Uploads *)

Unsaved(e) == rows[e] = NoContent /\ answer[e] = "none"

\* An object that was not damaged is what the stage of its upload makes it.
ObjectInv(e) ==
    /\ upload[e].stage \in {"stored", "failing"} => objects[e] = upload[e].content
    /\ answer[e] = "saved" => rows[e] # NoContent /\ objects[e] = rows[e]
    /\ answer[e] \in {"failed", "refused"} => objects[e] = NoContent
    /\ rows[e] # NoContent /\ objects[e] = NoContent => answer[e] \in {"failed", "unsafe"}

UploadInv(e) ==
    /\ upload[e].stage \in {"clean", "stored", "failing"} => upload[e].content \in CleanContents
    /\ upload[e].stage \in {"idle", "clean", "stored"} => Unsaved(e)
    /\ upload[e].stage = "failing" => answer[e] = "none"
    /\ upload[e].stage \in {"idle", "clean"} => objects[e] = NoContent
    /\ rows[e] # NoContent => rows[e] \in CleanContents /\ rows[e] = upload[e].content
    /\ e \notin damaged => ObjectInv(e)

EvidenceInv == EvidenceTypeOK /\ \A e \in Evidence : UploadInv(e)

\* What an upload does to other evidence is nothing.
LEMMA UploadStays ==
    ASSUME NEW e \in Evidence, UploadInv(e),
           upload'[e] = upload[e], rows'[e] = rows[e], objects'[e] = objects[e],
           answer'[e] = answer[e], damaged \subseteq damaged'
    PROVE  UploadInv(e)'
  BY DEF UploadInv, ObjectInv, Unsaved

LEMMA UploadTypes ==
    ASSUME EvidenceTypeOK, UploadStep
    PROVE  EvidenceTypeOK'
  <1> USE EvidenceAssumption DEF EvidenceTypeOK, UploadStages, Answers, At, Becomes, Answer,
                                 ObjectBecomes, SaveRow
  <1>1. PICK e \in Evidence :
            \/ \E p \in People, content \in Contents : AcceptUpload(e, p, content)
            \/ RefuseUpload(e)
            \/ PutObject(e)
            \/ \E content \in Contents \cup {NoContent} : PutFails(e, content)
            \/ SaveMetadata(e)
            \/ SaveMetadataFails(e)
            \/ CommitUnknown(e)
            \/ DeleteAfterFailure(e)
            \/ \E content \in Contents \cup {NoContent} : DeleteFails(e, content)
            \/ UploadDies(e)
    BY DEF UploadStep
  <1>2. CASE \E p \in People, content \in Contents : AcceptUpload(e, p, content)
    BY <1>2 DEF AcceptUpload
  <1>3. CASE RefuseUpload(e)
    BY <1>3 DEF RefuseUpload
  <1>4. CASE PutObject(e)
    BY <1>4 DEF PutObject
  <1>5. CASE \E content \in Contents \cup {NoContent} : PutFails(e, content)
    BY <1>5 DEF PutFails
  <1>6. CASE SaveMetadata(e)
    BY <1>6 DEF SaveMetadata
  <1>7. CASE SaveMetadataFails(e)
    BY <1>7 DEF SaveMetadataFails
  <1>8. CASE CommitUnknown(e)
    BY <1>8 DEF CommitUnknown
  <1>9. CASE DeleteAfterFailure(e)
    BY <1>9 DEF DeleteAfterFailure
  <1>10. CASE \E content \in Contents \cup {NoContent} : DeleteFails(e, content)
    BY <1>10 DEF DeleteFails
  <1>11. CASE UploadDies(e)
    BY <1>11 DEF UploadDies
  <1> QED
    BY <1>1, <1>2, <1>3, <1>4, <1>5, <1>6, <1>7, <1>8, <1>9, <1>10, <1>11

\* Each step of an upload keeps what is known of its evidence.
LEMMA UploadAdvances ==
    ASSUME EvidenceInv, UploadStep
    PROVE  \A d \in Evidence : UploadInv(d)'
  <1> USE EvidenceAssumption DEF EvidenceTypeOK, At, Becomes, Answer, ObjectBecomes, SaveRow
  <1>1. PICK e \in Evidence :
            \/ \E p \in People, content \in Contents : AcceptUpload(e, p, content)
            \/ RefuseUpload(e)
            \/ PutObject(e)
            \/ \E content \in Contents \cup {NoContent} : PutFails(e, content)
            \/ SaveMetadata(e)
            \/ SaveMetadataFails(e)
            \/ CommitUnknown(e)
            \/ DeleteAfterFailure(e)
            \/ \E content \in Contents \cup {NoContent} : DeleteFails(e, content)
            \/ UploadDies(e)
    BY DEF UploadStep
  <1>a. EvidenceTypeOK /\ UploadInv(e)
    BY DEF EvidenceInv
  <1>b. ASSUME NEW d \in Evidence, d # e
        PROVE  UploadInv(d)'
    <2>1. damaged' = damaged /\ upload'[d] = upload[d] /\ rows'[d] = rows[d]
              /\ objects'[d] = objects[d] /\ answer'[d] = answer[d]
      BY <1>1, <1>a, <1>b DEF AcceptUpload, RefuseUpload, PutObject, PutFails, SaveMetadata,
             SaveMetadataFails, CommitUnknown, DeleteAfterFailure, DeleteFails, UploadDies
    <2>2. UploadInv(d)
      BY DEF EvidenceInv
    <2> QED
      BY <2>1, <2>2, UploadStays
  <1> USE <1>a DEF UploadInv, ObjectInv, Unsaved, CleanContents
  <1>2. CASE \E p \in People, content \in Contents : AcceptUpload(e, p, content)
    BY <1>2, <1>b DEF AcceptUpload, ValidateContent, ScanVerdict
  <1>3. CASE RefuseUpload(e)
    BY <1>3, <1>b DEF RefuseUpload
  <1>4. CASE PutObject(e)
    BY <1>4, <1>b DEF PutObject
  <1>5. CASE \E content \in Contents \cup {NoContent} : PutFails(e, content)
    BY <1>5, <1>b DEF PutFails
  <1>6. CASE SaveMetadata(e)
    BY <1>6, <1>b DEF SaveMetadata
  <1>7. CASE SaveMetadataFails(e)
    BY <1>7, <1>b DEF SaveMetadataFails
  <1>8. CASE CommitUnknown(e)
    BY <1>8, <1>b DEF CommitUnknown
  <1>9. CASE DeleteAfterFailure(e)
    BY <1>9, <1>b DEF DeleteAfterFailure
  <1>10. CASE \E content \in Contents \cup {NoContent} : DeleteFails(e, content)
    BY <1>10, <1>b DEF DeleteFails
  <1>11. CASE UploadDies(e)
    BY <1>11, <1>b DEF UploadDies
  <1> QED
    BY <1>1, <1>2, <1>3, <1>4, <1>5, <1>6, <1>7, <1>8, <1>9, <1>10, <1>11

\* What the object store loses or alters is damaged from then on.
LEMMA DamageKeeps ==
    ASSUME EvidenceInv, StorageStep
    PROVE  EvidenceInv'
  <1>1. PICK e \in Evidence, content \in Contents \cup {NoContent} : ObjectDamaged(e, content)
    BY DEF StorageStep
  <1>2. EvidenceTypeOK'
    BY <1>1 DEF EvidenceInv, EvidenceTypeOK, ObjectDamaged, ObjectBecomes
  <1>3. ASSUME NEW d \in Evidence
        PROVE  UploadInv(d)'
    BY <1>1 DEF EvidenceInv, EvidenceTypeOK, ObjectDamaged, ObjectBecomes, UploadInv, ObjectInv,
                Unsaved
  <1> QED
    BY <1>2, <1>3 DEF EvidenceInv

\* Analyses, reviews and backups only read evidence.
EvidenceRead == <<upload, rows, objects, answer, damaged>>

LEMMA AnalysisOnlyReads ==
    ASSUME EvidenceTypeOK, IntelligenceStep
    PROVE  UNCHANGED EvidenceRead /\ unknown' \in Nat
  <1>1. CASE UNCHANGED evidence
    BY <1>1 DEF evidence, EvidenceRead, EvidenceTypeOK
  <1>2. CASE \E a \in Analyses : CompletionUnknown(a)
    BY <1>2 DEF CompletionUnknown, EvidenceRead, EvidenceTypeOK
  <1> QED
    BY <1>1, <1>2 DEF IntelligenceStep, RequestAnalysis, AuthorizeSource, ReadSource,
       ResolutionFails, SourcesVerified, ProviderAnswers, ProviderRejected, ProviderFails,
       PersistCompletion, CompletionConflicts, AnalysisDies

LEMMA EvidenceReadKeeps ==
    ASSUME EvidenceInv, UNCHANGED EvidenceRead, unknown' \in Nat
    PROVE  EvidenceInv'
  BY DEF EvidenceInv, EvidenceTypeOK, EvidenceRead, UploadInv, ObjectInv, Unsaved

LEMMA EvidenceInvInit == Init => EvidenceInv
  BY EvidenceAssumption DEF Init, EvidenceInit, EvidenceInv, EvidenceTypeOK, UploadStages, Answers,
     UploadInv, ObjectInv, Unsaved

LEMMA EvidenceInvStep ==
    ASSUME EvidenceInv, [Next]_vars
    PROVE  EvidenceInv'
  <1>1. CASE UploadStep
    BY <1>1, UploadTypes, UploadAdvances DEF EvidenceInv
  <1>2. CASE StorageStep
    BY <1>2, DamageKeeps
  <1>3. CASE IntelligenceStep
    BY <1>3, AnalysisOnlyReads, EvidenceReadKeeps DEF EvidenceInv
  <1>4. CASE UNCHANGED evidence
    BY <1>4, EvidenceReadKeeps DEF evidence, EvidenceRead, EvidenceInv, EvidenceTypeOK
  <1> QED
    BY <1>1, <1>2, <1>3, <1>4 DEF Next, vars

\* A row, once there, stays as it is: evidence is never updated.
LEMMA RowsStand ==
    ASSUME EvidenceInv, [Next]_vars,
           NEW e \in Evidence, rows[e] # NoContent
    PROVE  rows'[e] = rows[e]
  <1>1. CASE UploadStep
    BY <1>1 DEF EvidenceInv, EvidenceTypeOK, UploadInv, Unsaved, UploadStep, AcceptUpload,
       RefuseUpload, PutObject, PutFails, SaveMetadata, SaveMetadataFails, CommitUnknown,
       DeleteAfterFailure, DeleteFails, UploadDies, At, SaveRow
  <1>2. CASE StorageStep
    BY <1>2 DEF StorageStep, ObjectDamaged
  <1>3. CASE IntelligenceStep
    BY <1>3, AnalysisOnlyReads DEF EvidenceInv, EvidenceRead
  <1>4. CASE UNCHANGED evidence
    BY <1>4 DEF evidence
  <1> QED
    BY <1>1, <1>2, <1>3, <1>4 DEF Next, vars

LEMMA EvidenceInvImplies == EvidenceInv => EvidenceTypeOK /\ UploadsAreWhole
  BY EvidenceAssumption DEF EvidenceInv, EvidenceTypeOK, UploadInv, ObjectInv, CleanContents,
     UploadsAreWhole

\* Whatever fails between the put and the commit, what a caller was told of
\* its upload is true of the row and the object (_store_clean_evidence).
THEOREM UploadsAreWholeHolds == Spec => []UploadsAreWhole
  <1>1. EvidenceInv /\ [Next]_vars => EvidenceInv'
    BY EvidenceInvStep
  <1> QED
    BY EvidenceInvInit, <1>1, EvidenceInvImplies, PTL DEF Spec

-----------------------------------------------------------------------------
(* Analyses *)

AnalysisRow ==
    [stage : AnalysisStages, type : AnalysisTypes \cup {"none"}, by : People,
     references : Seq(References), next : Nat, authorized : BOOLEAN, bytes : Nat,
     read : SUBSET Contents, candidates : SUBSET Candidates]

AnalysisTypeOK ==
    /\ analysis \in [Analyses -> AnalysisRow]
    /\ trail \in [Analyses -> Seq(AuditStages)]
    /\ releases \subseteq ReleaseRow
    /\ returned \in [Analyses -> SUBSET Candidates]

\* A source on record for the one who asked, and one that was read as well.
OnRecord(q, r) == MayUpload(q.by) /\ rows[r.artifact] = r.digest
Grounded(q, r) == OnRecord(q, r) /\ r.digest \in CleanContents \cap q.read

TrailOf(stage) ==
    IF stage = "idle" THEN <<>>
    ELSE IF stage = "resolving" THEN <<"analysis_requested">>
    ELSE <<"analysis_requested", "sources_verified">>

Checked(a, candidates) ==
    /\ \A c, d \in candidates : c.finding = d.finding => c = d
    /\ \A c \in candidates :
           /\ c.retrieved = ToSet(analysis[a].references)
           /\ c.cited \subseteq c.retrieved

AnalysisInv(a) ==
    LET q == analysis[a] IN
    /\ q.next >= 1
    /\ q.stage = "idle" => q.next = 1 /\ ~q.authorized
    /\ q.stage # "idle" => Len(q.references) >= 1
    /\ q.stage # "ended" =>
           /\ trail[a] = TrailOf(q.stage)
           /\ \A r \in releases : r.correlation # a
    /\ \A i \in 1..Len(q.references) : i < q.next => Grounded(q, q.references[i])
    /\ q.authorized /\ q.next <= Len(q.references) => OnRecord(q, q.references[q.next])
    /\ q.stage \in {"analyzing", "releasing"} => q.next > Len(q.references)
    /\ q.stage = "releasing" => Checked(a, q.candidates)

ReleaseInv(r) ==
    LET q == analysis[r.correlation] IN
    /\ q.stage = "ended"
    /\ trail[r.correlation] = <<"analysis_requested", "sources_verified", "analysis_completed">>
    /\ MayUpload(q.by)
    /\ \A source \in r.candidate.retrieved : Grounded(q, source)
    /\ r.candidate.cited \subseteq r.candidate.retrieved
    /\ r.candidate.retrieved = ToSet(q.references)

IntelligenceInv ==
    /\ AnalysisTypeOK
    /\ \A a \in Analyses : AnalysisInv(a)
    /\ \A r \in releases : ReleaseInv(r)
    /\ \A r, s \in releases : r.candidate.finding = s.candidate.finding => r = s
    /\ \A a \in Analyses : \A c \in returned[a] : [correlation |-> a, candidate |-> c] \in releases

\* A reference names evidence and the digest of bytes.
LEMMA ReferenceFacts ==
    ASSUME NEW r \in References
    PROVE  r.artifact \in Evidence /\ r.digest \in Contents /\ r.digest # NoContent
  BY IntelligenceAssumption, EvidenceAssumption DEF ReferenceRow

LEMMA SourceFacts ==
    ASSUME AnalysisTypeOK, NEW a \in Analyses, NEW i \in 1..Len(analysis[a].references)
    PROVE  analysis[a].references[i] \in References
  BY DEF AnalysisTypeOK, AnalysisRow

LEMMA IntelligenceInvInit == Init => IntelligenceInv
  BY EvidenceAssumption DEF Init, IntelligenceInit, IntelligenceInv, AnalysisTypeOK, AnalysisRow,
     NoAnalysis, AnalysisStages, AnalysisInv, TrailOf

LEMMA AnalysisStays ==
    ASSUME EvidenceInv, IntelligenceInv, [Next]_vars,
           NEW a \in Analyses,
           analysis'[a] = analysis[a], trail'[a] = trail[a],
           \A r \in releases' \ releases : r.correlation # a
    PROVE  AnalysisInv(a)'
  <1> DEFINE q == analysis[a]
  <1>1. AnalysisTypeOK /\ AnalysisInv(a)
    BY DEF IntelligenceInv
  <1>2. q \in AnalysisRow /\ Len(q.references) \in Nat /\ q.next \in Nat
    BY <1>1 DEF AnalysisTypeOK, AnalysisRow
  <1>3. \A i \in 1..Len(q.references) : i < q.next => Grounded(q, q.references[i])'
    <2> SUFFICES ASSUME NEW i \in 1..Len(q.references), i < q.next
                 PROVE  Grounded(q, q.references[i])'
      OBVIOUS
    <2>1. Grounded(q, q.references[i])
      BY <1>1 DEF AnalysisInv
    <2> QED
      BY <1>1, <2>1, SourceFacts, ReferenceFacts, RowsStand
         DEF OnRecord, Grounded, MayUpload, CleanContents
  <1>4. q.authorized /\ q.next <= Len(q.references) => OnRecord(q, q.references[q.next])'
    <2> SUFFICES ASSUME q.authorized, q.next <= Len(q.references)
                 PROVE  OnRecord(q, q.references[q.next])'
      OBVIOUS
    <2>1. OnRecord(q, q.references[q.next]) /\ q.next \in 1..Len(q.references)
      BY <1>1, <1>2 DEF AnalysisInv
    <2> QED
      BY <1>1, <2>1, SourceFacts, ReferenceFacts, RowsStand DEF OnRecord, MayUpload
  <1> QED
    BY <1>1, <1>3, <1>4 DEF AnalysisInv, Checked, TrailOf

LEMMA ReleaseStays ==
    ASSUME EvidenceInv, IntelligenceInv, [Next]_vars,
           NEW r \in releases,
           analysis'[r.correlation] = analysis[r.correlation],
           trail'[r.correlation] = trail[r.correlation]
    PROVE  ReleaseInv(r)'
  <1> DEFINE q == analysis[r.correlation]
  <1>1. AnalysisTypeOK /\ ReleaseInv(r)
    BY DEF IntelligenceInv
  <1>2. r.candidate.retrieved \subseteq References
    BY <1>1 DEF AnalysisTypeOK, ReleaseRow, CandidateRow
  <1>3. \A source \in r.candidate.retrieved : Grounded(q, source)'
    BY <1>1, <1>2, ReferenceFacts, RowsStand
       DEF ReleaseInv, OnRecord, Grounded, MayUpload, CleanContents
  <1> QED
    BY <1>1, <1>3 DEF ReleaseInv, MayUpload

\* One analysis moves: nothing was released of it, so what was released
\* before is as it was.
LEMMA OneMoves ==
    ASSUME EvidenceInv, IntelligenceInv, [Next]_vars,
           NEW a \in Analyses, analysis[a].stage # "ended",
           \A b \in Analyses \ {a} : analysis'[b] = analysis[b] /\ trail'[b] = trail[b],
           \A r \in releases' \ releases : r.correlation = a
    PROVE  /\ \A b \in Analyses \ {a} : AnalysisInv(b)'
           /\ \A r \in releases : ReleaseInv(r)'
  <1>1. \A b \in Analyses \ {a} : AnalysisInv(b)'
    BY AnalysisStays
  <1>2. ASSUME NEW r \in releases
        PROVE  r.correlation \in Analyses \ {a}
    BY DEF IntelligenceInv, AnalysisInv, AnalysisTypeOK, ReleaseRow
  <1> QED
    BY <1>1, <1>2, ReleaseStays

\* A step that releases nothing has to show of its own analysis only that it
\* is in order.
LEMMA MoveKeeps ==
    ASSUME EvidenceInv, IntelligenceInv, [Next]_vars,
           NEW a \in Analyses, analysis[a].stage # "ended",
           NEW q \in AnalysisRow, NEW stages \in Seq(AuditStages),
           analysis' = [analysis EXCEPT ![a] = q],
           trail' = [trail EXCEPT ![a] = stages],
           UNCHANGED <<releases, returned>>,
           AnalysisInv(a)'
    PROVE  IntelligenceInv'
  <1>1. AnalysisTypeOK'
    BY DEF IntelligenceInv, AnalysisTypeOK
  <1>2. \A b \in Analyses \ {a} : analysis'[b] = analysis[b] /\ trail'[b] = trail[b]
    BY DEF IntelligenceInv, AnalysisTypeOK
  <1>3. \A b \in Analyses \ {a} : AnalysisInv(b)'
    BY <1>2, OneMoves
  <1>4. \A r \in releases : ReleaseInv(r)'
    BY <1>2, OneMoves
  <1> QED
    BY <1>1, <1>3, <1>4 DEF IntelligenceInv

\* What was known of a source is known of it after a step of its analysis.
LEMMA SourcesKeep ==
    ASSUME UNCHANGED rows, NEW a \in Analyses, analysis'[a].by = analysis[a].by,
           analysis[a].read \subseteq analysis'[a].read,
           NEW r
    PROVE  /\ OnRecord(analysis[a], r) => OnRecord(analysis[a], r)'
           /\ Grounded(analysis[a], r) => Grounded(analysis[a], r)'
  BY DEF OnRecord, Grounded, MayUpload, CleanContents

LEMMA Ends ==
    ASSUME EvidenceInv, IntelligenceInv, [Next]_vars, UNCHANGED rows,
           NEW a \in Analyses, analysis[a].stage \in {"resolving", "analyzing", "releasing"},
           NEW stages \in Seq(AuditStages),
           analysis' = [analysis EXCEPT ![a].stage = "ended"],
           trail' = [trail EXCEPT ![a] = stages],
           UNCHANGED <<releases, returned>>
    PROVE  IntelligenceInv'
  <1> DEFINE q == [analysis[a] EXCEPT !.stage = "ended"]
  <1>1. analysis[a] \in AnalysisRow /\ AnalysisInv(a) /\ AnalysisTypeOK
    BY DEF IntelligenceInv, AnalysisTypeOK
  <1>2. q \in AnalysisRow /\ analysis' = [analysis EXCEPT ![a] = q] /\ analysis'[a] = q
    BY <1>1 DEF AnalysisRow, AnalysisStages, AnalysisTypeOK
  <1>3. /\ q.stage = "ended" /\ q.by = analysis[a].by /\ q.references = analysis[a].references
        /\ q.next = analysis[a].next /\ q.authorized = analysis[a].authorized
        /\ q.read = analysis[a].read
    BY <1>1 DEF AnalysisRow
  <1>4. \A r : /\ OnRecord(analysis[a], r) => OnRecord(analysis[a], r)'
               /\ Grounded(analysis[a], r) => Grounded(analysis[a], r)'
    BY <1>2, <1>3, SourcesKeep
  <1>5. AnalysisInv(a)'
    BY <1>1, <1>2, <1>3, <1>4 DEF AnalysisInv
  <1> QED
    BY <1>2, <1>5, MoveKeeps

LEMMA Requested ==
    ASSUME EvidenceInv, IntelligenceInv, [Next]_vars,
           NEW a \in Analyses, NEW type \in AnalysisTypes, NEW p \in People,
           NEW references \in SeqOf(References, MaxSources),
           RequestAnalysis(a, type, p, references)
    PROVE  IntelligenceInv'
  <1> DEFINE q == [analysis[a] EXCEPT !.stage = "resolving", !.type = type, !.by = p,
                                      !.references = references]
             stages == Append(trail[a], "analysis_requested")
  <1>1. analysis[a] \in AnalysisRow /\ AnalysisInv(a) /\ AnalysisTypeOK
    BY DEF IntelligenceInv, AnalysisTypeOK
  <1>2. references \in Seq(References) /\ Len(references) >= 1
    BY IntelligenceAssumption DEF SeqOf, RequestAnalysis, ValidReferences
  <1>3. q \in AnalysisRow /\ analysis' = [analysis EXCEPT ![a] = q] /\ analysis'[a] = q
    BY <1>1, <1>2 DEF AnalysisRow, AnalysisStages, AnalysisTypeOK, RequestAnalysis
  <1>4. /\ stages \in Seq(AuditStages)
        /\ trail' = [trail EXCEPT ![a] = stages] /\ trail'[a] = stages
    BY <1>1 DEF RequestAnalysis, AppendAudit, AnalysisTypeOK, AuditStages
  <1>5. analysis[a].stage = "idle" /\ trail[a] = <<>>
    BY <1>1 DEF RequestAnalysis, In, AnalysisInv, TrailOf
  <1>6. q.stage = "resolving" /\ q.references = references /\ q.next = 1 /\ ~q.authorized
    BY <1>1, <1>5 DEF AnalysisRow, AnalysisInv
  <1>7. stages = <<"analysis_requested">>
    BY <1>5
  <1> HIDE DEF q, stages
  <1>8. AnalysisInv(a)'
    <2>1. analysis'[a] = q /\ trail'[a] = TrailOf("resolving")
      BY <1>3, <1>4, <1>7 DEF TrailOf
    <2>2. \A r \in releases' : r.correlation # a
      BY <1>1, <1>5 DEF AnalysisInv, RequestAnalysis
    <2>3. \A i \in 1..Len(references) : ~(i < 1)
      BY <1>2
    <2> QED
      BY <1>2, <1>6, <2>1, <2>2, <2>3 DEF AnalysisInv
  <1> QED
    BY <1>3, <1>4, <1>5, <1>8, MoveKeeps DEF RequestAnalysis

LEMMA Authorized ==
    ASSUME EvidenceInv, IntelligenceInv, [Next]_vars, NEW a \in Analyses, AuthorizeSource(a)
    PROVE  IntelligenceInv'
  <1> DEFINE q == [analysis[a] EXCEPT !.authorized = TRUE]
  <1>1. analysis[a] \in AnalysisRow /\ AnalysisInv(a) /\ AnalysisTypeOK
    BY DEF IntelligenceInv, AnalysisTypeOK
  <1>2. q \in AnalysisRow /\ analysis' = [analysis EXCEPT ![a] = q] /\ analysis'[a] = q
    BY <1>1 DEF AnalysisRow, AnalysisTypeOK, AuthorizeSource
  <1>3. /\ trail' = [trail EXCEPT ![a] = trail[a]] /\ trail'[a] = trail[a]
        /\ trail[a] \in Seq(AuditStages)
        /\ UNCHANGED <<releases, returned, rows>>
    BY <1>1 DEF AuthorizeSource, AnalysisTypeOK, evidence
  <1>4. /\ analysis[a].stage = "resolving"
        /\ OnRecord(analysis[a], Source(a))
    BY DEF AuthorizeSource, Resolving, In, CanRead, GetUploaded, OnRecord
  <1>5. /\ q.stage = "resolving" /\ q.by = analysis[a].by /\ q.references = analysis[a].references
        /\ q.next = analysis[a].next /\ q.read = analysis[a].read
    BY <1>1, <1>4 DEF AnalysisRow
  <1> HIDE DEF q
  <1>6. \A r : /\ OnRecord(analysis[a], r) => OnRecord(analysis[a], r)'
               /\ Grounded(analysis[a], r) => Grounded(analysis[a], r)'
    BY <1>2, <1>3, <1>5, SourcesKeep
  <1>7. AnalysisInv(a)'
    BY <1>1, <1>2, <1>3, <1>4, <1>5, <1>6 DEF AnalysisInv, Source
  <1> QED
    BY <1>2, <1>3, <1>4, <1>7, MoveKeeps

LEMMA Read ==
    ASSUME EvidenceInv, IntelligenceInv, [Next]_vars, NEW a \in Analyses, ReadSource(a)
    PROVE  IntelligenceInv'
  <1> DEFINE content == objects[Source(a).artifact]
             q == [analysis[a] EXCEPT !.next = @ + 1, !.authorized = FALSE,
                                      !.bytes = @ + Size[content], !.read = @ \cup {content}]
  <1>1. analysis[a] \in AnalysisRow /\ AnalysisInv(a) /\ AnalysisTypeOK
    BY DEF IntelligenceInv, AnalysisTypeOK
  <1>2. /\ analysis[a].stage = "resolving" /\ analysis[a].authorized
        /\ analysis[a].next \in 1..Len(analysis[a].references)
        /\ content = Source(a).digest
    BY <1>1 DEF ReadSource, Resolving, In, Verifies, AnalysisInv, AnalysisRow
  <1>3. Source(a) \in References /\ OnRecord(analysis[a], Source(a))
    BY <1>1, <1>2, SourceFacts DEF Source, AnalysisInv
  <1>4. content \in CleanContents /\ Size[content] \in Nat
    BY <1>2, <1>3, ReferenceFacts, EvidenceAssumption
       DEF OnRecord, EvidenceInv, UploadInv, CleanContents
  <1> HIDE DEF content
  <1>5. /\ q \in AnalysisRow
        /\ q.stage = "resolving" /\ q.by = analysis[a].by /\ q.references = analysis[a].references
        /\ q.next = analysis[a].next + 1 /\ q.read = analysis[a].read \cup {content}
        /\ ~q.authorized
    <2>1. /\ analysis[a].next + 1 \in Nat /\ analysis[a].bytes + Size[content] \in Nat
          /\ analysis[a].read \cup {content} \in SUBSET Contents
      BY <1>1, <1>4, EvidenceAssumption DEF AnalysisRow, CleanContents
    <2>2. q \in AnalysisRow
      BY <1>1, <2>1 DEF AnalysisRow
    <2> QED
      BY <1>1, <1>2, <2>2 DEF AnalysisRow
  <1>6. analysis' = [analysis EXCEPT ![a] = q]
    BY <1>1 DEF ReadSource, AnalysisTypeOK, content
  <1> HIDE DEF q
  <1>7. analysis'[a] = q
    BY <1>1, <1>6 DEF AnalysisTypeOK
  <1>8. /\ trail' = [trail EXCEPT ![a] = trail[a]] /\ trail'[a] = trail[a]
        /\ trail[a] \in Seq(AuditStages)
        /\ UNCHANGED <<releases, returned, rows>>
    BY <1>1 DEF ReadSource, AnalysisTypeOK, evidence
  <1>9. \A r : Grounded(analysis[a], r) => Grounded(analysis[a], r)'
    BY <1>5, <1>7, <1>8, SourcesKeep
  <1>10. ASSUME NEW i \in 1..Len(analysis[a].references), i < analysis[a].next + 1
         PROVE  Grounded(analysis[a], analysis[a].references[i])'
    <2>1. CASE i = analysis[a].next
      <3>1. OnRecord(analysis[a], analysis[a].references[i])
        BY <1>3, <2>1 DEF Source
      <3>2. analysis[a].references[i].digest \in CleanContents \cap q.read
        BY <1>2, <1>4, <1>5, <2>1 DEF Source
      <3> QED
        BY <1>5, <1>7, <1>8, <3>1, <3>2 DEF Grounded, OnRecord, MayUpload, CleanContents
    <2>2. CASE i < analysis[a].next
      BY <1>1, <1>5, <1>7, <1>9, <2>2 DEF AnalysisInv
    <2> QED
      BY <1>2, <1>10, <2>1, <2>2
  <1>11. AnalysisInv(a)'
    BY <1>1, <1>2, <1>5, <1>7, <1>8, <1>10 DEF AnalysisInv
  <1> QED
    BY <1>2, <1>5, <1>6, <1>8, <1>11, MoveKeeps

\* What Append does to the short trails.
LEMMA TwoStages ==
    ASSUME NEW x, NEW y
    PROVE  Append(<<x>>, y) = <<x, y>>
  <1> DEFINE appended == Append(<<x>>, y)
  <1>1. <<x>> \in Seq({x, y}) /\ <<x, y>> \in Seq({x, y}) /\ Len(<<x>>) = 1 /\ Len(<<x, y>>) = 2
    OBVIOUS
  <1>2. appended \in Seq({x, y}) /\ Len(appended) = 2 /\ appended[1] = x /\ appended[2] = y
    BY <1>1, AppendProperties
  <1> HIDE DEF appended
  <1>3. \A i \in 1..Len(appended) : appended[i] = <<x, y>>[i]
    BY <1>2
  <1>4. appended = <<x, y>>
    BY <1>1, <1>2, <1>3, SeqEqual
  <1> QED
    BY <1>4 DEF appended

LEMMA ThreeStages ==
    ASSUME NEW x, NEW y, NEW z
    PROVE  Append(<<x, y>>, z) = <<x, y, z>>
  <1> DEFINE appended == Append(<<x, y>>, z)
  <1>1. /\ <<x, y>> \in Seq({x, y, z}) /\ <<x, y, z>> \in Seq({x, y, z})
        /\ Len(<<x, y>>) = 2 /\ Len(<<x, y, z>>) = 3
    OBVIOUS
  <1>2. /\ appended \in Seq({x, y, z}) /\ Len(appended) = 3
        /\ appended[1] = x /\ appended[2] = y /\ appended[3] = z
    BY <1>1, AppendProperties
  <1> HIDE DEF appended
  <1>3. \A i \in 1..Len(appended) : appended[i] = <<x, y, z>>[i]
    BY <1>2
  <1>4. appended = <<x, y, z>>
    BY <1>1, <1>2, <1>3, SeqEqual
  <1> QED
    BY <1>4 DEF appended

LEMMA Verified ==
    ASSUME EvidenceInv, IntelligenceInv, [Next]_vars, NEW a \in Analyses, SourcesVerified(a)
    PROVE  IntelligenceInv'
  <1> DEFINE q == [analysis[a] EXCEPT !.stage = "analyzing"]
             stages == Append(trail[a], "sources_verified")
  <1>1. analysis[a] \in AnalysisRow /\ AnalysisInv(a) /\ AnalysisTypeOK
    BY DEF IntelligenceInv, AnalysisTypeOK
  <1>2. /\ analysis[a].stage = "resolving" /\ analysis[a].next > Len(analysis[a].references)
        /\ UNCHANGED <<releases, returned, rows>>
    BY DEF SourcesVerified, In, evidence
  <1>3. q \in AnalysisRow /\ analysis' = [analysis EXCEPT ![a] = q] /\ analysis'[a] = q
    BY <1>1 DEF AnalysisRow, AnalysisStages, AnalysisTypeOK, SourcesVerified, Goes
  <1>4. stages \in Seq(AuditStages) /\ trail' = [trail EXCEPT ![a] = stages] /\ trail'[a] = stages
    BY <1>1 DEF SourcesVerified, AppendAudit, AnalysisTypeOK, AuditStages
  <1>5. stages = TrailOf("analyzing")
    <2>1. trail[a] = <<"analysis_requested">>
      BY <1>1, <1>2 DEF AnalysisInv, TrailOf
    <2> QED
      BY <2>1, TwoStages DEF TrailOf
  <1>6. /\ q.stage = "analyzing" /\ q.by = analysis[a].by /\ q.references = analysis[a].references
        /\ q.next = analysis[a].next /\ q.read = analysis[a].read
        /\ q.authorized = analysis[a].authorized
    BY <1>1 DEF AnalysisRow
  <1> HIDE DEF q, stages
  <1>7. \A r : /\ OnRecord(analysis[a], r) => OnRecord(analysis[a], r)'
               /\ Grounded(analysis[a], r) => Grounded(analysis[a], r)'
    BY <1>2, <1>3, <1>6, SourcesKeep
  <1>8. AnalysisInv(a)'
    BY <1>1, <1>2, <1>3, <1>4, <1>5, <1>6, <1>7 DEF AnalysisInv
  <1> QED
    BY <1>2, <1>3, <1>4, <1>8, MoveKeeps

LEMMA Answered ==
    ASSUME EvidenceInv, IntelligenceInv, [Next]_vars,
           NEW a \in Analyses, NEW answer_ \in SUBSET Candidates, ProviderAnswers(a, answer_)
    PROVE  IntelligenceInv'
  <1> DEFINE q == [analysis[a] EXCEPT !.stage = "releasing", !.candidates = answer_]
  <1>1. analysis[a] \in AnalysisRow /\ AnalysisInv(a) /\ AnalysisTypeOK
    BY DEF IntelligenceInv, AnalysisTypeOK
  <1>2. analysis[a].stage = "analyzing" /\ UNCHANGED <<releases, returned, rows>>
    BY DEF ProviderAnswers, In, evidence
  <1>3. q \in AnalysisRow /\ analysis' = [analysis EXCEPT ![a] = q] /\ analysis'[a] = q
    BY <1>1 DEF AnalysisRow, AnalysisStages, AnalysisTypeOK, ProviderAnswers
  <1>4. /\ trail' = [trail EXCEPT ![a] = trail[a]] /\ trail'[a] = trail[a]
        /\ trail[a] \in Seq(AuditStages)
    BY <1>1 DEF ProviderAnswers, AnalysisTypeOK
  <1>5. /\ q.stage = "releasing" /\ q.by = analysis[a].by /\ q.references = analysis[a].references
        /\ q.next = analysis[a].next /\ q.read = analysis[a].read
        /\ q.authorized = analysis[a].authorized /\ q.candidates = answer_
    BY <1>1 DEF AnalysisRow
  <1> HIDE DEF q
  <1>6. \A r : /\ OnRecord(analysis[a], r) => OnRecord(analysis[a], r)'
               /\ Grounded(analysis[a], r) => Grounded(analysis[a], r)'
    BY <1>2, <1>3, <1>5, SourcesKeep
  <1>7. Checked(a, answer_)'
    BY <1>3, <1>5 DEF ProviderAnswers, Acceptable, Checked
  <1>8. AnalysisInv(a)'
    BY <1>1, <1>2, <1>3, <1>4, <1>5, <1>6, <1>7 DEF AnalysisInv, TrailOf
  <1> QED
    BY <1>2, <1>3, <1>4, <1>8, MoveKeeps

\* A completion releases what was checked against what was on record; the
\* caller is given it (PersistCompletion) or not (CompletionUnknown).
LEMMA Completed ==
    ASSUME EvidenceInv, IntelligenceInv, [Next]_vars, UNCHANGED rows,
           NEW a \in Analyses, In(a, "releasing"), ~ReleaseConflict(a),
           releases' = releases \cup NewReleases(a),
           Goes(a, "ended"), AppendAudit(a, "analysis_completed"),
           \/ UNCHANGED returned
           \/ returned' = [returned EXCEPT ![a] = analysis[a].candidates]
    PROVE  IntelligenceInv'
  <1> DEFINE q == [analysis[a] EXCEPT !.stage = "ended"]
             stages == Append(trail[a], "analysis_completed")
  <1>1. analysis[a] \in AnalysisRow /\ AnalysisInv(a) /\ AnalysisTypeOK
    BY DEF IntelligenceInv, AnalysisTypeOK
  <1>2. q \in AnalysisRow /\ analysis' = [analysis EXCEPT ![a] = q] /\ analysis'[a] = q
    BY <1>1 DEF AnalysisRow, AnalysisStages, AnalysisTypeOK, Goes
  <1>3. stages \in Seq(AuditStages) /\ trail' = [trail EXCEPT ![a] = stages] /\ trail'[a] = stages
    BY <1>1 DEF AppendAudit, AnalysisTypeOK, AuditStages
  <1>4. stages = <<"analysis_requested", "sources_verified", "analysis_completed">>
    <2>1. trail[a] = <<"analysis_requested", "sources_verified">>
      BY <1>1 DEF AnalysisInv, TrailOf, In
    <2> QED
      BY <2>1, ThreeStages
  <1>5. /\ q.stage = "ended" /\ q.by = analysis[a].by /\ q.references = analysis[a].references
        /\ q.next = analysis[a].next /\ q.read = analysis[a].read
        /\ q.authorized = analysis[a].authorized /\ q.candidates = analysis[a].candidates
    BY <1>1 DEF AnalysisRow
  <1>6. /\ analysis[a].candidates \subseteq Candidates
        /\ analysis[a].candidates \subseteq CandidateRow
        /\ Checked(a, analysis[a].candidates)
    BY <1>1, IntelligenceAssumption DEF AnalysisRow, AnalysisInv, In
  <1> HIDE DEF q, stages
  <1>7. AnalysisTypeOK'
    <2>1. NewReleases(a) \subseteq ReleaseRow
      BY <1>6 DEF NewReleases, Release, ReleaseRow
    <2> QED
      BY <1>1, <1>2, <1>3, <1>6, <2>1 DEF AnalysisTypeOK
  <1>8. \A r : /\ OnRecord(analysis[a], r) => OnRecord(analysis[a], r)'
               /\ Grounded(analysis[a], r) => Grounded(analysis[a], r)'
    BY <1>2, <1>5, SourcesKeep
  <1>9. AnalysisInv(a)'
    BY <1>1, <1>2, <1>5, <1>8 DEF AnalysisInv, In
  <1>10. /\ \A b \in Analyses \ {a} : analysis'[b] = analysis[b] /\ trail'[b] = trail[b]
         /\ \A r \in releases' \ releases : r.correlation = a
    BY <1>1, <1>2, <1>3 DEF AnalysisTypeOK, NewReleases, Release
  <1>11. /\ \A b \in Analyses \ {a} : AnalysisInv(b)'
         /\ \A r \in releases : ReleaseInv(r)'
    BY <1>10, OneMoves DEF In
  <1>12. ASSUME NEW r \in NewReleases(a)
         PROVE  ReleaseInv(r)'
    <2>1. /\ r.correlation = a /\ r.candidate.retrieved = ToSet(analysis[a].references)
          /\ r.candidate.cited \subseteq r.candidate.retrieved
      BY <1>6 DEF NewReleases, Release, Checked
    <2>2. ASSUME NEW source \in ToSet(analysis[a].references)
          PROVE  Grounded(analysis[a], source)
      <3>1. PICK i \in 1..Len(analysis[a].references) : source = analysis[a].references[i]
        BY <1>1 DEF ToSet, AnalysisRow
      <3> QED
        BY <1>1, <3>1 DEF AnalysisInv, In, AnalysisRow
    <2>3. MayUpload(analysis[a].by)
      <3>1. analysis[a].references[1] \in ToSet(analysis[a].references)
        BY <1>1 DEF ToSet, AnalysisInv, In, AnalysisRow
      <3> QED
        BY <2>2, <3>1 DEF Grounded, OnRecord
    <2> QED
      BY <1>2, <1>3, <1>4, <1>5, <1>8, <2>1, <2>2, <2>3 DEF ReleaseInv, MayUpload
  <1>13. ASSUME NEW r \in releases', NEW s \in releases', r.candidate.finding = s.candidate.finding
         PROVE  r = s
    <2>1. r \in releases \cup NewReleases(a) /\ s \in releases \cup NewReleases(a)
      BY <1>13
    <2> QED
      BY <1>6, <1>13, <2>1 DEF IntelligenceInv, NewReleases, Release, ReleaseConflict, Checked
  <1>14. ASSUME NEW b \in Analyses, NEW c \in returned'[b]
         PROVE  [correlation |-> b, candidate |-> c] \in releases'
    <2>1. CASE b = a /\ c \in analysis[a].candidates
      BY <2>1 DEF NewReleases, Release
    <2>2. CASE c \in returned[b]
      BY <2>2 DEF IntelligenceInv
    <2> QED
      BY <1>1, <1>14, <2>1, <2>2 DEF AnalysisTypeOK
  <1> QED
    BY <1>7, <1>9, <1>11, <1>12, <1>13, <1>14 DEF IntelligenceInv

LEMMA IntelligenceKeeps ==
    ASSUME EvidenceInv, IntelligenceInv, [Next]_vars, IntelligenceStep
    PROVE  IntelligenceInv'
  <1>1. AnalysisTypeOK /\ UNCHANGED rows
    BY AnalysisOnlyReads DEF IntelligenceInv, EvidenceInv, EvidenceRead
  <1>2. PICK a \in Analyses :
            \/ \E type \in AnalysisTypes, p \in People,
                  references \in SeqOf(References, MaxSources) :
                   RequestAnalysis(a, type, p, references)
            \/ AuthorizeSource(a)
            \/ ReadSource(a)
            \/ SourcesVerified(a)
            \/ \E answer_ \in SUBSET Candidates : ProviderAnswers(a, answer_)
            \/ ResolutionFails(a)
            \/ \E answer_ \in SUBSET Candidates : ProviderRejected(a, answer_)
            \/ ProviderFails(a) \/ CompletionConflicts(a) \/ AnalysisDies(a)
            \/ PersistCompletion(a)
            \/ CompletionUnknown(a)
    BY DEF IntelligenceStep
  <1> DEFINE Fails(stage) == trail' = [trail EXCEPT ![a] = Append(trail[a], stage)]
  <1>3. CASE \E type \in AnalysisTypes, p \in People,
                references \in SeqOf(References, MaxSources) :
                 RequestAnalysis(a, type, p, references)
    BY <1>3, Requested
  <1>4. CASE AuthorizeSource(a)
    BY <1>4, Authorized
  <1>5. CASE ReadSource(a)
    BY <1>5, Read
  <1>6. CASE SourcesVerified(a)
    BY <1>6, Verified
  <1>7. CASE \E answer_ \in SUBSET Candidates : ProviderAnswers(a, answer_)
    BY <1>7, Answered
  <1>8. CASE \/ ResolutionFails(a) \/ ProviderFails(a) \/ CompletionConflicts(a)
             \/ \E answer_ \in SUBSET Candidates : ProviderRejected(a, answer_)
    <2>1. PICK stage \in AuditStages : Fails(stage)
      BY <1>8 DEF ResolutionFails, ProviderFails, CompletionConflicts, ProviderRejected,
                  AppendAudit, AuditStages
    <2>2. /\ analysis' = [analysis EXCEPT ![a].stage = "ended"]
          /\ analysis[a].stage \in {"resolving", "analyzing", "releasing"}
          /\ UNCHANGED <<releases, returned>>
      BY <1>8 DEF ResolutionFails, ProviderFails, CompletionConflicts, ProviderRejected, Goes, In,
                  Resolving
    <2>3. Append(trail[a], stage) \in Seq(AuditStages)
      BY <1>1 DEF AnalysisTypeOK
    <2> QED
      BY <1>1, <2>1, <2>2, <2>3, Ends
  <1>9. CASE AnalysisDies(a)
    <2>1. trail' = [trail EXCEPT ![a] = trail[a]] /\ trail[a] \in Seq(AuditStages)
      BY <1>1, <1>9 DEF AnalysisDies, AnalysisTypeOK
    <2> QED
      BY <1>1, <1>9, <2>1, Ends DEF AnalysisDies, Goes
  <1>10. CASE PersistCompletion(a)
    BY <1>1, <1>10, Completed DEF PersistCompletion
  <1>11. CASE CompletionUnknown(a)
    BY <1>1, <1>11, Completed DEF CompletionUnknown
  <1> QED
    BY <1>2, <1>3, <1>4, <1>5, <1>6, <1>7, <1>8, <1>9, <1>10, <1>11

LEMMA IntelligenceInvStep ==
    ASSUME EvidenceInv, IntelligenceInv, [Next]_vars
    PROVE  IntelligenceInv'
  <1>1. CASE IntelligenceStep
    BY <1>1, IntelligenceKeeps
  <1>2. CASE UNCHANGED intelligence
    <2>1. UNCHANGED <<analysis, trail, releases, returned>>
      BY <1>2 DEF intelligence
    <2>2. \A a \in Analyses : AnalysisInv(a)'
      BY <2>1, AnalysisStays
    <2>3. \A r \in releases : ReleaseInv(r)'
      BY <2>1, ReleaseStays
    <2> QED
      BY <2>1, <2>2, <2>3 DEF IntelligenceInv, AnalysisTypeOK
  <1> QED
    BY <1>1, <1>2 DEF Next, vars

LEMMA IntelligenceInvImplies == EvidenceInv /\ IntelligenceInv => ReleasesAreGrounded
  BY DEF IntelligenceInv, ReleaseInv, Grounded, OnRecord, CleanContents, ReleasesAreGrounded

\* However sources are damaged, answers fail or analyses race, a released
\* finding rests on bytes on record that were clean and were read, and went
\* through every stage of its audit (execute, _persist_completion).
THEOREM ReleasesAreGroundedHolds == Spec => []ReleasesAreGrounded
  <1> DEFINE Inv == EvidenceInv /\ IntelligenceInv
  <1>1. Init => Inv
    BY EvidenceInvInit, IntelligenceInvInit
  <1>2. Inv /\ [Next]_vars => Inv'
    BY EvidenceInvStep, IntelligenceInvStep
  <1>3. Inv => ReleasesAreGrounded
    BY IntelligenceInvImplies
  <1> QED
    BY <1>1, <1>2, <1>3, PTL DEF Spec

-----------------------------------------------------------------------------
(* Reviews *)

ReviewStages == {"authorized", "released", "saving", "inserted", "recovering", "ended"}
CallRow == {NoCall} \cup [stage : ReviewStages, binding : Binding]

Same(c, d) == call[c].binding.request = call[d].binding.request

\* An insertion is alone with its request until it is committed.
CallInv(c) ==
    /\ call[c] = NoCall => reply[c] = NoReceipt
    /\ call[c] # NoCall => CanReview(call[c].binding.by)
    /\ call[c].stage \in {"released", "saving", "inserted", "recovering"} =>
           WasReleased(call[c].binding.candidate)
    /\ call[c].stage = "inserted" =>
           /\ GetByRequestId(call[c].binding.request) = {}
           /\ \A d \in Calls \ {c} : call[d].stage = "inserted" => ~Same(c, d)
    /\ reply[c] # NoReceipt => reply[c] \in receipts /\ reply[c].binding = call[c].binding

ReviewsInv ==
    /\ call \in [Calls -> CallRow]
    /\ receipts \subseteq ReceiptRow
    /\ reply \in [Calls -> ReceiptRow \cup {NoReceipt}]
    /\ \A c \in Calls : CallInv(c)
    /\ \A r, s \in receipts : r.binding.request = s.binding.request => r = s
    /\ \A r \in receipts : WasReleased(r.binding.candidate) /\ CanReview(r.binding.by)

LEMMA ReviewsInvInit == Init => ReviewsInv
  BY DEF Init, ReviewsInit, ReviewsInv, CallRow, CallInv, NoCall

\* What is released is never withdrawn.
LEMMA ReleasesGrow == [Next]_vars => releases \subseteq releases'
  BY DEF Next, vars, intelligence, IntelligenceStep, RequestAnalysis, AuthorizeSource, ReadSource,
         ResolutionFails, SourcesVerified, ProviderAnswers, ProviderRejected, ProviderFails,
         PersistCompletion, CompletionConflicts, CompletionUnknown, AnalysisDies

\* A call that moves on keeps what it was asked; the others are as they were.
LEMMA CallMoves ==
    ASSUME call \in [Calls -> CallRow], NEW c \in Calls, call[c] # NoCall,
           NEW stage \in ReviewStages, Moves(c, stage)
    PROVE  /\ call' \in [Calls -> CallRow]
           /\ call'[c].stage = stage /\ call'[c].binding = call[c].binding /\ call'[c] # NoCall
           /\ \A d \in Calls \ {c} : call'[d] = call[d]
  <1>1. call[c] \in [stage : ReviewStages, binding : Binding]
    BY DEF CallRow
  <1>2. [call[c] EXCEPT !.stage = stage] \in [stage : ReviewStages, binding : Binding]
    BY <1>1
  <1>3. stage # "idle"
    BY DEF ReviewStages
  <1> QED
    BY <1>1, <1>2, <1>3 DEF Moves, CallRow, NoCall

LEMMA ReviewsStay ==
    ASSUME ReviewsInv, [Next]_vars, UNCHANGED reviews
    PROVE  ReviewsInv'
  BY ReleasesGrow DEF ReviewsInv, reviews, CallInv, Same, CanReview, WasReleased, GetByRequestId

LEMMA Began ==
    ASSUME ReviewsInv, UNCHANGED releases,
           NEW c \in Calls, NEW binding \in Binding, BeginReview(c, binding)
    PROVE  ReviewsInv'
  <1> DEFINE row == [stage |-> "authorized", binding |-> binding]
  <1>1. call[c] = NoCall
    BY DEF BeginReview, Stands, ReviewsInv, CallRow, ReviewStages
  <1>2. row \in CallRow /\ row # NoCall /\ row.stage = "authorized" /\ row.binding = binding
    BY DEF CallRow, ReviewStages, NoCall
  <1>3. call' = [call EXCEPT ![c] = row] /\ UNCHANGED <<receipts, reply>> /\ CanReview(binding.by)
    BY DEF BeginReview
  <1> HIDE DEF row
  <1>4. /\ call' \in [Calls -> CallRow] /\ call'[c] = row
        /\ \A d \in Calls \ {c} : call'[d] = call[d]
    BY <1>2, <1>3 DEF ReviewsInv
  <1>5. ASSUME NEW d \in Calls
        PROVE  CallInv(d)'
    <2>0. CallInv(d) /\ reply'[d] = reply[d]
      BY <1>3 DEF ReviewsInv
    <2>1. CASE d = c
      BY <1>1, <1>2, <1>3, <1>4, <2>0, <2>1 DEF CallInv, CanReview
    <2>2. CASE d # c
      <3>1. call'[d] = call[d]
        BY <1>4, <2>2
      <3>2. \A e \in Calls \ {d} : call'[e].stage = "inserted" => e # c /\ call'[e] = call[e]
        BY <1>2, <1>4
      <3>3. call[d].stage = "inserted" =>
              \A e \in Calls \ {d} : call'[e].stage = "inserted" => ~Same(d, e)'
        BY <2>0, <3>1, <3>2 DEF CallInv, Same
      <3> QED
        BY <1>3, <2>0, <3>1, <3>3 DEF CallInv, CanReview, WasReleased, GetByRequestId
    <2> QED
      BY <2>1, <2>2
  <1> QED
    BY <1>3, <1>4, <1>5 DEF ReviewsInv, CanReview, WasReleased

\* A call that moves without touching the receipts: it must have found its
\* finding released, and may not insert beside another.
LEMMA MovedOn ==
    ASSUME ReviewsInv, UNCHANGED <<releases, receipts>>,
           NEW c \in Calls, call[c] # NoCall, NEW stage \in ReviewStages, Moves(c, stage),
           stage \in {"released", "saving", "inserted", "recovering"} =>
               WasReleased(call[c].binding.candidate),
           stage = "inserted" =>
               GetByRequestId(call[c].binding.request) = {} /\ ~InsertedElsewhere(c),
           \/ UNCHANGED reply
           \/ \E receipt \in receipts :
                  receipt.binding = call[c].binding /\ Reply(c, receipt)
    PROVE  ReviewsInv'
  <1>1. /\ call' \in [Calls -> CallRow]
        /\ call'[c].stage = stage /\ call'[c].binding = call[c].binding /\ call'[c] # NoCall
        /\ \A d \in Calls \ {c} : call'[d] = call[d]
    BY CallMoves DEF ReviewsInv
  <1>2. /\ reply' \in [Calls -> ReceiptRow \cup {NoReceipt}]
        /\ \A d \in Calls \ {c} : reply'[d] = reply[d]
        /\ reply'[c] # NoReceipt =>
               reply'[c] \in receipts /\ reply'[c].binding = call[c].binding
    BY DEF ReviewsInv, CallInv, Reply
  <1>3. CallInv(c)'
    BY <1>1, <1>2
       DEF ReviewsInv, CallInv, Same, CanReview, WasReleased, GetByRequestId, InsertedElsewhere,
           Stands
  <1>4. ASSUME NEW d \in Calls \ {c}
        PROVE  CallInv(d)'
    BY <1>1, <1>2
       DEF ReviewsInv, CallInv, Same, CanReview, WasReleased, GetByRequestId, InsertedElsewhere,
           Stands
  <1> QED
    BY <1>1, <1>2, <1>3, <1>4 DEF ReviewsInv, CanReview, WasReleased

\* The receipt that was inserted alone becomes the one of its request.
LEMMA Committed ==
    ASSUME ReviewsInv, UNCHANGED releases, NEW c \in Calls,
           CommitReceipt(c) \/ CommitUnanswered(c)
    PROVE  ReviewsInv'
  <1>1. call[c].stage = "inserted" /\ call[c] # NoCall /\ Moves(c, "ended")
    BY DEF CommitReceipt, CommitUnanswered, Stands, NoCall
  <1>2. /\ call' \in [Calls -> CallRow]
        /\ call'[c].stage = "ended" /\ call'[c].binding = call[c].binding /\ call'[c] # NoCall
        /\ \A d \in Calls \ {c} : call'[d] = call[d]
    BY <1>1, CallMoves DEF ReviewsInv, ReviewStages
  <1>3. /\ receipts' = receipts \cup {NewReceipt(c)}
        /\ NewReceipt(c).binding = call[c].binding
        /\ NewReceipt(c) \in ReceiptRow
    BY <1>1 DEF CommitReceipt, CommitUnanswered, NewReceipt, ReceiptRow, ReviewsInv, CallRow
  <1>4. /\ reply' \in [Calls -> ReceiptRow \cup {NoReceipt}]
        /\ \A d \in Calls \ {c} : reply'[d] = reply[d]
        /\ reply'[c] \in {reply[c], NewReceipt(c)}
    BY <1>3 DEF CommitReceipt, CommitUnanswered, Reply, ReviewsInv
  <1>5. CallInv(c) /\ CallInv(c)'
    BY <1>1, <1>2, <1>3, <1>4 DEF ReviewsInv, CallInv, CanReview
  <1>6. ASSUME NEW d \in Calls \ {c}
        PROVE  CallInv(d)'
    <2>1. CallInv(d) /\ call'[d] = call[d] /\ reply'[d] = reply[d]
      BY <1>2, <1>4 DEF ReviewsInv
    <2>2. call[d].stage = "inserted" => ~Same(c, d) /\ ~Same(d, c)
      BY <1>1, <1>5, <2>1 DEF CallInv, Same
    <2>3. call[d].stage = "inserted" => GetByRequestId(call[d].binding.request)' = {}
      BY <1>3, <2>1, <2>2 DEF CallInv, GetByRequestId, Same
    <2>4. call[d].stage = "inserted" =>
              \A e \in Calls \ {d} : call'[e].stage = "inserted" => ~Same(d, e)'
      BY <1>2, <2>1 DEF CallInv, Same
    <2> QED
      BY <1>3, <2>1, <2>3, <2>4 DEF CallInv, CanReview, WasReleased
  <1>7. ASSUME NEW r \in receipts', NEW t \in receipts', r.binding.request = t.binding.request
        PROVE  r = t
    <2>1. GetByRequestId(NewReceipt(c).binding.request) = {}
      BY <1>1, <1>3, <1>5 DEF CallInv
    <2> QED
      BY <1>3, <1>7, <2>1 DEF ReviewsInv, GetByRequestId
  <1>8. \A r \in receipts' : (WasReleased(r.binding.candidate) /\ CanReview(r.binding.by))'
    BY <1>1, <1>3, <1>5 DEF ReviewsInv, CallInv, WasReleased, CanReview
  <1> QED
    BY <1>2, <1>3, <1>4, <1>5, <1>6, <1>7, <1>8 DEF ReviewsInv

LEMMA ReviewsKeep ==
    ASSUME ReviewsInv, ReviewStep, UNCHANGED releases
    PROVE  ReviewsInv'
  <1>1. PICK c \in Calls :
            \/ \E request \in ReviewRequests, candidate \in Candidates,
                  disposition \in Dispositions, p \in People :
                   BeginReview(c, [request |-> request, candidate |-> candidate,
                                   disposition |-> disposition, by |-> p,
                                   admin |-> p \in Admins])
            \/ RequireReleased(c)
            \/ NotFound(c)
            \/ Replay(c)
            \/ InsertReceipt(c)
            \/ WriteConflict(c)
            \/ CommitReceipt(c) \/ CommitUnanswered(c)
            \/ ReviewFails(c)
    BY DEF ReviewStep
  <1>2. call[c].stage # "idle" => call[c] # NoCall
    BY DEF NoCall
  <1>3. CallInv(c)
    BY DEF ReviewsInv
  <1>4. CASE \E request \in ReviewRequests, candidate \in Candidates,
                disposition \in Dispositions, p \in People :
                 BeginReview(c, [request |-> request, candidate |-> candidate,
                                 disposition |-> disposition, by |-> p, admin |-> p \in Admins])
    <2>1. PICK request \in ReviewRequests, candidate \in Candidates, disposition \in Dispositions,
               p \in People :
                   BeginReview(c, [request |-> request, candidate |-> candidate,
                                   disposition |-> disposition, by |-> p, admin |-> p \in Admins])
      BY <1>4
    <2>2. [request |-> request, candidate |-> candidate, disposition |-> disposition, by |-> p,
           admin |-> p \in Admins] \in Binding
      BY IntelligenceAssumption DEF Binding
    <2> QED
      BY <2>1, <2>2, Began
  <1>5. CASE RequireReleased(c)
    BY <1>2, <1>5, MovedOn DEF RequireReleased, Stands, ReviewStages
  <1>6. CASE NotFound(c)
    BY <1>2, <1>3, <1>6, MovedOn DEF NotFound, Stands, ReviewStages, CallInv
  <1>7. CASE Replay(c)
    BY <1>2, <1>7, MovedOn DEF Replay, ReviewStages, GetByRequestId, IsReplay
  <1>8. CASE InsertReceipt(c)
    BY <1>2, <1>3, <1>8, MovedOn DEF InsertReceipt, Stands, ReviewStages, CallInv
  <1>9. CASE WriteConflict(c)
    BY <1>2, <1>3, <1>9, MovedOn DEF WriteConflict, Stands, ReviewStages, CallInv
  <1>10. CASE CommitReceipt(c) \/ CommitUnanswered(c)
    BY <1>10, Committed
  <1>11. CASE ReviewFails(c)
    BY <1>2, <1>11, MovedOn DEF ReviewFails, ReviewStages
  <1> QED
    BY <1>1, <1>4, <1>5, <1>6, <1>7, <1>8, <1>9, <1>10, <1>11

LEMMA ReviewsInvStep ==
    ASSUME ReviewsInv, [Next]_vars
    PROVE  ReviewsInv'
  <1>1. CASE ReviewStep /\ UNCHANGED intelligence
    BY <1>1, ReviewsKeep DEF intelligence
  <1>2. CASE UNCHANGED reviews
    BY <1>2, ReviewsStay
  <1> QED
    BY <1>1, <1>2 DEF Next, vars

\* Whichever of its retries made it, a request has one receipt, and every
\* answer is that receipt (_persist_or_replay, _recover_concurrent_replay).
THEOREM ReviewsAreIdempotentHolds == Spec => []ReviewsAreIdempotent
  <1>1. ReviewsInv /\ [Next]_vars => ReviewsInv'
    BY ReviewsInvStep
  <1>2. ReviewsInv => ReviewsAreIdempotent
    BY DEF ReviewsInv, CallInv, ReviewsAreIdempotent
  <1> QED
    BY ReviewsInvInit, <1>1, <1>2, PTL DEF Spec

-----------------------------------------------------------------------------
(* Backups *)

Faultless == unknown = 0 /\ damaged = {}

\* What was dumped is still on record.
DumpStands == \A e \in Keys(backup.dump) : rows[e] = backup.dump[e]

BackupRows ==
    [stage : {"idle", "dumping", "listing", "copying", "published"},
     count : Nat, dump : Table, keys : SUBSET Evidence, files : Table]
ManifestRows == [count : Nat, dump : Table, files : Table]
ArchiveRows == [manifest : ManifestRows, dump : Table, files : Table]
Target == [exists : BOOLEAN, held : Table]
RestoreStages ==
    {"idle", "database", "comparing", "bucket", "cleaning", "refused", "restored", "tested"}

\* A row has its object, and keeps it.
RowsBacked == \A e \in Evidence : rows[e] # NoContent => upload[e].stage = "ended" /\ objects[e] = rows[e]

CopyInv ==
    /\ backup.stage \in {"idle", "dumping", "listing"} => backup.files = Empty
    /\ backup.stage = "dumping" => backup.count <= Cardinality(Keys(rows))
    /\ backup.stage \in {"listing", "copying"} =>
           DumpStands /\ backup.count <= Cardinality(Keys(backup.dump))
    /\ backup.stage = "copying" =>
           /\ Keys(backup.dump) \subseteq backup.keys
           /\ \A e \in Keys(backup.dump) : backup.files[e] \in {NoContent, backup.dump[e]}
    /\ archive.manifest.dump = archive.manifest.files

\* Once there is an archive, its stage stays, and a restore is of that one.
RestoreInv ==
    /\ archive # NoArchive \/ restore # "idle" => backup.stage = "published"
    /\ restore \in {"comparing", "bucket", "restored"} =>
           /\ target.database.exists
           /\ archive.dump = archive.manifest.dump => target.database.held = archive.dump
    /\ restore = "restored" =>
           target.bucket = [exists |-> TRUE, held |-> archive.manifest.files]

BackupsInv ==
    /\ backup \in BackupRows /\ archive \in ArchiveRows
    /\ restore \in RestoreStages /\ target \in [database : Target, bucket : Target]
    /\ RestoreInv
    /\ Faultless => RowsBacked /\ CopyInv

LEMMA KeysFinite ==
    ASSUME NEW table \in Table
    PROVE  /\ Keys(table) \subseteq Evidence
           /\ IsFiniteSet(Keys(table)) /\ Cardinality(Keys(table)) \in Nat
  <1>1. Keys(table) \in SUBSET Evidence
    BY DEF Keys
  <1>2. IsFiniteSet(Keys(table))
    BY <1>1, BackupsAssumption, FS_Subset
  <1> QED
    BY <1>1, <1>2, FS_CardinalityType

\* Faults are not forgotten.
LEMMA FaultsStay ==
    ASSUME EvidenceInv, [Next]_vars
    PROVE  Faultless' => Faultless
  <1> USE DEF Faultless, EvidenceInv, EvidenceTypeOK
  <1>1. CASE UploadStep
    BY <1>1 DEF UploadStep, AcceptUpload, RefuseUpload, PutObject, PutFails, SaveMetadata,
       SaveMetadataFails, CommitUnknown, DeleteAfterFailure, DeleteFails, UploadDies
  <1>2. CASE StorageStep
    BY <1>2 DEF StorageStep, ObjectDamaged
  <1>3. CASE UNCHANGED evidence
    BY <1>3 DEF evidence
  <1>4. CASE \E a \in Analyses : CompletionUnknown(a)
    BY <1>4 DEF CompletionUnknown
  <1>5. CASE IntelligenceStep
    BY <1>3, <1>4, <1>5 DEF IntelligenceStep, RequestAnalysis, AuthorizeSource, ReadSource,
       ResolutionFails, SourcesVerified, ProviderAnswers, ProviderRejected, ProviderFails,
       PersistCompletion, CompletionConflicts, AnalysisDies
  <1> QED
    BY <1>1, <1>2, <1>3, <1>5 DEF Next, vars

LEMMA BackupsInvInit ==
    ASSUME Init
    PROVE  BackupsInv
  <1>1. Empty \in Table /\ \A e \in Evidence : rows[e] = NoContent
    BY DEF Empty, Table, Init, EvidenceInit
  <1>2. backup = NoBackup /\ archive = NoArchive /\ restore = "idle"
    BY DEF Init, BackupsInit
  <1>3. backup \in BackupRows /\ archive \in ArchiveRows
    BY <1>1, <1>2 DEF BackupRows, ArchiveRows, ManifestRows, NoBackup, NoArchive, NoManifest
  <1>4. target \in [database : Target, bucket : Target]
    <2>1. Absent \in Target /\ Foreign \in Target
      BY <1>1 DEF Target, Absent, Foreign
    <2>2. \E d, b \in {Absent, Foreign} : target = [database |-> d, bucket |-> b]
      BY DEF Init, BackupsInit
    <2> QED
      BY <2>1, <2>2
  <1>5. RestoreInv /\ CopyInv /\ RowsBacked
    BY <1>1, <1>2 DEF NoBackup, NoArchive, NoManifest, RestoreInv, CopyInv, RowsBacked
  <1> QED
    BY <1>2, <1>3, <1>4, <1>5 DEF BackupsInv, RestoreStages

\* Without a fault, only what failed before its commit is deleted.
LEMMA BackedStep ==
    ASSUME EvidenceInv, RowsBacked, Faultless', UploadStep \/ UNCHANGED EvidenceRead
    PROVE  RowsBacked'
  <1> USE DEF EvidenceInv, EvidenceTypeOK, RowsBacked
  <1>1. CASE UNCHANGED EvidenceRead
    BY <1>1 DEF EvidenceRead
  <1>2. CASE UploadStep
    <2>1. PICK e \in Evidence :
              \/ \E p \in People, content \in Contents : AcceptUpload(e, p, content)
              \/ RefuseUpload(e) \/ UploadDies(e) \/ SaveMetadataFails(e)
              \/ PutObject(e)
              \/ \E content \in Contents \cup {NoContent} : PutFails(e, content)
              \/ SaveMetadata(e)
              \/ CommitUnknown(e)
              \/ DeleteAfterFailure(e)
              \/ \E content \in Contents \cup {NoContent} : DeleteFails(e, content)
      BY <1>2 DEF UploadStep
    <2> USE DEF At, Becomes, Answer, ObjectBecomes, SaveRow, UploadInv, Unsaved
    <2>2. CASE \E p \in People, content \in Contents : AcceptUpload(e, p, content)
      BY <2>2 DEF AcceptUpload
    <2>3. CASE RefuseUpload(e) \/ UploadDies(e) \/ SaveMetadataFails(e)
      BY <2>3 DEF RefuseUpload, UploadDies, SaveMetadataFails
    <2>4. CASE PutObject(e)
      BY <2>4 DEF PutObject
    <2>5. CASE \E content \in Contents \cup {NoContent} : PutFails(e, content)
      BY <2>5 DEF PutFails
    <2>6. CASE SaveMetadata(e)
      <3>1. objects[e] = upload[e].content
        BY <2>6 DEF SaveMetadata, Faultless, ObjectInv
      <3> QED
        BY <2>6, <3>1 DEF SaveMetadata
    <2>7. CASE CommitUnknown(e)
      BY <2>7 DEF CommitUnknown, Faultless
    <2>8. CASE DeleteAfterFailure(e)
      BY <2>8 DEF DeleteAfterFailure
    <2>9. CASE \E content \in Contents \cup {NoContent} : DeleteFails(e, content)
      BY <2>9 DEF DeleteFails
    <2> QED
      BY <2>1, <2>2, <2>3, <2>4, <2>5, <2>6, <2>7, <2>8, <2>9
  <1> QED
    BY <1>1, <1>2

\* Uploads beside a backup take nothing away from it.
LEMMA BackupsBeside ==
    ASSUME EvidenceInv, BackupsInv, [Next]_vars, UNCHANGED backups,
           UploadStep \/ StorageStep \/ UNCHANGED EvidenceRead
    PROVE  BackupsInv'
  <1>1. UNCHANGED <<backup, archive, restore, target>>
    BY DEF backups
  <1>2. ASSUME Faultless'
        PROVE  RowsBacked' /\ CopyInv'
    <2>1. Faultless /\ RowsBacked /\ CopyInv
      BY <1>2, FaultsStay DEF BackupsInv
    <2>2. UploadStep \/ UNCHANGED EvidenceRead
      BY <1>2 DEF StorageStep, ObjectDamaged, Faultless
    <2>3. RowsBacked'
      BY <1>2, <2>1, <2>2, BackedStep
    <2>4. rows \in Table /\ rows' \in Table /\ Keys(rows) \subseteq Keys(rows)'
      BY EvidenceInvStep, RowsStand DEF EvidenceInv, EvidenceTypeOK, Table, Keys
    <2>5. Cardinality(Keys(rows)) <= Cardinality(Keys(rows))'
          /\ Cardinality(Keys(rows)) \in Nat /\ Cardinality(Keys(rows))' \in Nat
      <3>1. IsFiniteSet(Keys(rows)') /\ Keys(rows) \in SUBSET Keys(rows)'
        BY <2>4, KeysFinite
      <3> QED
        BY <2>4, <3>1, KeysFinite, FS_Subset
    <2>6. DumpStands => DumpStands'
      <3> SUFFICES ASSUME DumpStands, NEW e \in Keys(backup.dump)
                   PROVE  rows'[e] = backup.dump[e]
        BY <1>1 DEF DumpStands
      <3>1. e \in Evidence /\ rows[e] = backup.dump[e] /\ rows[e] # NoContent
        BY DEF DumpStands, Keys
      <3> QED
        BY <3>1, RowsStand
    <2>7. backup.count \in Nat
      BY DEF BackupsInv, BackupRows
    <2>8. CopyInv'
      BY <1>1, <2>1, <2>5, <2>6, <2>7 DEF CopyInv, Keys
    <2> QED
      BY <2>3, <2>8
  <1> QED
    BY <1>1, <1>2 DEF BackupsInv, RestoreInv

LEMMA BackupTypes ==
    ASSUME EvidenceInv, BackupsInv, BackupStep
    PROVE  backup' \in BackupRows /\ archive' \in ArchiveRows
  <1> USE DEF BackupRows, ArchiveRows, ManifestRows
  <1>1. /\ backup \in BackupRows /\ archive \in ArchiveRows
        /\ rows \in Table /\ objects \in Table /\ Empty \in Table
    BY DEF BackupsInv, EvidenceInv, EvidenceTypeOK, Table, Empty
  <1>2. Cardinality(Keys(rows)) \in Nat /\ Keys(objects) \subseteq Evidence
    BY <1>1, KeysFinite
  <1>3. CASE InspectDatabase
    BY <1>1, <1>2, <1>3 DEF InspectDatabase, NoBackup
  <1>4. CASE CreateDump
    BY <1>1, <1>4 DEF CreateDump
  <1>5. CASE ListKeys
    BY <1>1, <1>2, <1>5 DEF ListKeys
  <1>6. CASE \E e \in Evidence : Download(e)
    BY <1>1, <1>6 DEF Download, Table
  <1>7. CASE Finalize
    BY <1>1, <1>7 DEF Finalize
  <1>8. CASE Discard
    BY <1>1, <1>8 DEF Discard, NoBackup
  <1>9. CASE ArchiveDamaged
    <2>1. CASE \E dump \in Table : archive' = [archive EXCEPT !.dump = dump]
      BY <1>1, <1>9, <2>1 DEF ArchiveDamaged
    <2>2. CASE \E e \in backup.keys, content \in Contents \cup {NoContent} :
                  archive' = [archive EXCEPT !.files[e] = content]
      BY <1>1, <1>9, <2>2 DEF ArchiveDamaged, Table
    <2> QED
      BY <1>9, <2>1, <2>2 DEF ArchiveDamaged
  <1> QED
    BY <1>1, <1>3, <1>4, <1>5, <1>6, <1>7, <1>8, <1>9
       DEF BackupStep, RestoreStep, BeginRestore, RestoreDatabase, DatabaseRefused, CompareDatabase,
           RestoreBucket, BucketRefused, DropDatabase, CleanAfterTest

LEMMA RestoreTypes ==
    ASSUME BackupsInv, BackupStep
    PROVE  restore' \in RestoreStages /\ target' \in [database : Target, bucket : Target]
  <1> USE DEF RestoreStages, Target
  <1>1. /\ restore \in RestoreStages /\ target \in [database : Target, bucket : Target]
        /\ archive.dump \in Table /\ archive.files \in Table
        /\ Absent \in Target /\ [exists |-> TRUE, held |-> Empty] \in Target
    BY EvidenceAssumption DEF BackupsInv, ArchiveRows, Absent, Empty, Table
  <1>2. CASE UNCHANGED target
    BY <1>1, <1>2
       DEF BackupStep, RestoreStep, InspectDatabase, CreateDump, ListKeys, Download, Finalize, Discard,
           ArchiveDamaged, BeginRestore, RestoreDatabase, DatabaseRefused, CompareDatabase,
           RestoreBucket, BucketRefused, DropDatabase, CleanAfterTest
  <1>3. CASE RestoreDatabase \/ RestoreBucket
    <2>1. PICK held \in Table :
              \/ target' = [target EXCEPT !.database = [exists |-> TRUE, held |-> held]]
              \/ target' = [target EXCEPT !.bucket = [exists |-> TRUE, held |-> held]]
      BY <1>1, <1>3 DEF RestoreDatabase, RestoreBucket
    <2>2. [exists |-> TRUE, held |-> held] \in Target
      OBVIOUS
    <2>3. restore' \in RestoreStages
      BY <1>3 DEF RestoreDatabase, RestoreBucket
    <2> QED
      BY <1>1, <2>1, <2>2, <2>3
  <1>4. CASE BucketRefused
    BY <1>1, <1>4 DEF BucketRefused
  <1>6. CASE DatabaseRefused /\ target' # target
    <2>1. PICK held \in Table :
              target' = [target EXCEPT !.database = [exists |-> TRUE, held |-> held]]
      BY <1>1, <1>6 DEF DatabaseRefused, Absent
    <2>2. [exists |-> TRUE, held |-> held] \in Target /\ restore' \in RestoreStages
      BY <1>6 DEF DatabaseRefused
    <2> QED
      BY <1>1, <2>1, <2>2
  <1>5. CASE DropDatabase \/ CleanAfterTest
    BY <1>1, <1>5 DEF DropDatabase, CleanAfterTest
  <1> QED
    BY <1>2, <1>3, <1>4, <1>5, <1>6
       DEF BackupStep, RestoreStep, InspectDatabase, CreateDump, ListKeys, Download, Finalize, Discard,
           ArchiveDamaged, BeginRestore, CompareDatabase

\* A restore puts back the two halves of one archive.
LEMMA RestoreKeeps ==
    ASSUME BackupsInv, BackupStep
    PROVE  RestoreInv'
  <1> USE DEF BackupsInv, BackupRows, ArchiveRows, RestoreInv
  <1>1. CASE InspectDatabase \/ CreateDump \/ ListKeys \/ (\E e \in Evidence : Download(e))
             \/ Discard
    <2>1. /\ backup.stage # "published"
          /\ UNCHANGED <<archive, restore, target>>
      BY <1>1 DEF InspectDatabase, CreateDump, ListKeys, Download, Discard
    <2> QED
      BY <2>1
  <1>2. CASE Finalize
    BY <1>2 DEF Finalize
  <1>3. CASE ArchiveDamaged
    <2>1. /\ backup.stage = "published" /\ archive.dump = archive.manifest.dump
          /\ archive'.manifest = archive.manifest
          /\ UNCHANGED <<backup, restore, target>>
          /\ archive'.dump # archive.manifest.dump \/ archive'.dump = archive.dump
      BY <1>3 DEF ArchiveDamaged, VerifyBackup
    <2> QED
      BY <2>1
  <1>4. CASE BeginRestore
    BY <1>4 DEF BeginRestore
  <1>5. CASE RestoreDatabase
    BY <1>5 DEF RestoreDatabase
  <1>6. CASE DatabaseRefused \/ BucketRefused \/ DropDatabase \/ CleanAfterTest
    BY <1>6 DEF DatabaseRefused, BucketRefused, DropDatabase, CleanAfterTest
  <1>7. CASE CompareDatabase
    BY <1>7 DEF CompareDatabase
  <1>8. CASE RestoreBucket
    BY <1>8 DEF RestoreBucket
  <1> QED
    BY <1>1, <1>2, <1>3, <1>4, <1>5, <1>6, <1>7, <1>8 DEF BackupStep, RestoreStep

\* The counts decide: as many objects as rows were counted before the dump
\* are the objects of the rows that were dumped, and of no others.
LEMMA CountsSuffice ==
    ASSUME BackupsInv, CopyInv, Finalize
    PROVE  backup.dump = backup.files
  <1>1. /\ backup.dump \in Table /\ backup.files \in Table /\ backup.keys \in SUBSET Evidence
        /\ backup.count \in Nat
    BY DEF BackupsInv, BackupRows
  <1>2. /\ backup.count <= Cardinality(Keys(backup.dump))
        /\ Keys(backup.dump) \subseteq backup.keys
        /\ \A e \in Keys(backup.dump) : backup.files[e] \in {NoContent, backup.dump[e]}
        /\ Keys(backup.files) = backup.keys
        /\ Cardinality(backup.keys) = backup.count
    BY DEF CopyInv, Finalize, CountsAgree
  <1>3. IsFiniteSet(backup.keys) /\ Cardinality(Keys(backup.dump)) \in Nat
    BY <1>1, <1>2, KeysFinite
  <1>4. Keys(backup.dump) = backup.keys
    <2>1. Cardinality(Keys(backup.dump)) <= Cardinality(backup.keys)
      BY <1>2, <1>3, FS_Subset
    <2>2. Cardinality(Keys(backup.dump)) = Cardinality(backup.keys)
      BY <1>1, <1>2, <1>3, <2>1
    <2> QED
      BY <1>2, <1>3, <2>2, FS_Subset
  <1>5. \A e \in Evidence : backup.dump[e] = backup.files[e]
    BY <1>2, <1>4 DEF Keys
  <1> QED
    BY <1>1, <1>5 DEF Table

LEMMA CopyKeeps ==
    ASSUME EvidenceInv, BackupsInv, BackupStep, UNCHANGED <<rows, objects>>, RowsBacked, CopyInv
    PROVE  CopyInv'
  <1> USE DEF BackupsInv, BackupRows, ArchiveRows
  <1>1. /\ rows \in Table /\ objects \in Table
        /\ Cardinality(Keys(rows)) \in Nat
        /\ Keys(rows)' = Keys(rows)
    BY KeysFinite DEF EvidenceInv, EvidenceTypeOK, Table, Keys
  <1>2. CASE InspectDatabase
    BY <1>1, <1>2 DEF InspectDatabase, NoBackup, CopyInv
  <1>3. CASE CreateDump
    <2>1. /\ backup'.stage = "listing" /\ backup'.dump = rows /\ backup'.count = backup.count
          /\ archive' = archive /\ backup.stage = "dumping"
      BY <1>3 DEF CreateDump
    <2>2. DumpStands' /\ backup'.files = Empty
      BY <1>3, <2>1 DEF DumpStands, CreateDump, CopyInv
    <2> QED
      BY <1>1, <2>1, <2>2 DEF CopyInv, Keys
  <1>4. CASE ListKeys
    <2>1. /\ backup'.stage = "copying" /\ backup'.dump = backup.dump /\ backup'.count = backup.count
          /\ backup'.keys = Keys(objects) /\ backup'.files = backup.files
          /\ archive' = archive /\ backup.stage = "listing"
      BY <1>4 DEF ListKeys
    <2>2. DumpStands /\ DumpStands'
      BY <2>1 DEF DumpStands, CopyInv
    <2>3. Keys(backup.dump) \subseteq Keys(objects)
      BY <2>2 DEF DumpStands, Keys, RowsBacked
    <2>4. backup.files = Empty
      BY <2>1 DEF CopyInv
    <2> QED
      BY <2>1, <2>2, <2>3, <2>4 DEF CopyInv, Keys, Empty
  <1>5. CASE \E e \in Evidence : Download(e)
    <2>1. PICK e \in Evidence : Download(e)
      BY <1>5
    <2>2. /\ backup'.stage = "copying" /\ backup'.dump = backup.dump /\ backup'.count = backup.count
          /\ backup'.keys = backup.keys /\ backup'.files = [backup.files EXCEPT ![e] = objects[e]]
          /\ archive' = archive /\ backup.stage = "copying"
      BY <2>1 DEF Download
    <2>3. DumpStands /\ DumpStands' /\ Keys(backup.dump)' = Keys(backup.dump)
      BY <2>2 DEF DumpStands, CopyInv, Keys
    <2>4. \A d \in Keys(backup.dump) : backup'.files[d] \in {NoContent, backup.dump[d]}
      BY <2>2, <2>3 DEF DumpStands, RowsBacked, CopyInv, Table, Keys
    <2> QED
      BY <2>2, <2>3, <2>4 DEF CopyInv
  <1>6. CASE Finalize
    <2>1. backup.dump = backup.files
      BY <1>6, CountsSuffice
    <2> QED
      BY <1>6, <2>1 DEF Finalize, CopyInv
  <1>7. CASE Discard
    BY <1>7 DEF Discard, NoBackup, CopyInv
  <1>8. CASE UNCHANGED backup /\ archive'.manifest = archive.manifest
    BY <1>1, <1>8 DEF CopyInv, DumpStands
  <1> QED
    BY <1>2, <1>3, <1>4, <1>5, <1>6, <1>7, <1>8
       DEF BackupStep, RestoreStep, ArchiveDamaged, BeginRestore, RestoreDatabase, DatabaseRefused,
           CompareDatabase, RestoreBucket, BucketRefused, DropDatabase, CleanAfterTest

LEMMA BackupsInvStep ==
    ASSUME EvidenceInv, BackupsInv, [Next]_vars
    PROVE  BackupsInv'
  <1>1. CASE BackupStep /\ UNCHANGED evidence
    <2>1. /\ backup' \in BackupRows /\ archive' \in ArchiveRows
          /\ restore' \in RestoreStages /\ target' \in [database : Target, bucket : Target]
          /\ RestoreInv'
      BY <1>1, BackupTypes, RestoreTypes, RestoreKeeps
    <2>2. ASSUME Faultless'
          PROVE  RowsBacked' /\ CopyInv'
      <3>1. Faultless /\ RowsBacked /\ CopyInv
        BY <2>2, FaultsStay DEF BackupsInv
      <3>2. UNCHANGED <<upload, rows, objects>>
        BY <1>1 DEF evidence
      <3> QED
        BY <1>1, <3>1, <3>2, CopyKeeps DEF RowsBacked
    <2> QED
      BY <2>1, <2>2 DEF BackupsInv
  <1>2. CASE UNCHANGED backups
    <2>1. UploadStep \/ StorageStep \/ UNCHANGED EvidenceRead
      <3>1. CASE IntelligenceStep
        BY <3>1, AnalysisOnlyReads DEF EvidenceInv
      <3> QED
        BY <1>2, <3>1 DEF Next, vars, evidence, EvidenceRead
    <2> QED
      BY <1>2, <2>1, BackupsBeside
  <1> QED
    BY <1>1, <1>2 DEF Next, vars

\* What a restore brings back has an object for each row and a row for each
\* object, although uploads ran beside the backup and only numbers were
\* compared (CreateBackup.execute, RestoreBackup.execute).
THEOREM RestoredIsWholeHolds == Spec => []RestoredIsWhole
  <1> DEFINE Inv == EvidenceInv /\ BackupsInv
  <1>1. Init => Inv
    BY EvidenceInvInit, BackupsInvInit
  <1>2. Inv /\ [Next]_vars => Inv'
    BY EvidenceInvStep, BackupsInvStep
  <1>3. Inv => RestoredIsWhole
    BY DEF BackupsInv, RestoreInv, CopyInv, RestoredIsWhole, Faultless
  <1> QED
    BY <1>1, <1>2, <1>3, PTL DEF Spec

-----------------------------------------------------------------------------
\* The types of all four components.
THEOREM TypeCorrect == Spec => []TypeOK
  <1> DEFINE Inv == EvidenceInv /\ IntelligenceInv /\ ReviewsInv /\ BackupsInv
  <1>1. Init => Inv
    BY EvidenceInvInit, IntelligenceInvInit, ReviewsInvInit, BackupsInvInit
  <1>2. Inv /\ [Next]_vars => Inv'
    BY EvidenceInvStep, IntelligenceInvStep, ReviewsInvStep, BackupsInvStep
  <1>3. Inv => TypeOK
    <2>1. EvidenceInv => EvidenceTypeOK
      BY DEF EvidenceInv
    <2>2. IntelligenceInv => IntelligenceTypeOK
      BY DEF IntelligenceInv, AnalysisTypeOK, AnalysisRow, IntelligenceTypeOK
    <2>3. ReviewsInv => ReviewsTypeOK
      BY DEF ReviewsInv, CallRow, ReviewStages, NoCall, ReviewsTypeOK
    <2>4. BackupsInv => BackupsTypeOK
      BY DEF BackupsInv, BackupRows, ArchiveRows, ManifestRows, RestoreStages, Target, BackupsTypeOK
    <2> QED
      BY <2>1, <2>2, <2>3, <2>4 DEF TypeOK
  <1> QED
    BY <1>1, <1>2, <1>3, PTL DEF Spec
=============================================================================
