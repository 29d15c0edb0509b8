----------------------- MODULE GovernanceIntelligence -----------------------
(***************************************************************************)
(* Advisory analysis of an initiative's evidence                           *)
(* (RunGovernanceIntelligenceAnalysis) over sources that are authorized,   *)
(* read and verified one after the other                                   *)
(* (ResolveGovernanceKnowledgeSources, VerifiedEvidenceKnowledgeAdapter).  *)
(* The provider answers what it likes; what passes validation is released: *)
(* its records and the audit event of the completion commit together.  A   *)
(* finding's digest is the candidate itself, and the record's other        *)
(* identities are drawn fresh.                                             *)
(***************************************************************************)
EXTENDS EvidenceStore, SequencesExt

CONSTANTS
    Analyses,        \* analyses, each with its correlation id
    References,      \* [artifact, version, section, digest] a caller may name
    Candidates,      \* what a provider may answer (external)
    AnalysisTypes,
    AllowedTypes,    \* finding types of each analysis type
    MaxSources, MaxSourceBytes, MaxTotalBytes, MaxFindings

ReferenceRow == [artifact : Evidence, version : Nat, section : STRING, digest : Contents]
CandidateRow ==
    [finding : STRING, type : STRING, text : STRING, correlation : Analyses,
     cited : SUBSET References, retrieved : SUBSET References]

ASSUME IntelligenceAssumption ==
    /\ References \subseteq ReferenceRow
    /\ Candidates \subseteq CandidateRow
    /\ AllowedTypes \in [AnalysisTypes -> SUBSET STRING]
    /\ {MaxSources, MaxSourceBytes, MaxTotalBytes, MaxFindings} \subseteq Nat \ {0}

VARIABLES
    analysis,  \* each analysis under way
    trail,     \* the stages of each analysis in the audit trail
    releases,  \* the release registry
    returned   \* what each caller was given, {} when nothing

intelligence == <<analysis, trail, releases, returned>>

NoAnalysis ==
    [stage |-> "idle", type |-> "none", by |-> Owner, references |-> <<>>, next |-> 1,
     authorized |-> FALSE, bytes |-> 0, read |-> {}, candidates |-> {}]

AnalysisStages == {"idle", "resolving", "analyzing", "releasing", "ended"}
AuditStages ==
    {"analysis_requested", "source_resolution_failed", "sources_verified", "analysis_completed",
     "analysis_rejected", "analysis_dependency_failed"}

ReleaseRow == [correlation : Analyses, candidate : CandidateRow]

IntelligenceInit ==
    /\ analysis = [a \in Analyses |-> NoAnalysis]
    /\ trail = [a \in Analyses |-> <<>>]
    /\ releases = {}
    /\ returned = [a \in Analyses |-> {}]

-----------------------------------------------------------------------------
(* References and sources *)

Identity(r) == <<r.artifact, r.version>>

\* _validate_request, of the analysis and of the resolution
ValidReferences(references) ==
    /\ Len(references) \in 1..MaxSources
    /\ IsInjective(references)
    /\ \A i, j \in DOMAIN references :
           Identity(references[i]) = Identity(references[j])
               => references[i].digest = references[j].digest

\* get_uploaded: every row of this table was scanned, and has version 1.
GetUploaded(e) == rows[e]

\* VerifiedEvidenceKnowledgeAdapter.can_read
CanRead(p, r) ==
    /\ r.section = "none"
    /\ MayUpload(p)
    /\ GetUploaded(r.artifact) # NoContent
    /\ r.version = 1
    /\ GetUploaded(r.artifact) = r.digest

\* _verify: identity, size and digest of the bytes that are read.
Verifies(r, content, limit) ==
    /\ content # NoContent
    /\ Size[content] \in 1..limit
    /\ content = r.digest

MaxBytesLeft(a) ==
    LET left == MaxTotalBytes - analysis[a].bytes
    IN  IF left < MaxSourceBytes THEN left ELSE MaxSourceBytes

-----------------------------------------------------------------------------
(* Steps *)

In(a, stage) == analysis[a].stage = stage
Source(a) == analysis[a].references[analysis[a].next]
Resolving(a) == In(a, "resolving") /\ analysis[a].next <= Len(analysis[a].references)
Goes(a, stage) == analysis' = [analysis EXCEPT ![a].stage = stage]
AppendAudit(a, stage) == trail' = [trail EXCEPT ![a] = Append(@, stage)]

\* A stage is in the audit trail before the analysis goes on.
RequestAnalysis(a, type, p, references) ==
    /\ In(a, "idle")
    /\ ValidReferences(references)
    /\ analysis' = [analysis EXCEPT ![a] =
           [@ EXCEPT !.stage = "resolving", !.type = type, !.by = p, !.references = references]]
    /\ AppendAudit(a, "analysis_requested")
    /\ UNCHANGED <<evidence, releases, returned>>

AuthorizeSource(a) ==
    /\ Resolving(a) /\ ~analysis[a].authorized
    /\ CanRead(analysis[a].by, Source(a))
    /\ analysis' = [analysis EXCEPT ![a].authorized = TRUE]
    /\ UNCHANGED <<evidence, trail, releases, returned>>

ReadSource(a) ==
    /\ Resolving(a) /\ analysis[a].authorized
    /\ LET content == objects[Source(a).artifact] IN
           /\ Verifies(Source(a), content, MaxBytesLeft(a))
           /\ analysis' = [analysis EXCEPT
                  ![a].next = @ + 1, ![a].authorized = FALSE, ![a].bytes = @ + Size[content],
                  ![a].read = @ \cup {content}]
    /\ UNCHANGED <<evidence, trail, releases, returned>>

\* A source that may not be read, is not there or does not verify, and a
\* store that cannot be reached.
ResolutionFails(a) ==
    /\ Resolving(a)
    /\ Goes(a, "ended") /\ AppendAudit(a, "source_resolution_failed")
    /\ UNCHANGED <<evidence, releases, returned>>

SourcesVerified(a) ==
    /\ In(a, "resolving") /\ analysis[a].next > Len(analysis[a].references)
    /\ Goes(a, "analyzing") /\ AppendAudit(a, "sources_verified")
    /\ UNCHANGED <<evidence, releases, returned>>

\* _validate_candidates
Acceptable(a, answer_) ==
    LET verified == ToSet(analysis[a].references) IN
    /\ Cardinality(answer_) <= MaxFindings
    /\ \A c, d \in answer_ : c.finding = d.finding => c = d
    /\ \A c \in answer_ :
           /\ c.type \in AllowedTypes[analysis[a].type]
           /\ c.correlation = a
           /\ c.retrieved = verified
           /\ c.cited \subseteq verified

ProviderAnswers(a, answer_) ==
    /\ In(a, "analyzing")
    /\ Acceptable(a, answer_)
    /\ analysis' = [analysis EXCEPT ![a] = [@ EXCEPT !.stage = "releasing", !.candidates = answer_]]
    /\ UNCHANGED <<evidence, trail, releases, returned>>

ProviderRejected(a, answer_) ==
    /\ In(a, "analyzing")
    /\ ~Acceptable(a, answer_)
    /\ Goes(a, "ended") /\ AppendAudit(a, "analysis_rejected")
    /\ UNCHANGED <<evidence, releases, returned>>

\* An outage or the time limit, also of the clock and of the identities.
ProviderFails(a) ==
    /\ In(a, "analyzing")
    /\ Goes(a, "ended") /\ AppendAudit(a, "analysis_dependency_failed")
    /\ UNCHANGED <<evidence, releases, returned>>

\* GovernanceIntelligenceFindingRelease.create: sealed, its correlation that of the analysis.
Release(a, c) == [correlation |-> a, candidate |-> c]
NewReleases(a) == {Release(a, c) : c \in analysis[a].candidates}

\* Mutation: the registry has no unique key.
NoReleaseConflict(a) == FALSE
\* The unique key on finding_id.
ReleaseConflict(a) ==
    \E r \in releases, c \in analysis[a].candidates : r.candidate.finding = c.finding

PersistCompletion(a) ==
    /\ In(a, "releasing") /\ ~ReleaseConflict(a)
    /\ releases' = releases \cup NewReleases(a)
    /\ returned' = [returned EXCEPT ![a] = analysis[a].candidates]
    /\ Goes(a, "ended") /\ AppendAudit(a, "analysis_completed")
    /\ UNCHANGED evidence

CompletionConflicts(a) ==
    /\ In(a, "releasing") /\ ReleaseConflict(a)
    /\ Goes(a, "ended") /\ AppendAudit(a, "analysis_rejected")
    /\ UNCHANGED <<evidence, releases, returned>>

\* The commit raises although it took effect: the findings are withheld.
CompletionUnknown(a) ==
    /\ In(a, "releasing") /\ ~ReleaseConflict(a) /\ unknown < MaxUnknown
    /\ releases' = releases \cup NewReleases(a) /\ unknown' = unknown + 1
    /\ Goes(a, "ended") /\ AppendAudit(a, "analysis_completed")
    /\ UNCHANGED <<upload, rows, objects, answer, damaged, returned>>

\* A stage that cannot be committed, a cancelled request, process death.
AnalysisDies(a) ==
    /\ analysis[a].stage \in {"resolving", "analyzing", "releasing"}
    /\ Goes(a, "ended")
    /\ UNCHANGED <<evidence, trail, releases, returned>>

IntelligenceStep ==
    \E a \in Analyses :
        \/ \E type \in AnalysisTypes, p \in People, references \in SeqOf(References, MaxSources) :
               RequestAnalysis(a, type, p, references)
        \/ AuthorizeSource(a)
        \/ ReadSource(a)
        \/ ResolutionFails(a)
        \/ SourcesVerified(a)
        \/ \E answer_ \in SUBSET Candidates : ProviderAnswers(a, answer_) \/ ProviderRejected(a, answer_)
        \/ ProviderFails(a)
        \/ PersistCompletion(a)
        \/ CompletionConflicts(a)
        \/ CompletionUnknown(a)
        \/ AnalysisDies(a)

-----------------------------------------------------------------------------
IntelligenceTypeOK ==
    /\ \A a \in Analyses :
           /\ analysis[a].stage \in AnalysisStages
           /\ analysis[a].candidates \subseteq Candidates
           /\ analysis[a].next \in Nat /\ analysis[a].bytes \in Nat
    /\ trail \in [Analyses -> Seq(AuditStages)]
    /\ releases \subseteq ReleaseRow
    /\ returned \in [Analyses -> SUBSET Candidates]

(* A finding is released once, by an analysis that went through every      *)
(* stage of its audit over bytes that were uploaded, scanned and unchanged *)
(* when they were read, all of them cited as they are on record; and what  *)
(* a caller holds is released, whatever fails, damages or races it         *)
(* (execute, _persist_completion, _verify).                                *)
ReleasesAreGrounded ==
    /\ \A r, s \in releases : r.candidate.finding = s.candidate.finding => r = s
    /\ \A r \in releases :
           LET a == analysis[r.correlation] IN
           /\ trail[r.correlation] =
                  <<"analysis_requested", "sources_verified", "analysis_completed">>
           /\ MayUpload(a.by)
           /\ \A source \in r.candidate.retrieved :
                  /\ rows[source.artifact] = source.digest
                  /\ source.digest \in (Valid \ Infected) \cap a.read
           /\ r.candidate.cited \subseteq r.candidate.retrieved
           /\ r.candidate.retrieved = ToSet(a.references)
    /\ \A a \in Analyses : \A c \in returned[a] : [correlation |-> a, candidate |-> c] \in releases
=============================================================================
