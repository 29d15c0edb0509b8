---------------------------- MODULE EvidenceStore ----------------------------
(***************************************************************************)
(* Upload of evidence (UploadEvidence): the bytes are validated and        *)
(* scanned, put under a key of their own in the object store, and then     *)
(* their metadata and audit event are committed; what fails after the put  *)
(* is compensated by a deletion.  The object store and PostgreSQL share no *)
(* transaction: a put or a deletion may take effect although it is         *)
(* answered with an error, and a commit may although it raises.  The audit *)
(* event commits with the row and is not a variable.                       *)
(***************************************************************************)
EXTENDS Integers, Sequences, FiniteSets

CONSTANTS
    Evidence,      \* evidence ids, each of one upload
    Contents,      \* bytes a file may have
    Size,          \* size of each content
    Valid,         \* contents of the type they declare
    Infected,      \* contents the scanner finds infected (external)
    MaxBytes,      \* limit of an upload
    NoContent,     \* no bytes
    People, Owner, Admins,   \* of the initiative the evidence belongs to
    MaxUnknown,    \* bound: commits that raise although they may take effect
    MaxDamage      \* bound: objects the object store loses or alters (external)

ASSUME EvidenceAssumption ==
    /\ Size \in [Contents -> Nat]
    /\ Valid \subseteq Contents /\ Infected \subseteq Contents
    /\ NoContent \notin Contents
    /\ Owner \in People /\ Admins \subseteq People
    /\ MaxUnknown \in Nat /\ MaxDamage \in Nat

VARIABLES
    upload,   \* the request of each evidence id
    rows,     \* the evidence table: digest of each id, NoContent when there is no row
    objects,  \* the bucket: content under the key of each id
    answer,   \* what the caller was told
    unknown,  \* commits that raised and may have taken effect
    damaged   \* objects the object store lost or altered

evidence == <<upload, rows, objects, answer, unknown, damaged>>

UploadStages == {"idle", "clean", "stored", "failing", "ended"}
Answers == {"none", "saved", "refused", "unavailable", "failed", "unsafe"}

EvidenceTypeOK ==
    /\ upload \in [Evidence -> [stage : UploadStages, content : Contents \cup {NoContent}]]
    /\ rows \in [Evidence -> Contents \cup {NoContent}]
    /\ objects \in [Evidence -> Contents \cup {NoContent}]
    /\ answer \in [Evidence -> Answers]
    /\ unknown \in Nat
    /\ damaged \subseteq Evidence

EvidenceInit ==
    /\ upload = [e \in Evidence |-> [stage |-> "idle", content |-> NoContent]]
    /\ rows = [e \in Evidence |-> NoContent]
    /\ objects = [e \in Evidence |-> NoContent]
    /\ answer = [e \in Evidence |-> "none"]
    /\ unknown = 0
    /\ damaged = {}

-----------------------------------------------------------------------------
MayUpload(p) == p = Owner \/ p \in Admins
Stage(content) == Size[content] <= MaxBytes
ValidateContent(content) == content \in Valid /\ Size[content] > 0
ScanVerdict(content) == IF content \in Infected THEN "infected" ELSE "clean"

At(e, stage) == upload[e].stage = stage
Becomes(e, stage) == upload' = [upload EXCEPT ![e].stage = stage]
Answer(e, reply) == answer' = [answer EXCEPT ![e] = reply]
ObjectBecomes(e, content) == objects' = [objects EXCEPT ![e] = content]
SaveRow(e) == rows' = [rows EXCEPT ![e] = upload[e].content]

\* The checks, the staging and the scan.
AcceptUpload(e, p, content) ==
    /\ At(e, "idle")
    /\ MayUpload(p) /\ Stage(content) /\ ValidateContent(content)
    /\ ScanVerdict(content) = "clean"
    /\ upload' = [upload EXCEPT ![e] = [stage |-> "clean", content |-> content]]
    /\ UNCHANGED <<rows, objects, answer, unknown, damaged>>

\* Anything else is refused; a scanner that cannot be reached refuses all.
RefuseUpload(e) ==
    /\ At(e, "idle")
    /\ Becomes(e, "ended") /\ Answer(e, "refused")
    /\ UNCHANGED <<rows, objects, unknown, damaged>>

\* The key is new, so "IfNoneMatch: *" holds.
PutObject(e) ==
    /\ At(e, "clean")
    /\ Becomes(e, "stored") /\ ObjectBecomes(e, upload[e].content)
    /\ UNCHANGED <<rows, answer, unknown, damaged>>

PutFails(e, content) ==
    /\ At(e, "clean")
    /\ content \in {NoContent, upload[e].content}
    /\ Becomes(e, "ended") /\ Answer(e, "unavailable") /\ ObjectBecomes(e, content)
    /\ UNCHANGED <<rows, unknown, damaged>>

\* The row and its audit event, saved and committed.
SaveMetadata(e) ==
    /\ At(e, "stored")
    /\ SaveRow(e)
    /\ Becomes(e, "ended") /\ Answer(e, "saved")
    /\ UNCHANGED <<objects, unknown, damaged>>

SaveMetadataFails(e) ==
    /\ At(e, "stored")
    /\ Becomes(e, "failing")
    /\ UNCHANGED <<rows, objects, answer, unknown, damaged>>

\* The connection breaks while the commit is answered.
CommitUnknown(e) ==
    /\ At(e, "stored") /\ unknown < MaxUnknown
    /\ SaveRow(e) /\ unknown' = unknown + 1
    /\ Becomes(e, "failing")
    /\ UNCHANGED <<objects, answer, damaged>>

\* Mutation: a failure is not compensated.
FailWithoutDelete(e) ==
    /\ At(e, "failing")
    /\ Becomes(e, "ended") /\ Answer(e, "failed")
    /\ UNCHANGED <<rows, objects, unknown, damaged>>

\* _delete_after_failure
DeleteAfterFailure(e) ==
    /\ At(e, "failing")
    /\ ObjectBecomes(e, NoContent)
    /\ Becomes(e, "ended") /\ Answer(e, "failed")
    /\ UNCHANGED <<rows, unknown, damaged>>

DeleteFails(e, content) ==
    /\ At(e, "failing")
    /\ content \in {NoContent, objects[e]}
    /\ ObjectBecomes(e, content)
    /\ Becomes(e, "ended") /\ Answer(e, "unsafe")
    /\ UNCHANGED <<rows, unknown, damaged>>

\* The process ends, or the request is cancelled: neither is an Exception,
\* so nothing is compensated.
UploadDies(e) ==
    /\ upload[e].stage \in {"clean", "stored", "failing"}
    /\ Becomes(e, "ended")
    /\ UNCHANGED <<rows, objects, answer, unknown, damaged>>

\* What the digest of a row is for.
ObjectDamaged(e, content) ==
    /\ objects[e] # NoContent /\ content # objects[e]
    /\ Cardinality(damaged) < MaxDamage
    /\ ObjectBecomes(e, content) /\ damaged' = damaged \cup {e}
    /\ UNCHANGED <<upload, rows, answer, unknown>>

UploadStep ==
    \E e \in Evidence :
        \/ \E p \in People, content \in Contents : AcceptUpload(e, p, content)
        \/ RefuseUpload(e)
        \/ PutObject(e)
        \/ \E content \in Contents \cup {NoContent} : PutFails(e, content)
        \/ SaveMetadata(e)
        \/ SaveMetadataFails(e)
        \/ CommitUnknown(e)
        \/ DeleteAfterFailure(e)
        \/ \E content \in Contents \cup {NoContent} : DeleteFails(e, content)
        \/ UploadDies(e)

StorageStep ==
    \E e \in Evidence, content \in Contents \cup {NoContent} : ObjectDamaged(e, content)

-----------------------------------------------------------------------------
(* Whatever fails in between, an upload its caller was told is saved has a *)
(* row and clean bytes that match it, and one that was told to have plainly  *)
(* failed has left nothing in the bucket: what stays behind is what nobody *)
(* could be told about, or what was reported as unavailable or unsafe      *)
(* (_store_clean_evidence, _delete_after_failure).                         *)
UploadsAreWhole ==
    \A e \in Evidence \ damaged :
        /\ answer[e] = "saved" =>
               /\ rows[e] \in Valid \ Infected
               /\ objects[e] = rows[e]
        /\ answer[e] \in {"failed", "refused"} => objects[e] = NoContent
        /\ rows[e] # NoContent /\ objects[e] = NoContent => answer[e] \in {"failed", "unsafe"}
=============================================================================
