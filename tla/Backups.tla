------------------------------ MODULE Backups ------------------------------
(***************************************************************************)
(* Backup and restore of PostgreSQL and the evidence bucket (CreateBackup, *)
(* VerifyBackup, RestoreBackup, TestRestore), an operator's tool that runs *)
(* beside the uploads.  The database is inspected, dumped and only then    *)
(* the bucket is listed and copied object by object; the counts of the     *)
(* inspection are all that ties the two.  A restore goes to targets that   *)
(* do not exist, and takes away what it made when it fails.                *)
(***************************************************************************)
EXTENDS EvidenceStore

CONSTANT OccupiedTargets   \* whether the targets of a restore exist already

\* What is counted is finite.
ASSUME BackupsAssumption == IsFiniteSet(Evidence) /\ OccupiedTargets \in BOOLEAN

VARIABLES
    backup,   \* the archive being made
    archive,  \* the published archive
    restore,  \* stage of the restore
    target    \* [database, bucket] of the restore

backups == <<backup, archive, restore, target>>

Table == [Evidence -> Contents \cup {NoContent}]
Keys(table) == {e \in Evidence : table[e] # NoContent}
Empty == [e \in Evidence |-> NoContent]

NoBackup == [stage |-> "idle", count |-> 0, dump |-> Empty, keys |-> {}, files |-> Empty]
NoManifest == [count |-> 0, dump |-> Empty, files |-> Empty]
NoArchive == [manifest |-> NoManifest, dump |-> Empty, files |-> Empty]
Absent == [exists |-> FALSE, held |-> Empty]
Foreign == [exists |-> TRUE, held |-> Empty]

BackupsInit ==
    /\ backup = NoBackup
    /\ archive = NoArchive
    /\ restore = "idle"
    /\ target \in {[database |-> Absent, bucket |-> Absent]}
           \cup (IF OccupiedTargets THEN {[database |-> Foreign, bucket |-> Absent],
                                          [database |-> Absent, bucket |-> Foreign]} ELSE {})

-----------------------------------------------------------------------------
(* CreateBackup *)

\* _inspect_database
InspectDatabase ==
    /\ backup.stage = "idle"
    /\ backup' = [NoBackup EXCEPT !.stage = "dumping", !.count = Cardinality(Keys(rows))]
    /\ UNCHANGED <<archive, restore, target>>

\* pg_dump takes one snapshot.
CreateDump ==
    /\ backup.stage = "dumping"
    /\ backup' = [backup EXCEPT !.stage = "listing", !.dump = rows]
    /\ UNCHANGED <<archive, restore, target>>

ListKeys ==
    /\ backup.stage = "listing"
    /\ backup' = [backup EXCEPT !.stage = "copying", !.keys = Keys(objects)]
    /\ UNCHANGED <<archive, restore, target>>

Download(e) ==
    /\ backup.stage = "copying"
    /\ e \in backup.keys /\ backup.files[e] = NoContent
    /\ objects[e] # NoContent
    /\ backup' = [backup EXCEPT !.files[e] = objects[e]]
    /\ UNCHANGED <<archive, restore, target>>

\* Mutation: the counts are not compared.
CountsIgnored == TRUE
CountsAgree == Cardinality(backup.keys) = backup.count

\* The manifest, with a digest of each file, is written and the directory
\* renamed.
Finalize ==
    /\ backup.stage = "copying"
    /\ Keys(backup.files) = backup.keys
    /\ CountsAgree
    /\ archive' = [manifest |-> [count |-> backup.count, dump |-> backup.dump,
                                 files |-> backup.files],
                   dump |-> backup.dump, files |-> backup.files]
    /\ backup' = [backup EXCEPT !.stage = "published"]
    /\ UNCHANGED <<restore, target>>

\* An error, the counts that differ or an object that is gone: discard.
Discard ==
    /\ backup.stage \in {"dumping", "listing", "copying"}
    /\ backup' = NoBackup
    /\ UNCHANGED <<archive, restore, target>>

\* VerifyBackup: manifest, file set, sizes and digests, and the dump's catalog.
VerifyBackup ==
    archive.dump = archive.manifest.dump /\ archive.files = archive.manifest.files

\* The published dump is replaced, or an object's file lost or altered, at any
\* moment, one file of an archive (external).
ArchiveDamaged ==
    /\ backup.stage = "published" /\ VerifyBackup
    /\ \/ \E dump \in Table : archive' = [archive EXCEPT !.dump = dump]
       \/ \E e \in backup.keys, content \in Contents \cup {NoContent} :
             archive' = [archive EXCEPT !.files[e] = content]
    /\ UNCHANGED <<backup, restore, target>>

-----------------------------------------------------------------------------
(* RestoreBackup *)

BeginRestore ==
    /\ restore = "idle" /\ backup.stage = "published"
    /\ restore' = IF VerifyBackup THEN "database" ELSE "refused"
    /\ UNCHANGED <<backup, archive, target>>

\* restore_to_new_database: the dump is read again and not hashed again.
RestoreDatabase ==
    /\ restore = "database"
    /\ ~target.database.exists
    /\ target' = [target EXCEPT !.database = [exists |-> TRUE, held |-> archive.dump]]
    /\ restore' = "comparing"
    /\ UNCHANGED <<backup, archive>>

\* The target exists, or the restore fails: a target that was created is
\* dropped, or its removal fails as well.
DatabaseRefused ==
    /\ restore = "database"
    /\ restore' = "refused"
    /\ \/ UNCHANGED target
       \/ /\ ~target.database.exists
          /\ \E held \in {Empty, archive.dump} :
                target' = [target EXCEPT !.database = [exists |-> TRUE, held |-> held]]
    /\ UNCHANGED <<backup, archive>>

\* _assert_database_matches
DatabaseMatches == Cardinality(Keys(target.database.held)) = archive.manifest.count

CompareDatabase ==
    /\ restore = "comparing"
    /\ restore' = IF DatabaseMatches THEN "bucket" ELSE "cleaning"
    /\ UNCHANGED <<backup, archive, target>>

\* restore_to_new_bucket: each object is read again after it is put and
\* compared with its digest in the manifest.
RestoreBucket ==
    /\ restore = "bucket"
    /\ ~target.bucket.exists
    /\ archive.files = archive.manifest.files
    /\ target' = [target EXCEPT !.bucket = [exists |-> TRUE, held |-> archive.files]]
    /\ restore' = "restored"
    /\ UNCHANGED <<backup, archive>>

\* The target exists, or an object cannot be put or differs: a bucket that
\* was created is deleted, or its deletion fails as well.
BucketRefused ==
    /\ restore = "bucket"
    /\ restore' = "cleaning"
    /\ \/ UNCHANGED target
       \/ /\ ~target.bucket.exists
          /\ target' = [target EXCEPT !.bucket = [exists |-> TRUE, held |-> Empty]]
    /\ UNCHANGED <<backup, archive>>

\* The removal may fail as well.
DropDatabase ==
    /\ restore = "cleaning"
    /\ target' \in {target, [target EXCEPT !.database = Absent]}
    /\ restore' = "refused"
    /\ UNCHANGED <<backup, archive>>

\* TestRestore goes on to remove both, and either removal may fail.
CleanAfterTest ==
    /\ restore = "restored"
    /\ target' \in [database : {Absent, target.database}, bucket : {Absent, target.bucket}]
    /\ restore' = "tested"
    /\ UNCHANGED <<backup, archive>>

\* RestoreBackup.execute
RestoreStep ==
    \/ BeginRestore
    \/ RestoreDatabase
    \/ DatabaseRefused
    \/ CompareDatabase
    \/ RestoreBucket
    \/ BucketRefused
    \/ DropDatabase

BackupStep ==
    \/ InspectDatabase
    \/ CreateDump
    \/ ListKeys
    \/ \E e \in Evidence : Download(e)
    \/ Finalize
    \/ Discard
    \/ ArchiveDamaged
    \/ RestoreStep
    \/ CleanAfterTest

-----------------------------------------------------------------------------
BackupsTypeOK ==
    /\ backup \in [stage : {"idle", "dumping", "listing", "copying", "published"},
                   count : Nat, dump : Table, keys : SUBSET Evidence, files : Table]
    /\ archive \in [manifest : [count : Nat, dump : Table, files : Table],
                    dump : Table, files : Table]
    /\ restore \in {"idle", "database", "comparing", "bucket", "cleaning", "refused", "restored",
                    "tested"}
    /\ target \in [database : [exists : BOOLEAN, held : Table],
                   bucket : [exists : BOOLEAN, held : Table]]

(* What a restore brings back has an object for each row and a row for     *)
(* each object, with the row's digest, although uploads ran while the      *)
(* archive was made and only numbers were compared, and although a file of *)
(* an object may change after the archive was verified: it rests on no row *)
(* ever having been without its object, so it is not promised where a      *)
(* commit of unknown outcome or the object store broke that, and on the    *)
(* dump, which is not hashed when it is read, being the one that was       *)
(* verified (CreateBackup.execute, RestoreBackup.execute).                 *)
RestoredIsWhole ==
    /\ restore = "restored" /\ unknown = 0 /\ damaged = {}
    /\ archive.dump = archive.manifest.dump
    => /\ target.database.held = target.bucket.held
       /\ target.database.exists /\ target.bucket.exists
=============================================================================
