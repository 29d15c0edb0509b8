----------------------------- MODULE EvidenceUse -----------------------------
(***************************************************************************)
(* Evidence and what uses it: uploads, the analyses that read what was     *)
(* uploaded, the reviews of what those released, and the backup that runs  *)
(* beside them.  They share the evidence table and the bucket, and the     *)
(* release registry; nothing else is common to two of them.                *)
(***************************************************************************)
EXTENDS FindingReviews, Backups

vars == <<evidence, intelligence, reviews, backups>>

Init == EvidenceInit /\ IntelligenceInit /\ ReviewsInit /\ BackupsInit

Next ==
    \/ (UploadStep \/ StorageStep) /\ UNCHANGED <<intelligence, reviews, backups>>
    \/ IntelligenceStep /\ UNCHANGED <<reviews, backups>>
    \/ ReviewStep /\ UNCHANGED <<evidence, intelligence, backups>>
    \/ BackupStep /\ UNCHANGED <<evidence, intelligence, reviews>>

Spec == Init /\ [][Next]_vars

TypeOK == EvidenceTypeOK /\ IntelligenceTypeOK /\ ReviewsTypeOK /\ BackupsTypeOK
=============================================================================
