--------------------------- MODULE MCEvidenceUse ---------------------------
(* Instances of EvidenceUse for TLC: two files, one of them large, and one *)
(* that is infected; references that match what may be uploaded or not;    *)
(* candidates of two analyses that share a finding, or break a rule.       *)
EXTENDS EvidenceUse

CONSTANTS e1, e2, small, large, infected, a1, a2

MCSize == (small :> 1) @@ (large :> 2) @@ (infected :> 1)

Reference(e, section, content) ==
    [artifact |-> e, version |-> 1, section |-> section, digest |-> content]
MCReferences == {Reference(e1, "none", small), Reference(e1, "none", large),
                 Reference(e1, "s", small)}

Candidate(a, finding, type, text, references) ==
    [finding |-> finding, type |-> type, text |-> text, correlation |-> a,
     cited |-> references, retrieved |-> references]
MCCandidates ==
    LET one == {Reference(e1, "none", small)}
    IN  {Candidate(a1, "f", "gap", "t", one),
         Candidate(a2, "f", "gap", "u", one),
         Candidate(a2, "g", "approval", "t", one)}

MCAllowedTypes == [type \in {"coverage"} |-> {"gap"}]

\* What has no part in an analysis, a review or a backup does not change
\* beside it: analyses begin once the first file is on record, reviews are
\* asked between analyses, and analyses and backups, which only read the
\* same evidence, are explored in behaviours of their own.  Nothing is
\* promised of a backup beside a fault of the store or of a commit.
Apart ==
    /\ backup = NoBackup \/ (unknown = 0 /\ damaged = {})
    /\ \/ \A a \in Analyses : analysis[a] = NoAnalysis
       \/ /\ backup = NoBackup /\ target.database = Absent /\ target.bucket = Absent
          /\ upload[e1].stage \in {"failing", "ended"} /\ upload[e2].stage = "idle"
    /\ \/ \A c \in Calls : call[c] = NoCall
       \/ /\ \A a \in Analyses : analysis[a].stage \in {"idle", "ended"}
          /\ answer[e1] = "saved" /\ damaged = {} /\ unknown = 0
          /\ backup = NoBackup /\ target.database = Absent /\ target.bucket = Absent
          /\ upload[e2].stage = "idle"
=============================================================================
