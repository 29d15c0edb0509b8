------------------------- MODULE MCInitiativeReview -------------------------
(***************************************************************************)
(* InitiativeReview for TLC: two areas with a reviewer each, an owner who  *)
(* holds both and an administrator; a plain proposal, one of elevated risk *)
(* that needs a second gate and an assessment, and one the policy blocks.  *)
(***************************************************************************)
EXTENDS InitiativeReview

MCRequiredAreas(f) == IF f = "plain" THEN {"business"} ELSE {"business", "privacy"}
MCRequiredKinds(f) == IF f = "plain" THEN {} ELSE {"ripd"}
MCApplicable(k, f) == k = "ripd" => f # "plain"

MCAreasOf(p) ==
    CASE p = "ana" -> {"business"}
      [] p = "bia" -> {"privacy"}
      [] p = "leo" -> {"business", "privacy"}
      [] OTHER -> {}

\* A second request works beside the first while the proposal is one of
\* elevated risk, the assessment is young, nothing is rejected and the
\* administrator has decided nothing; one request at a time has the rest.
Young(row) == row.version <= 2
Apart ==
    command["h2"].stage # "idle" =>
        /\ initiative.facts \in Elevated
        /\ \A k \in Kinds : Young(assessments[k])
        /\ \A h \in Handlers : command[h].stage # "idle" => Young(command[h].record)
        /\ decision.stage = "decided" => decision.verdict # "rejected" /\ decision.by \notin Admins
        /\ \A r \in 1..Len(rounds), area \in Areas :
              rounds[r].gates[area].status # "rejected" /\ rounds[r].gates[area].by \notin Admins
=============================================================================
