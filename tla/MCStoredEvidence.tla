-------------------------- MODULE MCStoredEvidence --------------------------
(* GovernedEvidence and AuditChain for TLC: recommendations about two       *)
(* agents, an owner, a Security approver, and an administrator who is an    *)
(* approver; and interchangeable writers and bodies of audit events.        *)
EXTENDS GovernedEvidence, AuditChain, TLC

MCPromotions == <<[agent |-> "a1", incident |-> "n1"], [agent |-> "a2", incident |-> "n2"]>>

MCRemediations == {[of |-> "plan"]}

\* The chains meet where a column has changed: until then the second stop
\* begins once the first is executed, and its restore once that one is.
Apart ==
    \/ damages > 0
    \/ /\ Len(table.request) > 1 => table.transition # << >>
       /\ Len(table.restore_request) > 1 => Len(table.transition) > 2

\* The lineage and the trail share no variable: each is explored while the
\* other has not begun.
NoTrail == TrailInit /\ \A w \in Writers : offset[w] = 0
NoLineage == Init

EvidenceInit == Init /\ TrailInit

EvidenceSpec ==
    /\ EvidenceInit
    /\ [][\/ NoTrail /\ Next /\ UNCHANGED trailVars
          \/ NoLineage /\ TrailNext /\ UNCHANGED vars]_<<vars, trailVars>>

Symmetry == Permutations(Bodies) \cup Permutations(Writers)
=============================================================================
