--------------------------- MODULE PolicyLattice ---------------------------
(***************************************************************************)
(* The policy over the lattice of its contexts: a context starts with      *)
(* no risk factor and gains one at a time, as a proposal does when it is   *)
(* revised, so a step relates two contexts that differ in a single answer. *)
(***************************************************************************)
EXTENDS ControlCatalog, FiniteSets

CONSTANT MaxFlags   \* bound: flags declared at a time

VARIABLE context

Init == context = [impact |-> 0, data |-> 0, autonomy |-> 0, flags |-> {}]

RaiseImpact == context.impact < 3 /\ context' = [context EXCEPT !.impact = @ + 1]
RaiseData == context.data < 3 /\ context' = [context EXCEPT !.data = @ + 1]
RaiseAutonomy == context.autonomy < 5 /\ context' = [context EXCEPT !.autonomy = @ + 1]
Declare(flag) ==
    /\ Cardinality(context.flags) < MaxFlags
    /\ flag \notin context.flags
    /\ context' = [context EXCEPT !.flags = @ \cup {flag}]

Next == RaiseImpact \/ RaiseData \/ RaiseAutonomy \/ \E flag \in Flags : Declare(flag)

Spec == Init /\ [][Next]_context

\* Every component of the score stays within the range its contract declares
\* (governance_schemas/policy.py), so evaluating a context never fails: no sum of
\* factors exceeds the cap of its dimension.
WithinContract ==
    /\ ImpactScore(context) \in 0..30
    /\ DataScore(context) \in 0..25
    /\ AutonomyScore(context) \in 0..25
    /\ Score(context) \in 0..100

\* "Monotonicity for clearly increasing risk factors": one more risk factor never
\* lowers the score or the tier, and never drops a gate, a document or a control,
\* although score, tier, gates and documents are computed from each other and the
\* catalog's rules list ranks and tiers one by one.
Monotone ==
    [][/\ Score(context') >= Score(context)
       /\ Tier(context') >= Tier(context)
       /\ Approvals(context) \subseteq Approvals(context')
       /\ Documents(context) \subseteq Documents(context')
       /\ Controls(context) \subseteq Controls(context')]_context

\* The three sources of obligations agree: a specialised document is required
\* only with the gates whose reviewers it is written for (the policy engine's own
\* lists) and with the control of the catalog that asks for it as its evidence.
DocumentsAreBacked ==
    /\ "ripd" \in Documents(context) =>
          "privacy" \in Approvals(context) /\ "DAT-003" \in Controls(context)
    /\ "international-processing-assessment" \in Documents(context) =>
          "legal" \in Approvals(context) /\ "DAT-004" \in Controls(context)
    /\ "human-oversight-plan" \in Documents(context) => "HUM-001" \in Controls(context)
    /\ "agent-card" \in Documents(context) =>
          {"security", "devops"} \subseteq Approvals(context) /\ "AGT-003" \in Controls(context)
    /\ "threat-model" \in Documents(context) =>
          /\ {"security", "architecture", "compliance"} \subseteq Approvals(context)
          /\ {"SEC-001", "EVD-002"} \subseteq Controls(context)
    /\ "monitoring-plan" \in Documents(context) => "OPS-001" \in Controls(context)
=============================================================================
