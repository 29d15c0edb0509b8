---------------------------- MODULE PolicyEngine ----------------------------
(***************************************************************************)
(* The deterministic baseline policy: score, tier, approval areas,         *)
(* documents and blocking reasons of a context.  Ordered enumerations are  *)
(* ranks, so that "more" means more of a risk factor.                      *)
(***************************************************************************)
EXTENDS Integers

Flags == {"affects_rights", "executes_actions", "personal_data", "sensitive_data",
          "children_data", "external_facing", "regulated_context",
          "international_processing", "uses_rag", "uses_agents", "uses_mcp",
          "uses_custom_model", "own_hosting"}

\* impact: informational, operational, material, rights or safety.
\* data: public, internal, confidential, restricted.  autonomy: A0 to A5.
\* flags: the factors declared; of the hosting models the policy tells only
\* self-hosted and hybrid ("own_hosting") from the others.
PolicyContext == [impact: 0..3, data: 0..3, autonomy: 0..5, flags: SUBSET Flags]

AnyOf(c, flags) == c.flags \cap flags # {}
Points(c, flag, points) == IF flag \in c.flags THEN points ELSE 0
AtMost(bound, score) == IF score < bound THEN score ELSE bound

ImpactPoints(rank) ==
    CASE rank = 0 -> 3 [] rank = 1 -> 10 [] rank = 2 -> 20 [] rank = 3 -> 30
ImpactScore(c) == AtMost(30, ImpactPoints(c.impact) + Points(c, "affects_rights", 5))

DataPoints(rank) ==
    CASE rank = 0 -> 0 [] rank = 1 -> 5 [] rank = 2 -> 12 [] rank = 3 -> 18
DataScore(c) ==
    AtMost(25, DataPoints(c.data) + Points(c, "personal_data", 3)
                   + Points(c, "sensitive_data", 4) + Points(c, "children_data", 3))

AutonomyPoints(rank) ==
    CASE rank = 0 -> 0 [] rank = 1 -> 4 [] rank = 2 -> 8
      [] rank = 3 -> 14 [] rank = 4 -> 21 [] rank = 5 -> 25
AutonomyScore(c) == AtMost(25, AutonomyPoints(c.autonomy) + Points(c, "uses_mcp", 3))

Exposure(c) == IF "external_facing" \in c.flags THEN 10 ELSE 3
Regulatory(c) == Points(c, "regulated_context", 10)

Score(c) == ImpactScore(c) + DataScore(c) + AutonomyScore(c) + Exposure(c) + Regulatory(c)

-----------------------------------------------------------------------------
Low == 0
Medium == 1
High == 2
Critical == 3

IsCritical(c) == c.impact = 3 \/ c.autonomy >= 4
IsHigh(c) == Score(c) >= 60 \/ AnyOf(c, {"sensitive_data", "affects_rights"})
IsMedium(c) == Score(c) >= 30 \/ AnyOf(c, {"personal_data", "executes_actions"})

\* Mutation: the medium rule is tried before the high one.
MediumFirst(c) ==
    IF IsCritical(c) THEN Critical
    ELSE IF IsMedium(c) THEN Medium
    ELSE IF IsHigh(c) THEN High ELSE Low
Tier(c) ==
    IF IsCritical(c) THEN Critical
    ELSE IF IsHigh(c) THEN High
    ELSE IF IsMedium(c) THEN Medium ELSE Low

Elevated(c) == Tier(c) \in {High, Critical}

-----------------------------------------------------------------------------
Areas == {"business", "architecture", "security", "infrastructure", "devops",
          "privacy", "legal", "compliance", "data"}

ConcernsPeople(c) == AnyOf(c, {"personal_data", "sensitive_data", "children_data"})

Triggered(c, area) ==
    CASE area = "business" -> TRUE
      [] area = "architecture" ->
            AnyOf(c, {"uses_agents", "uses_rag", "uses_mcp", "uses_custom_model"}) \/ Tier(c) # Low
      [] area = "security" ->
            Elevated(c) \/ c.data >= 2 \/ AnyOf(c, {"executes_actions", "uses_agents", "uses_mcp"})
      [] area = "infrastructure" ->
            Elevated(c) \/ AnyOf(c, {"own_hosting", "uses_custom_model"})
      [] area = "devops" ->
            AnyOf(c, {"executes_actions", "uses_agents", "uses_mcp", "uses_custom_model"})
      [] area = "privacy" -> ConcernsPeople(c)
      [] area = "legal" ->
            AnyOf(c, {"international_processing", "affects_rights", "external_facing"})
      [] area = "compliance" -> Elevated(c) \/ AnyOf(c, {"regulated_context"})
      [] area = "data" ->
            c.data # 0 \/ AnyOf(c, {"uses_rag", "uses_custom_model", "personal_data"})

Approvals(c) == {area \in Areas : Triggered(c, area)}

Acts(c) == AnyOf(c, {"uses_agents", "executes_actions"})
Documents(c) ==
    {"ai-system-card", "ai-impact-assessment"}
        \cup (IF ConcernsPeople(c) THEN {"ripd"} ELSE {})
        \cup (IF AnyOf(c, {"international_processing"})
              THEN {"international-processing-assessment"} ELSE {})
        \cup (IF Acts(c) THEN {"agent-card", "human-oversight-plan"} ELSE {})
        \cup (IF Elevated(c) THEN {"threat-model", "monitoring-plan"} ELSE {})

Blocked(c) ==
    \/ AnyOf(c, {"sensitive_data"}) /\ c.data = 0
    \/ AnyOf(c, {"executes_actions"}) /\ c.autonomy <= 1
=============================================================================
