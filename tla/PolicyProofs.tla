---------------------------- MODULE PolicyProofs ----------------------------
(***************************************************************************)
(* The policy's properties for every context: the run bounds the number of *)
(* factors declared at a time.                                             *)
(***************************************************************************)
EXTENDS PolicyLattice, TLAPS

TypeOK == context \in PolicyContext

\* b has every risk factor of a, at the same rank or above.
AtLeastAsRisky(a, b) ==
    /\ a.impact <= b.impact
    /\ a.data <= b.data
    /\ a.autonomy <= b.autonomy
    /\ a.flags \subseteq b.flags

-----------------------------------------------------------------------------
\* Capping keeps a score in range and keeps the order of two scores.
LEMMA CapMonotone ==
    ASSUME NEW b \in Nat, NEW x \in Nat, NEW y \in Nat, x <= y
    PROVE  /\ AtMost(b, x) \in 0..b
           /\ AtMost(b, x) <= AtMost(b, y)
BY DEF AtMost

\* The points of a rank grow with it.
LEMMA RankPoints ==
    /\ \A r \in 0..3 : ImpactPoints(r) \in Nat /\ DataPoints(r) \in Nat
    /\ \A r \in 0..5 : AutonomyPoints(r) \in Nat
    /\ \A r, s \in 0..3 : r <= s => /\ ImpactPoints(r) <= ImpactPoints(s)
                                    /\ DataPoints(r) <= DataPoints(s)
    /\ \A r, s \in 0..5 : r <= s => AutonomyPoints(r) <= AutonomyPoints(s)
<1>1. \A r \in 0..3 : ImpactPoints(r) \in Nat /\ DataPoints(r) \in Nat
  BY DEF ImpactPoints, DataPoints
<1>2. \A r \in 0..5 : AutonomyPoints(r) \in Nat
  BY DEF AutonomyPoints
<1>3. \A r, s \in 0..3 : r <= s => /\ ImpactPoints(r) <= ImpactPoints(s)
                                   /\ DataPoints(r) <= DataPoints(s)
  BY DEF ImpactPoints, DataPoints
<1>4. \A r, s \in 0..5 : r <= s => AutonomyPoints(r) <= AutonomyPoints(s)
  BY DEF AutonomyPoints
<1> QED BY <1>1, <1>2, <1>3, <1>4

\* A declared factor adds its points; declaring more never removes any.
LEMMA FlagPoints ==
    ASSUME NEW a \in PolicyContext, NEW b \in PolicyContext, a.flags \subseteq b.flags,
           NEW f, NEW p \in Nat
    PROVE  Points(a, f, p) \in Nat /\ Points(a, f, p) <= Points(b, f, p)
                /\ Points(b, f, p) \in Nat
BY DEF Points

\* Each dimension of the score is within its contract and grows with the factors.
LEMMA Dimensions ==
    ASSUME NEW a \in PolicyContext, NEW b \in PolicyContext, AtLeastAsRisky(a, b)
    PROVE  /\ ImpactScore(a) \in 0..30 /\ ImpactScore(a) <= ImpactScore(b)
           /\ DataScore(a) \in 0..25 /\ DataScore(a) <= DataScore(b)
           /\ AutonomyScore(a) \in 0..25 /\ AutonomyScore(a) <= AutonomyScore(b)
           /\ Exposure(a) \in 0..10 /\ Exposure(a) <= Exposure(b)
           /\ Regulatory(a) \in 0..10 /\ Regulatory(a) <= Regulatory(b)
<1> a.flags \subseteq b.flags
  BY DEF AtLeastAsRisky
<1>r. /\ a.impact \in 0..3 /\ b.impact \in 0..3 /\ a.impact <= b.impact
      /\ a.data \in 0..3 /\ b.data \in 0..3 /\ a.data <= b.data
      /\ a.autonomy \in 0..5 /\ b.autonomy \in 0..5 /\ a.autonomy <= b.autonomy
  BY DEF PolicyContext, AtLeastAsRisky
<1>1. ImpactScore(a) \in 0..30 /\ ImpactScore(a) <= ImpactScore(b)
  <2> DEFINE S(c) == ImpactPoints(c.impact) + Points(c, "affects_rights", 5)
  <2>1. S(a) \in Nat /\ S(b) \in Nat /\ S(a) <= S(b)
    <3>1. /\ ImpactPoints(a.impact) \in Nat /\ ImpactPoints(b.impact) \in Nat
          /\ ImpactPoints(a.impact) <= ImpactPoints(b.impact)
      BY <1>r, RankPoints
    <3>2. /\ Points(a, "affects_rights", 5) \in Nat /\ Points(b, "affects_rights", 5) \in Nat
          /\ Points(a, "affects_rights", 5) <= Points(b, "affects_rights", 5)
      BY FlagPoints
    <3> QED BY <3>1, <3>2
  <2> HIDE DEF S
  <2>2. ImpactScore(a) = AtMost(30, S(a)) /\ ImpactScore(b) = AtMost(30, S(b))
    BY DEF ImpactScore, S
  <2> QED BY <2>1, <2>2, CapMonotone
<1>2. DataScore(a) \in 0..25 /\ DataScore(a) <= DataScore(b)
  <2> DEFINE S(c) == DataPoints(c.data) + Points(c, "personal_data", 3)
                         + Points(c, "sensitive_data", 4) + Points(c, "children_data", 3)
  <2>1. S(a) \in Nat /\ S(b) \in Nat /\ S(a) <= S(b)
    <3>1. /\ DataPoints(a.data) \in Nat /\ DataPoints(b.data) \in Nat
          /\ DataPoints(a.data) <= DataPoints(b.data)
      BY <1>r, RankPoints
    <3>2. /\ Points(a, "personal_data", 3) \in Nat /\ Points(b, "personal_data", 3) \in Nat
          /\ Points(a, "personal_data", 3) <= Points(b, "personal_data", 3)
      BY FlagPoints
    <3>3. /\ Points(a, "sensitive_data", 4) \in Nat /\ Points(b, "sensitive_data", 4) \in Nat
          /\ Points(a, "sensitive_data", 4) <= Points(b, "sensitive_data", 4)
      BY FlagPoints
    <3>4. /\ Points(a, "children_data", 3) \in Nat /\ Points(b, "children_data", 3) \in Nat
          /\ Points(a, "children_data", 3) <= Points(b, "children_data", 3)
      BY FlagPoints
    <3> QED BY <3>1, <3>2, <3>3, <3>4
  <2> HIDE DEF S
  <2>2. DataScore(a) = AtMost(25, S(a)) /\ DataScore(b) = AtMost(25, S(b))
    BY DEF DataScore, S
  <2> QED BY <2>1, <2>2, CapMonotone
<1>3. AutonomyScore(a) \in 0..25 /\ AutonomyScore(a) <= AutonomyScore(b)
  <2> DEFINE S(c) == AutonomyPoints(c.autonomy) + Points(c, "uses_mcp", 3)
  <2>1. S(a) \in Nat /\ S(b) \in Nat /\ S(a) <= S(b)
    <3>1. /\ AutonomyPoints(a.autonomy) \in Nat /\ AutonomyPoints(b.autonomy) \in Nat
          /\ AutonomyPoints(a.autonomy) <= AutonomyPoints(b.autonomy)
      BY <1>r, RankPoints
    <3>2. /\ Points(a, "uses_mcp", 3) \in Nat /\ Points(b, "uses_mcp", 3) \in Nat
          /\ Points(a, "uses_mcp", 3) <= Points(b, "uses_mcp", 3)
      BY FlagPoints
    <3> QED BY <3>1, <3>2
  <2> HIDE DEF S
  <2>2. AutonomyScore(a) = AtMost(25, S(a)) /\ AutonomyScore(b) = AtMost(25, S(b))
    BY DEF AutonomyScore, S
  <2> QED BY <2>1, <2>2, CapMonotone
<1>4. Exposure(a) \in 0..10 /\ Exposure(a) <= Exposure(b)
  BY DEF Exposure
<1>5. Regulatory(a) \in 0..10 /\ Regulatory(a) <= Regulatory(b)
  BY DEF Regulatory, Points
<1> QED BY <1>1, <1>2, <1>3, <1>4, <1>5

\* More risk factors never lower the score, nor leave its range.
LEMMA ScoreMonotone ==
    ASSUME NEW a \in PolicyContext, NEW b \in PolicyContext, AtLeastAsRisky(a, b)
    PROVE  Score(a) \in 0..100 /\ Score(a) <= Score(b)
<1> DEFINE ID(c) == ImpactScore(c) + DataScore(c)
           IDA(c) == ID(c) + AutonomyScore(c)
           IDAE(c) == IDA(c) + Exposure(c)
<1>0. AtLeastAsRisky(b, b)
  BY DEF AtLeastAsRisky, PolicyContext
<1>1. ID(a) \in Nat /\ ID(b) \in Nat /\ ID(a) <= ID(b) /\ ID(a) <= 55
  <2>1. ImpactScore(a) \in 0..30 /\ ImpactScore(b) \in 0..30 /\ ImpactScore(a) <= ImpactScore(b)
    BY <1>0, Dimensions
  <2>2. DataScore(a) \in 0..25 /\ DataScore(b) \in 0..25 /\ DataScore(a) <= DataScore(b)
    BY <1>0, Dimensions
  <2> QED BY <2>1, <2>2
<1> HIDE DEF ID
<1>2. IDA(a) \in Nat /\ IDA(b) \in Nat /\ IDA(a) <= IDA(b) /\ IDA(a) <= 80
  <2>1. /\ AutonomyScore(a) \in 0..25 /\ AutonomyScore(b) \in 0..25
        /\ AutonomyScore(a) <= AutonomyScore(b)
    BY <1>0, Dimensions
  <2> QED BY <1>1, <2>1
<1> HIDE DEF IDA
<1>3. IDAE(a) \in Nat /\ IDAE(b) \in Nat /\ IDAE(a) <= IDAE(b) /\ IDAE(a) <= 90
  <2>1. Exposure(a) \in 0..10 /\ Exposure(b) \in 0..10 /\ Exposure(a) <= Exposure(b)
    BY <1>0, Dimensions
  <2> QED BY <1>2, <2>1
<1> HIDE DEF IDAE
<1>4. IDAE(a) + Regulatory(a) \in Nat /\ IDAE(a) + Regulatory(a) <= 100 /\ IDAE(a) + Regulatory(a) <= IDAE(b) + Regulatory(b)
  <2>1. Regulatory(a) \in 0..10 /\ Regulatory(b) \in 0..10 /\ Regulatory(a) <= Regulatory(b)
    BY <1>0, Dimensions
  <2> QED BY <1>3, <2>1
<1>5. Score(a) = IDAE(a) + Regulatory(a) /\ Score(b) = IDAE(b) + Regulatory(b)
  BY Zenon DEF Score, IDAE, IDA, ID
<1> QED BY <1>4, <1>5

\* Nor the tier: no elevation rule is shadowed by a lower one.
LEMMA TierMonotone ==
    ASSUME NEW a \in PolicyContext, NEW b \in PolicyContext, AtLeastAsRisky(a, b)
    PROVE  /\ Tier(a) \in 0..3
           /\ Tier(a) <= Tier(b)
<1>1. Score(a) \in 0..100 /\ Score(a) <= Score(b)
  BY ScoreMonotone
<1>2. Score(b) \in 0..100
  BY ScoreMonotone DEF AtLeastAsRisky, PolicyContext
<1>3. IsCritical(a) => IsCritical(b)
  BY DEF IsCritical, AtLeastAsRisky, PolicyContext
<1>4. IsHigh(a) => IsHigh(b)
  BY <1>1, <1>2 DEF IsHigh, AnyOf, AtLeastAsRisky
<1>5. IsMedium(a) => IsMedium(b)
  BY <1>1, <1>2 DEF IsMedium, AnyOf, AtLeastAsRisky
<1> HIDE DEF IsCritical, IsHigh, IsMedium
<1> QED BY <1>3, <1>4, <1>5 DEF Tier, Low, Medium, High, Critical

\* Nor are a gate or a document dropped.
LEMMA ObligationsMonotone ==
    ASSUME NEW a \in PolicyContext, NEW b \in PolicyContext, AtLeastAsRisky(a, b)
    PROVE  Approvals(a) \subseteq Approvals(b) /\ Documents(a) \subseteq Documents(b)
<1>0. Tier(a) \in 0..3 /\ Tier(b) \in 0..3 /\ Tier(a) <= Tier(b)
  <2>1. AtLeastAsRisky(b, b)
    BY DEF AtLeastAsRisky, PolicyContext
  <2> QED BY <2>1, TierMonotone
<1>1. Elevated(a) => Elevated(b)
  BY <1>0 DEF Elevated, Low, Medium, High, Critical
<1>2. Tier(a) # Low => Tier(b) # Low
  BY <1>0 DEF Low
<1>3. \A flags : AnyOf(a, flags) => AnyOf(b, flags)
  BY DEF AnyOf, AtLeastAsRisky
<1>4. (a.data >= 2 => b.data >= 2) /\ (a.data # 0 => b.data # 0)
  BY DEF AtLeastAsRisky, PolicyContext
<1>5. ASSUME NEW area \in Areas, Triggered(a, area)
      PROVE  Triggered(b, area)
  BY <1>1, <1>2, <1>3, <1>4, <1>5 DEF Triggered, Areas, ConcernsPeople
<1>6. Approvals(a) \subseteq Approvals(b)
  BY <1>5 DEF Approvals
<1>7. Documents(a) \subseteq Documents(b)
  BY <1>1, <1>3 DEF Documents, ConcernsPeople, Acts
<1> QED BY <1>6, <1>7

-----------------------------------------------------------------------------
\* A set of ranks up to m that holds every rank above each of its own.
Upward(ranks, m) == \A r \in ranks : \A s \in 0..m : r <= s => s \in ranks

\* A rule whose ordered selectors leave no gap above what they select.
UpwardRule(rule) ==
    /\ Upward(rule.risk_tiers, 3)
    /\ Upward(rule.decision_impacts, 3)
    /\ Upward(rule.data_classifications, 3)
    /\ Upward(rule.autonomy_levels, 5)

\* Such a rule, once it applies, still applies with more risk factors, whether it
\* asks for one of its clauses or for all of them.
LEMMA RuleMonotone ==
    ASSUME NEW rule, UpwardRule(rule),
           NEW a \in PolicyContext, NEW b \in PolicyContext, AtLeastAsRisky(a, b),
           Applies(rule, ControlContext(a))
    PROVE  Applies(rule, ControlContext(b))
<1>1. ASSUME NEW selector \in Selectors, ClauseHolds(rule, selector, ControlContext(a))
      PROVE  ClauseHolds(rule, selector, ControlContext(b))
  <2>1. Tier(a) \in 0..3 /\ Tier(b) \in 0..3 /\ Tier(a) <= Tier(b)
    <3>1. AtLeastAsRisky(b, b)
      BY DEF AtLeastAsRisky, PolicyContext
    <3> QED BY <3>1, TierMonotone
  <2>2. /\ a.impact \in 0..3 /\ b.impact \in 0..3 /\ a.impact <= b.impact
        /\ a.data \in 0..3 /\ b.data \in 0..3 /\ a.data <= b.data
        /\ a.autonomy \in 0..5 /\ b.autonomy \in 0..5 /\ a.autonomy <= b.autonomy
        /\ a.flags \subseteq b.flags
    BY DEF AtLeastAsRisky, PolicyContext
  <2>3. CASE selector = "risk_tiers"
    BY <1>1, <2>1, <2>3 DEF ClauseHolds, ControlContext, UpwardRule, Upward
  <2>4. CASE selector = "flags_any"
    BY <1>1, <2>2, <2>4 DEF ClauseHolds, ControlContext, AnyOf
  <2>5. CASE selector = "flags_all"
    BY <1>1, <2>2, <2>5 DEF ClauseHolds, ControlContext
  <2>6. CASE selector = "decision_impacts"
    BY <1>1, <2>2, <2>6 DEF ClauseHolds, ControlContext, UpwardRule, Upward
  <2>7. CASE selector = "data_classifications"
    BY <1>1, <2>2, <2>7 DEF ClauseHolds, ControlContext, UpwardRule, Upward
  <2>8. CASE selector = "autonomy_levels"
    BY <1>1, <2>2, <2>8 DEF ClauseHolds, ControlContext, UpwardRule, Upward
  <2> QED BY <2>3, <2>4, <2>5, <2>6, <2>7, <2>8 DEF Selectors
<1>2. Clauses(rule) \subseteq Selectors
  BY DEF Clauses
<1> QED BY <1>1, <1>2 DEF Applies

\* Every rule of the bundled catalog is one of those.
LEMMA BaselineUpward == \A id \in BaselineIds : UpwardRule(Rule(id))
<1> SUFFICES ASSUME NEW id \in BaselineIds
             PROVE  UpwardRule(Rule(id))
  OBVIOUS
<1>1. ASSUME NEW t, NEW f, NEW i, NEW d, NEW n,
             Upward(t, 3), Upward(i, 3), Upward(d, 3), Upward(n, 5)
      PROVE  UpwardRule(AnyRule(t, f, i, d, n))
  BY <1>1 DEF UpwardRule, AnyRule
<1>2. Upward({}, 3) /\ Upward({}, 5)
  BY DEF Upward
<1>3. Upward(1..3, 3) /\ Upward(2..3, 3) /\ Upward(2..5, 5)
  BY DEF Upward
<1>4. \A flags : UpwardRule(OnFlags(flags))
  BY <1>1, <1>2 DEF OnFlags
<1>5. UpwardRule(Always)
  <2>1. /\ Always.risk_tiers = {} /\ Always.decision_impacts = {}
        /\ Always.data_classifications = {} /\ Always.autonomy_levels = {}
    BY DEF Always, OnFlags, AnyRule
  <2> QED BY <1>2, <2>1 DEF UpwardRule
<1>6. CASE id = "HUM-001"
  BY <1>1, <1>2, <1>3, <1>6 DEF Rule, Medium, Critical
<1>7. CASE id = "HUM-002"
  BY <1>1, <1>2, <1>3, <1>7 DEF Rule
<1>8. CASE id = "DAT-002"
  BY <1>1, <1>2, <1>3, <1>8 DEF Rule
<1>9. CASE id = "AGT-004"
  BY <1>1, <1>2, <1>3, <1>9 DEF Rule
<1>10. CASE id = "SEC-001"
  BY <1>1, <1>2, <1>3, <1>10 DEF Rule, High, Critical
<1>11. CASE id \in {"OPS-001", "EVD-002"}
  BY <1>1, <1>2, <1>3, <1>11 DEF Rule, High, Critical
<1>12. CASE id \notin {"HUM-001", "HUM-002", "DAT-002", "AGT-004", "SEC-001", "OPS-001",
                       "EVD-002"}
  BY <1>4, <1>5, <1>12 DEF Rule
<1> QED BY <1>6, <1>7, <1>8, <1>9, <1>10, <1>11, <1>12

\* So one more risk factor never releases an initiative from a control.
LEMMA ControlsMonotone ==
    ASSUME NEW a \in PolicyContext, NEW b \in PolicyContext, AtLeastAsRisky(a, b)
    PROVE  Controls(a) \subseteq Controls(b)
BY RuleMonotone, BaselineUpward DEF Controls

\* Every rule of the bundled catalog is one the loader accepts: it always applies
\* or it selects on something, never both.
THEOREM BaselineLoads == \A id \in BaselineIds : WellFormed(Rule(id))
<1> SUFFICES ASSUME NEW id \in BaselineIds
             PROVE  WellFormed(Rule(id))
  OBVIOUS
<1>1. ASSUME NEW t, NEW f, NEW i, NEW d, NEW n, f # {}
      PROVE  WellFormed(AnyRule(t, f, i, d, n))
  <2> DEFINE rule == AnyRule(t, f, i, d, n)
  <2>1. rule.always = FALSE /\ rule["flags_any"] # {}
    BY <1>1 DEF AnyRule
  <2>2. "flags_any" \in Clauses(rule)
    BY <2>1 DEF Clauses, Selectors
  <2> QED BY <2>1, <2>2 DEF WellFormed
<1>2. WellFormed(Always)
  <2>1. /\ Always.always = TRUE
        /\ \A selector \in Selectors : Always[selector] = {}
    BY DEF Always, OnFlags, AnyRule, Selectors
  <2> QED BY <2>1 DEF WellFormed, Clauses
<1>3. \A flags : flags # {} => WellFormed(OnFlags(flags))
  BY <1>1 DEF OnFlags
<1>4. CASE id \in {"HUM-001", "HUM-002", "DAT-002", "AGT-004", "SEC-001", "OPS-001",
                   "EVD-002"}
  BY <1>1, <1>4 DEF Rule
<1>5. CASE id \notin {"HUM-001", "HUM-002", "DAT-002", "AGT-004", "SEC-001", "OPS-001",
                      "EVD-002"}
  BY <1>2, <1>3, <1>5 DEF Rule
<1> QED BY <1>4, <1>5

-----------------------------------------------------------------------------
\* A context is always one the contract admits, and a step adds risk factors.
LEMMA TypeInvariant == Spec => []TypeOK
<1>1. Init => TypeOK
  BY DEF Init, TypeOK, PolicyContext
<1>2. TypeOK /\ [Next]_context => TypeOK'
  BY DEF TypeOK, PolicyContext, Next, RaiseImpact, RaiseData, RaiseAutonomy, Declare
<1> QED BY <1>1, <1>2, PTL DEF Spec

LEMMA StepsRaise ==
    ASSUME TypeOK, Next
    PROVE  AtLeastAsRisky(context, context')
BY DEF TypeOK, PolicyContext, AtLeastAsRisky, Next, RaiseImpact, RaiseData, RaiseAutonomy, Declare

\* Every score is within the contract's range, whatever is declared.
THEOREM WithinContractHolds == Spec => []WithinContract
<1>1. TypeOK => WithinContract
  <2> SUFFICES ASSUME TypeOK PROVE WithinContract
    OBVIOUS
  <2>1. context \in PolicyContext /\ AtLeastAsRisky(context, context)
    BY DEF TypeOK, AtLeastAsRisky, PolicyContext
  <2> QED BY <2>1, Dimensions, ScoreMonotone DEF WithinContract
<1> QED BY <1>1, TypeInvariant, PTL

\* Adding a risk factor never lowers score or tier nor drops a gate, a
\* document or a control.
THEOREM MonotoneHolds == Spec => Monotone
<1>1. TypeOK /\ TypeOK' /\ [Next]_context =>
        [/\ Score(context') >= Score(context)
         /\ Tier(context') >= Tier(context)
         /\ Approvals(context) \subseteq Approvals(context')
         /\ Documents(context) \subseteq Documents(context')
         /\ Controls(context) \subseteq Controls(context')]_context
  <2> SUFFICES ASSUME TypeOK, TypeOK', Next
               PROVE  /\ Score(context') >= Score(context)
                      /\ Tier(context') >= Tier(context)
                      /\ Approvals(context) \subseteq Approvals(context')
                      /\ Documents(context) \subseteq Documents(context')
                      /\ Controls(context) \subseteq Controls(context')
    OBVIOUS
  <2>1. context \in PolicyContext /\ context' \in PolicyContext
    BY DEF TypeOK
  <2>2. AtLeastAsRisky(context, context') /\ AtLeastAsRisky(context', context')
    BY <2>1, StepsRaise DEF AtLeastAsRisky, PolicyContext
  <2>3. Score(context) \in Int /\ Score(context') \in Int /\ Score(context) <= Score(context')
    BY <2>1, <2>2, ScoreMonotone
  <2>4. Tier(context) \in Int /\ Tier(context') \in Int /\ Tier(context) <= Tier(context')
    BY <2>1, <2>2, TierMonotone
  <2>5. Approvals(context) \subseteq Approvals(context')
           /\ Documents(context) \subseteq Documents(context')
    BY <2>1, <2>2, ObligationsMonotone
  <2>6. Controls(context) \subseteq Controls(context')
    BY <2>1, <2>2, ControlsMonotone
  <2> QED BY <2>3, <2>4, <2>5, <2>6
<1> QED BY <1>1, TypeInvariant, PTL DEF Spec, Monotone

\* No specialised document is required without the gates it is written for and the
\* control it is evidence of.
THEOREM DocumentsAreBackedHolds == Spec => []DocumentsAreBacked
<1> DEFINE Gated ==
        /\ "ripd" \in Documents(context) => "privacy" \in Approvals(context)
        /\ "international-processing-assessment" \in Documents(context) =>
              "legal" \in Approvals(context)
        /\ "agent-card" \in Documents(context) =>
              {"security", "devops"} \subseteq Approvals(context)
        /\ "threat-model" \in Documents(context) =>
              {"security", "architecture", "compliance"} \subseteq Approvals(context)
<1>1. Gated
  BY DEF Documents, Approvals, Areas, Triggered, ConcernsPeople, Acts,
         AnyOf, Elevated, Low, High, Critical
<1>2. ASSUME NEW id \in BaselineIds, NEW flags, AnyOf(context, flags),
             NEW t, NEW f, NEW i, NEW d, NEW n, flags \subseteq f,
             Rule(id) = AnyRule(t, f, i, d, n)
      PROVE  id \in Controls(context)
  <2>1. /\ Rule(id).match = "any"
        /\ Rule(id)["flags_any"] = f /\ Rule(id).flags_any = f
    BY <1>2 DEF AnyRule
  <2>2. "flags_any" \in Clauses(Rule(id)) /\ ClauseHolds(Rule(id), "flags_any", ControlContext(context))
    BY <1>2, <2>1 DEF Clauses, Selectors, ClauseHolds, ControlContext, AnyOf
  <2> QED BY <2>1, <2>2 DEF Controls, Applies
<1>3. ASSUME NEW id \in BaselineIds, NEW f, NEW i, NEW d, NEW n, Elevated(context),
             Rule(id) = AnyRule(High..Critical, f, i, d, n)
      PROVE  id \in Controls(context)
  <2>1. /\ Rule(id).match = "any"
        /\ Rule(id)["risk_tiers"] = High..Critical /\ Rule(id).risk_tiers = High..Critical
    BY <1>3 DEF AnyRule
  <2>2. Tier(context) \in High..Critical /\ High..Critical # {}
    BY <1>3 DEF Elevated, High, Critical
  <2>3. "risk_tiers" \in Clauses(Rule(id)) /\ ClauseHolds(Rule(id), "risk_tiers", ControlContext(context))
    BY <2>1, <2>2 DEF Clauses, Selectors, ClauseHolds, ControlContext
  <2> QED BY <2>1, <2>3 DEF Controls, Applies
<1>4. "ripd" \in Documents(context) => "DAT-003" \in Controls(context)
  <2>1. "ripd" \in Documents(context) =>
            AnyOf(context, {"personal_data", "sensitive_data", "children_data"})
    BY DEF Documents, ConcernsPeople
  <2>2. Rule("DAT-003") = AnyRule({}, {"personal_data", "sensitive_data", "children_data"},
                                  {}, {}, {}) /\ "DAT-003" \in BaselineIds
    BY DEF Rule, OnFlags, BaselineIds
  <2> QED BY <1>2, <2>1, <2>2
<1>5. "international-processing-assessment" \in Documents(context) =>
          "DAT-004" \in Controls(context)
  <2>1. "international-processing-assessment" \in Documents(context) =>
            AnyOf(context, {"international_processing"})
    BY DEF Documents
  <2>2. Rule("DAT-004") = AnyRule({}, {"international_processing"}, {}, {}, {})
           /\ "DAT-004" \in BaselineIds
    BY DEF Rule, OnFlags, BaselineIds
  <2> QED BY <1>2, <2>1, <2>2
<1>6. Acts(context) => {"HUM-001", "AGT-003"} \subseteq Controls(context)
  <2>1. Acts(context) => AnyOf(context, {"uses_agents", "executes_actions"})
    BY DEF Acts
  <2>2. Rule("HUM-001") = AnyRule(Medium..Critical,
                {"affects_rights", "executes_actions", "uses_agents"}, {}, {}, {})
           /\ "HUM-001" \in BaselineIds
    BY DEF Rule, BaselineIds
  <2>3. Rule("AGT-003") = AnyRule({}, {"uses_agents", "uses_mcp", "executes_actions"},
                                  {}, {}, {}) /\ "AGT-003" \in BaselineIds
    BY DEF Rule, OnFlags, BaselineIds
  <2>4. Acts(context) => "HUM-001" \in Controls(context)
    BY <1>2, <2>1, <2>2
  <2>5. Acts(context) => "AGT-003" \in Controls(context)
    BY <1>2, <2>1, <2>3
  <2> QED BY <2>4, <2>5
<1>7. Elevated(context) => {"SEC-001", "EVD-002", "OPS-001"} \subseteq Controls(context)
  <2>1. Rule("SEC-001") = AnyRule(High..Critical,
                {"uses_agents", "uses_mcp", "uses_custom_model"}, {}, 2..3, {})
           /\ "SEC-001" \in BaselineIds
    BY DEF Rule, BaselineIds
  <2>2. Rule("EVD-002") = AnyRule(High..Critical,
                {"regulated_context", "affects_rights", "executes_actions", "uses_agents"},
                {}, {}, {}) /\ "EVD-002" \in BaselineIds
    BY DEF Rule, BaselineIds
  <2>3. Rule("OPS-001") = AnyRule(High..Critical,
                {"external_facing", "executes_actions", "uses_agents", "uses_rag"}, {}, {}, {})
           /\ "OPS-001" \in BaselineIds
    BY DEF Rule, BaselineIds
  <2> QED BY <1>3, <2>1, <2>2, <2>3
<1>8. /\ "human-oversight-plan" \in Documents(context) => Acts(context)
      /\ "agent-card" \in Documents(context) => Acts(context)
      /\ "threat-model" \in Documents(context) => Elevated(context)
      /\ "monitoring-plan" \in Documents(context) => Elevated(context)
  BY DEF Documents
<1>9. DocumentsAreBacked
  BY <1>1, <1>4, <1>5, <1>6, <1>7, <1>8 DEF DocumentsAreBacked
<1> QED BY <1>9, PTL
=============================================================================
