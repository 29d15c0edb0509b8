--------------------------- MODULE ControlCatalog ---------------------------
(***************************************************************************)
(* The versioned catalog of governance controls and the rules that decide  *)
(* which of them an initiative owes.  A rule either always applies or      *)
(* holds selectors over the facts of a context and over the tier the       *)
(* policy gave it.  Ordered selectors are sets of ranks, as the policy's   *)
(* own; the selector on hosting models, which no bundled rule uses, and    *)
(* the wording of controls and of reasons are left out.                    *)
(***************************************************************************)
EXTENDS PolicyEngine

\* Hosting is a selector of its own, not one of the flags a rule may name.
ControlFlags == Flags \ {"own_hosting"}

Applicability ==
    [always: BOOLEAN, match: {"any", "all"},
     risk_tiers: SUBSET (Low..Critical), flags_any: SUBSET ControlFlags,
     flags_all: SUBSET ControlFlags, decision_impacts: SUBSET (0..3),
     data_classifications: SUBSET (0..3), autonomy_levels: SUBSET (0..5)]

Selectors == {"risk_tiers", "flags_any", "flags_all", "decision_impacts",
              "data_classifications", "autonomy_levels"}

\* The clauses a rule is evaluated on: the selectors it defines.
Clauses(rule) == {selector \in Selectors : rule[selector] # {}}

WellFormed(rule) == rule.always <=> Clauses(rule) = {}

\* The context of a rule: the facts of the initiative's row and the tier the row
\* stores, which is computed from them whenever they are created or revised.
ControlContext(c) == [facts |-> c, risk_tier |-> Tier(c)]

ClauseHolds(rule, selector, ctx) ==
    CASE selector = "risk_tiers" -> ctx.risk_tier \in rule.risk_tiers
      [] selector = "flags_any" -> AnyOf(ctx.facts, rule.flags_any)
      [] selector = "flags_all" -> rule.flags_all \subseteq ctx.facts.flags
      [] selector = "decision_impacts" -> ctx.facts.impact \in rule.decision_impacts
      [] selector = "data_classifications" ->
            ctx.facts.data \in rule.data_classifications
      [] selector = "autonomy_levels" -> ctx.facts.autonomy \in rule.autonomy_levels

\* Mutation: every clause must hold unless the rule says otherwise.
AppliesToAll(rule, ctx) ==
    rule.always \/ \A selector \in Clauses(rule) : ClauseHolds(rule, selector, ctx)

Applies(rule, ctx) ==
    \/ rule.always
    \/ IF rule.match = "all"
       THEN \A selector \in Clauses(rule) : ClauseHolds(rule, selector, ctx)
       ELSE \E selector \in Clauses(rule) : ClauseHolds(rule, selector, ctx)

-----------------------------------------------------------------------------
AnyRule(tiers, flags, impacts, data, autonomy) ==
    [always |-> FALSE, match |-> "any", risk_tiers |-> tiers, flags_any |-> flags,
     flags_all |-> {}, decision_impacts |-> impacts, data_classifications |-> data,
     autonomy_levels |-> autonomy]
OnFlags(flags) == AnyRule({}, flags, {}, {}, {})
Always == [OnFlags({}) EXCEPT !.always = TRUE]

BaselineIds == {"ORG-001", "ORG-002", "RSK-001", "RSK-002", "HUM-001", "HUM-002",
                "DAT-001", "DAT-002", "DAT-003", "DAT-004", "DAT-005", "MOD-001",
                "MOD-002", "MOD-003", "AGT-001", "AGT-002", "AGT-003", "AGT-004",
                "SEC-001", "SEC-002", "OPS-001", "OPS-002", "EVD-001", "EVD-002",
                "CHG-001"}

\* The bundled catalog: a control not named here always applies.
Rule(id) ==
    CASE id = "HUM-001" -> AnyRule(Medium..Critical,
                {"affects_rights", "executes_actions", "uses_agents"}, {}, {}, {})
      [] id = "HUM-002" -> AnyRule({}, {"affects_rights", "external_facing"}, 2..3, {}, {})
      [] id = "DAT-002" -> AnyRule({},
                {"personal_data", "sensitive_data", "children_data"}, {}, 1..3, {})
      [] id = "DAT-003" -> OnFlags({"personal_data", "sensitive_data", "children_data"})
      [] id = "DAT-004" -> OnFlags({"international_processing"})
      [] id = "DAT-005" -> OnFlags({"uses_rag"})
      [] id = "AGT-001" -> OnFlags({"uses_agents"})
      [] id = "AGT-002" -> OnFlags({"uses_agents", "uses_mcp"})
      [] id = "AGT-003" -> OnFlags({"uses_agents", "uses_mcp", "executes_actions"})
      [] id = "AGT-004" -> AnyRule({}, {"affects_rights", "executes_actions"}, {}, {}, 2..5)
      [] id = "SEC-001" -> AnyRule(High..Critical,
                {"uses_agents", "uses_mcp", "uses_custom_model"}, {}, 2..3, {})
      [] id = "SEC-002" -> OnFlags({"external_facing", "uses_rag", "uses_agents", "uses_mcp"})
      [] id = "OPS-001" -> AnyRule(High..Critical,
                {"external_facing", "executes_actions", "uses_agents", "uses_rag"}, {}, {}, {})
      [] id = "OPS-002" -> OnFlags({"uses_agents", "uses_custom_model", "executes_actions"})
      [] id = "EVD-002" -> AnyRule(High..Critical,
                {"regulated_context", "affects_rights", "executes_actions", "uses_agents"},
                {}, {}, {})
      [] OTHER -> Always

\* The controls an initiative with context c owes: the whole catalog is
\* evaluated, without state or effect.
Controls(c) == {id \in BaselineIds : Applies(Rule(id), ControlContext(c))}
=============================================================================
