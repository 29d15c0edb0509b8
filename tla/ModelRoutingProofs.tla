-------------------------- MODULE ModelRoutingProofs --------------------------
(***************************************************************************)
(* Proofs about the asset registry and about model routing on top of it.   *)
(* RegistryInv is inductive: an approved row has the scope that was        *)
(* reviewed and a reviewer who owns nothing of it, and an approved agent   *)
(* has only approved models.  What makes it so is that every operator that *)
(* touches a review leaves the row unapproved; the lemmas on rows below    *)
(* say it once.                                                            *)
(*                                                                         *)
(* AllowedWasGranted holds for any number of models, agents, groups and    *)
(* requests.  The argument is about versions: a scope that was read names  *)
(* the version of each model, versions only grow, and every change of a    *)
(* model counts.  So when the second scope equals the first, no model has  *)
(* changed since the first was read, and the models were the same at the   *)
(* instant the agent was read again, whose row alone was read in between.  *)
(*                                                                         *)
(* The exchanges of the attempts with the Router have an invariant of      *)
(* their own, ExchangeInv: while an attempt is on its way its record is    *)
(* the pending one it committed, what it holds of the Router is of its own *)
(* operation, and two rows never share an id of the Router.                *)
(***************************************************************************)
EXTENDS ModelRouting, RoutingExchange, FiniteSetTheorems, SequenceTheorems, TLAPS

Rows(Scopes) == Row(Scopes) \cup {NoRow}

-----------------------------------------------------------------------------
(* Rows *)

\* _clear_asset_review leaves a row without approval, of the same version.
LEMMA ClearedRow ==
    ASSUME NEW S, NEW row \in Rows(S)
    PROVE  /\ Cleared(row) \in Rows(S)
           /\ ~Approved(Cleared(row))
           /\ Registered(Cleared(row)) <=> Registered(row)
           /\ row.status = "retired" => Cleared(row).status = "retired"
           /\ Cleared(row).version = row.version
  <1>1. CASE HadReview(row)
    <2>1. row \in Row(S)
      BY <1>1 DEF HadReview, Rows, NoRow, Approved
    <2>2. Cleared(row) = [row EXCEPT !.review = NotReviewed,
                                     !.status = IF @ = "retired" THEN @ ELSE "draft"]
      BY <1>1 DEF Cleared
    <2> QED
      BY <2>1, <2>2 DEF Rows, Row, Approved, Registered
  <1>2. CASE ~HadReview(row)
    BY <1>2 DEF Cleared, HadReview
  <1> QED
    BY <1>1, <1>2

\* An invalidated row is not approved, and counts the change if there is one.
LEMMA InvalidatedRow ==
    ASSUME NEW S, NEW row \in Rows(S)
    PROVE  /\ Invalidated(row) \in Rows(S)
           /\ ~Approved(Invalidated(row))
           /\ Registered(Invalidated(row)) <=> Registered(row)
           /\ row.status = "retired" => Invalidated(row).status = "retired"
           /\ Invalidated(row) = row \/ Invalidated(row).version = row.version + 1
  <1>1. CASE HadReview(row)
    <2>1. row \in Row(S) /\ Cleared(row) \in Rows(S)
      BY <1>1, ClearedRow DEF HadReview, Rows, NoRow, Approved
    <2>2. Cleared(row) \in Row(S)
      BY <2>1, ClearedRow DEF Rows, Row, NoRow, Registered
    <2>3. Invalidated(row) = [Cleared(row) EXCEPT !.version = @ + 1]
      BY <1>1 DEF Invalidated
    <2> QED
      BY <2>1, <2>2, <2>3, ClearedRow DEF Rows, Row, Approved, Registered
  <1>2. CASE ~HadReview(row)
    BY <1>2 DEF Invalidated, HadReview
  <1> QED
    BY <1>1, <1>2

LEMMA LiveRow ==
    ASSUME NEW S, NEW row \in Rows(S), Live(row)
    PROVE  row \in Row(S)
  BY DEF Live, Rows, NoRow

LEMMA EditedRow ==
    ASSUME NEW S, NEW row \in Rows(S), Live(row), NEW scope \in S
    PROVE  /\ Edited(row, scope) \in Row(S)
           /\ ~Approved(Edited(row, scope))
           /\ Edited(row, scope).version = row.version + 1
  <1>1. row \in Row(S)
    BY LiveRow
  <1>2. Cleared(row) \in Row(S)
    BY ClearedRow DEF Rows, NoRow, Registered, Live
  <1>3. Edited(row, scope) = [Cleared(row) EXCEPT !.scope = scope, !.version = @ + 1]
    BY DEF Edited
  <1>4. Edited(row, scope) =
           [Cleared(row) EXCEPT !.scope = scope, !.version = row.version + 1]
    BY <1>3, ClearedRow
  <1>5. row.version + 1 \in Nat
    BY <1>1 DEF Row
  <1> QED
    BY <1>2, <1>4, <1>5, ClearedRow DEF Row, Approved

LEMMA RetiredRow ==
    ASSUME NEW S, NEW row \in Rows(S), Live(row)
    PROVE  /\ Retired(row) \in Row(S)
           /\ Retired(row).status = "retired"
           /\ Retired(row).version = row.version + 1
  <1>1. row \in Row(S)
    BY LiveRow
  <1>2. Retired(row) = [row EXCEPT !.status = "retired", !.version = row.version + 1]
    BY DEF Retired
  <1>3. row.version + 1 \in Nat
    BY <1>1 DEF Row
  <1> QED
    BY <1>1, <1>2, <1>3 DEF Row

LEMMA RetiredIfLiveRow ==
    ASSUME NEW S, NEW row \in Rows(S)
    PROVE  /\ RetiredIfLive(row) \in Rows(S)
           /\ ~Approved(RetiredIfLive(row))
           /\ Registered(RetiredIfLive(row)) <=> Registered(row)
           /\ row.status = "retired" => RetiredIfLive(row) = row
           /\ RetiredIfLive(row) = row \/ RetiredIfLive(row).version = row.version + 1
  <1>1. CASE Live(row)
    BY <1>1, RetiredRow, LiveRow DEF RetiredIfLive, Rows, Row, Approved, Registered, Live
  <1>2. CASE ~Live(row)
    BY <1>2 DEF RetiredIfLive, Live, Approved
  <1> QED
    BY <1>1, <1>2

LEMMA ApprovedRow ==
    ASSUME NEW S, NEW row \in Rows(S), Live(row), NEW p \in People, NEW t \in Nat
    PROVE  /\ Approve(row, p, t) \in Row(S)
           /\ Approve(row, p, t).scope = row.scope
           /\ Approve(row, p, t).review.by = p
           /\ ScopeMatches(Approve(row, p, t))
           /\ Approved(Approve(row, p, t))
           /\ Approve(row, p, t).version = row.version + 1
  <1>1. row \in Row(S)
    BY LiveRow
  <1>2. [scope |-> row.scope, by |-> p, until |-> t] \in Review(S)
    BY <1>1 DEF Review, Row
  <1>3. [scope |-> row.scope, by |-> p, until |-> t] # NotReviewed
    BY NamesAssumption DEF NotReviewed
  <1>4. Approve(row, p, t) =
           [row EXCEPT !.status = "approved", !.version = row.version + 1,
                       !.review = [scope |-> row.scope, by |-> p, until |-> t]]
    BY DEF Approve
  <1>5. row.version + 1 \in Nat
    BY <1>1 DEF Row
  <1>6. Approve(row, p, t) \in Row(S)
    BY <1>1, <1>2, <1>4, <1>5 DEF Row
  <1> QED
    BY <1>1, <1>3, <1>4, <1>6 DEF ScopeMatches, Approved, Row

LEMMA FreshRow ==
    ASSUME NEW S, NEW scope \in S
    PROVE  [status |-> "draft", scope |-> scope, review |-> NotReviewed, version |-> 1] \in Row(S)
  BY DEF Row

-----------------------------------------------------------------------------
(* Types *)

LEMMA TypeAgentsWithout ==
    ASSUME RegistryTypeOK, NEW m \in Models
    PROVE  AgentsWithout(m) \in [Agents -> Rows(AgentScopes)]
  BY InvalidatedRow DEF RegistryTypeOK, AgentsWithout, Rows

LEMMA TypeStep ==
    ASSUME RegistryTypeOK, [RegistryNext]_registryVars
    PROVE  RegistryTypeOK'
  <1> USE DEF RegistryTypeOK
  <1>m. model \in [Models -> Rows(ModelScopes)] /\ agent \in [Agents -> Rows(AgentScopes)]
    BY DEF Rows
  <1>n. Mutable => system \in SystemRow
    BY DEF Mutable, NoSystem
  <1>1. ASSUME NEW p \in People, CreateSystem(p) PROVE RegistryTypeOK'
    BY <1>1 DEF CreateSystem, SystemRow
  <1>2. ASSUME NEW p \in People, UpdateSystem(p) PROVE RegistryTypeOK'
    <2>1. system' \in SystemRow
      <3>1. system \in SystemRow
        BY <1>2, <1>n DEF UpdateSystem
      <3>2. system.version + 1 \in Nat
        BY <3>1 DEF SystemRow
      <3> QED
        BY <1>2, <3>1, <3>2 DEF UpdateSystem, SystemRow
    <2>2. /\ model' \in [Models -> Rows(ModelScopes)]
          /\ agent' \in [Agents -> Rows(AgentScopes)]
      BY <1>2, <1>m, InvalidatedRow DEF UpdateSystem
    <2> QED
      BY <1>2, <2>1, <2>2 DEF UpdateSystem, Rows
  <1>3. ASSUME RetireSystem PROVE RegistryTypeOK'
    <2>1. system' \in SystemRow
      <3>1. system \in SystemRow
        BY <1>3, <1>n DEF RetireSystem
      <3>2. system.version + 1 \in Nat
        BY <3>1 DEF SystemRow
      <3> QED
        BY <1>3, <3>1, <3>2 DEF RetireSystem, SystemRow
    <2>2. /\ model' \in [Models -> Rows(ModelScopes)]
          /\ agent' \in [Agents -> Rows(AgentScopes)]
      BY <1>3, <1>m, RetiredIfLiveRow DEF RetireSystem
    <2> QED
      BY <1>3, <2>1, <2>2 DEF RetireSystem, Rows
  <1>4. ASSUME NEW m \in Models, NEW s \in ModelScopes, CreateModel(m, s) PROVE RegistryTypeOK'
    BY <1>4, FreshRow DEF CreateModel
  <1>5. ASSUME NEW m \in Models, NEW s \in ModelScopes, UpdateModel(m, s) PROVE RegistryTypeOK'
    <2>1. model' = [model EXCEPT ![m] = Edited(model[m], s)]
      BY <1>5 DEF UpdateModel
    <2>2. Edited(model[m], s) \in Row(ModelScopes)
      BY <1>5, <1>m, EditedRow DEF UpdateModel
    <2>3. agent' \in [Agents -> Rows(AgentScopes)]
      BY <1>5, <1>m, TypeAgentsWithout DEF UpdateModel
    <2> QED
      BY <1>5, <2>1, <2>2, <2>3 DEF UpdateModel, Rows
  <1>6. ASSUME NEW m \in Models, NEW p \in People, NEW t \in Deadlines, ReviewModel(m, p, t)
        PROVE RegistryTypeOK'
    <2>1. model' = [model EXCEPT ![m] = Approve(model[m], p, t)]
      BY <1>6 DEF ReviewModel
    <2>2. t \in Nat
      BY IntervalAssumption DEF Deadlines
    <2>3. Approve(model[m], p, t) \in Row(ModelScopes)
      BY <1>6, <1>m, <2>2, ApprovedRow DEF ReviewModel
    <2> QED
      BY <1>6, <2>1, <2>3 DEF ReviewModel
  <1>7. ASSUME NEW m \in Models, RetireModel(m) PROVE RegistryTypeOK'
    <2>1. model' = [model EXCEPT ![m] = Retired(model[m])]
      BY <1>7 DEF RetireModel
    <2>2. Retired(model[m]) \in Row(ModelScopes)
      BY <1>7, <1>m, RetiredRow DEF RetireModel
    <2>3. agent' \in [Agents -> Rows(AgentScopes)]
      BY <1>7, TypeAgentsWithout DEF RetireModel
    <2> QED
      BY <1>7, <2>1, <2>2, <2>3 DEF RetireModel, Rows
  <1>8. ASSUME NEW a \in Agents, NEW s \in AgentScopes, CreateAgent(a, s) PROVE RegistryTypeOK'
    BY <1>8, FreshRow DEF CreateAgent
  <1>9. ASSUME NEW a \in Agents, NEW s \in AgentScopes, UpdateAgent(a, s) PROVE RegistryTypeOK'
    <2>1. agent' = [agent EXCEPT ![a] = Edited(agent[a], s)]
      BY <1>9 DEF UpdateAgent
    <2>2. Edited(agent[a], s) \in Row(AgentScopes)
      BY <1>9, <1>m, EditedRow DEF UpdateAgent
    <2> QED
      BY <1>9, <2>1, <2>2 DEF UpdateAgent
  <1>10. ASSUME NEW a \in Agents, NEW p \in People, NEW t \in Deadlines, ReviewAgent(a, p, t)
         PROVE RegistryTypeOK'
    <2>1. agent' = [agent EXCEPT ![a] = Approve(agent[a], p, t)]
      BY <1>10 DEF ReviewAgent
    <2>2. t \in Nat
      BY IntervalAssumption DEF Deadlines
    <2>3. Approve(agent[a], p, t) \in Row(AgentScopes)
      BY <1>10, <1>m, <2>2, ApprovedRow DEF ReviewAgent
    <2> QED
      BY <1>10, <2>1, <2>3 DEF ReviewAgent
  <1>11. ASSUME NEW a \in Agents, RetireAgent(a) PROVE RegistryTypeOK'
    <2>1. agent' = [agent EXCEPT ![a] = Retired(agent[a])]
      BY <1>11 DEF RetireAgent
    <2>2. Retired(agent[a]) \in Row(AgentScopes)
      BY <1>11, <1>m, RetiredRow DEF RetireAgent
    <2> QED
      BY <1>11, <2>1, <2>2 DEF RetireAgent
  <1>12. ASSUME NEW a \in Agents, SwitchAgent(a) PROVE RegistryTypeOK'
    <2>1. agent' = [agent EXCEPT ![a] = [agent[a] EXCEPT !.version = agent[a].version + 1]]
      BY <1>12 DEF SwitchAgent
    <2>2. agent[a] \in Row(AgentScopes)
      BY <1>12 DEF SwitchAgent, Registered, NoRow
    <2>3. agent[a].version + 1 \in Nat
      BY <2>2 DEF Row
    <2>4. [agent[a] EXCEPT !.version = agent[a].version + 1] \in Row(AgentScopes)
      BY <2>2, <2>3 DEF Row
    <2> QED
      BY <1>12, <2>1, <2>4 DEF SwitchAgent
  <1>13. ASSUME Tick PROVE RegistryTypeOK'
    BY <1>13 DEF Tick
  <1>14. ASSUME UNCHANGED registryVars PROVE RegistryTypeOK'
    BY <1>14 DEF registryVars
  <1> QED
    BY <1>1, <1>2, <1>3, <1>4, <1>5, <1>6, <1>7, <1>8, <1>9, <1>10, <1>11, <1>12, <1>13, <1>14
    DEF RegistryNext, SystemStep, ModelStep, AgentStep

-----------------------------------------------------------------------------
(* Reviews *)

\* A system has no assets before it exists.
NothingBefore ==
    system = NoSystem =>
        (\A m \in Models : model[m] = NoRow) /\ (\A a \in Agents : agent[a] = NoRow)

RegistryInv ==
    RegistryTypeOK /\ NothingBefore /\ ApprovalsAreIndependent /\ AgentsOnApprovedModels

LEMMA RowTypes ==
    ASSUME RegistryTypeOK
    PROVE  /\ \A m \in Models : model[m] \in Rows(ModelScopes)
           /\ \A a \in Agents : agent[a] \in Rows(AgentScopes)
           /\ model \in [Models -> Rows(ModelScopes)]
           /\ agent \in [Agents -> Rows(AgentScopes)]
  BY DEF RegistryTypeOK, Rows

LEMMA NothingStep ==
    ASSUME RegistryInv, [RegistryNext]_registryVars
    PROVE  NothingBefore'
  <1> SUFFICES ASSUME system' = NoSystem PROVE NothingBefore'
    BY DEF NothingBefore
  <1>n. Mutable => system' # NoSystem
    <2> SUFFICES ASSUME Mutable PROVE system' # NoSystem
      OBVIOUS
    <2>1. system \in SystemRow
      BY DEF RegistryInv, RegistryTypeOK, Mutable, NoSystem
    <2>2. RegistryTypeOK'
      BY TypeStep DEF RegistryInv
    <2>3. \A p \in People : ~CreateSystem(p)
      BY DEF CreateSystem, Mutable, NoSystem
    <2>4. system'.version = system.version + 1 \/ system' = system
      BY <2>1, <2>3 DEF RegistryNext, SystemStep, ModelStep, AgentStep, UpdateSystem, RetireSystem,
         CreateModel, UpdateModel, ReviewModel, RetireModel, CreateAgent, UpdateAgent, ReviewAgent,
         RetireAgent, SwitchAgent, Tick, registryVars, SystemRow
    <2>5. system.version + 1 # 0
      BY <2>1 DEF SystemRow
    <2> QED
      BY <2>4, <2>5 DEF NoSystem, Mutable
  <1>c. \A p \in People : ~CreateSystem(p)
    BY DEF CreateSystem, NoSystem
  <1>1. CASE \E a \in Agents : SwitchAgent(a)
    BY <1>1 DEF SwitchAgent, RegistryInv, NothingBefore, Registered, NoRow
  <1>2. CASE Tick \/ UNCHANGED registryVars
    BY <1>2 DEF Tick, registryVars, RegistryInv, NothingBefore
  <1> QED
    BY <1>n, <1>c, <1>1, <1>2 DEF RegistryNext, SystemStep, ModelStep, AgentStep, UpdateSystem,
       RetireSystem, CreateModel, UpdateModel, ReviewModel, RetireModel, CreateAgent, UpdateAgent,
       ReviewAgent, RetireAgent

\* The change of one row that leaves it unapproved keeps the others as they are.
LEMMA ReviewStep ==
    ASSUME RegistryInv, [RegistryNext]_registryVars
    PROVE  ApprovalsAreIndependent'
  <1>m. /\ \A m \in Models : model[m] \in Rows(ModelScopes)
        /\ \A a \in Agents : agent[a] \in Rows(AgentScopes)
        /\ model \in [Models -> Rows(ModelScopes)] /\ agent \in [Agents -> Rows(AgentScopes)]
    BY RowTypes DEF RegistryInv
  <1>i. ApprovalsAreIndependent
    BY DEF RegistryInv
  <1>d. \A t \in Deadlines : t \in Nat
    BY IntervalAssumption DEF Deadlines
  <1>w. ASSUME NEW m \in Models, NEW a \in Agents
        PROVE  AgentsWithout(m)[a] = agent[a] \/ ~Approved(AgentsWithout(m)[a])
    BY <1>m, InvalidatedRow DEF AgentsWithout
  <1>1. ASSUME NEW p \in People, CreateSystem(p) PROVE ApprovalsAreIndependent'
    BY <1>1 DEF CreateSystem, RegistryInv, NothingBefore, ApprovalsAreIndependent, Approved, NoRow
  <1>2. ASSUME NEW p \in People, UpdateSystem(p) PROVE ApprovalsAreIndependent'
    <2>1. CASE p # system.owner
      <3>1. /\ \A m \in Models : ~Approved(model'[m])
            /\ \A a \in Agents : ~Approved(agent'[a])
        BY <1>2, <2>1, <1>m, InvalidatedRow DEF UpdateSystem
      <3> QED
        BY <3>1 DEF ApprovalsAreIndependent
    <2>2. CASE p = system.owner
      <3>1. system \in SystemRow
        BY <1>2 DEF UpdateSystem, Mutable, NoSystem, RegistryInv, RegistryTypeOK
      <3>2. system'.owner = system.owner
        BY <1>2, <2>2, <3>1 DEF UpdateSystem, SystemRow
      <3>3. UNCHANGED <<model, agent>>
        BY <1>2, <2>2 DEF UpdateSystem
      <3> QED
        BY <1>i, <3>2, <3>3 DEF ApprovalsAreIndependent
    <2> QED
      BY <2>1, <2>2
  <1>3. ASSUME RetireSystem PROVE ApprovalsAreIndependent'
    <2>1. /\ \A m \in Models : ~Approved(model'[m])
          /\ \A a \in Agents : ~Approved(agent'[a])
      BY <1>3, <1>m, RetiredIfLiveRow DEF RetireSystem
    <2> QED
      BY <2>1 DEF ApprovalsAreIndependent
  <1>4. ASSUME NEW m \in Models, NEW s \in ModelScopes, CreateModel(m, s)
        PROVE  ApprovalsAreIndependent'
    BY <1>4, <1>i, <1>m DEF CreateModel, ApprovalsAreIndependent, Approved
  <1>5. ASSUME NEW m \in Models, NEW s \in ModelScopes, UpdateModel(m, s)
        PROVE  ApprovalsAreIndependent'
    <2>1. \A n \in Models : model'[n] = model[n] \/ ~Approved(model'[n])
      BY <1>5, <1>m, EditedRow DEF UpdateModel
    <2>2. \A a \in Agents : agent'[a] = agent[a] \/ ~Approved(agent'[a])
      BY <1>5, <1>w DEF UpdateModel
    <2>3. system' = system
      BY <1>5 DEF UpdateModel
    <2> QED
      BY <2>1, <2>2, <2>3, <1>i DEF ApprovalsAreIndependent
  <1>6. ASSUME NEW m \in Models, NEW p \in People, NEW t \in Deadlines, ReviewModel(m, p, t)
        PROVE  ApprovalsAreIndependent'
    <2>1. /\ model'[m] = Approve(model[m], p, t)
          /\ \A n \in Models \ {m} : model'[n] = model[n]
          /\ UNCHANGED <<system, agent>>
          /\ Live(model[m])
          /\ p # system.owner
      BY <1>6, <1>m DEF ReviewModel, ValidContext
    <2>2. ScopeMatches(model'[m]) /\ model'[m].review.by # system'.owner
      BY <2>1, <1>m, <1>d, ApprovedRow
    <2> QED
      BY <2>1, <2>2, <1>i DEF ApprovalsAreIndependent
  <1>7. ASSUME NEW m \in Models, RetireModel(m) PROVE ApprovalsAreIndependent'
    <2>1. \A n \in Models : model'[n] = model[n] \/ ~Approved(model'[n])
      BY <1>7, <1>m, RetiredRow DEF RetireModel, Approved
    <2>2. \A a \in Agents : agent'[a] = agent[a] \/ ~Approved(agent'[a])
      BY <1>7, <1>w DEF RetireModel
    <2>3. system' = system
      BY <1>7 DEF RetireModel
    <2> QED
      BY <2>1, <2>2, <2>3, <1>i DEF ApprovalsAreIndependent
  <1>8. ASSUME NEW a \in Agents, NEW s \in AgentScopes, CreateAgent(a, s)
        PROVE  ApprovalsAreIndependent'
    BY <1>8, <1>i, <1>m DEF CreateAgent, ApprovalsAreIndependent, Approved
  <1>9. ASSUME NEW a \in Agents, NEW s \in AgentScopes, UpdateAgent(a, s)
        PROVE  ApprovalsAreIndependent'
    <2>1. \A b \in Agents : agent'[b] = agent[b] \/ ~Approved(agent'[b])
      BY <1>9, <1>m, EditedRow DEF UpdateAgent
    <2>2. UNCHANGED <<system, model>>
      BY <1>9 DEF UpdateAgent
    <2> QED
      BY <2>1, <2>2, <1>i DEF ApprovalsAreIndependent
  <1>10. ASSUME NEW a \in Agents, NEW p \in People, NEW t \in Deadlines, ReviewAgent(a, p, t)
         PROVE  ApprovalsAreIndependent'
    <2>1. /\ agent'[a] = Approve(agent[a], p, t)
          /\ \A b \in Agents \ {a} : agent'[b] = agent[b]
          /\ UNCHANGED <<system, model>>
          /\ Live(agent[a])
          /\ p \notin {system.owner, agent[a].scope.owner}
      BY <1>10, <1>m DEF ReviewAgent, ValidContext
    <2>2. /\ ScopeMatches(agent'[a])
          /\ agent'[a].review.by \notin {system'.owner, agent'[a].scope.owner}
      BY <2>1, <1>m, <1>d, ApprovedRow
    <2> QED
      BY <2>1, <2>2, <1>i DEF ApprovalsAreIndependent
  <1>11. ASSUME NEW a \in Agents, RetireAgent(a) PROVE ApprovalsAreIndependent'
    <2>1. \A b \in Agents : agent'[b] = agent[b] \/ ~Approved(agent'[b])
      BY <1>11, <1>m, RetiredRow DEF RetireAgent, Approved
    <2>2. UNCHANGED <<system, model>>
      BY <1>11 DEF RetireAgent
    <2> QED
      BY <2>1, <2>2, <1>i DEF ApprovalsAreIndependent
  <1>12. ASSUME NEW a \in Agents, SwitchAgent(a) PROVE ApprovalsAreIndependent'
    <2>1. agent[a] \in Row(AgentScopes)
      BY <1>12, <1>m DEF SwitchAgent, Registered, NoRow, Rows
    <2>2. /\ agent'[a] = [agent[a] EXCEPT !.version = agent[a].version + 1]
          /\ \A b \in Agents \ {a} : agent'[b] = agent[b]
          /\ UNCHANGED <<system, model>>
      BY <1>12, <1>m DEF SwitchAgent
    <2>3. /\ agent'[a].status = agent[a].status
          /\ agent'[a].review = agent[a].review
          /\ agent'[a].scope = agent[a].scope
      BY <2>1, <2>2 DEF Row
    <2>4. ASSUME NEW b \in Agents, Approved(agent'[b])
          PROVE  /\ ScopeMatches(agent'[b])
                 /\ agent'[b].review.by \notin {system'.owner, agent'[b].scope.owner}
      <3>1. CASE b = a
        <4>1. /\ ScopeMatches(agent[a])
              /\ agent[a].review.by \notin {system.owner, agent[a].scope.owner}
          BY <2>3, <2>4, <3>1, <1>i DEF ApprovalsAreIndependent, Approved
        <4> QED
          BY <2>2, <2>3, <3>1, <4>1 DEF ScopeMatches
      <3>2. CASE b # a
        BY <2>2, <2>4, <3>2, <1>i DEF ApprovalsAreIndependent
      <3> QED
        BY <3>1, <3>2
    <2> QED
      BY <2>2, <2>4, <1>i DEF ApprovalsAreIndependent
  <1>13. ASSUME Tick \/ UNCHANGED registryVars PROVE ApprovalsAreIndependent'
    BY <1>13, <1>i DEF Tick, registryVars, ApprovalsAreIndependent
  <1> QED
    BY <1>1, <1>2, <1>3, <1>4, <1>5, <1>6, <1>7, <1>8, <1>9, <1>10, <1>11, <1>12, <1>13
    DEF RegistryNext, SystemStep, ModelStep, AgentStep

\* A step that approves no agent, and that keeps every model approved unless it
\* leaves the agents allowed to use it unapproved, keeps AgentsOnApprovedModels.
LEMMA KeepsDependencies ==
    ASSUME AgentsOnApprovedModels,
           \A a \in Agents : Approved(agent'[a]) =>
               Approved(agent[a]) /\ agent'[a].scope = agent[a].scope,
           \A m \in Models : Approved(model[m]) =>
               \/ Approved(model'[m])
               \/ \A a \in Agents :
                     Approved(agent[a]) /\ m \in agent[a].scope.allowed => ~Approved(agent'[a]),
           RegistryTypeOK
    PROVE  AgentsOnApprovedModels'
  <1> SUFFICES ASSUME NEW a \in Agents, Approved(agent'[a]), NEW m \in agent'[a].scope.allowed
               PROVE  Approved(model'[m])
    BY DEF AgentsOnApprovedModels
  <1>1. Approved(agent[a]) /\ m \in agent[a].scope.allowed
    OBVIOUS
  <1>2. Approved(model[m])
    BY <1>1 DEF AgentsOnApprovedModels
  <1>3. m \in Models
    <2>1. agent[a] \in Row(AgentScopes)
      BY <1>1, RowTypes DEF Rows, NoRow, Approved
    <2> QED
      BY <1>1, <2>1, AgentScopesAssumption DEF Row, AgentScope
  <1> QED
    BY <1>1, <1>2, <1>3

LEMMA DependencyStep ==
    ASSUME RegistryInv, [RegistryNext]_registryVars
    PROVE  AgentsOnApprovedModels'
  <1>m. /\ \A m \in Models : model[m] \in Rows(ModelScopes)
        /\ \A a \in Agents : agent[a] \in Rows(AgentScopes)
        /\ model \in [Models -> Rows(ModelScopes)] /\ agent \in [Agents -> Rows(AgentScopes)]
    BY RowTypes DEF RegistryInv
  <1>i. AgentsOnApprovedModels /\ RegistryTypeOK
    BY DEF RegistryInv
  <1>d. \A t \in Deadlines : t \in Nat
    BY IntervalAssumption DEF Deadlines
  <1>w. ASSUME NEW m \in Models
        PROVE  \A a \in Agents :
                 /\ AgentsWithout(m)[a] = agent[a] \/ ~Approved(AgentsWithout(m)[a])
                 /\ Approved(agent[a]) /\ m \in agent[a].scope.allowed =>
                        ~Approved(AgentsWithout(m)[a])
    BY <1>m, InvalidatedRow DEF AgentsWithout, Registered, Approved
  <1>1. ASSUME NEW p \in People, CreateSystem(p) PROVE AgentsOnApprovedModels'
    BY <1>1, <1>i DEF CreateSystem, AgentsOnApprovedModels
  <1>2. ASSUME NEW p \in People, UpdateSystem(p) PROVE AgentsOnApprovedModels'
    <2>1. CASE p # system.owner
      <3>1. \A a \in Agents : ~Approved(agent'[a])
        BY <1>2, <2>1, <1>m, InvalidatedRow DEF UpdateSystem
      <3> QED
        BY <3>1 DEF AgentsOnApprovedModels
    <2>2. CASE p = system.owner
      BY <1>2, <2>2, <1>i DEF UpdateSystem, AgentsOnApprovedModels
    <2> QED
      BY <2>1, <2>2
  <1>3. ASSUME RetireSystem PROVE AgentsOnApprovedModels'
    <2>1. \A a \in Agents : ~Approved(agent'[a])
      BY <1>3, <1>m, RetiredIfLiveRow DEF RetireSystem
    <2> QED
      BY <2>1 DEF AgentsOnApprovedModels
  <1>4. ASSUME NEW m \in Models, NEW s \in ModelScopes, CreateModel(m, s)
        PROVE  AgentsOnApprovedModels'
    <2>1. agent' = agent /\ \A n \in Models : Approved(model[n]) => Approved(model'[n])
      BY <1>4, <1>m DEF CreateModel, Approved, NoRow
    <2> QED
      BY <2>1, <1>i, KeepsDependencies
  <1>5. ASSUME NEW m \in Models, NEW s \in ModelScopes, UpdateModel(m, s)
        PROVE  AgentsOnApprovedModels'
    <2>1. \A n \in Models \ {m} : model'[n] = model[n]
      BY <1>5, <1>m DEF UpdateModel
    <2>2. CASE HadReview(model[m])
      <3>1. agent' = AgentsWithout(m)
        BY <1>5, <2>2 DEF UpdateModel
      <3> QED
        BY <2>1, <3>1, <1>w, <1>i, KeepsDependencies
    <2>3. CASE ~HadReview(model[m])
      <3>1. agent' = agent /\ ~Approved(model[m])
        BY <1>5, <2>3 DEF UpdateModel, HadReview
      <3> QED
        BY <2>1, <3>1, <1>i, KeepsDependencies
    <2> QED
      BY <2>2, <2>3
  <1>6. ASSUME NEW m \in Models, NEW p \in People, NEW t \in Deadlines, ReviewModel(m, p, t)
        PROVE  AgentsOnApprovedModels'
    <2>1. /\ model'[m] = Approve(model[m], p, t)
          /\ \A n \in Models \ {m} : model'[n] = model[n]
          /\ agent' = agent
          /\ Live(model[m])
      BY <1>6, <1>m DEF ReviewModel
    <2>2. Approved(model'[m])
      BY <2>1, <1>m, <1>d, ApprovedRow
    <2> QED
      BY <2>1, <2>2, <1>i, KeepsDependencies
  <1>7. ASSUME NEW m \in Models, RetireModel(m) PROVE AgentsOnApprovedModels'
    <2>1. agent' = AgentsWithout(m) /\ \A n \in Models \ {m} : model'[n] = model[n]
      BY <1>7, <1>m DEF RetireModel
    <2> QED
      BY <2>1, <1>w, <1>i, KeepsDependencies
  <1>8. ASSUME NEW a \in Agents, NEW s \in AgentScopes, CreateAgent(a, s)
        PROVE  AgentsOnApprovedModels'
    <2>1. model' = model /\ \A b \in Agents : agent'[b] = agent[b] \/ ~Approved(agent'[b])
      BY <1>8, <1>m DEF CreateAgent, Approved
    <2> QED
      BY <2>1, <1>i, KeepsDependencies
  <1>9. ASSUME NEW a \in Agents, NEW s \in AgentScopes, UpdateAgent(a, s)
        PROVE  AgentsOnApprovedModels'
    <2>1. model' = model /\ \A b \in Agents : agent'[b] = agent[b] \/ ~Approved(agent'[b])
      BY <1>9, <1>m, EditedRow DEF UpdateAgent
    <2> QED
      BY <2>1, <1>i, KeepsDependencies
  <1>10. ASSUME NEW a \in Agents, NEW p \in People, NEW t \in Deadlines, ReviewAgent(a, p, t)
         PROVE  AgentsOnApprovedModels'
    <2>1. /\ agent'[a] = Approve(agent[a], p, t)
          /\ \A b \in Agents \ {a} : agent'[b] = agent[b]
          /\ model' = model
          /\ Live(agent[a])
          /\ \A m \in agent[a].scope.allowed : Approved(model[m])
      BY <1>10, <1>m DEF ReviewAgent, Supports
    <2>2. agent'[a].scope = agent[a].scope
      BY <2>1, <1>m, <1>d, ApprovedRow
    <2> QED
      BY <2>1, <2>2, <1>i DEF AgentsOnApprovedModels
  <1>11. ASSUME NEW a \in Agents, RetireAgent(a) PROVE AgentsOnApprovedModels'
    <2>1. model' = model /\ \A b \in Agents : agent'[b] = agent[b] \/ ~Approved(agent'[b])
      BY <1>11, <1>m, RetiredRow DEF RetireAgent, Approved
    <2> QED
      BY <2>1, <1>i, KeepsDependencies
  <1>12. ASSUME NEW a \in Agents, SwitchAgent(a) PROVE AgentsOnApprovedModels'
    <2>1. agent[a] \in Row(AgentScopes)
      BY <1>12, <1>m DEF SwitchAgent, Registered, NoRow, Rows
    <2>2. /\ agent'[a] = [agent[a] EXCEPT !.version = agent[a].version + 1]
          /\ \A b \in Agents \ {a} : agent'[b] = agent[b]
          /\ model' = model
      BY <1>12, <1>m DEF SwitchAgent
    <2>3. agent'[a].status = agent[a].status /\ agent'[a].scope = agent[a].scope
      BY <2>1, <2>2 DEF Row
    <2>4. \A b \in Agents : agent'[b].status = agent[b].status /\ agent'[b].scope = agent[b].scope
      BY <2>2, <2>3
    <2> QED
      BY <2>2, <2>4, <1>i DEF AgentsOnApprovedModels, Approved
  <1>13. ASSUME Tick \/ UNCHANGED registryVars PROVE AgentsOnApprovedModels'
    BY <1>13, <1>i DEF Tick, registryVars, AgentsOnApprovedModels
  <1> QED
    BY <1>1, <1>2, <1>3, <1>4, <1>5, <1>6, <1>7, <1>8, <1>9, <1>10, <1>11, <1>12, <1>13
    DEF RegistryNext, SystemStep, ModelStep, AgentStep

-----------------------------------------------------------------------------
(* Versions *)

Counted(before, after) == after = before \/ after.version = before.version + 1
KeepsRetired(before, after) == before.status = "retired" => after.status = "retired"
KeepsRegistered(before, after) == Registered(before) => Registered(after)

\* What every step does to every row.
Follows(before, after) ==
    Counted(before, after) /\ KeepsRetired(before, after) /\ KeepsRegistered(before, after)

LEMMA RowStep ==
    ASSUME RegistryTypeOK, [RegistryNext]_registryVars
    PROVE  /\ \A m \in Models : Follows(model[m], model'[m])
           /\ \A a \in Agents : Follows(agent[a], agent'[a])
           /\ system.status = "retired" => system' = system
           /\ now <= now'
  <1> DEFINE Goal == /\ \A m \in Models : Follows(model[m], model'[m])
                     /\ \A a \in Agents : Follows(agent[a], agent'[a])
                     /\ system.status = "retired" => system' = system
                     /\ now <= now'
  <1> SUFFICES Goal
    OBVIOUS
  <1> USE DEF Follows, Counted, KeepsRetired, KeepsRegistered
  <1>m. /\ \A m \in Models : model[m] \in Rows(ModelScopes)
        /\ \A a \in Agents : agent[a] \in Rows(AgentScopes)
        /\ model \in [Models -> Rows(ModelScopes)] /\ agent \in [Agents -> Rows(AgentScopes)]
    BY RowTypes
  <1>d. \A t \in Deadlines : t \in Nat
    BY IntervalAssumption DEF Deadlines
  <1>n. now <= now'
    <2>1. now' = now \/ now' = now + 1
      BY DEF RegistryNext, SystemStep, ModelStep, AgentStep, CreateSystem, UpdateSystem,
         RetireSystem, CreateModel, UpdateModel, ReviewModel, RetireModel, CreateAgent, UpdateAgent,
         ReviewAgent, RetireAgent, SwitchAgent, Tick, registryVars
    <2> QED
      BY <2>1 DEF RegistryTypeOK
  <1>s. system.status = "retired" => system' = system
    BY DEF RegistryNext, SystemStep, ModelStep, AgentStep, CreateSystem, UpdateSystem,
       RetireSystem, CreateModel, UpdateModel, ReviewModel, RetireModel, CreateAgent, UpdateAgent,
       ReviewAgent, RetireAgent, SwitchAgent, Tick, registryVars, Mutable, NoSystem
  <1>l. \A row : Live(row) => row.status # "retired"
    BY DEF Live
  <1>r. \A S : \A row \in Row(S) : Registered(row)
    BY DEF Row, Registered
  <1>w. ASSUME NEW m \in Models
        PROVE  \A a \in Agents : Follows(agent[a], AgentsWithout(m)[a])
    BY <1>m, InvalidatedRow DEF AgentsWithout
  <1>1. ASSUME NEW p \in People, CreateSystem(p) PROVE Goal
    BY <1>1, <1>n, <1>s DEF CreateSystem
  <1>2. ASSUME NEW p \in People, UpdateSystem(p) PROVE Goal
    BY <1>2, <1>n, <1>s, <1>m, InvalidatedRow DEF UpdateSystem
  <1>3. ASSUME RetireSystem PROVE Goal
    BY <1>3, <1>n, <1>s, <1>m, RetiredIfLiveRow DEF RetireSystem
  <1>4. ASSUME NEW m \in Models, NEW s \in ModelScopes, CreateModel(m, s) PROVE Goal
    BY <1>4, <1>n, <1>s, <1>m DEF CreateModel, NoRow, Registered
  <1>5. ASSUME NEW m \in Models, NEW s \in ModelScopes, UpdateModel(m, s) PROVE Goal
    <2>1. Follows(model[m], Edited(model[m], s))
      BY <1>5, <1>m, <1>l, <1>r, EditedRow DEF UpdateModel
    <2> QED
      BY <1>5, <2>1, <1>n, <1>s, <1>m, <1>w DEF UpdateModel
  <1>6. ASSUME NEW m \in Models, NEW p \in People, NEW t \in Deadlines, ReviewModel(m, p, t)
        PROVE  Goal
    <2>1. Follows(model[m], Approve(model[m], p, t))
      BY <1>6, <1>m, <1>d, <1>l, <1>r, ApprovedRow DEF ReviewModel
    <2> QED
      BY <1>6, <2>1, <1>n, <1>s, <1>m DEF ReviewModel
  <1>7. ASSUME NEW m \in Models, RetireModel(m) PROVE Goal
    <2>1. Follows(model[m], Retired(model[m]))
      BY <1>7, <1>m, <1>r, RetiredRow DEF RetireModel
    <2> QED
      BY <1>7, <2>1, <1>n, <1>s, <1>m, <1>w DEF RetireModel
  <1>8. ASSUME NEW a \in Agents, NEW s \in AgentScopes, CreateAgent(a, s) PROVE Goal
    BY <1>8, <1>n, <1>s, <1>m DEF CreateAgent, NoRow, Registered
  <1>9. ASSUME NEW a \in Agents, NEW s \in AgentScopes, UpdateAgent(a, s) PROVE Goal
    <2>1. Follows(agent[a], Edited(agent[a], s))
      BY <1>9, <1>m, <1>l, <1>r, EditedRow DEF UpdateAgent
    <2> QED
      BY <1>9, <2>1, <1>n, <1>s, <1>m DEF UpdateAgent
  <1>10. ASSUME NEW a \in Agents, NEW p \in People, NEW t \in Deadlines, ReviewAgent(a, p, t)
         PROVE  Goal
    <2>1. Follows(agent[a], Approve(agent[a], p, t))
      BY <1>10, <1>m, <1>d, <1>l, <1>r, ApprovedRow DEF ReviewAgent
    <2> QED
      BY <1>10, <2>1, <1>n, <1>s, <1>m DEF ReviewAgent
  <1>11. ASSUME NEW a \in Agents, RetireAgent(a) PROVE Goal
    <2>1. Follows(agent[a], Retired(agent[a]))
      BY <1>11, <1>m, <1>r, RetiredRow DEF RetireAgent
    <2> QED
      BY <1>11, <2>1, <1>n, <1>s, <1>m DEF RetireAgent
  <1>12. ASSUME NEW a \in Agents, SwitchAgent(a) PROVE Goal
    <2>1. agent[a] \in Row(AgentScopes)
      BY <1>12, <1>m DEF SwitchAgent, Registered, NoRow, Rows
    <2>2. agent' = [agent EXCEPT ![a] = [agent[a] EXCEPT !.version = agent[a].version + 1]]
      BY <1>12 DEF SwitchAgent
    <2>3. Follows(agent[a], [agent[a] EXCEPT !.version = agent[a].version + 1])
      BY <2>1 DEF Row, Registered
    <2> QED
      BY <1>12, <2>2, <2>3, <1>n, <1>s, <1>m DEF SwitchAgent
  <1>13. ASSUME Tick \/ UNCHANGED registryVars PROVE Goal
    BY <1>13, <1>n, <1>s DEF Tick, registryVars
  <1> HIDE DEF Goal
  <1> QED
    BY <1>1, <1>2, <1>3, <1>4, <1>5, <1>6, <1>7, <1>8, <1>9, <1>10, <1>11, <1>12, <1>13
    DEF RegistryNext, SystemStep, ModelStep, AgentStep

-----------------------------------------------------------------------------
(* Theorems *)

LEMMA InvInit == RegistryInit => RegistryInv
  BY IntervalAssumption DEF RegistryInit, RegistryInv, RegistryTypeOK, NothingBefore,
     ApprovalsAreIndependent, AgentsOnApprovedModels, Approved, NoRow

LEMMA InvStep == RegistryInv /\ [RegistryNext]_registryVars => RegistryInv'
  BY TypeStep, NothingStep, ReviewStep, DependencyStep DEF RegistryInv

\* The rows of the inventory are always what the columns allow.
THEOREM RegistryTypeCorrect == RegistrySpec => []RegistryTypeOK
  BY InvInit, InvStep, PTL DEF RegistrySpec, RegistryInv

\* Whatever the order of edits, reviews, transfers and retirements, an approved
\* asset has the reviewed scope and an independent reviewer.
THEOREM ApprovalsAreIndependentHolds == RegistrySpec => []ApprovalsAreIndependent
  BY InvInit, InvStep, PTL DEF RegistrySpec, RegistryInv

\* No agent stays approved on a model that lost its approval.
THEOREM AgentsOnApprovedModelsHolds == RegistrySpec => []AgentsOnApprovedModels
  BY InvInit, InvStep, PTL DEF RegistrySpec, RegistryInv

\* Every change of a model adds one to its version.
THEOREM EveryChangeCountsHolds == RegistrySpec => EveryChangeCounts
  <1>1. RegistryInv /\ [RegistryNext]_registryVars =>
           [\A m \in Models :
                model'[m] # model[m] => model'[m].version = model[m].version + 1]_registryVars
    BY RowStep DEF RegistryInv, Follows, Counted
  <1> QED
    BY <1>1, InvInit, InvStep, PTL DEF RegistrySpec, EveryChangeCounts

\* Nothing that was retired comes back.
THEOREM RetiredForEverHolds == RegistrySpec => RetiredForEver
  <1>1. RegistryInv /\ [RegistryNext]_registryVars =>
           [/\ system.status = "retired" => system' = system
            /\ \A m \in Models : model[m].status = "retired" => model'[m].status = "retired"
            /\ \A a \in Agents : agent[a].status = "retired" => agent'[a].status = "retired"
           ]_registryVars
    BY RowStep DEF RegistryInv, Follows, KeepsRetired
  <1> QED
    BY <1>1, InvInit, InvStep, PTL DEF RegistrySpec, RetiredForEver

-----------------------------------------------------------------------------
(* Model routing *)

\* A request is a record with the fields of Idle.
IsRequest(q) ==
    q = [stage |-> q.stage, part |-> q.part, scope |-> q.scope, at |-> q.at,
         group |-> q.group, outcome |-> q.outcome, granted |-> q.granted]

InHand == {"opened", "asked", "answered", "rereading"}

\* The models of a scope: each is registered since, and unchanged as long as
\* its version is the one the scope names.
Tracks(scope) ==
    \A m \in DOMAIN scope.models :
        /\ m \in Models /\ Registered(model[m])
        /\ scope.models[m].version \in Nat
        /\ scope.models[m].until \in Nat
        /\ scope.models[m].version <= model[m].version
        /\ scope.models[m].version = model[m].version => scope.models[m] = ModelFacts(m)

\* What may still be allowed was granted when the agent was read again.
Settled(q) ==
    /\ ScopeFrom(q.part) = q.scope
    /\ Routable(q.scope, now)
    /\ q.group \in EligibleGroups(q.scope, now)
    => q.group \in q.granted

RequestInv(q) ==
    /\ IsRequest(q)
    /\ q.stage \in Stages
    /\ q.outcome \in Outcomes
    /\ q.group \in Groups \cup {NoGroup}
    /\ q.granted \subseteq Groups
    /\ q.stage = "reading" => q.part.agent.until \in Nat
    /\ q.stage \in InHand =>
           q.outcome = "pending" /\ q.scope.agent.until \in Nat /\ Tracks(q.scope)
    /\ q.stage = "rereading" => Settled(q)
    /\ q.outcome = "allowed" => q.stage = "done" /\ q.group \in q.granted

RoutingInv ==
    /\ RegistryInv
    /\ request \in [Requests -> {request[r] : r \in Requests}]
    /\ \A r \in Requests : RequestInv(request[r])

-----------------------------------------------------------------------------
(* Scopes *)

LEMMA RowFacts ==
    ASSUME RegistryTypeOK
    PROVE  /\ \A m \in Models : model[m].version \in Nat /\ model[m].review.until \in Nat
           /\ \A a \in Agents : agent[a].version \in Nat /\ agent[a].review.until \in Nat
           /\ \A m \in Models : Registered(model[m]) => model[m].scope.group \in Groups
  <1>1. \A S : \A row \in Rows(S) : row.version \in Nat /\ row.review.until \in Nat
    BY DEF Rows, Row, NoRow, NotReviewed, Review
  <1>2. \A m \in Models : Registered(model[m]) => model[m] \in Row(ModelScopes)
    BY RowTypes DEF Rows, NoRow, Registered
  <1> QED
    BY <1>1, <1>2, RowTypes, ModelScopesAssumption DEF Row, ModelScope

\* The scope the reader builds now tracks the models, whatever part it has.
LEMMA FreshScope ==
    ASSUME RegistryTypeOK, NEW part
    PROVE  /\ Tracks(ScopeFrom(part))
           /\ ScopeFrom(part).agent = part.agent
           /\ \A t : EligibleGroups(ScopeFrom(part), t) \subseteq Groups
  <1>1. /\ ScopeFrom(part).agent = part.agent
        /\ ScopeFrom(part).models = [m \in RegisteredModels |-> ModelFacts(m)]
    BY DEF ScopeFrom
  <1>2. /\ DOMAIN ScopeFrom(part).models = RegisteredModels
        /\ \A m \in RegisteredModels : ScopeFrom(part).models[m] = ModelFacts(m)
    BY <1>1
  <1>3. \A m \in RegisteredModels :
           /\ m \in Models /\ Registered(model[m])
           /\ ModelFacts(m).version = model[m].version
           /\ ModelFacts(m).until = model[m].review.until
           /\ ModelFacts(m).group = model[m].scope.group
    BY DEF RegisteredModels, ModelFacts
  <1>4. Tracks(ScopeFrom(part))
    BY <1>2, <1>3, RowFacts DEF Tracks
  <1>5. ASSUME NEW t PROVE EligibleGroups(ScopeFrom(part), t) \subseteq Groups
    BY <1>2, <1>3, RowFacts DEF EligibleGroups, Eligible
  <1> QED
    BY <1>1, <1>4, <1>5

\* A step of the inventory leaves a tracked scope tracked.
LEMMA StillTracks ==
    ASSUME RegistryTypeOK, RegistryTypeOK', [RegistryNext]_registryVars, NEW scope, Tracks(scope)
    PROVE  Tracks(scope)'
  <1> SUFFICES ASSUME NEW m \in DOMAIN scope.models
               PROVE  /\ m \in Models /\ Registered(model'[m])
                      /\ scope.models[m].version \in Nat
                      /\ scope.models[m].until \in Nat
                      /\ scope.models[m].version <= model'[m].version
                      /\ scope.models[m].version = model'[m].version =>
                             scope.models[m] = ModelFacts(m)'
    BY DEF Tracks
  <1>1. /\ m \in Models /\ Registered(model[m])
        /\ scope.models[m].version \in Nat
        /\ scope.models[m].until \in Nat
        /\ scope.models[m].version <= model[m].version
        /\ scope.models[m].version = model[m].version => scope.models[m] = ModelFacts(m)
    BY DEF Tracks
  <1>2. Follows(model[m], model'[m]) /\ model[m].version \in Nat
    BY <1>1, RowStep, RowFacts
  <1>3. CASE model'[m] = model[m]
    BY <1>1, <1>3 DEF ModelFacts, Digest, ScopeMatches
  <1>4. CASE model'[m].version = model[m].version + 1
    BY <1>1, <1>2, <1>4 DEF Follows, KeepsRegistered
  <1> QED
    BY <1>2, <1>3, <1>4 DEF Follows, Counted

\* If the models are those of a tracked scope after a step, they were before.
LEMMA UnchangedScope ==
    ASSUME RegistryTypeOK, [RegistryNext]_registryVars,
           NEW scope, Tracks(scope), NEW part, ScopeFrom(part)' = scope, part' = part
    PROVE  ScopeFrom(part) = scope
  <1>1. /\ scope.agent = part.agent /\ scope.system = part.system
        /\ scope.models = [m \in RegisteredModels' |-> ModelFacts(m)']
        /\ scope = [agent |-> part.agent, system |-> part.system,
                    models |-> [m \in RegisteredModels' |-> ModelFacts(m)']]
    BY DEF ScopeFrom
  <1>2. DOMAIN scope.models = RegisteredModels'
    BY <1>1
  <1>3. RegisteredModels' = RegisteredModels
    <2>1. RegisteredModels' \subseteq RegisteredModels
      BY <1>2 DEF Tracks, RegisteredModels
    <2>2. RegisteredModels \subseteq RegisteredModels'
      BY RowStep DEF RegisteredModels, Follows, KeepsRegistered
    <2> QED
      BY <2>1, <2>2
  <1>4. ASSUME NEW m \in RegisteredModels PROVE ModelFacts(m)' = ModelFacts(m)
    <2>1. scope.models[m].version = model'[m].version
      BY <1>1, <1>3 DEF ModelFacts
    <2>2. m \in Models /\ scope.models[m].version \in Nat
          /\ scope.models[m].version <= model[m].version
      BY <1>2, <1>3 DEF Tracks
    <2>3. model'[m] = model[m]
      BY <2>1, <2>2, RowStep, RowFacts DEF Follows, Counted
    <2> QED
      BY <2>3 DEF ModelFacts, Digest, ScopeMatches
  <1>5. [m \in RegisteredModels' |-> ModelFacts(m)'] = [m \in RegisteredModels |-> ModelFacts(m)]
    BY <1>3, <1>4
  <1> QED
    BY <1>1, <1>5 DEF ScopeFrom

\* What is eligible later was eligible before.
LEMMA EligibleBefore ==
    ASSUME NEW scope, scope.agent.until \in Nat, Tracks(scope),
           NEW t \in Nat, NEW u \in Nat, t <= u
    PROVE  /\ Routable(scope, u) => Routable(scope, t)
           /\ EligibleGroups(scope, u) \subseteq EligibleGroups(scope, t)
  <1>1. Governs(scope.agent, u) => Governs(scope.agent, t)
    BY DEF Governs
  <1>2. Eligible(scope, u) \subseteq Eligible(scope, t)
    BY DEF Eligible, Governs, Tracks
  <1>3. EligibleGroups(scope, u) \subseteq EligibleGroups(scope, t)
    BY <1>2 DEF EligibleGroups
  <1> QED
    BY <1>1, <1>3 DEF Routable

-----------------------------------------------------------------------------
(* Steps *)

\* A step of the inventory keeps what is known of a request.
LEMMA RegistryKeeps ==
    ASSUME RoutingInv, [RegistryNext]_registryVars, NEW r \in Requests,
           request'[r] = request[r]
    PROVE  RequestInv(request[r])'
  <1>1. PICK q : q = request[r]
    OBVIOUS
  <1>2. request'[r] = q
    BY <1>1
  <1>3. RegistryTypeOK /\ RegistryTypeOK'
    BY TypeStep DEF RoutingInv, RegistryInv
  <1>4. RequestInv(q)
    BY <1>1 DEF RoutingInv
  <1>5. Tracks(q.scope) => Tracks(q.scope)'
    BY <1>3, StillTracks
  <1>6. ASSUME q.stage = "rereading" PROVE Settled(q)'
    <2>1. Tracks(q.scope) /\ q.scope.agent.until \in Nat /\ Settled(q)
      BY <1>4, <1>6 DEF RequestInv, InHand
    <2>2. now \in Nat /\ now' \in Nat /\ now <= now'
      BY <1>3, RowStep DEF RegistryTypeOK
    <2>3. ScopeFrom(q.part)' = q.scope => ScopeFrom(q.part) = q.scope
      BY <1>3, <2>1, UnchangedScope
    <2>4. /\ Routable(q.scope, now') => Routable(q.scope, now)
          /\ EligibleGroups(q.scope, now') \subseteq EligibleGroups(q.scope, now)
      BY <2>1, <2>2, EligibleBefore
    <2>5. /\ Routable(q.scope, now)' = Routable(q.scope, now')
          /\ EligibleGroups(q.scope, now)' = EligibleGroups(q.scope, now')
      BY DEF Routable, EligibleGroups, Eligible, Governs
    <2> QED
      BY <2>1, <2>3, <2>4, <2>5 DEF Settled
  <1>7. RequestInv(q)'
    BY <1>4, <1>5, <1>6 DEF RequestInv, IsRequest
  <1> QED
    BY <1>2, <1>7 DEF RequestInv, IsRequest, Tracks, Settled, Routable, EligibleGroups, Eligible,
       Governs, ScopeFrom

\* While the inventory stands still, what holds of the new record of a request
\* holds of it in the new state.
LEMMA StandsStill ==
    ASSUME UNCHANGED registryVars, NEW r \in Requests, NEW q, q = request'[r], RequestInv(q)
    PROVE  RequestInv(request[r])'
  <1>1. UNCHANGED <<system, model, agent, now>>
    BY DEF registryVars
  <1>2. RequestInv(q)'
    <2>1. \A m : ModelFacts(m)' = ModelFacts(m) /\ (Registered(model[m])' <=> Registered(model[m]))
      BY <1>1 DEF ModelFacts, Digest, ScopeMatches, Registered
    <2>2. Tracks(q.scope) => Tracks(q.scope)'
      BY <1>1, <2>1 DEF Tracks
    <2>3. ScopeFrom(q.part)' = ScopeFrom(q.part)
      BY <1>1, <2>1 DEF ScopeFrom, RegisteredModels
    <2>4. Settled(q) => Settled(q)'
      BY <1>1, <2>3 DEF Settled, Routable, EligibleGroups, Eligible, Governs
    <2> QED
      BY <2>2, <2>4 DEF RequestInv, IsRequest
  <1>3. request'[r] = q
    OBVIOUS
  <1> QED
    BY ONLY <1>2, <1>3 DEF RequestInv, IsRequest, Tracks, Settled, Routable, EligibleGroups,
       Eligible, Governs, ScopeFrom

\* A record that is final, or of a process that died, promises nothing more.
LEMMA Finalized ==
    ASSUME RoutingInv, NEW r \in Requests, NEW outcome \in Outcomes, Finalize(r, outcome),
           outcome = "allowed" => request[r].group \in request[r].granted,
           UNCHANGED registryVars
    PROVE  RequestInv(request[r])'
  <1>1. RequestInv(request[r]) /\ request \in [Requests -> {request[s] : s \in Requests}]
    BY DEF RoutingInv
  <1>2. request'[r] = [request[r] EXCEPT !.stage = "done", !.outcome = outcome, !.part = NoScope,
                                         !.scope = NoScope, !.at = 0]
    BY <1>1 DEF Finalize
  <1>3. request'[r] = [stage |-> "done", part |-> NoScope, scope |-> NoScope, at |-> 0,
                       group |-> request[r].group, outcome |-> outcome,
                       granted |-> request[r].granted]
    BY <1>1, <1>2 DEF RequestInv, IsRequest
  <1>4. PICK q : q = request'[r]
    OBVIOUS
  <1>5. RequestInv(q)
    BY <1>1, <1>3, <1>4 DEF RequestInv, IsRequest, Stages, InHand
  <1> QED
    BY <1>4, <1>5, StandsStill

LEMMA RoutingKeeps ==
    ASSUME RoutingInv, NEW r \in Requests, RoutingStep(r), UNCHANGED registryVars
    PROVE  RequestInv(request[r])'
  <1>i. /\ RequestInv(request[r])
        /\ IsRequest(request[r])
        /\ request \in [Requests -> {request[s] : s \in Requests}]
        /\ RegistryTypeOK
    BY DEF RoutingInv, RequestInv, RegistryInv
  <1>1. ASSUME NEW a \in Agents, ReadAgent(r, a) PROVE RequestInv(request[r])'
    <2>1. request'[r] = [request[r] EXCEPT !.stage = "reading", !.part = AgentPart(a)]
      BY <1>1, <1>i DEF ReadAgent
    <2>2. PICK q : q = request'[r]
      OBVIOUS
    <2>3. q = [stage |-> "reading", part |-> AgentPart(a), scope |-> request[r].scope,
               at |-> request[r].at, group |-> request[r].group, outcome |-> request[r].outcome,
               granted |-> request[r].granted]
      BY <2>1, <2>2, <1>i DEF IsRequest
    <2>4. AgentPart(a).agent.until \in Nat
      BY <1>i, RowFacts DEF AgentPart, AgentFacts
    <2>5. request[r].outcome # "allowed"
      BY <1>1, <1>i DEF ReadAgent, At, RequestInv
    <2>6. RequestInv(q)
      BY <2>3, <2>4, <2>5, <1>i DEF RequestInv, IsRequest, Stages, InHand
    <2> QED
      BY <2>2, <2>6, StandsStill
  <1>2. ASSUME Open(r) PROVE RequestInv(request[r])'
    <2>1. request'[r] = [request[r] EXCEPT !.stage = "opened", !.outcome = "pending", !.at = now,
                                           !.scope = ScopeFrom(request[r].part), !.part = NoScope]
      BY <1>2, <1>i DEF Open
    <2>2. PICK q : q = request'[r]
      OBVIOUS
    <2>3. q = [stage |-> "opened", part |-> NoScope, scope |-> ScopeFrom(request[r].part),
               at |-> now, group |-> request[r].group, outcome |-> "pending",
               granted |-> request[r].granted]
      BY <2>1, <2>2, <1>i DEF IsRequest
    <2>4. /\ ScopeFrom(request[r].part).agent.until \in Nat
          /\ Tracks(ScopeFrom(request[r].part))
      BY <1>2, <1>i, FreshScope DEF Open, At, RequestInv
    <2>5. RequestInv(q)
      BY <2>3, <2>4, <1>i DEF RequestInv, IsRequest, Stages, InHand, Outcomes
    <2> QED
      BY <2>2, <2>5, StandsStill
  <1>3. ASSUME Refuse(r) \/ RouterFails(r) \/ RefuseAgain(r) PROVE RequestInv(request[r])'
    BY <1>3, Finalized DEF Refuse, RouterFails, RefuseAgain, Outcomes
  <1>4. ASSUME AskRouter(r) PROVE RequestInv(request[r])'
    <2>1. request'[r] = [request[r] EXCEPT !.stage = "asked"]
      BY <1>4, <1>i DEF AskRouter
    <2>2. PICK q : q = request'[r]
      OBVIOUS
    <2>3. q = [stage |-> "asked", part |-> request[r].part, scope |-> request[r].scope,
               at |-> request[r].at, group |-> request[r].group, outcome |-> request[r].outcome,
               granted |-> request[r].granted]
      BY <2>1, <2>2, <1>i DEF IsRequest
    <2>4. RequestInv(q)
      BY <2>3, <1>4, <1>i DEF AskRouter, At, RequestInv, IsRequest, Stages, InHand
    <2> QED
      BY <2>2, <2>4, StandsStill
  <1>5. ASSUME NEW g \in Groups \cup {NoGroup}, RouterAnswers(r, g) PROVE RequestInv(request[r])'
    <2>1. request'[r] = [request[r] EXCEPT !.stage = "answered", !.group = g]
      BY <1>5, <1>i DEF RouterAnswers
    <2>2. PICK q : q = request'[r]
      OBVIOUS
    <2>3. q = [stage |-> "answered", part |-> request[r].part, scope |-> request[r].scope,
               at |-> request[r].at, group |-> g, outcome |-> request[r].outcome,
               granted |-> request[r].granted]
      BY <2>1, <2>2, <1>i DEF IsRequest
    <2>4. RequestInv(q)
      BY <2>3, <1>5, <1>i DEF RouterAnswers, At, RequestInv, IsRequest, Stages, InHand
    <2> QED
      BY <2>2, <2>4, StandsStill
  <1>6. ASSUME NEW a \in Agents, ReadAgentAgain(r, a) PROVE RequestInv(request[r])'
    <2>1. request'[r] = [request[r] EXCEPT !.stage = "rereading", !.part = AgentPart(a),
                                           !.granted = Grants(a)]
      BY <1>6, <1>i DEF ReadAgentAgain
    <2>2. PICK q : q = request'[r]
      OBVIOUS
    <2>3. q = [stage |-> "rereading", part |-> AgentPart(a), scope |-> request[r].scope,
               at |-> request[r].at, group |-> request[r].group, outcome |-> request[r].outcome,
               granted |-> Grants(a)]
      BY <2>1, <2>2, <1>i DEF IsRequest
    <2>4. Grants(a) \subseteq Groups
      BY <1>i, FreshScope DEF Grants
    <2>5. Settled(q)
      <3>1. SUFFICES ASSUME ScopeFrom(AgentPart(a)) = request[r].scope,
                            Routable(request[r].scope, now),
                            request[r].group \in EligibleGroups(request[r].scope, now)
                     PROVE  request[r].group \in Grants(a)
        BY <2>3 DEF Settled
      <3>2. ScopeFrom(AgentPart(a)).agent.status = agent[a].status
        BY DEF ScopeFrom, AgentPart, AgentFacts
      <3>3. Registered(agent[a])
        BY <3>1, <3>2 DEF Routable, Governs, Registered
      <3> QED
        BY <3>1, <3>3 DEF Grants
    <2>6. RequestInv(q)
      BY <2>3, <2>4, <2>5, <1>6, <1>i DEF ReadAgentAgain, At, RequestInv, IsRequest, Stages, InHand
    <2> QED
      BY <2>2, <2>6, StandsStill
  <1>7. ASSUME Conclude(r) PROVE RequestInv(request[r])'
    <2>1. CASE Enforced(ScopeFrom(request[r].part), request[r].scope, request[r].group, now)
      <3>1. Finalize(r, "allowed")
        BY <1>7, <2>1 DEF Conclude
      <3>2. request[r].group \in request[r].granted
        BY <1>7, <2>1, <1>i DEF Conclude, At, RequestInv, Settled, Enforced
      <3> QED
        BY <3>1, <3>2, Finalized DEF Outcomes
    <2>2. CASE ~Enforced(ScopeFrom(request[r].part), request[r].scope, request[r].group, now)
      BY <1>7, <2>2, Finalized DEF Conclude, Outcomes
    <2> QED
      BY <2>1, <2>2
  <1>8. ASSUME Die(r) PROVE RequestInv(request[r])'
    <2>1. request'[r] = [Idle EXCEPT !.stage = "dead", !.outcome = request[r].outcome]
      BY <1>8, <1>i DEF Die
    <2>2. PICK q : q = request'[r]
      OBVIOUS
    <2>3. q = [stage |-> "dead", part |-> NoScope, scope |-> NoScope, at |-> 0, group |-> NoGroup,
               outcome |-> request[r].outcome, granted |-> {}]
      BY <2>1, <2>2 DEF Idle
    <2>4. request[r].outcome # "allowed"
      BY <1>8, <1>i DEF Die, RequestInv
    <2>5. RequestInv(q)
      BY <2>3, <2>4, <1>i DEF RequestInv, IsRequest, Stages, InHand
    <2> QED
      BY <2>2, <2>5, StandsStill
  <1> QED
    BY <1>1, <1>2, <1>3, <1>4, <1>5, <1>6, <1>7, <1>8 DEF RoutingStep

LEMMA RoutingInit == Init => RoutingInv
  <1> SUFFICES ASSUME Init PROVE RoutingInv
    OBVIOUS
  <1>1. RegistryInv
    BY InvInit DEF Init
  <1>2. request \in [Requests -> {request[r] : r \in Requests}]
    BY DEF Init
  <1>3. \A r \in Requests : RequestInv(request[r])
    <2>1. RequestInv(Idle)
      BY DEF RequestInv, IsRequest, Idle, Stages, Outcomes, InHand
    <2> QED
      BY <2>1 DEF Init
  <1> QED
    BY <1>1, <1>2, <1>3 DEF RoutingInv

LEMMA RoutingInvStep == RoutingInv /\ [Next]_vars => RoutingInv'
  <1> SUFFICES ASSUME RoutingInv, [Next]_vars PROVE RoutingInv'
    OBVIOUS
  <1>1. [RegistryNext]_registryVars
    BY DEF Next, vars, registryVars
  <1>2. RegistryInv'
    BY <1>1, InvStep DEF RoutingInv
  <1>3. CASE UNCHANGED request
    <2>1. \A r \in Requests : RequestInv(request[r])'
      BY <1>1, <1>3, RegistryKeeps
    <2>2. request' \in [Requests -> {request'[r] : r \in Requests}]
      BY <1>3 DEF RoutingInv
    <2> QED
      BY <1>2, <2>1, <2>2 DEF RoutingInv
  <1>4. ASSUME NEW r \in Requests, RoutingStep(r), UNCHANGED registryVars PROVE RoutingInv'
    <2>1. \E x : request' = [request EXCEPT ![r] = x]
      BY <1>4 DEF RoutingStep, ReadAgent, Open, Refuse, AskRouter, RouterFails, RouterAnswers,
         RefuseAgain, ReadAgentAgain, Conclude, Die, Finalize
    <2>2. /\ \A s \in Requests \ {r} : request'[s] = request[s]
          /\ request' \in [Requests -> {request'[s] : s \in Requests}]
      BY <2>1 DEF RoutingInv
    <2>3. \A s \in Requests : RequestInv(request[s])'
      BY <1>1, <1>4, <2>2, RegistryKeeps, RoutingKeeps
    <2> QED
      BY <1>2, <2>2, <2>3 DEF RoutingInv
  <1> QED
    BY <1>3, <1>4 DEF Next, vars

-----------------------------------------------------------------------------
(* Theorems *)

LEMMA InvImplies == RoutingInv => TypeOK /\ AllowedWasGranted
  BY DEF RoutingInv, RegistryInv, RequestInv, InHand, TypeOK, AllowedWasGranted

\* The rows and the requests are always well formed.
THEOREM TypeCorrect == Spec => []TypeOK
  BY RoutingInit, RoutingInvStep, InvImplies, PTL DEF Spec

\* A record says allowed only for a group the inventory granted the agent at
\* one instant after the Router's answer, for any number of requests, models
\* and agents and any interleaving of the two reads with the inventory.
THEOREM AllowedWasGrantedHolds == Spec => []AllowedWasGranted
  BY RoutingInit, RoutingInvStep, InvImplies, PTL DEF Spec

\* With routing requests running, approvals stay independent.
THEOREM RoutedApprovalsAreIndependent == Spec => []ApprovalsAreIndependent
  BY RoutingInit, RoutingInvStep, PTL DEF Spec, RoutingInv, RegistryInv

\* With routing requests running, approved agents have only approved models.
THEOREM RoutedAgentsOnApprovedModels == Spec => []AgentsOnApprovedModels
  BY RoutingInit, RoutingInvStep, PTL DEF Spec, RoutingInv, RegistryInv

-----------------------------------------------------------------------------
(* Routing exchanges *)

AttemptStages ==
    {"idle", "opening", "opened", "issuing", "asking", "answered", "rechecking", "finalizing",
     "ended"}
OnItsWay == {"opened", "issuing", "asking", "answered", "rechecking", "finalizing"}
Concluded == {"allowed", "blocked", "dependency_unavailable"}

AttemptFields == {"stage", "scope", "request", "answer", "result"}
IsAttempt(q) == q = [field \in AttemptFields |-> q[field]]

\* Evidence an attempt may keep: of its own operation, a violation of itself.
Fits(a, evidence) ==
    \/ evidence = NoEvidence
    \/ /\ evidence.kind \in Kinds
       /\ evidence.id \in Nat \ {0}
       /\ evidence.answers \in Attempts
       /\ IsItsOwn(a, evidence)

\* The Router answers honestly.
AnswerInv(x) ==
    /\ x.kind \in Kinds /\ x.id \in Nat \ {0} /\ x.answers \in Attempts
    /\ x.workflow = Command[x.answers].workflow
    /\ x.task = Command[x.answers].task
    /\ x.kind = "violation" => x.correlation_id = x.answers

SentInv(sent) ==
    LET a == sent.correlation_id IN
    /\ a \in Attempts
    /\ sent.agent = Command[a].agent
    /\ sent.workflow = Command[a].workflow
    /\ sent.task = Command[a].task
    /\ entries[a] # NoEntry
    /\ entries[a].record.scope_digest = sent.authorization.scope_digest

\* What is stored agrees with itself, and begins where the trail does.
EntryInv(a) ==
    entries[a] # NoEntry =>
        /\ entries[a] = Columns(entries[a].record)
        /\ entries[a].record.command = Command[a]
        /\ Fits(a, entries[a].record.evidence)
        /\ trail[a][1].action = "requested"

\* While an attempt is on its way its record is the pending one.
AttemptInv(a) ==
    LET q == attempt[a]
        record == Pending(a, q.scope)
    IN
    /\ IsAttempt(q) /\ q.stage \in AttemptStages
    /\ q.stage \in {"idle", "opening"} =>
           /\ entries[a] = NoEntry /\ trail[a] = <<>>
           /\ \A sent \in asked : sent.correlation_id # a
    /\ q.stage \in OnItsWay =>
           entries[a] = Columns(record) /\ trail[a] = <<Event("requested", record)>>
    /\ q.stage # "ended" => told[a] = 0
    /\ q.stage = "asking" =>
           /\ q.request.correlation_id = a
           /\ q.request.workflow = Command[a].workflow
           /\ q.request.task = Command[a].task
    /\ q.stage \in {"answered", "rechecking"} =>
           Fits(a, q.answer) /\ q.answer.kind \in Deciding
    /\ q.stage = "finalizing" => q.result.outcome \in Concluded /\ Fits(a, q.result.evidence)
    /\ told[a] \in {200, 422, 503} => entries[a] # NoEntry /\ ToldAs(a, told[a])

Distinct(a, b) ==
    entries[a] # NoEntry /\ entries[b] # NoEntry =>
        /\ entries[a].router_decision_id # 0 =>
               entries[a].router_decision_id # entries[b].router_decision_id
        /\ entries[a].violation_event_id # 0 =>
               entries[a].violation_event_id # entries[b].violation_event_id

ExchangeInv ==
    /\ attempt = [a \in Attempts |-> attempt[a]]
    /\ entries = [a \in Attempts |-> entries[a]]
    /\ trail = [a \in Attempts |-> trail[a]]
    /\ told = [a \in Attempts |-> told[a]]
    /\ IsFiniteSet(answers)
    /\ \A x \in answers : AnswerInv(x)
    /\ \A sent \in asked : SentInv(sent)
    /\ \A a \in Attempts : AttemptInv(a) /\ EntryInv(a)
    /\ \A a, b \in Attempts : a # b => Distinct(a, b)

LEMMA ExchangeInvInit == ExchangeInit => ExchangeInv
  BY FS_EmptySet DEF ExchangeInit, ExchangeInv, AttemptInv, EntryInv, Distinct, NotBegun, IsAttempt, AttemptFields,
     AttemptStages, OnItsWay

\* What the columns of a record are.
LEMMA ColumnFacts ==
    ASSUME NEW record
    PROVE  /\ Columns(record).record = record
           /\ Columns(record) # NoEntry
           /\ Columns(record).router_decision_id =
                  IF record.evidence.kind \in Deciding THEN record.evidence.id ELSE 0
           /\ Columns(record).violation_event_id =
                  IF record.evidence.kind = "violation" THEN record.evidence.id ELSE 0
  BY DEF Columns, NoEntry

LEMMA PendingFacts ==
    ASSUME NEW a, NEW scope
    PROVE  /\ Pending(a, scope).outcome = "pending"
           /\ Pending(a, scope).evidence = NoEvidence
           /\ Pending(a, scope).command = Command[a]
           /\ Pending(a, scope).scope_digest = ScopeDigest(scope)
           /\ Columns(Pending(a, scope)).router_decision_id = 0
           /\ Columns(Pending(a, scope)).violation_event_id = 0
  BY ColumnFacts DEF Pending, NoEvidence, Deciding

LEMMA CompletedFacts ==
    ASSUME NEW a, NEW scope, NEW result
    PROVE  /\ Completed(Pending(a, scope), result).outcome = result.outcome
           /\ Completed(Pending(a, scope), result).evidence = result.evidence
           /\ Completed(Pending(a, scope), result).command = Command[a]
           /\ Completed(Pending(a, scope), result).scope_digest = ScopeDigest(scope)
  BY DEF Completed, Pending

LEMMA StaysFunction ==
    ASSUME NEW f, f = [a \in Attempts |-> f[a]], NEW b \in Attempts, NEW value, NEW g,
           g = [f EXCEPT ![b] = value]
    PROVE  g = [a \in Attempts |-> g[a]]
  OBVIOUS

\* An attempt is not concerned by the others.
LEMMA AttemptStays ==
    ASSUME NEW a \in Attempts, AttemptInv(a), EntryInv(a),
           attempt'[a] = attempt[a], entries'[a] = entries[a], trail'[a] = trail[a],
           told'[a] = told[a],
           \A sent \in asked' \ asked : sent.correlation_id # a
    PROVE  AttemptInv(a)' /\ EntryInv(a)'
  BY DEF AttemptInv, EntryInv, ToldAs

LEMMA ExchangeInvImplies == ExchangeInv => ExchangesAreRecorded /\ EvidenceIsItsOwn
  <1> SUFFICES ASSUME ExchangeInv
               PROVE  ExchangesAreRecorded /\ EvidenceIsItsOwn
    OBVIOUS
  <1> USE DEF ExchangeInv
  <1>1. ASSUME NEW sent \in asked
        PROVE  AskedAs(sent.correlation_id, sent)
    <2> DEFINE a == sent.correlation_id
    <2>1. /\ a \in Attempts /\ entries[a] # NoEntry
          /\ entries[a].record.command.agent = sent.agent
          /\ entries[a].record.scope_digest = sent.authorization.scope_digest
          /\ trail[a][1].action = "requested"
      BY DEF SentInv, EntryInv
    <2>2. \A b \in Attempts : entries[b] # NoEntry => Readable(entries[b])
      BY DEF EntryInv, Readable
    <2>3. a \in Listed(sent.agent)
      BY <2>1, <2>2 DEF Listed
    <2> QED
      BY <2>1, <2>3 DEF AskedAs
  <1>2. \A a \in Attempts : told[a] \in {200, 422, 503} => entries[a] # NoEntry /\ ToldAs(a, told[a])
    BY DEF AttemptInv
  <1>3. ASSUME NEW a \in Attempts, Evidence(a) # NoEvidence
        PROVE  /\ IsItsOwn(a, Evidence(a))
               /\ \A b \in Attempts \ {a} : Evidence(b) # Evidence(a)
    <2>1. /\ entries[a] # NoEntry /\ Evidence(a) = entries[a].record.evidence
          /\ Evidence(a).kind \in Kinds /\ Evidence(a).id \in Nat \ {0}
          /\ IsItsOwn(a, Evidence(a))
          /\ entries[a] = Columns(entries[a].record)
      BY <1>3 DEF Evidence, EntryInv, Fits
    <2>2. ASSUME NEW b \in Attempts \ {a}, Evidence(b) = Evidence(a)
          PROVE  FALSE
      <3>1. entries[b] # NoEntry /\ Evidence(b) = entries[b].record.evidence
            /\ entries[b] = Columns(entries[b].record)
        BY <1>3, <2>2 DEF Evidence, EntryInv
      <3>2. Distinct(a, b)
        OBVIOUS
      <3>3. /\ entries[a].router_decision_id =
                    IF Evidence(a).kind \in Deciding THEN Evidence(a).id ELSE 0
            /\ entries[a].violation_event_id =
                    IF Evidence(a).kind = "violation" THEN Evidence(a).id ELSE 0
        BY <2>1, ColumnFacts
      <3>4. /\ entries[b].router_decision_id = entries[a].router_decision_id
            /\ entries[b].violation_event_id = entries[a].violation_event_id
        BY <2>2, <3>1, <3>3, ColumnFacts
      <3>5. entries[a].router_decision_id # 0 \/ entries[a].violation_event_id # 0
        BY <2>1, <3>3 DEF Kinds, Deciding
      <3> QED
        BY <2>1, <3>1, <3>2, <3>4, <3>5 DEF Distinct
    <2> QED
      BY <2>1, <2>2
  <1> QED
    BY <1>1, <1>2, <1>3 DEF ExchangesAreRecorded, EvidenceIsItsOwn

\* An attempt on its way moves on, without a record: the others and the
\* records are as they were.
LEMMA OnTheWay ==
    ASSUME ExchangeInv, NEW a \in Attempts, NEW q,
           attempt' = [attempt EXCEPT ![a] = q],
           IsAttempt(q), q.scope = attempt[a].scope,
           attempt[a].stage \in OnItsWay, q.stage \in OnItsWay,
           UNCHANGED <<entries, trail, told, answers>>,
           \A sent \in asked' \ asked : sent.correlation_id = a /\ SentInv(sent),
           q.stage = "asking" =>
               /\ q.request.correlation_id = a
               /\ q.request.workflow = Command[a].workflow
               /\ q.request.task = Command[a].task,
           q.stage \in {"answered", "rechecking"} => Fits(a, q.answer) /\ q.answer.kind \in Deciding,
           q.stage = "finalizing" => q.result.outcome \in Concluded /\ Fits(a, q.result.evidence)
    PROVE  ExchangeInv'
  <1>1. attempt'[a] = q /\ \A b \in Attempts \ {a} : attempt'[b] = attempt[b]
    BY DEF ExchangeInv
  <1>2. AttemptInv(a) /\ EntryInv(a) /\ told[a] = 0
    BY DEF ExchangeInv, AttemptInv, OnItsWay
  <1>3. AttemptInv(a)'
    BY <1>1, <1>2 DEF AttemptInv, OnItsWay, AttemptStages
  <1>4. EntryInv(a)'
    BY <1>2 DEF EntryInv
  <1>5. ASSUME NEW b \in Attempts \ {a}
        PROVE  AttemptInv(b)' /\ EntryInv(b)'
    BY <1>1, AttemptStays DEF ExchangeInv
  <1>6. attempt' = [b \in Attempts |-> attempt'[b]]
    BY DEF ExchangeInv
  <1>7. \A sent \in asked' : SentInv(sent)'
    BY DEF ExchangeInv, SentInv
  <1> QED
    BY <1>3, <1>4, <1>5, <1>6, <1>7 DEF ExchangeInv, Distinct

\* An attempt that ends where it is leaves its records behind.
LEMMA Abandoned ==
    ASSUME ExchangeInv, NEW a \in Attempts, NEW status \in {0, 500},
           attempt[a].stage # "ended",
           attempt' = [attempt EXCEPT ![a] = Ended],
           told' = [told EXCEPT ![a] = status],
           UNCHANGED <<entries, trail, answers, asked>>
    PROVE  ExchangeInv'
  <1>1. attempt'[a] = Ended /\ \A b \in Attempts \ {a} : attempt'[b] = attempt[b]
    BY DEF ExchangeInv
  <1>2. told'[a] = status /\ \A b \in Attempts \ {a} : told'[b] = told[b]
    BY DEF ExchangeInv
  <1>3. IsAttempt(Ended) /\ Ended.stage = "ended"
    BY DEF IsAttempt, AttemptFields, Ended, NotBegun
  <1>4. AttemptInv(a)'
    BY <1>1, <1>2, <1>3 DEF AttemptInv, OnItsWay, AttemptStages
  <1>5. EntryInv(a)'
    BY DEF ExchangeInv, EntryInv
  <1>6. ASSUME NEW b \in Attempts \ {a}
        PROVE  AttemptInv(b)' /\ EntryInv(b)'
    BY <1>1, <1>2, AttemptStays DEF ExchangeInv
  <1>7. attempt' = [b \in Attempts |-> attempt'[b]]
    BY StaysFunction DEF ExchangeInv
  <1>8. told' = [b \in Attempts |-> told'[b]]
    BY StaysFunction DEF ExchangeInv
  <1> QED
    BY <1>4, <1>5, <1>6, <1>7, <1>8 DEF ExchangeInv, Distinct, SentInv

\* A record is written by its own attempt: it keeps the scope the Router was
\* asked with, and shares its evidence with no other record.
LEMMA Written ==
    ASSUME ExchangeInv, NEW a \in Attempts, NEW record, NEW action,
           entries' = [entries EXCEPT ![a] = Columns(record)],
           trail' = [trail EXCEPT ![a] = Append(@, Event(action, record))],
           UNCHANGED <<answers, asked>>,
           attempt' = [b \in Attempts |-> attempt'[b]],
           told' = [b \in Attempts |-> told'[b]],
           \A b \in Attempts \ {a} : attempt'[b] = attempt[b] /\ told'[b] = told[b],
           record.command = Command[a], Fits(a, record.evidence),
           entries[a] # NoEntry => record.scope_digest = entries[a].record.scope_digest,
           trail'[a][1].action = "requested",
           Unused(a, Columns(record)),
           AttemptInv(a)'
    PROVE  ExchangeInv'
  <1>1. /\ entries'[a] = Columns(record) /\ entries'[a].record = record /\ entries'[a] # NoEntry
        /\ \A b \in Attempts \ {a} : entries'[b] = entries[b] /\ trail'[b] = trail[b]
    BY ColumnFacts DEF ExchangeInv
  <1>2. EntryInv(a)'
    BY <1>1 DEF EntryInv
  <1>3. ASSUME NEW b \in Attempts \ {a}
        PROVE  AttemptInv(b)' /\ EntryInv(b)'
    BY <1>1, AttemptStays DEF ExchangeInv
  <1>4. ASSUME NEW sent \in asked
        PROVE  SentInv(sent)'
    <2>1. CASE sent.correlation_id = a
      BY <1>1, <2>1 DEF ExchangeInv, SentInv
    <2>2. CASE sent.correlation_id # a
      BY <1>1, <2>2 DEF ExchangeInv, SentInv
    <2> QED
      BY <2>1, <2>2
  <1>5. ASSUME NEW b \in Attempts, NEW c \in Attempts, b # c
        PROVE  Distinct(b, c)'
    <2>1. CASE b # a /\ c # a
      BY <1>1, <1>5, <2>1 DEF ExchangeInv, Distinct
    <2>2. CASE b = a
      BY <1>1, <1>5, <2>2 DEF Distinct, Unused
    <2>3. CASE c = a
      BY <1>1, <1>5, <2>3 DEF Distinct, Unused
    <2> QED
      BY <2>1, <2>2, <2>3
  <1>6. /\ entries' = [b \in Attempts |-> entries'[b]]
        /\ trail' = [b \in Attempts |-> trail'[b]]
    BY DEF ExchangeInv
  <1> QED
    BY <1>2, <1>3, <1>4, <1>5, <1>6 DEF ExchangeInv

LEMMA ConcludesWell ==
    ASSUME ExchangeInv, NEW a \in Attempts, attempt[a].stage \in OnItsWay,
           NEW outcome \in Concluded, NEW source, NEW code, NEW evidence, Fits(a, evidence),
           Concludes(a, Result(outcome, source, code, evidence)),
           UNCHANGED <<entries, trail, told, answers, asked>>
    PROVE  ExchangeInv'
  <1> DEFINE result == Result(outcome, source, code, evidence)
             q == [attempt[a] EXCEPT !.stage = "finalizing", !.result = result]
  <1>1. IsAttempt(attempt[a])
    BY DEF ExchangeInv, AttemptInv
  <1>2. result.outcome = outcome /\ result.evidence = evidence
    BY DEF Result
  <1> HIDE DEF result
  <1>3. /\ IsAttempt(q) /\ q.stage = "finalizing" /\ q.scope = attempt[a].scope
        /\ q.result = result
    BY <1>1 DEF IsAttempt, AttemptFields
  <1>4. attempt' = [attempt EXCEPT ![a] = q]
    BY DEF Concludes, ExchangeInv, result
  <1> HIDE DEF q
  <1> QED
    BY <1>2, <1>3, <1>4, OnTheWay DEF OnItsWay

LEMMA GoesWell ==
    ASSUME ExchangeInv, NEW a \in Attempts, attempt[a].stage \in OnItsWay,
           NEW stage \in OnItsWay, Goes(a, stage),
           stage \in {"issuing", "rechecking"},
           stage = "rechecking" => attempt[a].stage = "answered",
           UNCHANGED <<entries, trail, told, answers, asked>>
    PROVE  ExchangeInv'
  <1> DEFINE q == [attempt[a] EXCEPT !.stage = stage]
  <1>1. AttemptInv(a) /\ IsAttempt(attempt[a])
    BY DEF ExchangeInv, AttemptInv
  <1>2. /\ IsAttempt(q) /\ q.stage = stage /\ q.scope = attempt[a].scope
        /\ q.answer = attempt[a].answer
    BY <1>1 DEF IsAttempt, AttemptFields
  <1>3. attempt' = [attempt EXCEPT ![a] = q]
    BY DEF Goes, ExchangeInv
  <1> HIDE DEF q
  <1> QED
    <2>1. q.stage \in {"answered", "rechecking"} => Fits(a, q.answer) /\ q.answer.kind \in Deciding
      BY <1>1, <1>2 DEF AttemptInv
    <2>2. q.stage \in OnItsWay /\ q.stage # "asking" /\ q.stage # "finalizing"
      BY <1>2
    <2> QED
      BY <1>2, <1>3, <2>1, <2>2, OnTheWay

LEMMA Begun ==
    ASSUME ExchangeInv, NEW a \in Attempts, Begin(a)
    PROVE  ExchangeInv'
  <1> DEFINE q == [attempt[a] EXCEPT !.stage = "opening", !.scope = registry]
  <1>1. AttemptInv(a) /\ EntryInv(a) /\ IsAttempt(attempt[a]) /\ attempt[a].stage = "idle"
    BY DEF ExchangeInv, AttemptInv, Begin, Is
  <1>2. IsAttempt(q) /\ q.stage = "opening"
    BY <1>1 DEF IsAttempt, AttemptFields
  <1>3. attempt' = [attempt EXCEPT ![a] = q] /\ UNCHANGED <<entries, trail, told, answers, asked>>
    BY DEF Begin, ExchangeInv, external
  <1> HIDE DEF q
  <1>4. attempt'[a] = q /\ \A b \in Attempts \ {a} : attempt'[b] = attempt[b]
    BY <1>3 DEF ExchangeInv
  <1>5. AttemptInv(a)'
    BY <1>1, <1>2, <1>3, <1>4 DEF AttemptInv, OnItsWay, AttemptStages, ToldAs
  <1>6. \A b \in Attempts \ {a} : AttemptInv(b)' /\ EntryInv(b)'
    BY <1>3, <1>4, AttemptStays DEF ExchangeInv
  <1>7. attempt' = [b \in Attempts |-> attempt'[b]]
    BY <1>3, StaysFunction DEF ExchangeInv
  <1> QED
    BY <1>1, <1>3, <1>5, <1>6, <1>7 DEF ExchangeInv, Distinct, SentInv, EntryInv

LEMMA Intended ==
    ASSUME ExchangeInv, NEW a \in Attempts, NEW commit \in Commits, Intend(a, commit)
    PROVE  ExchangeInv'
  <1> DEFINE record == Pending(a, attempt[a].scope)
             q == IF Proceeds(commit) THEN [attempt[a] EXCEPT !.stage = "opened"] ELSE Ended
  <1>1. /\ AttemptInv(a) /\ IsAttempt(attempt[a]) /\ attempt[a].stage = "opening"
        /\ entries[a] = NoEntry /\ trail[a] = <<>> /\ told[a] = 0
    BY DEF ExchangeInv, AttemptInv, Intend, Is
  <1>2. /\ UNCHANGED <<asked, answers>>
        /\ attempt' = [attempt EXCEPT ![a] = q]
        /\ \E status \in {0, 500} :
               /\ told' = [told EXCEPT ![a] = status]
               /\ Proceeds(commit) => status = 0
    BY <1>1 DEF Intend, Goes, ExchangeInv, Tells, external
  <1>3. CASE commit = "failed"
    <2>1. ~Proceeds(commit)
      BY <1>3 DEF Proceeds
    <2>2. /\ UNCHANGED <<entries, trail>>
          /\ attempt' = [attempt EXCEPT ![a] = Ended]
          /\ told' = [told EXCEPT ![a] = 500]
      BY <1>3, <2>1 DEF Intend, Persist, Tells
    <2>3. attempt[a].stage # "ended" /\ UNCHANGED <<entries, trail, answers, asked>>
      BY <1>1, <1>2, <2>2
    <2> HIDE DEF q, record
    <2> QED
      BY <2>2, <2>3, Abandoned
  <1>4. CASE commit # "failed"
    <2>1. /\ entries' = [entries EXCEPT ![a] = Columns(record)]
          /\ trail' = [trail EXCEPT ![a] = Append(@, Event("requested", record))]
      BY <1>4 DEF Intend, Persist
    <2>2. trail'[a] = <<Event("requested", record)>>
      BY <1>1, <2>1 DEF ExchangeInv
    <2>3. trail'[a][1].action = "requested"
      BY <2>2 DEF Event
    <2>4. /\ IsAttempt(q) /\ q.stage \in {"opened", "ended"}
          /\ q.stage = "opened" => q.scope = attempt[a].scope
      BY <1>1 DEF IsAttempt, AttemptFields, Ended, NotBegun
    <2>5. PICK status \in {0, 500} :
              /\ told' = [told EXCEPT ![a] = status]
              /\ Proceeds(commit) => status = 0
      BY <1>2
    <2>6. q.stage = "opened" => status = 0
      BY <2>5 DEF Ended, NotBegun
    <2> HIDE DEF q
    <2>7. /\ attempt'[a] = q /\ told'[a] = status /\ entries'[a] = Columns(record)
          /\ \A b \in Attempts \ {a} : attempt'[b] = attempt[b] /\ told'[b] = told[b]
      BY <1>2, <2>1, <2>5 DEF ExchangeInv
    <2>8. AttemptInv(a)'
      BY <1>1, <2>2, <2>4, <2>6, <2>7 DEF AttemptInv, OnItsWay, AttemptStages, Pending
    <2>9. attempt' = [b \in Attempts |-> attempt'[b]] /\ told' = [b \in Attempts |-> told'[b]]
      <3>1. attempt' = [b \in Attempts |-> attempt'[b]]
        BY <1>2, StaysFunction DEF ExchangeInv
      <3>2. told' = [b \in Attempts |-> told'[b]]
        BY <2>5, StaysFunction DEF ExchangeInv
      <3> QED
        BY <3>1, <3>2
    <2>10. record.command = Command[a] /\ Fits(a, record.evidence) /\ Unused(a, Columns(record))
      BY PendingFacts DEF Fits, Unused
    <2>11. entries[a] # NoEntry => record.scope_digest = entries[a].record.scope_digest
      BY <1>1
    <2>12. /\ UNCHANGED <<answers, asked>>
           /\ \A b \in Attempts \ {a} : attempt'[b] = attempt[b] /\ told'[b] = told[b]
      BY <1>2, <2>7
    <2> HIDE DEF record
    <2> QED
      BY <2>1, <2>3, <2>8, <2>9, <2>10, <2>11, <2>12, Written
  <1> QED
    BY <1>3, <1>4

LEMMA AskedWell ==
    ASSUME ExchangeInv, NEW a \in Attempts, NEW kid \in Kids, Ask(a, kid)
    PROVE  ExchangeInv'
  <1> DEFINE sent == RouterRequest(a, attempt[a].scope, kid)
             q == [attempt[a] EXCEPT !.stage = "asking", !.request = sent]
  <1>1. AttemptInv(a) /\ IsAttempt(attempt[a]) /\ attempt[a].stage = "issuing"
    BY DEF ExchangeInv, AttemptInv, Ask, Is
  <1>2. /\ sent.correlation_id = a /\ sent.agent = Command[a].agent
        /\ sent.workflow = Command[a].workflow /\ sent.task = Command[a].task
        /\ sent.authorization.scope_digest = ScopeDigest(attempt[a].scope)
    BY DEF RouterRequest, Authorization
  <1>3. SentInv(sent)
    BY <1>1, <1>2, ColumnFacts, PendingFacts DEF SentInv, AttemptInv, OnItsWay
  <1>4. asked' = asked \cup {sent} /\ UNCHANGED <<entries, trail, told, answers>>
    BY DEF Ask
  <1>5. attempt' = [attempt EXCEPT ![a] = q]
    BY DEF Ask, ExchangeInv
  <1> HIDE DEF sent
  <1>6. IsAttempt(q) /\ q.stage = "asking" /\ q.scope = attempt[a].scope /\ q.request = sent
    BY <1>1 DEF IsAttempt, AttemptFields
  <1> HIDE DEF q
  <1>7. \A r \in asked' \ asked : r.correlation_id = a /\ SentInv(r)
    BY <1>2, <1>3, <1>4
  <1>8. attempt[a].stage \in OnItsWay /\ q.stage \in OnItsWay
    BY <1>1, <1>6 DEF OnItsWay
  <1> QED
    BY <1>2, <1>4, <1>5, <1>6, <1>7, <1>8, OnTheWay

\* What is trusted is of the operation that was asked.
LEMMA TrustedFits ==
    ASSUME ExchangeInv, NEW a \in Attempts, attempt[a].stage = "asking",
           NEW x \in answers, Trusted(attempt[a].request, x)
    PROVE  Fits(a, x)
  <1>1. /\ AnswerInv(x)
        /\ attempt[a].request.correlation_id = a
        /\ attempt[a].request.workflow = Command[a].workflow
        /\ attempt[a].request.task = Command[a].task
    BY DEF ExchangeInv, AttemptInv
  <1>2. CASE x.kind = "violation"
    BY <1>1, <1>2 DEF Trusted, ViolationBound, AnswerInv, Fits, IsItsOwn
  <1>3. CASE x.kind # "violation"
    BY <1>1, <1>3 DEF Trusted, DecisionBound, AnswerInv, Fits, IsItsOwn
  <1> QED
    BY <1>2, <1>3

LEMMA Received ==
    ASSUME ExchangeInv, NEW a \in Attempts, NEW x \in answers, Receive(a, x)
    PROVE  ExchangeInv'
  <1>1. /\ attempt[a].stage = "asking" /\ attempt[a].stage \in OnItsWay /\ Fits(a, NoEvidence)
        /\ UNCHANGED <<entries, trail, told, answers, asked>>
    BY DEF Receive, Is, OnItsWay, Fits, external
  <1>2. CASE ~Trusted(attempt[a].request, x)
    BY <1>1, <1>2, ConcludesWell DEF Receive, ByRouter, Concluded
  <1>3. CASE Trusted(attempt[a].request, x) /\ x.kind = "violation"
    BY <1>1, <1>3, TrustedFits, ConcludesWell DEF Receive, ByRouter, Concluded
  <1>4. CASE Trusted(attempt[a].request, x) /\ x.kind # "violation"
    <2> DEFINE stage == IF x.kind = "accepted" THEN "answered" ELSE "rechecking"
               q == [attempt[a] EXCEPT !.answer = x, !.stage = stage]
    <2>1. IsAttempt(attempt[a]) /\ Fits(a, x) /\ x.kind \in Deciding
      BY <1>1, <1>4, TrustedFits DEF ExchangeInv, AttemptInv, AnswerInv, Kinds, Deciding
    <2>2. attempt' = [attempt EXCEPT ![a] = q]
      BY <1>4 DEF Receive, ExchangeInv
    <2>3. IsAttempt(q) /\ q.stage = stage /\ q.scope = attempt[a].scope /\ q.answer = x
      BY <2>1 DEF IsAttempt, AttemptFields
    <2>4. stage \in {"answered", "rechecking"}
      OBVIOUS
    <2> HIDE DEF q, stage
    <2> QED
      BY <1>1, <2>1, <2>2, <2>3, <2>4, OnTheWay DEF OnItsWay
  <1> QED
    BY <1>2, <1>3, <1>4

LEMMA GateConcludes ==
    ASSUME ExchangeInv, NEW a \in Attempts, attempt[a].stage \in OnItsWay,
           NEW evidence, Fits(a, evidence), Gate(a, evidence),
           UNCHANGED <<entries, trail, told, answers, asked>>
    PROVE  ExchangeInv'
  BY ConcludesWell DEF Gate, ByRegistry, Concluded

LEMMA Rechecked ==
    ASSUME ExchangeInv, NEW a \in Attempts, Recheck(a)
    PROVE  ExchangeInv'
  <1>1. /\ attempt[a].stage \in OnItsWay /\ Fits(a, attempt[a].answer)
        /\ UNCHANGED <<entries, trail, told, answers, asked>>
    BY DEF Recheck, Is, OnItsWay, ExchangeInv, AttemptInv, external
  <1>2. PICK outcome, source, code :
            /\ outcome \in Concluded
            /\ Concludes(a, Result(outcome, source, code, attempt[a].answer))
    BY DEF Recheck, ByRouter, ByRegistry, Concluded
  <1> QED
    BY <1>1, <1>2, ConcludesWell

\* The final record, if it is committed, completes the pending one.
LEMMA FinalizedWell ==
    ASSUME ExchangeInv, NEW a \in Attempts, NEW commit \in Commits, FinalizeAttempt(a, commit)
    PROVE  ExchangeInv'
  <1> DEFINE pending == Pending(a, attempt[a].scope)
             record == Completed(pending, attempt[a].result)
             action == Action(record.outcome)
             status == IF Proceeds(commit) THEN Status(record.outcome) ELSE 500
  <1>1. /\ AttemptInv(a) /\ attempt[a].stage = "finalizing"
        /\ entries[a] = Columns(pending) /\ trail[a] = <<Event("requested", pending)>>
        /\ attempt[a].result.outcome \in Concluded /\ Fits(a, attempt[a].result.evidence)
    BY DEF ExchangeInv, AttemptInv, FinalizeAttempt, Is, OnItsWay
  <1>2. /\ attempt' = [attempt EXCEPT ![a] = Ended]
        /\ told' = [told EXCEPT ![a] = status]
        /\ UNCHANGED <<asked, answers>>
    BY DEF FinalizeAttempt, Tells, external
  <1>3. CASE commit = "failed"
    <2>1. status = 500 /\ UNCHANGED <<entries, trail>>
      BY <1>3 DEF FinalizeAttempt, Persist, Proceeds
    <2> QED
      <3>1. attempt[a].stage # "ended" /\ 500 \in {0, 500}
        BY <1>1
      <3>2. told' = [told EXCEPT ![a] = 500] /\ UNCHANGED <<entries, trail, answers, asked>>
        BY <1>2, <2>1
      <3> QED
        BY <1>2, <3>1, <3>2, Abandoned
  <1>4. CASE commit # "failed"
    <2>1. /\ entries' = [entries EXCEPT ![a] = Columns(record)]
          /\ trail' = [trail EXCEPT ![a] = Append(@, Event(action, record))]
          /\ Unused(a, Columns(record))
      BY <1>4 DEF FinalizeAttempt, Persist, Saves
    <2>2. /\ record.command = Command[a] /\ record.outcome = attempt[a].result.outcome
          /\ record.evidence = attempt[a].result.evidence
          /\ record.scope_digest = entries[a].record.scope_digest
      BY <1>1, ColumnFacts, PendingFacts, CompletedFacts
    <2>3. /\ trail'[a] = Append(<<Event("requested", pending)>>, Event(action, record))
          /\ entries'[a] = Columns(record) /\ attempt'[a] = Ended /\ told'[a] = status
          /\ \A b \in Attempts \ {a} : attempt'[b] = attempt[b] /\ told'[b] = told[b]
      BY <1>1, <1>2, <2>1 DEF ExchangeInv
    <2>4. status \in {200, 422, 503} => status = Status(record.outcome)
      OBVIOUS
    <2>5. Event("requested", pending).action = "requested" /\ Event(action, record).outcome = record.outcome
      BY DEF Event
    <2> HIDE DEF pending, record, action, status
    <2>6. /\ Len(trail'[a]) = 2 /\ trail'[a][1] = Event("requested", pending)
          /\ trail'[a][2] = Event(action, record)
      <3> DEFINE first == Event("requested", pending)
                 last == Event(action, record)
      <3>1. <<first>> \in Seq({first, last}) /\ Len(<<first>>) = 1 /\ <<first>>[1] = first
        OBVIOUS
      <3> HIDE DEF first, last
      <3>2. /\ Len(Append(<<first>>, last)) = 2 /\ Append(<<first>>, last)[1] = first
            /\ Append(<<first>>, last)[2] = last
        BY <3>1, AppendProperties
      <3> QED
        BY <2>3, <3>2 DEF first, last
    <2>7. IsAttempt(Ended) /\ Ended.stage = "ended"
      BY DEF IsAttempt, AttemptFields, Ended, NotBegun
    <2>8. /\ entries'[a] # NoEntry /\ entries'[a].record = record /\ record.outcome # "pending"
          /\ trail'[a][2].outcome = record.outcome /\ Len(trail'[a]) = 2
          /\ told'[a] \in {200, 422, 503} => told'[a] = Status(record.outcome)
      <3>1. entries'[a].record = record /\ entries'[a] # NoEntry
        BY <2>3, ColumnFacts
      <3>2. record.outcome # "pending"
        BY <1>1, <2>2 DEF Concluded
      <3>3. trail'[a][2].outcome = record.outcome /\ Len(trail'[a]) = 2
        BY <2>5, <2>6
      <3>4. told'[a] \in {200, 422, 503} => told'[a] = Status(record.outcome)
        BY <2>3, <2>4
      <3> QED
        BY <3>1, <3>2, <3>3, <3>4
    <2>9. AttemptInv(a)'
      <3>1. told'[a] \in {200, 422, 503} => ToldAs(a, told[a])'
        BY <2>8 DEF ToldAs
      <3> QED
        BY <2>3, <2>7, <2>8, <3>1 DEF AttemptInv, OnItsWay, AttemptStages
    <2>10. attempt' = [b \in Attempts |-> attempt'[b]]
      BY <1>2, StaysFunction DEF ExchangeInv
    <2>11. told' = [b \in Attempts |-> told'[b]]
      BY <1>2, StaysFunction DEF ExchangeInv
    <2>12. trail'[a][1].action = "requested"
      BY <2>5, <2>6
    <2> QED
      BY <1>1, <1>2, <2>1, <2>2, <2>3, <2>9, <2>10, <2>11, <2>12, Written
  <1> QED
    BY <1>3, <1>4

\* The Router answers what it was asked.
LEMMA AnsweredOne ==
    ASSUME ExchangeInv, NEW sent \in asked, AnswerOne(sent)
    PROVE  ExchangeInv'
  <1>1. PICK x \in AnswersTo(sent, Cardinality(answers) + 1) : answers' = answers \cup {x}
    BY DEF AnswerOne
  <1>2. SentInv(sent) /\ Cardinality(answers) \in Nat /\ IsFiniteSet(answers')
    BY <1>1, FS_CardinalityType, FS_AddElement DEF ExchangeInv
  <1>3. AnswerInv(x)
    BY <1>1, <1>2 DEF AnswersTo, Accepted, Rejected, Violation, AnswerInv, Kinds, SentInv
  <1>4. UNCHANGED <<attempt, entries, trail, asked, told>>
    BY DEF AnswerOne
  <1>5. \A a \in Attempts : AttemptInv(a)' /\ EntryInv(a)'
    BY <1>4, AttemptStays DEF ExchangeInv
  <1> QED
    BY <1>1, <1>2, <1>3, <1>4, <1>5 DEF ExchangeInv, SentInv, Distinct

LEMMA ExchangeInvStep == ExchangeInv /\ [ExchangeNext]_exchangeVars => ExchangeInv'
  <1> SUFFICES ASSUME ExchangeInv, [ExchangeNext]_exchangeVars
               PROVE  ExchangeInv'
    OBVIOUS
  <1>1. CASE UNCHANGED <<attempt, entries, trail, asked, answers, told>>
    <2>1. \A a \in Attempts : AttemptInv(a)' /\ EntryInv(a)'
      BY <1>1, AttemptStays DEF ExchangeInv
    <2> QED
      BY <1>1, <2>1 DEF ExchangeInv, SentInv, Distinct
  <1>2. CASE \E sent \in asked : AnswerOne(sent)
    BY <1>2, AnsweredOne
  <1>3. ASSUME NEW a \in Attempts, AttemptStep(a)
        PROVE  ExchangeInv'
    <2> USE DEF Is, OnItsWay, external
    <2>1. AttemptInv(a) /\ Fits(a, NoEvidence)
      BY DEF ExchangeInv, Fits
    <2>2. CASE Begin(a)
      BY <2>2, Begun
    <2>3. CASE \E commit \in Commits : Intend(a, commit) \/ FinalizeAttempt(a, commit)
      BY <2>3, Intended, FinalizedWell
    <2>4. CASE RefuseScope(a)
      BY <2>1, <2>4, ConcludesWell DEF RefuseScope, ByRegistry, Concluded
    <2>5. CASE GateBefore(a)
      <3>1. CASE Gate(a, NoEvidence)
        BY <2>1, <2>5, <3>1, GateConcludes DEF GateBefore
      <3>2. CASE Goes(a, "issuing")
        BY <2>5, <3>2, GoesWell DEF GateBefore
      <3> QED
        BY <2>5, <3>1, <3>2 DEF GateBefore
    <2>6. CASE IssueFails(a)
      BY <2>1, <2>6, ConcludesWell DEF IssueFails, ByRegistry, Concluded
    <2>7. CASE \E kid \in Kids : Ask(a, kid)
      BY <2>7, AskedWell
    <2>8. CASE RouterUnavailable(a)
      BY <2>1, <2>8, ConcludesWell DEF RouterUnavailable, ByRouter, Concluded
    <2>9. CASE \E x \in answers : Receive(a, x)
      BY <2>9, Received
    <2>10. CASE GateAfter(a)
      <3>1. CASE Gate(a, attempt[a].answer)
        BY <2>1, <2>10, <3>1, GateConcludes DEF GateAfter, AttemptInv
      <3>2. CASE Goes(a, "rechecking")
        BY <2>10, <3>2, GoesWell DEF GateAfter
      <3> QED
        BY <2>10, <3>1, <3>2 DEF GateAfter
    <2>11. CASE Recheck(a)
      BY <2>11, Rechecked
    <2>12. CASE DieAt(a)
      <3>1. told' = [told EXCEPT ![a] = 0]
        BY <2>1, <2>12 DEF DieAt, AttemptInv, ExchangeInv
      <3> QED
        BY <2>12, <3>1, Abandoned DEF DieAt
    <2> QED
      BY <1>3, <2>2, <2>3, <2>4, <2>5, <2>6, <2>7, <2>8, <2>9, <2>10, <2>11, <2>12 DEF AttemptStep
  <1> QED
    BY <1>1, <1>2, <1>3 DEF ExchangeNext, exchangeVars, EditRegistry

\* However commits fail and processes die, the Router was asked nothing that
\* is not on record, and callers are told what is recorded (execute, _persist).
THEOREM ExchangesAreRecordedHolds == ExchangeSpec => []ExchangesAreRecorded
  BY ExchangeInvInit, ExchangeInvStep, ExchangeInvImplies, PTL DEF ExchangeSpec

\* However answers are lost, late or swapped, a record holds evidence of its
\* own operation, and no two hold the same (decide, save).
THEOREM EvidenceIsItsOwnHolds == ExchangeSpec => []EvidenceIsItsOwn
  BY ExchangeInvInit, ExchangeInvStep, ExchangeInvImplies, PTL DEF ExchangeSpec
=============================================================================
