---------------------------- MODULE AssetRegistry ----------------------------
(***************************************************************************)
(* The inventory of one AI system: its models, its agents and the reviews  *)
(* that approve their scopes (InventoryService and the pure policy of      *)
(* domain/asset_registry.py).                                              *)
(*                                                                         *)
(* Every command locks the AISystem row before it reads the models and the *)
(* agents and holds the lock until its commit, so a command is one action. *)
(* It names the version it saw; some caller names the current one.  The    *)
(* system's owner or an administrator may call every command but the two   *)
(* reviews, so who calls is left out except there.  A digest is the scope  *)
(* it was computed from.  Agent versions also move when the kill switch    *)
(* changes state, under another lock: what that race does to them is the   *)
(* subject of RuntimeControl and no property here is about them.           *)
(***************************************************************************)
EXTENDS Integers, FiniteSetsExt

CONSTANTS
    Models,        \* model rows
    Agents,        \* agent rows
    Groups,        \* logical routing groups
    ModelScopes,   \* material scopes of a model
    AgentScopes,   \* material scopes of an agent
    People,        \* authenticated users
    Architects,    \* those holding the architecture approval area
    Security,      \* those holding the security approval area
    MaxInterval,   \* the longest review interval of the system's risk tier
    MaxTime,       \* bound: the clock
    MaxChanges     \* bound: changes to the rows of the system

\* A model scope: its routing group, whether it authorizes the data class of
\* the initiative, whether its other facts satisfy a review, and the instant
\* of its deprecation.
ModelScope == [group: Groups, covers: BOOLEAN, complete: BOOLEAN, deprecated: Nat]

\* An agent scope: its models, its owner, and whether its other facts satisfy
\* a review.
AgentScope == [allowed: SUBSET Models, owner: People, complete: BOOLEAN]

ASSUME ModelScopesAssumption == ModelScopes \subseteq ModelScope
ASSUME AgentScopesAssumption == AgentScopes \subseteq AgentScope

ASSUME PeopleAssumption == Architects \subseteq People /\ Security \subseteq People
ASSUME IntervalAssumption == MaxInterval \in Nat /\ MaxTime \in Nat

VARIABLES
    system,   \* the ai_systems row
    model,    \* the model_assets rows
    agent,    \* the agents rows
    now       \* the clock

registryVars == <<system, model, agent, now>>

-----------------------------------------------------------------------------
NotReviewed == [by |-> "nobody", until |-> 0]
Review(Scopes) == [scope: Scopes, by: People, until: Nat]

NoRow == [status |-> "none", review |-> NotReviewed, version |-> 0]
Row(Scopes) ==
    [status: {"draft", "approved", "retired"}, scope: Scopes,
     review: Review(Scopes) \cup {NotReviewed}, version: Nat]

NoSystem == [status |-> "none", owner |-> "nobody", version |-> 0]
SystemRow == [status: {"operational", "retired"}, owner: People, version: Nat]

ASSUME NamesAssumption == "nobody" \notin People

Registered(row) == row.status # "none"
Live(row) == row.status \in {"draft", "approved"}
Approved(row) == row.status = "approved"

\* The approved digest is that of the scope the row has.
ScopeMatches(row) == row.review # NotReviewed /\ row.review.scope = row.scope
IsCurrent(row, t) == row.review # NotReviewed /\ t < row.review.until

\* The bound on the changes of the system and its assets.
Changes ==
    system.version + MapThenSumSet(LAMBDA m : model[m].version, Models)
                   + MapThenSumSet(LAMBDA a : agent[a].version, Agents)
Bounded == Changes < MaxChanges

-----------------------------------------------------------------------------
(* Reviews and their invalidation *)

HadReview(row) == row.review # NotReviewed \/ Approved(row)

\* Mutation: the status is left as it was.
ClearedEvidence(row) == [row EXCEPT !.review = NotReviewed]

\* _clear_asset_review
Cleared(row) ==
    IF HadReview(row)
    THEN [row EXCEPT !.review = NotReviewed, !.status = IF @ = "retired" THEN @ ELSE "draft"]
    ELSE row

Invalidated(row) ==
    IF HadReview(row) THEN [Cleared(row) EXCEPT !.version = @ + 1] ELSE row

\* Mutation: the agents of a changed model are left alone.
AgentsKept(m) == agent

\* _invalidate_agents_for_model
AgentsWithout(m) ==
    [a \in Agents |->
        IF Registered(agent[a]) /\ m \in agent[a].scope.allowed
        THEN Invalidated(agent[a]) ELSE agent[a]]

Edited(row, scope) == [Cleared(row) EXCEPT !.scope = scope, !.version = @ + 1]
Retired(row) == [row EXCEPT !.status = "retired", !.version = @ + 1]
RetiredIfLive(row) == IF Live(row) THEN Retired(row) ELSE row

\* Independence and cadence, for a review until the instant "until".
ValidContext(reviewer, owners, until) ==
    /\ reviewer \notin owners
    /\ now < until /\ until <= now + MaxInterval

\* _apply_review_decision
Approve(row, reviewer, until) ==
    [row EXCEPT !.status = "approved", !.version = @ + 1,
                !.review = [scope |-> row.scope, by |-> reviewer, until |-> until]]

ReviewableModel(scope, until) ==
    scope.complete /\ now < scope.deprecated /\ until <= scope.deprecated
ReviewableAgent(scope) == scope.complete /\ scope.allowed # {}

\* An allowed model that supports an agent review until the instant "until".
Supports(m, until) ==
    /\ Approved(model[m]) /\ ScopeMatches(model[m]) /\ IsCurrent(model[m], now)
    /\ until <= model[m].review.until

-----------------------------------------------------------------------------
(* Commands on the system *)

Mutable == system.status = "operational"

CreateSystem(owner) ==
    /\ system = NoSystem
    /\ system' = [status |-> "operational", owner |-> owner, version |-> 1]
    /\ UNCHANGED <<model, agent, now>>

UpdateSystem(owner) ==
    /\ Mutable
    /\ system' = [system EXCEPT !.owner = owner, !.version = @ + 1]
    /\ IF owner # system.owner
       THEN /\ model' = [m \in Models |-> Invalidated(model[m])]
            /\ agent' = [a \in Agents |-> Invalidated(agent[a])]
       ELSE UNCHANGED <<model, agent>>
    /\ UNCHANGED now

RetireSystem ==
    /\ Mutable
    /\ system' = [system EXCEPT !.status = "retired", !.version = @ + 1]
    /\ model' = [m \in Models |-> RetiredIfLive(model[m])]
    /\ agent' = [a \in Agents |-> RetiredIfLive(agent[a])]
    /\ UNCHANGED now

(* Commands on a model *)

CreateModel(m, scope) ==
    /\ Mutable
    /\ model[m] = NoRow
    /\ model' = [model EXCEPT ![m] =
           [status |-> "draft", scope |-> scope, review |-> NotReviewed, version |-> 1]]
    /\ UNCHANGED <<system, agent, now>>

UpdateModel(m, scope) ==
    /\ Mutable
    /\ Live(model[m])
    /\ model' = [model EXCEPT ![m] = Edited(@, scope)]
    /\ agent' = IF HadReview(model[m]) THEN AgentsWithout(m) ELSE agent
    /\ UNCHANGED <<system, now>>

ReviewModel(m, reviewer, until) ==
    /\ Mutable
    /\ Live(model[m])
    /\ reviewer \in Architects
    /\ ValidContext(reviewer, {system.owner}, until)
    /\ ReviewableModel(model[m].scope, until)
    /\ model' = [model EXCEPT ![m] = Approve(@, reviewer, until)]
    /\ UNCHANGED <<system, agent, now>>

RetireModel(m) ==
    /\ Mutable
    /\ Live(model[m])
    /\ model' = [model EXCEPT ![m] = Retired(@)]
    /\ agent' = AgentsWithout(m)
    /\ UNCHANGED <<system, now>>

(* Commands on an agent *)

LiveModels == {m \in Models : Live(model[m])}

CreateAgent(a, scope) ==
    /\ Mutable
    /\ agent[a] = NoRow
    /\ scope.allowed \subseteq LiveModels
    /\ agent' = [agent EXCEPT ![a] =
           [status |-> "draft", scope |-> scope, review |-> NotReviewed, version |-> 1]]
    /\ UNCHANGED <<system, model, now>>

\* The models are validated only when the request changes them.
UpdateAgent(a, scope) ==
    /\ Mutable
    /\ Live(agent[a])
    /\ scope.allowed \subseteq LiveModels \/ scope.allowed = agent[a].scope.allowed
    /\ agent' = [agent EXCEPT ![a] = Edited(@, scope)]
    /\ UNCHANGED <<system, model, now>>

ReviewAgent(a, reviewer, until) ==
    /\ Mutable
    /\ Live(agent[a])
    /\ \A m \in agent[a].scope.allowed : Supports(m, until)
    /\ reviewer \in Security
    /\ ValidContext(reviewer, {system.owner, agent[a].scope.owner}, until)
    /\ ReviewableAgent(agent[a].scope)
    /\ agent' = [agent EXCEPT ![a] = Approve(@, reviewer, until)]
    /\ UNCHANGED <<system, model, now>>

RetireAgent(a) ==
    /\ Mutable
    /\ Live(agent[a])
    /\ agent' = [agent EXCEPT ![a] = Retired(@)]
    /\ UNCHANGED <<system, model, now>>

\* A transition of the kill switch (RuntimeControl!Change).
SwitchAgent(a) ==
    /\ Registered(agent[a])
    /\ agent' = [agent EXCEPT ![a].version = @ + 1]
    /\ UNCHANGED <<system, model, now>>

Tick ==
    /\ now < MaxTime
    /\ now' = now + 1
    /\ UNCHANGED <<system, model, agent>>

-----------------------------------------------------------------------------
RegistryInit ==
    /\ system = NoSystem
    /\ model = [m \in Models |-> NoRow]
    /\ agent = [a \in Agents |-> NoRow]
    /\ now = 0

Deadlines == 1..(MaxTime + MaxInterval)

SystemStep == RetireSystem \/ \E p \in People : CreateSystem(p) \/ UpdateSystem(p)
ModelStep(m) ==
    \/ \E s \in ModelScopes : CreateModel(m, s) \/ UpdateModel(m, s)
    \/ \E p \in People, t \in Deadlines : ReviewModel(m, p, t)
    \/ RetireModel(m)
AgentStep(a) ==
    \/ \E s \in AgentScopes : CreateAgent(a, s) \/ UpdateAgent(a, s)
    \/ \E p \in People, t \in Deadlines : ReviewAgent(a, p, t)
    \/ RetireAgent(a)
    \/ SwitchAgent(a)

RegistryNext ==
    \/ /\ Bounded
       /\ \/ SystemStep
          \/ \E m \in Models : ModelStep(m)
          \/ \E a \in Agents : AgentStep(a)
    \/ Tick

RegistrySpec == RegistryInit /\ [][RegistryNext]_registryVars

-----------------------------------------------------------------------------
(* Properties *)

\* The rows are what the columns of the tables allow.
RegistryTypeOK ==
    /\ system \in SystemRow \cup {NoSystem}
    /\ model \in [Models -> Row(ModelScopes) \cup {NoRow}]
    /\ agent \in [Agents -> Row(AgentScopes) \cup {NoRow}]
    /\ now \in Nat

\* An approved asset has, at every moment, the scope a person reviewed who owns
\* neither the asset nor the system now (review_model_scope, review_agent_scope
\* and what clears a review: update_model, update_agent, update_system).
ApprovalsAreIndependent ==
    /\ \A m \in Models : Approved(model[m]) =>
           ScopeMatches(model[m]) /\ model[m].review.by # system.owner
    /\ \A a \in Agents : Approved(agent[a]) =>
           /\ ScopeMatches(agent[a])
           /\ agent[a].review.by \notin {system.owner, agent[a].scope.owner}

\* No agent stays approved on a model that was changed, retired, or that lost
\* its approval (_invalidate_agents_for_model, _invalidate_system_asset_reviews).
AgentsOnApprovedModels ==
    \A a \in Agents : Approved(agent[a]) =>
        \A m \in agent[a].scope.allowed : Approved(model[m])

\* What was retired stays retired, whatever invalidation reaches it later
\* (_require_not_retired, _clear_asset_review).
RetiredForEver ==
    [][/\ system.status = "retired" => system' = system
       /\ \A m \in Models : model[m].status = "retired" => model'[m].status = "retired"
       /\ \A a \in Agents : agent[a].status = "retired" => agent'[a].status = "retired"]_registryVars

\* Every change of a model counts in its version, so that equal versions of a
\* model are equal models; the comparison of routing digests relies on it.
EveryChangeCounts ==
    [][\A m \in Models :
           model'[m] # model[m] => model'[m].version = model[m].version + 1]_registryVars
=============================================================================
