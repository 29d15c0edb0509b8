----------------------------- MODULE ModelRouting -----------------------------
(***************************************************************************)
(* Routing requests over the inventory (RequestModelRoutingDecision): each *)
(* reads the scope of an agent, persists a pending record, asks the kill   *)
(* switch and the external Router, then reads the scope again and decides. *)
(*                                                                         *)
(* The scope reader runs two statements of a READ COMMITTED transaction:   *)
(* the agent joined with its system, then the models of the system.  Both  *)
(* scopes a request works with may therefore be of two instants.  The gate *)
(* of the kill switch, the signer and the Router answer as they may; what  *)
(* the gate promises is the subject of RuntimeControl.  The cost ceiling,  *)
(* which only the agent's own scope decides, is left out.                  *)
(***************************************************************************)
EXTENDS AssetRegistry

CONSTANTS
    Requests   \* routing requests

VARIABLES
    request    \* what each request has read, its record and the Router's answer

vars == <<system, model, agent, now, request>>

-----------------------------------------------------------------------------
(* The scope a request reads *)

Digest(row) == IF row.review = NotReviewed THEN "none" ELSE row.review.scope

SystemFacts == [status |-> system.status, version |-> system.version]

AgentFacts(a) ==
    LET row == agent[a] IN
    [name |-> a, version |-> row.version, status |-> row.status, allowed |-> row.scope.allowed,
     digest |-> Digest(row), matches |-> ScopeMatches(row), until |-> row.review.until]

ModelFacts(m) ==
    LET row == model[m] IN
    [version |-> row.version, status |-> row.status,
     group |-> row.scope.group, covers |-> row.scope.covers,
     digest |-> Digest(row), matches |-> ScopeMatches(row), until |-> row.review.until]

RegisteredModels == {m \in Models : Registered(model[m])}

\* The first statement of the reader, and the scope after the second.
AgentPart(a) == [agent |-> AgentFacts(a), system |-> SystemFacts]
ScopeFrom(part) ==
    [agent |-> part.agent, system |-> part.system,
     models |-> [m \in RegisteredModels |-> ModelFacts(m)]]

Governs(facts, t) == facts.status = "approved" /\ facts.matches /\ t < facts.until

Eligible(scope, t) ==
    {m \in DOMAIN scope.models \cap scope.agent.allowed : Governs(scope.models[m], t)}
EligibleGroups(scope, t) ==
    {scope.models[m].group : m \in {m \in Eligible(scope, t) : scope.models[m].covers}}

\* evaluate_routing_scope: no block.
Routable(scope, t) ==
    /\ scope.system.status = "operational"
    /\ Governs(scope.agent, t)
    /\ EligibleGroups(scope, t) # {}

\* Mutation: the digests are not compared.
EnforcedFresh(scope, expected, group, t) ==
    Routable(scope, t) /\ group \in EligibleGroups(scope, t)

\* enforce_router_decision: no block.
Enforced(scope, expected, group, t) ==
    /\ scope = expected
    /\ Routable(scope, t)
    /\ group \in EligibleGroups(scope, t)

-----------------------------------------------------------------------------
NoScope == [agent |-> "none"]
NoGroup == "none"
Outcomes == {"none", "pending", "allowed", "blocked", "dependency_unavailable"}
Stages == {"idle", "reading", "opened", "asked", "answered", "rereading", "done", "dead"}

\* A request that has not begun.  "granted" records, when the agent's row is
\* read for the second time, the groups the inventory allows at that instant.
Idle ==
    [stage |-> "idle", part |-> NoScope, scope |-> NoScope, at |-> 0,
     group |-> NoGroup, outcome |-> "none", granted |-> {}]

Grants(a) ==
    IF Registered(agent[a]) /\ Routable(ScopeFrom(AgentPart(a)), now)
    THEN EligibleGroups(ScopeFrom(AgentPart(a)), now) ELSE {}

At(r, stage) == request[r].stage = stage

Finalize(r, outcome) ==
    request' = [request EXCEPT ![r].stage = "done", ![r].outcome = outcome,
                               ![r].part = NoScope, ![r].scope = NoScope, ![r].at = 0]

-----------------------------------------------------------------------------
(* RequestModelRoutingDecision.execute *)

ReadAgent(r, a) ==
    /\ At(r, "idle")
    /\ Registered(agent[a])
    /\ request' = [request EXCEPT ![r].stage = "reading", ![r].part = AgentPart(a)]

\* The models are read, the clock is read and the pending record is committed.
Open(r) ==
    /\ At(r, "reading")
    /\ request' = [request EXCEPT ![r].stage = "opened", ![r].outcome = "pending", ![r].at = now,
                                  ![r].scope = ScopeFrom(request[r].part), ![r].part = NoScope]

\* The scope blocks the request, or the gate or the signer refuses.
Refuse(r) ==
    /\ At(r, "opened")
    /\ \/ Finalize(r, "blocked")
       \/ Routable(request[r].scope, request[r].at) /\ Finalize(r, "dependency_unavailable")

\* The gate answers inactive and the authorization is signed.
AskRouter(r) ==
    /\ At(r, "opened")
    /\ Routable(request[r].scope, request[r].at)
    /\ request' = [request EXCEPT ![r].stage = "asked"]

RouterFails(r) ==
    /\ At(r, "asked")
    /\ \E outcome \in {"blocked", "dependency_unavailable"} : Finalize(r, outcome)

\* The Router names a group, of those asked for or not, or rejects the request.
RouterAnswers(r, group) ==
    /\ At(r, "asked")
    /\ request' = [request EXCEPT ![r].stage = "answered", ![r].group = group]

\* After an acceptance the gate is asked again and may refuse.
RefuseAgain(r) ==
    /\ At(r, "answered")
    /\ request[r].group # NoGroup
    /\ \E outcome \in {"blocked", "dependency_unavailable"} : Finalize(r, outcome)

ReadAgentAgain(r, a) ==
    /\ At(r, "answered")
    /\ request[r].scope.agent.name = a
    /\ request' = [request EXCEPT ![r].stage = "rereading", ![r].part = AgentPart(a),
                                  ![r].granted = Grants(a)]

Conclude(r) ==
    /\ At(r, "rereading")
    /\ LET scope == ScopeFrom(request[r].part) IN
       IF Enforced(scope, request[r].scope, request[r].group, now)
       THEN Finalize(r, "allowed") ELSE Finalize(r, "blocked")

\* The process dies, or the commit of a record fails.
Die(r) ==
    /\ request[r].stage \notin {"idle", "done", "dead"}
    /\ request' = [request EXCEPT ![r] =
           [Idle EXCEPT !.stage = "dead", !.outcome = request[r].outcome]]

-----------------------------------------------------------------------------
Init == RegistryInit /\ request = [r \in Requests |-> Idle]

RoutingStep(r) ==
    \/ \E a \in Agents : ReadAgent(r, a) \/ ReadAgentAgain(r, a)
    \/ Open(r)
    \/ Refuse(r)
    \/ AskRouter(r)
    \/ RouterFails(r)
    \/ \E group \in Groups \cup {NoGroup} : RouterAnswers(r, group)
    \/ RefuseAgain(r)
    \/ Conclude(r)
    \/ Die(r)

Next ==
    \/ RegistryNext /\ UNCHANGED request
    \/ \E r \in Requests : RoutingStep(r) /\ UNCHANGED registryVars

Spec == Init /\ [][Next]_vars

-----------------------------------------------------------------------------
(* Properties *)

\* The rows are what the tables allow, and a request is at one of its stages
\* with the record that stage has left.
TypeOK ==
    /\ RegistryTypeOK
    /\ \A r \in Requests :
          /\ request[r].stage \in Stages
          /\ request[r].outcome \in Outcomes
          /\ request[r].group \in Groups \cup {NoGroup}
          /\ request[r].granted \subseteq Groups
          /\ request[r].stage \in {"opened", "asked", "answered", "rereading"} =>
                 request[r].outcome = "pending"

\* A record says allowed only for a group the inventory granted the agent at
\* one instant of the request, after the Router had answered, although both
\* scopes it compares may be torn (execute, enforce_router_decision).
AllowedWasGranted ==
    \A r \in Requests :
        request[r].outcome = "allowed" => request[r].group \in request[r].granted
=============================================================================
