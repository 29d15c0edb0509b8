--------------------------- MODULE RoutingExchange ---------------------------
(***************************************************************************)
(* One routing attempt as an exchange with the external Router: the record *)
(* that is committed before the Router is asked, the request with its      *)
(* signed authorization, the answer, the evidence kept of it and what the  *)
(* caller is told (RequestModelRoutingDecision, PolicyModelRouterHttpAdapter,*)
(* SqlAlchemyModelRoutingDecisionStore).  What a scope grants is the       *)
(* subject of ModelRouting; here a scope carries the verdict of            *)
(* evaluate_routing_scope as a fact, and a digest is the facts it covers.  *)
(*                                                                         *)
(* The Router is external.  It answers each request at most once, honestly,*)
(* but an answer may be lost, be late or reach another attempt, which is   *)
(* what the bindings checked by the adapter are for.  A commit may fail,   *)
(* or take effect and yet be reported as failed, and a process may die.    *)
(***************************************************************************)
EXTENDS Naturals, FiniteSets, Sequences

CONSTANTS
    Attempts,       \* ids of the records, also correlation and authorization ids
    Command,        \* the command of each attempt: agent, workflow, task, workload, encodable
    Kids,           \* keys the issuer may sign with
    RoutingGroups,  \* logical model groups
    Refusals,       \* reason codes of evaluate_routing_scope
    MaxEdits        \* bound: how often the registry changes

VARIABLES
    registry,   \* the governed scope of the agents, as the registry has it
    edits,      \* how often the registry has changed
    attempt,    \* each attempt in the memory of its process
    entries,    \* table model_routing_decisions
    trail,      \* the audit events of each record
    asked,      \* external: the requests the Router has received
    answers,    \* external: the answers the Router has given
    told        \* external: what each caller has been answered

exchangeVars == <<registry, edits, attempt, entries, trail, asked, answers, told>>

NoCode == "none"

\* Commits: done, undone, or done although the caller sees a failure.
Commits == {"committed", "failed", "unknown"}

-----------------------------------------------------------------------------
(* The scope, the request and its authorization *)

\* GovernedRoutingScope.digest covers the version, what the scope refuses and
\* the groups of its models; the owners are not part of it.
ScopeDigest(scope) == <<scope.version, scope.refusal, scope.groups>>

\* The contract of the authorization holds fewer tokens and fewer decimals
\* of the cost than the request of the API does.
Encodable(command) == command.encodable

Authorization(a, scope, kid) ==
    [authorization_id |-> a, kid |-> kid, scope_digest |-> ScopeDigest(scope),
     workflow |-> Command[a].workflow, task |-> Command[a].task,
     workload |-> Command[a].workload]

\* build_router_request, and the authorization the payload requires.
RouterRequest(a, scope, kid) ==
    [correlation_id |-> a, agent |-> Command[a].agent, workflow |-> Command[a].workflow,
     task |-> Command[a].task, workload |-> Command[a].workload,
     authorization |-> Authorization(a, scope, kid)]

-----------------------------------------------------------------------------
(* The answers of the Router *)

Kinds == {"accepted", "rejected", "violation"}
Categories == {"authorization", "model_scope"}
States == {"absent", "present", "verified"}

\* An answer names what it has of the request it answers; "id" is the id of
\* the decision or of the violation event.
Accepted(request, id, group) ==
    [kind |-> "accepted", id |-> id, answers |-> request.correlation_id,
     workflow |-> request.workflow, task |-> request.task, group |-> group]
Rejected(request, id) ==
    [kind |-> "rejected", id |-> id, answers |-> request.correlation_id,
     workflow |-> request.workflow, task |-> request.task, workload |-> request.workload]
Violation(request, id, category, state) ==
    [kind |-> "violation", id |-> id, answers |-> request.correlation_id,
     correlation_id |-> request.correlation_id, category |-> category, state |-> state,
     agent |-> request.agent, workflow |-> request.workflow, task |-> request.task,
     workload |-> request.workload, authorization |-> request.authorization]

\* RuntimeViolationEvent.validate_semantics and validate_state.
Contractual(category, state) ==
    /\ category # "authorization" => state # "absent"
    /\ category = "model_scope" => state = "verified"

AnswersTo(request, id) ==
    {Accepted(request, id, group) : group \in RoutingGroups} \cup {Rejected(request, id)} \cup
    {Violation(request, id, reported.category, reported.state) :
        reported \in {r \in [category : Categories, state : States] :
                          Contractual(r.category, r.state)}}

\* _require_request_binding: a decision names neither the agent nor the
\* attempt, and an accepted one not even the workload.
DecisionBound(request, answer) ==
    /\ answer.workflow = request.workflow
    /\ answer.task = request.task
    /\ answer.kind = "rejected" => answer.workload = request.workload

\* Mutation: neither correlation nor authorization is compared.
ViolationOfOperation(request, answer) ==
    /\ answer.agent = request.agent
    /\ answer.workflow = request.workflow
    /\ answer.task = request.task
    /\ answer.workload = request.workload

\* _require_violation_binding.
ViolationBound(request, answer) ==
    /\ answer.correlation_id = request.correlation_id
    /\ ViolationOfOperation(request, answer)
    /\ answer.state # "absent"
    /\ answer.authorization = request.authorization
    /\ answer.category = "model_scope" => answer.state = "verified"

\* The adapter returns the answer; any other is ModelRouterUnavailable.
Trusted(request, answer) ==
    IF answer.kind = "violation" THEN ViolationBound(request, answer)
    ELSE DecisionBound(request, answer)

-----------------------------------------------------------------------------
(* Records *)

NoEvidence == [kind |-> "none"]
NoEntry == [outcome |-> "absent"]

\* _new_record, and finalize_routing_record.
Pending(a, scope) ==
    [outcome |-> "pending", source |-> "none", code |-> NoCode, evidence |-> NoEvidence,
     command |-> Command[a], scope_digest |-> ScopeDigest(scope), version |-> 1]
Completed(record, result) ==
    [record EXCEPT !.outcome = result.outcome, !.source = result.source, !.code = result.code,
                  !.evidence = result.evidence, !.version = @ + 1]

Result(outcome, source, code, evidence) ==
    [outcome |-> outcome, source |-> source, code |-> code, evidence |-> evidence]
ByRegistry(outcome, code, evidence) ==
    Result(outcome, "governance_registry", code, evidence)
ByRouter(outcome, code, evidence) ==
    Result(outcome, "policy_model_router", code, evidence)

\* _record_values: the ids of the evidence have columns of their own.
Deciding == {"accepted", "rejected"}
Columns(record) ==
    [record |-> record,
     router_decision_id |-> IF record.evidence.kind \in Deciding THEN record.evidence.id ELSE 0,
     violation_event_id |-> IF record.evidence.kind = "violation" THEN record.evidence.id ELSE 0]

\* Mutation: the columns are not unique.
Reused(a, row) == row.router_decision_id \in Nat
\* The columns router_decision_id and violation_event_id are unique.
Unused(a, row) ==
    \A b \in {b \in Attempts \ {a} : entries[b] # NoEntry} :
        /\ row.router_decision_id # 0 =>
               entries[b].router_decision_id # row.router_decision_id
        /\ row.violation_event_id # 0 =>
               entries[b].violation_event_id # row.violation_event_id

\* SqlAlchemyModelRoutingDecisionStore.save: inserts, or completes what is
\* pending at the version before.
Saves(a, record) ==
    /\ entries[a] # NoEntry =>
           /\ entries[a].record.outcome = "pending"
           /\ record.version = entries[a].record.version + 1
    /\ Unused(a, Columns(record))

\* _to_domain of a row whose columns agree with its evidence.
Readable(row) == row = Columns(row.record)
\* ListModelRoutingDecisions: nothing at all when a row is not readable.
Listed(agent) ==
    LET rows == {a \in Attempts : entries[a] # NoEntry /\ entries[a].record.command.agent = agent}
    IN IF \A a \in rows : Readable(entries[a]) THEN rows ELSE {}

Event(action, record) ==
    [action |-> action, version |-> record.version, outcome |-> record.outcome,
     code |-> record.code, evidence |-> record.evidence, scope_digest |-> record.scope_digest]

\* _persist: the record and its event, in one transaction.
Persist(a, record, action, commit) ==
    IF commit = "failed" THEN UNCHANGED <<entries, trail>>
    ELSE /\ entries' = [entries EXCEPT ![a] = Columns(record)]
         /\ trail' = [trail EXCEPT ![a] = Append(@, Event(action, record))]

-----------------------------------------------------------------------------
(* Attempts *)

NotBegun == [stage |-> "idle", scope |-> [version |-> 0], request |-> NoEvidence,
         answer |-> NoEvidence, result |-> NoEvidence]
Ended == [NotBegun EXCEPT !.stage = "ended"]

Is(a, stage) == attempt[a].stage = stage
Goes(a, stage) == attempt' = [attempt EXCEPT ![a].stage = stage]
Concludes(a, result) ==
    attempt' = [attempt EXCEPT ![a].stage = "finalizing", ![a].result = result]

\* The router's status: 200, 422, 503; an exception ends the request with 500.
Status(outcome) ==
    CASE outcome = "allowed" -> 200
      [] outcome = "blocked" -> 422
      [] outcome = "dependency_unavailable" -> 503
Tells(a, status) == told' = [told EXCEPT ![a] = status]

world == <<registry, edits>>
external == <<asked, answers>>

\* The agent exists and the caller owns it or its system.
Begin(a) ==
    /\ Is(a, "idle")
    /\ attempt' = [attempt EXCEPT ![a].stage = "opening", ![a].scope = registry]
    /\ UNCHANGED <<world, external, entries, trail, told>>

\* Mutation: a commit that failed is not noticed.
GoesOn(commit) == commit \in Commits
\* _persist raises unless the commit is known to have taken effect.
Proceeds(commit) == commit = "committed"

Intend(a, commit) ==
    /\ Is(a, "opening")
    /\ Persist(a, Pending(a, attempt[a].scope), "requested", commit)
    /\ IF Proceeds(commit) THEN Goes(a, "opened") /\ UNCHANGED told
       ELSE attempt' = [attempt EXCEPT ![a] = Ended] /\ Tells(a, 500)
    /\ UNCHANGED <<world, external>>

\* evaluate_routing_scope refuses.
RefuseScope(a) ==
    /\ Is(a, "opened")
    /\ attempt[a].scope.refusal # NoCode
    /\ Concludes(a, ByRegistry("blocked", attempt[a].scope.refusal, NoEvidence))
    /\ UNCHANGED <<world, external, entries, trail, told>>

\* _runtime_control_decision, before and after the Router is asked.
Gate(a, evidence) ==
    \/ Concludes(a, ByRegistry("blocked", "kill_switch_engaged", evidence))
    \/ Concludes(a, ByRegistry("dependency_unavailable", "runtime_control_unavailable", evidence))

GateBefore(a) ==
    /\ Is(a, "opened")
    /\ attempt[a].scope.refusal = NoCode
    /\ Goes(a, "issuing") \/ Gate(a, NoEvidence)
    /\ UNCHANGED <<world, external, entries, trail, told>>

\* The signer, its key or the contract of the authorization fails.
IssueFails(a) ==
    /\ Is(a, "issuing")
    /\ Concludes(a, ByRegistry("dependency_unavailable", "runtime_authorization_unavailable",
                               NoEvidence))
    /\ UNCHANGED <<world, external, entries, trail, told>>

\* The authorization is signed and the request is sent, once.
Ask(a, kid) ==
    /\ Is(a, "issuing")
    /\ Encodable(Command[a])
    /\ LET request == RouterRequest(a, attempt[a].scope, kid) IN
       /\ asked' = asked \cup {request}
       /\ attempt' = [attempt EXCEPT ![a].stage = "asking", ![a].request = request]
    /\ UNCHANGED <<world, answers, entries, trail, told>>

\* External: the Router answers a request it has not answered.
AnswerOne(request) ==
    /\ \A answer \in answers : answer.answers # request.correlation_id
    /\ \E answer \in AnswersTo(request, Cardinality(answers) + 1) :
          answers' = answers \cup {answer}
    /\ UNCHANGED <<world, attempt, entries, trail, asked, told>>

\* No credential, a timeout, a transport failure, a body that is too large or
\* malformed, any other status.
RouterUnavailable(a) ==
    /\ Is(a, "asking")
    /\ Concludes(a, ByRouter("dependency_unavailable", "router_unavailable", NoEvidence))
    /\ UNCHANGED <<world, external, entries, trail, told>>

\* An answer arrives, of this request or of another.
Receive(a, answer) ==
    /\ Is(a, "asking")
    /\ IF ~Trusted(attempt[a].request, answer)
       THEN Concludes(a, ByRouter("dependency_unavailable", "router_unavailable", NoEvidence))
       ELSE IF answer.kind = "violation"
       THEN Concludes(a, ByRouter("blocked", "violation", answer))
       ELSE attempt' = [attempt EXCEPT ![a].answer = answer,
                ![a].stage = IF answer.kind = "accepted" THEN "answered" ELSE "rechecking"]
    /\ UNCHANGED <<world, external, entries, trail, told>>

GateAfter(a) ==
    /\ Is(a, "answered")
    /\ Goes(a, "rechecking") \/ Gate(a, attempt[a].answer)
    /\ UNCHANGED <<world, external, entries, trail, told>>

\* enforce_router_decision, over the scope the registry has now.  The clock may
\* have ended a review although the digest is the same: any refusal may appear.
Enforcements(a, scope) ==
    LET answer == attempt[a].answer IN
    IF ScopeDigest(scope) # ScopeDigest(attempt[a].scope) THEN {"registry_scope_changed"}
    ELSE Refusals \cup
         (IF answer.kind = "rejected" THEN {"router_rejected"}
          ELSE IF answer.group \notin scope.groups THEN {"selected_model_group_not_approved"}
          ELSE {NoCode})

Recheck(a) ==
    /\ Is(a, "rechecking")
    /\ LET answer == attempt[a].answer IN
       \E code \in Enforcements(a, registry) :
          Concludes(a, IF code = NoCode THEN ByRouter("allowed", code, answer)
                       ELSE IF answer.kind = "rejected" THEN ByRouter("blocked", code, answer)
                       ELSE ByRegistry("blocked", code, answer))
    /\ UNCHANGED <<world, external, entries, trail, told>>

\* _finalize: a save that is refused raises like a commit that fails.
Action(outcome) == IF outcome = "allowed" THEN "allowed" ELSE "blocked"
FinalizeAttempt(a, commit) ==
    /\ Is(a, "finalizing")
    /\ LET record == Completed(Pending(a, attempt[a].scope), attempt[a].result) IN
       /\ commit # "failed" => Saves(a, record)
       /\ Persist(a, record, Action(record.outcome), commit)
       /\ Tells(a, IF Proceeds(commit) THEN Status(record.outcome) ELSE 500)
    /\ attempt' = [attempt EXCEPT ![a] = Ended]
    /\ UNCHANGED <<world, external>>

\* The process dies, or the caller goes away.
DieAt(a) ==
    /\ ~Is(a, "idle") /\ ~Is(a, "ended")
    /\ attempt' = [attempt EXCEPT ![a] = Ended]
    /\ UNCHANGED <<world, external, entries, trail, told>>

\* An owner changes the system, the agent or a model: every change counts.
EditRegistry ==
    /\ edits < MaxEdits
    /\ edits' = edits + 1
    /\ \E refusal \in Refusals \cup {NoCode}, groups \in SUBSET RoutingGroups :
          registry' = [version |-> registry.version + 1, refusal |-> refusal, groups |-> groups]
    /\ UNCHANGED <<attempt, entries, trail, asked, answers, told>>

-----------------------------------------------------------------------------
ExchangeInit ==
    /\ registry = [version |-> 1, refusal |-> NoCode, groups |-> RoutingGroups]
    /\ edits = 0
    /\ attempt = [a \in Attempts |-> NotBegun]
    /\ entries = [a \in Attempts |-> NoEntry]
    /\ trail = [a \in Attempts |-> <<>>]
    /\ asked = {}
    /\ answers = {}
    /\ told = [a \in Attempts |-> 0]

AttemptStep(a) ==
    \/ Begin(a)
    \/ \E commit \in Commits : Intend(a, commit) \/ FinalizeAttempt(a, commit)
    \/ RefuseScope(a)
    \/ GateBefore(a)
    \/ IssueFails(a)
    \/ \E kid \in Kids : Ask(a, kid)
    \/ RouterUnavailable(a)
    \/ \E answer \in answers : Receive(a, answer)
    \/ GateAfter(a)
    \/ Recheck(a)
    \/ DieAt(a)

ExchangeNext ==
    \/ EditRegistry
    \/ \E a \in Attempts : AttemptStep(a)
    \/ \E request \in asked : AnswerOne(request)

ExchangeSpec == ExchangeInit /\ [][ExchangeNext]_exchangeVars

-----------------------------------------------------------------------------
(* Properties *)

\* Whatever commit fails and whenever the process dies, a request the Router
\* has received is listed to the stakeholders of its agent, with the scope it
\* was authorized for and an audit trail that begins with it, and a caller is
\* told of no outcome but the recorded one (execute, _persist).  A pending
\* record is thus all that is left of an attempt that died.
AskedAs(a, request) ==
    /\ a \in Listed(request.agent)
    /\ entries[a].record.scope_digest = request.authorization.scope_digest
    /\ trail[a][1].action = "requested"
ToldAs(a, status) ==
    /\ entries[a].record.outcome # "pending"
    /\ Status(entries[a].record.outcome) = status
    /\ Len(trail[a]) = 2 /\ trail[a][2].outcome = entries[a].record.outcome
ExchangesAreRecorded ==
    /\ \A request \in asked : AskedAs(request.correlation_id, request)
    /\ \A a \in Attempts :
          told[a] \in {200, 422, 503} => entries[a] # NoEntry /\ ToldAs(a, told[a])

\* Whichever answers are lost, late or swapped between attempts: a violation is
\* recorded by the attempt it was reported of and no other, a decision by one
\* attempt at most, which asked for the same operation (decide, save).
Evidence(a) == IF entries[a] = NoEntry THEN NoEvidence ELSE entries[a].record.evidence
IsItsOwn(a, evidence) ==
    /\ evidence.kind = "violation" => evidence.answers = a
    /\ Command[evidence.answers].workflow = Command[a].workflow
    /\ Command[evidence.answers].task = Command[a].task
EvidenceIsItsOwn ==
    \A a \in {a \in Attempts : Evidence(a) # NoEvidence} :
        /\ IsItsOwn(a, Evidence(a))
        /\ \A b \in Attempts \ {a} : Evidence(b) # Evidence(a)
=============================================================================
