--------------------------- MODULE GovernedEvidence ---------------------------
(***************************************************************************)
(* The evidence governed actuation and restore leave behind: append-only   *)
(* rows, each naming the row it rests on by its id and by its digest, from *)
(* the recommendation to the receipt of a restore.  Nothing in the code    *)
(* changes a row, but rows are data that may change without the code: one  *)
(* column of a stored row at a time, within the keys of its table.  Every  *)
(* read validates the chain it loads, and every step writes from what it   *)
(* has loaded; a row that does not fit is a conflict, with no effect.      *)
(*                                                                         *)
(* What the steps ask of the present (the incident, the remediation, the   *)
(* Agent's switch, racing handlers) is the subject of GovernedActuation.   *)
(* A column stands for those that are compared together: subject is the    *)
(* agent, AI system and incident (with promotion and evaluation), facts is *)
(* the policy, the breach and the context of a recommendation.  A digest   *)
(* is the record of what it is taken over.                                 *)
(***************************************************************************)
EXTENDS Naturals, Sequences, FiniteSets

CONSTANTS
    Promotions,     \* the subject of each promotion with a recommendation
    OwnerOrAdmin,   \* principals who may request and execute
    Security,       \* principals with the Security approval area
    Remediations,   \* remediation digests
    MaxDamages      \* bound on the columns that change

ASSUME PromotionsAssumption == Promotions \in Seq([agent: STRING, incident: STRING])

VARIABLES
    table,     \* the rows of each kind, by id
    written,   \* the rows as they were written (history)
    damages    \* columns changed so far

vars == <<table, written, damages>>

Outcomes == {"approved", "rejected"}
States == {"active", "inactive"}

Ids(kind) == DOMAIN table[kind]
Found(kind, column, value) == {i \in Ids(kind) : table[kind][i][column] = value}

-----------------------------------------------------------------------------
(* The columns of each table, and what its digest is taken over: of a      *)
(* recommendation the subject and the facts, not its id, and not who       *)
(* generated it and when, which no digest covers and no read looks at, and *)
(* which are left out here; of the other rows every column but the digest. *)

Over(row, columns) == [c \in columns |-> row[c]]
Sealed(row, digest) ==
    [c \in DOMAIN row \cup {"digest"} |-> IF c = "digest" THEN digest ELSE row[c]]

RecommendationDigest(r) == Over(r, {"subject", "facts"})

RequestColumns == {"id", "recommendation", "recommendation_digest", "subject", "by", "digest"}
\* Mutation: the digest leaves out the requester.
RequestDigestForAnyone(q) == Over(q, RequestColumns \ {"by", "digest"})
RequestDigest(q) == Over(q, RequestColumns \ {"digest"})

DecisionColumns == {"id", "request", "request_digest", "outcome", "by", "digest"}
DecisionDigest(d) == Over(d, DecisionColumns \ {"digest"})

ExecutionColumns ==
    {"id", "decision", "decision_digest", "request", "request_digest", "subject",
     "transition", "target", "by", "digest"}
ExecutionDigest(x) == Over(x, ExecutionColumns \ {"digest"})

RestoreRequestColumns ==
    {"id", "source", "source_digest", "subject", "remediation", "by", "digest"}
\* Mutation: the digest leaves out the remediation.
RestoreRequestDigestForAny(q) == Over(q, RestoreRequestColumns \ {"remediation", "digest"})
RestoreRequestDigest(q) == Over(q, RestoreRequestColumns \ {"digest"})

RestoreDecisionColumns == DecisionColumns \cup {"source", "source_digest"}
RestoreDecisionDigest(d) == Over(d, RestoreDecisionColumns \ {"digest"})

RestoreExecutionColumns == ExecutionColumns \cup {"source", "source_digest"}
RestoreExecutionDigest(x) == Over(x, RestoreExecutionColumns \ {"digest"})

-----------------------------------------------------------------------------
(* What the unique keys find *)

RequestOf(r) == Found("request", "recommendation", r)
DecisionOf(q) == Found("decision", "request", q)
ExecutionOf(d) == Found("execution", "decision", d)
RestoreRequestOf(x, remediation) ==
    Found("restore_request", "source", x) \cap Found("restore_request", "remediation", remediation)
RestoreDecisionOf(q) == Found("restore_decision", "request", q)
RestoreExecutionOf(d) == Found("restore_execution", "decision", d)

-----------------------------------------------------------------------------
(* What a read validates: the chain of a stop *)

RecommendationHolds(r) ==
    LET row == table.recommendation[r] IN
    /\ row.subject = Promotions[r]
    /\ row.digest = RecommendationDigest(row)

RequestBinding(q, r) ==
    /\ q.recommendation = r.id
    /\ q.recommendation_digest = r.digest
    /\ q.subject = r.subject
    /\ q.digest = RequestDigest(q)

RequestHolds(i) ==
    LET q == table.request[i] IN
    /\ RecommendationHolds(q.recommendation)
    /\ RequestBinding(q, table.recommendation[q.recommendation])

DecisionBinding(d, q) ==
    /\ d.request = q.id
    /\ d.request_digest = q.digest
    /\ d.digest = DecisionDigest(d)

DecisionHolds(i) ==
    LET d == table.decision[i] IN
    /\ RequestHolds(d.request)
    /\ DecisionBinding(d, table.request[d.request])

\* The evidence reference of a decision, which names the chain by its prefix.
Reference(chain, d) == [chain |-> chain, decision |-> d.id, digest |-> d.digest]

MatchingTransitions(q, reference) ==
    {t \in Found("transition", "agent", q.subject.agent) :
        table.transition[t].reference = reference}

TransitionBinding(t, q, reference) ==
    /\ t.agent = q.subject.agent
    /\ t.incident = q.subject.incident
    /\ t.reference = reference
    /\ t.target = "active"

Receipt(id, d, q, t) ==
    LET row == [id |-> id, decision |-> d.id, decision_digest |-> d.digest,
                request |-> q.id, request_digest |-> q.digest, subject |-> q.subject,
                transition |-> t.id, target |-> t.target, by |-> t.by]
    IN  Sealed(row, ExecutionDigest(row))

\* The one transition the context of an approved decision holds, if any.
MatchingTransition(i) ==
    LET d == table.decision[i]
    IN  MatchingTransitions(table.request[d.request], Reference("actuation", d))

Approved(i) == DecisionHolds(i) /\ table.decision[i].outcome = "approved"

ExecutionHolds(i) ==
    LET x == table.execution[i]
        d == table.decision[x.decision]
        q == table.request[d.request]
    IN  /\ Approved(x.decision)
        /\ \E t \in MatchingTransition(x.decision) :
              /\ MatchingTransition(x.decision) = {t}
              /\ TransitionBinding(table.transition[t], q, Reference("actuation", d))
              /\ x = Receipt(i, d, q, table.transition[t])

-----------------------------------------------------------------------------
(* The chain of a restore, which begins with the receipt of the stop *)

SourceHolds(i) ==
    /\ ExecutionOf(table.execution[i].decision) = {i}
    /\ ExecutionHolds(i)

RestoreRequestBinding(q, x) ==
    /\ q.source = x.id
    /\ q.source_digest = x.digest
    /\ q.subject = x.subject
    /\ q.digest = RestoreRequestDigest(q)

RestoreRequestHolds(i) ==
    LET q == table.restore_request[i] IN
    /\ SourceHolds(q.source)
    /\ RestoreRequestBinding(q, table.execution[q.source])

RestoreDecisionBinding(d, q) ==
    /\ d.request = q.id
    /\ d.request_digest = q.digest
    /\ d.source = q.source
    /\ d.source_digest = q.source_digest
    /\ d.digest = RestoreDecisionDigest(d)

RestoreDecisionHolds(i) ==
    LET d == table.restore_decision[i] IN
    /\ RestoreRequestHolds(d.request)
    /\ RestoreDecisionBinding(d, table.restore_request[d.request])

RestoreTransitionBinding(t, q, reference) ==
    /\ t.agent = q.subject.agent
    /\ t.incident = q.subject.incident
    /\ t.reference = reference
    /\ t.target = "inactive"
    /\ t.id > table.execution[q.source].transition

RestoreReceipt(id, d, q, t) ==
    LET row == [id |-> id, decision |-> d.id, decision_digest |-> d.digest,
                request |-> q.id, request_digest |-> q.digest,
                source |-> q.source, source_digest |-> q.source_digest,
                subject |-> q.subject, transition |-> t.id, target |-> t.target, by |-> t.by]
    IN  Sealed(row, RestoreExecutionDigest(row))

MatchingRestore(i) ==
    LET d == table.restore_decision[i]
    IN  MatchingTransitions(table.restore_request[d.request], Reference("restore", d))

RestoreApproved(i) == RestoreDecisionHolds(i) /\ table.restore_decision[i].outcome = "approved"

RestoreExecutionHolds(i) ==
    LET x == table.restore_execution[i]
        d == table.restore_decision[x.decision]
        q == table.restore_request[d.request]
    IN  /\ RestoreApproved(x.decision)
        /\ \E t \in MatchingRestore(x.decision) :
              /\ MatchingRestore(x.decision) = {t}
              /\ RestoreTransitionBinding(table.transition[t], q, Reference("restore", d))
              /\ x = RestoreReceipt(i, d, q, table.transition[t])

-----------------------------------------------------------------------------
(* The steps.  Each is one transaction of the code; a transition is written *)
(* by RuntimeControl, from what the read transaction before it has loaded.  *)

New(kind) == Len(table[kind]) + 1

Save(kind, row) ==
    /\ table' = [table EXCEPT ![kind] = Append(@, row)]
    /\ written' = [written EXCEPT ![kind] = Append(@, row)]
    /\ UNCHANGED damages

NewRequest(r, p) ==
    LET row == [id |-> New("request"), recommendation |-> r.id,
                recommendation_digest |-> r.digest, subject |-> r.subject, by |-> p]
    IN  Sealed(row, RequestDigest(row))

RequestStop(r, p) ==
    /\ p \in OwnerOrAdmin
    /\ RecommendationHolds(r)
    /\ RequestOf(r) = {}
    /\ Save("request", NewRequest(table.recommendation[r], p))

Independent(p, q) == p \in Security /\ p # q.by

NewDecision(q, outcome, p) ==
    LET row == [id |-> New("decision"), request |-> q.id, request_digest |-> q.digest,
                outcome |-> outcome, by |-> p]
    IN  Sealed(row, DecisionDigest(row))

Decide(i, p, outcome) ==
    /\ RequestHolds(i)
    /\ Independent(p, table.request[i])
    /\ DecisionOf(i) = {}
    /\ Save("decision", NewDecision(table.request[i], outcome, p))

Switch(q, reference, target, p) ==
    Save("transition", [id |-> New("transition"), agent |-> q.subject.agent,
                        incident |-> q.subject.incident, reference |-> reference,
                        target |-> target, by |-> p])

Execute(i, p) ==
    LET d == table.decision[i] IN
    /\ p \in OwnerOrAdmin
    /\ Approved(i)
    /\ ExecutionOf(i) = {}
    /\ MatchingTransition(i) = {}
    /\ Switch(table.request[d.request], Reference("actuation", d), "active", p)

SaveExecution(row) ==
    /\ Found("execution", "transition", row.transition) = {}
    /\ Save("execution", row)

SaveReceipt(i) ==
    LET d == table.decision[i]
        q == table.request[d.request]
    IN  /\ Approved(i)
        /\ ExecutionOf(i) = {}
        /\ \E t \in MatchingTransition(i) :
              /\ MatchingTransition(i) = {t}
              /\ TransitionBinding(table.transition[t], q, Reference("actuation", d))
              /\ SaveExecution(Receipt(New("execution"), d, q, table.transition[t]))

NewRestoreRequest(x, remediation, p) ==
    LET row == [id |-> New("restore_request"), source |-> x.id, source_digest |-> x.digest,
                subject |-> x.subject, remediation |-> remediation, by |-> p]
    IN  Sealed(row, RestoreRequestDigest(row))

RequestRestore(i, remediation, p) ==
    /\ p \in OwnerOrAdmin
    /\ SourceHolds(i)
    /\ RestoreRequestOf(i, remediation) = {}
    /\ Save("restore_request", NewRestoreRequest(table.execution[i], remediation, p))

NewRestoreDecision(q, outcome, p) ==
    LET row == [id |-> New("restore_decision"), request |-> q.id, request_digest |-> q.digest,
                source |-> q.source, source_digest |-> q.source_digest,
                outcome |-> outcome, by |-> p]
    IN  Sealed(row, RestoreDecisionDigest(row))

DecideRestore(i, p, outcome) ==
    /\ RestoreRequestHolds(i)
    /\ Independent(p, table.restore_request[i])
    /\ RestoreDecisionOf(i) = {}
    /\ Save("restore_decision", NewRestoreDecision(table.restore_request[i], outcome, p))

ExecuteRestore(i, p) ==
    LET d == table.restore_decision[i] IN
    /\ p \in OwnerOrAdmin
    /\ RestoreApproved(i)
    /\ RestoreExecutionOf(i) = {}
    /\ MatchingRestore(i) = {}
    /\ Switch(table.restore_request[d.request], Reference("restore", d), "inactive", p)

SaveRestoreExecution(row) ==
    /\ Found("restore_execution", "transition", row.transition) = {}
    /\ Save("restore_execution", row)

SaveRestoreReceipt(i) ==
    LET d == table.restore_decision[i]
        q == table.restore_request[d.request]
    IN  /\ RestoreApproved(i)
        /\ RestoreExecutionOf(i) = {}
        /\ \E t \in MatchingRestore(i) :
              /\ MatchingRestore(i) = {t}
              /\ RestoreTransitionBinding(table.transition[t], q, Reference("restore", d))
              /\ SaveRestoreExecution(RestoreReceipt(New("restore_execution"), d, q,
                                                     table.transition[t]))

-----------------------------------------------------------------------------
(* What the reads answer *)

GetRequest(r) == {i \in RequestOf(r) : RequestHolds(i)}
GetDecision(q) == {i \in DecisionOf(q) : DecisionHolds(i)}
GetExecution(d) == {i \in ExecutionOf(d) : ExecutionHolds(i)}
GetRestoreRequest(x, remediation) ==
    {i \in RestoreRequestOf(x, remediation) : RestoreRequestHolds(i)}
GetRestoreDecision(q) == {i \in RestoreDecisionOf(q) : RestoreDecisionHolds(i)}
GetRestoreExecution(d) == {i \in RestoreExecutionOf(d) : RestoreExecutionHolds(i)}

-----------------------------------------------------------------------------
(* Damage: a column takes another value its table admits.  Ids stay, foreign *)
(* keys name rows that exist, unique keys stay unique.                       *)

Nonsense == [of |-> "nothing"]

Referenced(kind, column) ==
    CASE column = "source" -> "execution"
      [] column = "request" /\ kind \in {"restore_decision", "restore_execution"} ->
            "restore_request"
      [] column = "decision" /\ kind = "restore_execution" -> "restore_decision"
      [] OTHER -> column

ForeignKeys == {"recommendation", "request", "decision", "source", "transition"}
UniqueKeys == [request |-> {"recommendation"}, decision |-> {"request"},
               execution |-> {"decision", "transition"},
               restore_decision |-> {"request"},
               restore_execution |-> {"decision", "transition"}]

Admitted(kind, column) ==
    IF column \in ForeignKeys THEN Ids(Referenced(kind, column))
    ELSE {table[kind][i][column] : i \in Ids(kind)} \cup
         (CASE column = "by" -> OwnerOrAdmin \cup Security
            [] column = "outcome" -> Outcomes
            [] column = "target" -> States
            [] column = "subject" -> {Promotions[r] : r \in DOMAIN Promotions}
            [] column \in {"agent", "incident"} ->
                  {Promotions[r][column] : r \in DOMAIN Promotions}
            [] OTHER -> {Nonsense})

Damage(kind, i, column, value) ==
    /\ damages < MaxDamages
    /\ value # table[kind][i][column]
    /\ kind \in DOMAIN UniqueKeys /\ column \in UniqueKeys[kind] =>
          Found(kind, column, value) = {}
    /\ table' = [table EXCEPT ![kind][i][column] = value]
    /\ damages' = damages + 1
    /\ UNCHANGED written

-----------------------------------------------------------------------------
Recommendation(r) ==
    LET row == [id |-> r, subject |-> Promotions[r], facts |-> [of |-> "breach"]]
    IN  Sealed(row, RecommendationDigest(row))

Init ==
    /\ table = [recommendation |-> [r \in DOMAIN Promotions |-> Recommendation(r)],
                request |-> << >>, decision |-> << >>, transition |-> << >>,
                execution |-> << >>, restore_request |-> << >>,
                restore_decision |-> << >>, restore_execution |-> << >>]
    /\ written = table
    /\ damages = 0

StopStep ==
    \/ \E r \in Ids("recommendation"), p \in OwnerOrAdmin : RequestStop(r, p)
    \/ \E i \in Ids("request"), p \in Security, outcome \in Outcomes : Decide(i, p, outcome)
    \/ \E i \in Ids("decision"), p \in OwnerOrAdmin : Execute(i, p)
    \/ \E i \in Ids("decision") : SaveReceipt(i)

RestoreStep ==
    \/ \E i \in Ids("execution"), m \in Remediations, p \in OwnerOrAdmin : RequestRestore(i, m, p)
    \/ \E i \in Ids("restore_request"), p \in Security, outcome \in Outcomes :
          DecideRestore(i, p, outcome)
    \/ \E i \in Ids("restore_decision"), p \in OwnerOrAdmin : ExecuteRestore(i, p)
    \/ \E i \in Ids("restore_decision") : SaveRestoreReceipt(i)

Fault ==
    \E kind \in DOMAIN table : \E i \in Ids(kind) :
        \E column \in DOMAIN table[kind][i] \ {"id"} :
            \E value \in Admitted(kind, column) : Damage(kind, i, column, value)

Next == StopStep \/ RestoreStep \/ Fault

Spec == Init /\ [][Next]_vars
-----------------------------------------------------------------------------
(* Properties *)

OfRequest(i) == {<<"request", i>>, <<"recommendation", table.request[i].recommendation>>}
OfDecision(i) == {<<"decision", i>>} \cup OfRequest(table.decision[i].request)
OfExecution(i) == {<<"execution", i>>} \cup OfDecision(table.execution[i].decision)
OfRestoreRequest(i) ==
    {<<"restore_request", i>>} \cup OfExecution(table.restore_request[i].source)
OfRestoreDecision(i) ==
    {<<"restore_decision", i>>} \cup OfRestoreRequest(table.restore_decision[i].request)
OfRestoreExecution(i) ==
    {<<"restore_execution", i>>} \cup OfRestoreDecision(table.restore_execution[i].decision)

AsWritten(rows) == \A x \in rows : table[x[1]][x[2]] = written[x[1]][x[2]]

\* A receipt agrees with its transition, which but for who asked for it is as
\* written: no digest covers that column before the receipt names it.
TransitionAsWritten(x) ==
    LET t == table.transition[x.transition] IN
    /\ t.by = x.by
    /\ t = [written.transition[x.transition] EXCEPT !.by = t.by]

\* What is answered, to a read or to a retry, is what was written, and so is
\* everything it rests on down to the recommendation, wherever one column of a
\* stored row has changed since (ADR 0041: a row is revalidated against its source
\* context and a recomputed digest before it is replayed or answered).
ServedAsWritten ==
    /\ \A r \in Ids("recommendation") : \A i \in GetRequest(r) : AsWritten(OfRequest(i))
    /\ \A q \in Ids("request") : \A i \in GetDecision(q) : AsWritten(OfDecision(i))
    /\ \A d \in Ids("decision") : \A i \in GetExecution(d) :
          AsWritten(OfExecution(i)) /\ TransitionAsWritten(table.execution[i])
    /\ \A x \in Ids("execution"), m \in Remediations : \A i \in GetRestoreRequest(x, m) :
          AsWritten(OfRestoreRequest(i))
    /\ \A q \in Ids("restore_request") : \A i \in GetRestoreDecision(q) :
          AsWritten(OfRestoreDecision(i))
    /\ \A d \in Ids("restore_decision") : \A i \in GetRestoreExecution(d) :
          AsWritten(OfRestoreExecution(i)) /\ TransitionAsWritten(table.restore_execution[i])

ApprovedStop(t) ==
    \E d \in DOMAIN written.decision :
        LET q == written.request[written.decision[d].request] IN
        /\ t.reference = Reference("actuation", written.decision[d])
        /\ written.decision[d].outcome = "approved" /\ written.decision[d].by # q.by
        /\ Promotions[q.recommendation] = [agent |-> t.agent, incident |-> t.incident]

ApprovedRestore(t) ==
    \E d \in DOMAIN written.restore_decision :
        LET q == written.restore_request[written.restore_decision[d].request]
            stop == written.transition[written.execution[q.source].transition]
        IN  /\ t.reference = Reference("restore", written.restore_decision[d])
            /\ written.restore_decision[d].outcome = "approved"
            /\ written.restore_decision[d].by # q.by
            /\ stop.target = "active" /\ stop.id < t.id
            /\ stop.agent = t.agent /\ stop.incident = t.incident

\* Whatever column of whatever row changes, between any two steps, the agent is
\* switched only where somebody other than the requester has in fact approved
\* it: the stop of the agent a recommendation is about, or the undoing of a stop
\* that took place before, for the same agent and incident.
EffectsFollowApproval ==
    \A i \in DOMAIN written.transition :
        LET t == written.transition[i]
        IN  IF t.target = "active" THEN ApprovedStop(t) ELSE ApprovedRestore(t)
=============================================================================
