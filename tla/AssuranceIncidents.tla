------------------------- MODULE AssuranceIncidents -------------------------
(***************************************************************************)
(* From a breach to its incident and the response advised                  *)
(* (RuntimeAssuranceIncidentPromotionService,                              *)
(* RuntimeAssuranceResponseService), composed with the evaluations of      *)
(* RuntimeAssurance, the life cycle of Incidents and PolicyExceptions.     *)
(*                                                                         *)
(* A promotion locks the AISystem row first and reads promotions and       *)
(* incidents after it, as the commands of an incident do: one action.  A   *)
(* recommendation reads all its facts in the statement that waits for the  *)
(* lock, so they are those of the moment it began to wait: its action      *)
(* stands there, and others may already have seen the incident closed      *)
(* when its row appears.                                                   *)
(***************************************************************************)
EXTENDS RuntimeAssurance, PolicyExceptions

CONSTANT ReportedSeverities   \* severities owners report incidents with

ASSUME ReportedAssumption == ReportedSeverities \subseteq Severities

VARIABLES
    severity,         \* of each incident, 0 before it is reported
    promotions,       \* the promotions table, in order of insertion
    recommendations,  \* the recommendation of each promotion
    armed             \* whether the agent's kill switch could be used (external)

responses == <<severity, promotions, recommendations, armed>>
vars == <<assurance, incident, exceptions, responses>>

-----------------------------------------------------------------------------
Reported(i) == severity[i] # 0
Active(i) == Reported(i) /\ incident[i].status # "closed"

PromotionRow ==
    [evaluation: Nat \ {0}, incident: Incident, fingerprint: SUBSET BreachReasons,
     disposition: {"created", "deduplicated", "severity_escalated"}]

NoRecommendation == [actions |-> {}]
ResponseActions ==
    {"investigate_failures", "investigate_latency", "prepare_containment",
     "monitor_recovery", "consider_kill_switch"}
RecommendationRow ==
    [actions: SUBSET ResponseActions, severity: Severities, version: Nat, armed: BOOLEAN]

\* One agent: the fingerprint is the set of reasons, whatever the policy
\* version and the severity.
Fingerprint(k) == evaluations[k].reasons

Promoted(k) == \E n \in DOMAIN promotions : promotions[n].evaluation = k

\* Mutation: an incident under remediation no longer counts as active.
NotYetPlanned(fingerprint) ==
    {i \in Incident : Active(i) /\ incident[i].status # "remediating" /\ \E n \in DOMAIN promotions :
        promotions[n].incident = i /\ promotions[n].fingerprint = fingerprint}

ActiveIncidents(fingerprint) ==
    {i \in Incident : Active(i) /\ \E n \in DOMAIN promotions :
        promotions[n].incident = i /\ promotions[n].fingerprint = fingerprint}

Breached(k) == evaluations[k].outcome = "breached" /\ evaluations[k].reasons # {}
Promotable(k) == Breached(k) /\ ~Promoted(k)

SavePromotion(k, i, disposition) ==
    promotions' = Append(promotions,
        [evaluation |-> k, incident |-> i, fingerprint |-> Fingerprint(k),
         disposition |-> disposition])

-----------------------------------------------------------------------------
(* Promotions *)

\* An incident is reported with version 1 and without a plan.
Report(i, s) ==
    /\ ~Reported(i)
    /\ severity' = [severity EXCEPT ![i] = s]
    /\ UNCHANGED incident

PromoteToNewIncident(k, i) ==
    /\ Promotable(k)
    /\ ActiveIncidents(Fingerprint(k)) = {}
    /\ Report(i, evaluations[k].severity)
    /\ SavePromotion(k, i, "created")
    /\ UNCHANGED <<assurance, exceptions, recommendations, armed>>

\* Mutation: an incident keeps the severity it was opened with.
NeverEscalate(i, s) == FALSE
ShouldEscalate(i, s) == s > severity[i]

PromoteToActiveIncident(k, i) ==
    /\ Promotable(k)
    /\ ActiveIncidents(Fingerprint(k)) = {i}
    /\ ~ShouldEscalate(i, evaluations[k].severity)
    /\ SavePromotion(k, i, "deduplicated")
    /\ UNCHANGED <<assurance, incident, exceptions, severity, recommendations, armed>>

PromoteAndEscalate(k, i) ==
    /\ Promotable(k)
    /\ ActiveIncidents(Fingerprint(k)) = {i}
    /\ ShouldEscalate(i, evaluations[k].severity)
    /\ EscalateSeverity(i)
    /\ severity' = [severity EXCEPT ![i] = evaluations[k].severity]
    /\ SavePromotion(k, i, "severity_escalated")
    /\ UNCHANGED <<assurance, exceptions, recommendations, armed>>

-----------------------------------------------------------------------------
(* Recommendations *)

\* derive_runtime_assurance_response_plan
ResponsePlan(reasons, s, usable) ==
    {a \in ResponseActions :
        \/ a = "investigate_failures" /\ reasons \cap {"failure_rate", "consecutive_failures"} # {}
        \/ a = "investigate_latency" /\ "p95_duration" \in reasons
        \/ a = "prepare_containment" /\ s >= 3
        \/ a = "monitor_recovery" /\ s < 3
        \/ a = "consider_kill_switch" /\ s = 4 /\ usable}

ResponseContext(n) ==
    LET i == promotions[n].incident IN
    [reasons |-> evaluations[promotions[n].evaluation].reasons, status |-> incident[i].status,
     severity |-> severity[i], version |-> incident[i].version, armed |-> armed]

Advice(context) ==
    [actions |-> ResponsePlan(context.reasons, context.severity, context.armed),
     severity |-> context.severity, version |-> context.version, armed |-> context.armed]

SaveRecommendation(n, row) == recommendations' = [recommendations EXCEPT ![n] = row]

\* Asked again, the row that is there is returned.
Recommend(n) ==
    /\ recommendations[n] = NoRecommendation
    /\ ResponseContext(n).status # "closed"
    /\ SaveRecommendation(n, Advice(ResponseContext(n)))
    /\ UNCHANGED <<assurance, incident, exceptions, severity, promotions, armed>>

\* The kill switch and the inventory, which RuntimeControl describes.
SwitchOrEdit ==
    /\ armed' = ~armed
    /\ UNCHANGED <<assurance, incident, exceptions, severity, promotions, recommendations>>

-----------------------------------------------------------------------------
(* Incidents and exceptions *)

ReportIncident(i, s) ==
    /\ Report(i, s)
    /\ UNCHANGED <<assurance, exceptions, promotions, recommendations, armed>>

IncidentCommand(i) ==
    /\ Reported(i)
    /\ ContainIncident(i) \/ SetRemediationPlan(i) \/ CloseIncident(i)
    /\ UNCHANGED <<assurance, exceptions, responses>>

ExceptionCommand ==
    /\ \/ ExceptionStep
       \/ \E x \in Exceptions, i \in Incident, p \in Requesters, deadline \in Deadlines :
              Reported(i) /\ RequestException(x, i, p, deadline)
    /\ UNCHANGED <<assurance, incident, responses>>

-----------------------------------------------------------------------------
Init ==
    /\ AssuranceInit
    /\ IncidentInit
    /\ ExceptionsInit
    /\ severity = [i \in Incident |-> 0]
    /\ promotions = <<>>
    /\ recommendations = [n \in 1..MaxEvaluations |-> NoRecommendation]
    /\ armed = TRUE

Next ==
    \/ (AssuranceStep \/ AssuranceTick) /\ UNCHANGED <<incident, exceptions, responses>>
    \/ \E k \in DOMAIN evaluations, i \in Incident :
           \/ PromoteToNewIncident(k, i)
           \/ PromoteToActiveIncident(k, i)
           \/ PromoteAndEscalate(k, i)
    \/ \E n \in DOMAIN promotions : Recommend(n)
    \/ SwitchOrEdit
    \/ \E i \in Incident : IncidentCommand(i) \/ \E s \in ReportedSeverities : ReportIncident(i, s)
    \/ ExceptionCommand

Spec == Init /\ [][Next]_vars

-----------------------------------------------------------------------------
TypeOK ==
    /\ AssuranceTypeOK
    /\ incident \in [Incident -> IncidentRow]
    /\ exceptions \in [Exceptions -> ExceptionRow \cup {NoException}]
    /\ severity \in [Incident -> Severities \cup {0}]
    /\ promotions \in Seq(PromotionRow)
    /\ recommendations \in [1..MaxEvaluations -> RecommendationRow \cup {NoRecommendation}]
    /\ armed \in BOOLEAN

(* However breaches, promotions, plans and closings interleave, one breach *)
(* of an agent is worked on in one incident at a time                      *)
(* (list_active_incident_ids_for_fingerprint).                             *)
OneActiveIncident ==
    \A m, n \in DOMAIN promotions :
        /\ promotions[m].fingerprint = promotions[n].fingerprint
        /\ Active(promotions[m].incident)
        /\ Active(promotions[n].incident)
        => promotions[m].incident = promotions[n].incident

(* An incident is never milder than the evidence joined to it, and a       *)
(* recommendation never advises on a severity or a version the incident    *)
(* has not had (_resolve_incident_for_promotion, generate).                *)
IncidentsCoverEvidence ==
    \A n \in DOMAIN promotions :
        LET p == promotions[n] IN
        /\ evaluations[p.evaluation].outcome = "breached"
        /\ severity[p.incident] >= evaluations[p.evaluation].severity
        /\ recommendations[n] # NoRecommendation =>
               /\ recommendations[n].version <= incident[p.incident].version
               /\ recommendations[n].severity \in
                      evaluations[p.evaluation].severity..severity[p.incident]

(* What an exception allows was granted by an administrator other than its *)
(* requester, and once over it is not allowed again, whoever decides or    *)
(* revokes in whatever order (decide_exception, revoke_exception).         *)
ExceptionsLapse ==
    [][\A x \in Exceptions :
        /\ ExceptionState(exceptions[x], now) \in {"expired", "rejected", "revoked"} =>
               ExceptionState(exceptions'[x], now') # "active"
        /\ ExceptionState(exceptions'[x], now') = "active" =>
               exceptions'[x].decidedBy \in Administrators \ {exceptions'[x].by}]_vars
=============================================================================
