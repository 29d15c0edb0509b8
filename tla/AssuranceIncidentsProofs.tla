----------------------- MODULE AssuranceIncidentsProofs -----------------------
(***************************************************************************)
(* Theorems about the assurance loop and the exceptions of policies, for   *)
(* any policies, telemetry, incidents, people, deadlines and bounds.       *)
(*                                                                         *)
(* An id of an event has one content, and an evaluation reads a version    *)
(* that was enabled: with what sorting, ranking and counting runs give for *)
(* samples of any number, its outcome follows from the events it names.    *)
(* Evaluations are only added, so what a promotion keeps of its breach     *)
(* stays true; the severity of an incident only grows while a promotion    *)
(* names it, so it covers every breach promoted to it; and the breach a    *)
(* promotion answers has one promotion.  Of the exceptions the invariant   *)
(* says who granted them; that none comes back is a fact about each step,  *)
(* since time only goes forward.                                           *)
(***************************************************************************)
EXTENDS AssuranceIncidents, FiniteSetTheorems, SequenceTheorems, TLAPS

-----------------------------------------------------------------------------
(* The invariant *)

\* A breach has reasons, and the severity of the policy it is a breach of.
Graded(row) ==
    /\ row.reasons \subseteq BreachReasons
    /\ row.outcome = "breached" => row.severity \in Severities

\* One evaluation is under way at a time, and there is room for it.
EvaluationsInv ==
    /\ now \in Nat
    /\ policies \in Seq(Policies)
    /\ reading \in 0..Len(policies)
    /\ \E S : evaluations \in Seq(S)
    /\ \A k \in DOMAIN evaluations : Graded(evaluations[k])
    /\ Len(evaluations) <= MaxEvaluations
    /\ reading # 0 => Len(evaluations) < MaxEvaluations

\* A promotion keeps what its breach said, and its incident covers it.
Covers(p) ==
    /\ p.evaluation \in DOMAIN evaluations
    /\ evaluations[p.evaluation].outcome = "breached"
    /\ p.fingerprint = evaluations[p.evaluation].reasons
    /\ severity[p.incident] >= evaluations[p.evaluation].severity

PromotionsInv ==
    /\ incident \in [Incident -> IncidentRow]
    /\ severity \in [Incident -> Severities \cup {0}]
    /\ promotions \in Seq(PromotionRow)
    /\ \A n \in DOMAIN promotions : Covers(promotions[n])
    /\ \A m, n \in DOMAIN promotions :
           promotions[m].evaluation = promotions[n].evaluation => m = n
    /\ OneActiveIncident

\* A recommendation advises on what its incident was at some time.
Backed(row, p) ==
    /\ row.version <= incident[p.incident].version
    /\ row.severity \in evaluations[p.evaluation].severity..severity[p.incident]

RecommendationsInv ==
    /\ recommendations \in [1..MaxEvaluations -> RecommendationRow \cup {NoRecommendation}]
    /\ armed \in BOOLEAN
    /\ \A n \in DOMAIN promotions :
           recommendations[n] # NoRecommendation => Backed(recommendations[n], promotions[n])
    /\ \A n \in 1..MaxEvaluations :
           n \notin DOMAIN promotions => recommendations[n] = NoRecommendation

\* Who approved an exception is an administrator, and not its requester.
ExceptionsInv ==
    /\ exceptions \in [Exceptions -> ExceptionRow \cup {NoException}]
    /\ \A x \in Exceptions :
           exceptions[x].status = "approved" =>
               exceptions[x].decidedBy \in Administrators \ {exceptions[x].by}

\* What EvaluationsReproducible says of one evaluation, its policy and the events.
Retold(row, p, events) ==
    LET sources == ToSet(row.sources)
    IN  /\ p.enabled
        /\ sources \subseteq Window(p, row.at, events)
        /\ Len(row.sources) <= p.size
        /\ \A i, j \in DOMAIN row.sources : i < j => Chronological(row.sources[i], row.sources[j])
        /\ row.outcome # "insufficient_data" => Cardinality(sources) >= p.minimum
        /\ row.outcome = "breached" <=> row.reasons # {}
        /\ row.outcome # "insufficient_data" =>
               row.reasons = {r \in BreachReasons : Justified(p, row.sources, r)}

\* An id has one content, the policy read was enabled, and what was recorded
\* can be told again.
EvidenceInv ==
    /\ telemetry \subseteq TelemetryEvents
    /\ IsFiniteSet(telemetry)
    /\ \A e, f \in telemetry : e.id = f.id => e = f
    /\ reading # 0 => policies[reading].enabled
    /\ \A k \in DOMAIN evaluations :
           /\ evaluations[k] \in EvaluationRow
           /\ evaluations[k].policy \in DOMAIN policies
           /\ Retold(evaluations[k], policies[evaluations[k].policy], telemetry)

LoopInv == EvaluationsInv /\ EvidenceInv /\ PromotionsInv /\ RecommendationsInv /\ ExceptionsInv

-----------------------------------------------------------------------------
(* Evaluations *)

LEMMA AssessedIsGraded ==
    ASSUME NEW version, NEW p \in Policies, NEW at, NEW samples
    PROVE  Graded(Assessed(version, p, at, samples))
<1>1. p.severity \in Severities
  BY PoliciesAssumption DEF ValidPolicy, PolicyContent
<1>2. Reasons(p, samples) \subseteq BreachReasons
  BY DEF Reasons
<1> QED BY <1>1, <1>2 DEF Graded, Assessed

\* What an evaluation said stays: rows are added at the end.
EvaluationsGrow ==
    /\ DOMAIN evaluations \subseteq DOMAIN evaluations'
    /\ \A k \in DOMAIN evaluations : evaluations'[k] = evaluations[k]

LEMMA AppendedRow ==
    ASSUME NEW S, NEW s \in Seq(S), NEW e
    PROVE  /\ \E T : Append(s, e) \in Seq(T)
           /\ Len(Append(s, e)) = Len(s) + 1
           /\ DOMAIN s = 1..Len(s)
           /\ DOMAIN Append(s, e) = 1..(Len(s) + 1)
           /\ \A i \in DOMAIN s : Append(s, e)[i] = s[i]
           /\ Append(s, e)[Len(s) + 1] = e
<1> DEFINE T == S \cup {e}
<1>1. s \in Seq(T)
  BY SeqMonotonic
<1>2. e \in T
  OBVIOUS
<1> HIDE DEF T
<1>3. Append(s, e) \in Seq(T)
  BY <1>1, <1>2
<1> QED BY <1>1, <1>2, <1>3

LEMMA EvaluationsStep ==
    ASSUME EvaluationsInv, AssuranceStep \/ AssuranceTick
    PROVE  EvaluationsInv' /\ EvaluationsGrow /\ now' >= now
<1> USE DEF EvaluationsInv, EvaluationsGrow
<1>0. MaxEvaluations \in Nat /\ MaxTime \in Nat /\ Len(policies) \in Nat
  BY BoundsAssumption
<1>1. ASSUME NEW p \in Policies, NEW expected, PutPolicy(p, expected)
      PROVE  EvaluationsInv' /\ EvaluationsGrow /\ now' >= now
  BY <1>1, <1>0 DEF PutPolicy, SavePolicy
<1>2. CASE RecordEvaluation
  <2>1. PICK S : evaluations \in Seq(S)
    OBVIOUS
  <2>2. PICK row : evaluations' = Append(evaluations, row) /\ Graded(row)
    <3>1. policies[reading] \in Policies
      BY <1>2, <1>0 DEF RecordEvaluation
    <3> QED BY <1>2, <3>1, AssessedIsGraded DEF RecordEvaluation, SaveEvaluation, EvaluateSamples
  <2>3. UNCHANGED <<now, telemetry, policies>> /\ reading' = 0 /\ reading # 0
    BY <1>2 DEF RecordEvaluation
  <2>4. /\ \E T : evaluations' \in Seq(T)
        /\ Len(evaluations') = Len(evaluations) + 1
        /\ DOMAIN evaluations = 1..Len(evaluations)
        /\ DOMAIN evaluations' = 1..(Len(evaluations) + 1)
        /\ \A i \in DOMAIN evaluations : evaluations'[i] = evaluations[i]
        /\ evaluations'[Len(evaluations) + 1] = row
    <3> DEFINE more == Append(evaluations, row)
    <3>1. /\ \E T : more \in Seq(T)
          /\ Len(more) = Len(evaluations) + 1
          /\ DOMAIN evaluations = 1..Len(evaluations)
          /\ DOMAIN more = 1..(Len(evaluations) + 1)
          /\ \A i \in DOMAIN evaluations : more[i] = evaluations[i]
          /\ more[Len(evaluations) + 1] = row
      BY <2>1, AppendedRow
    <3>2. evaluations' = more
      BY <2>2
    <3> HIDE DEF more
    <3> QED BY ONLY <3>1, <3>2
  <2>5. Len(evaluations) \in Nat
    BY <2>1
  <2>6. \A k \in DOMAIN evaluations' : Graded(evaluations'[k])
    BY <2>2, <2>4, <2>5
  <2>7. Len(evaluations') <= MaxEvaluations
    BY <1>0, <2>3, <2>4, <2>5
  <2>8. EvaluationsGrow
    BY <2>4, <2>5
  <2> QED BY <1>0, <2>3, <2>4, <2>5, <2>6, <2>7, <2>8 DEF Graded
<1>3. CASE AssuranceTick
  BY <1>3, <1>0 DEF AssuranceTick, Graded
<1>4. CASE BeginEvaluation
  <2>1. policies # <<>> => Len(policies) # 0
    BY EmptySeq
  <2> QED BY <1>4, <1>0, <2>1 DEF BeginEvaluation, Graded
<1>5. CASE AbandonEvaluation
  BY <1>5, <1>0 DEF AbandonEvaluation, Graded
<1>6. ASSUME NEW e, IngestTelemetry(e)
      PROVE  EvaluationsInv' /\ EvaluationsGrow /\ now' >= now
  BY <1>6, <1>0 DEF IngestTelemetry, Graded
<1> QED BY <1>1, <1>2, <1>3, <1>4, <1>5, <1>6 DEF AssuranceStep

-----------------------------------------------------------------------------
(* Incidents *)

\* An incident never gets milder, never goes back to an earlier version and
\* does not open again.
IncidentsAge ==
    /\ incident' \in [Incident -> IncidentRow]
    /\ severity' \in [Incident -> Severities \cup {0}]
    /\ \A i \in Incident :
           /\ severity'[i] >= severity[i]
           /\ incident'[i].version >= incident[i].version
           /\ Reported(i) /\ incident'[i].status # "closed" => incident[i].status # "closed"

LEMMA IncidentsStay ==
    ASSUME PromotionsInv, UNCHANGED <<incident, severity>>
    PROVE  IncidentsAge
BY DEF PromotionsInv, IncidentsAge, IncidentRow, Severities

LEMMA RowBecomes ==
    ASSUME incident \in [Incident -> IncidentRow], NEW i \in Incident,
           NEW status \in IncidentStatuses, NEW planned \in BOOLEAN, Becomes(i, status, planned)
    PROVE  /\ incident' \in [Incident -> IncidentRow]
           /\ incident'[i].status = status
           /\ incident'[i].version = incident[i].version + 1
           /\ \A j \in Incident \ {i} : incident'[j] = incident[j]
           /\ \A j \in Incident : incident'[j].version >= incident[j].version
<1> DEFINE row == [status |-> status, planned |-> planned, version |-> incident[i].version + 1]
<1>1. incident[i].version \in Nat \ {0} /\ \A j \in Incident : incident[j].version \in Nat
  BY DEF IncidentRow
<1>2. row \in IncidentRow
  BY <1>1 DEF IncidentRow
<1>3. incident' = [incident EXCEPT ![i] = row]
  BY DEF Becomes, SaveIncident
<1>4. row.status = status /\ row.version = incident[i].version + 1
  OBVIOUS
<1> HIDE DEF row
<1>5. incident' \in [Incident -> IncidentRow]
  BY <1>2, <1>3
<1>6. incident'[i] = row /\ \A j \in Incident \ {i} : incident'[j] = incident[j]
  BY <1>3
<1> QED BY <1>1, <1>4, <1>5, <1>6

LEMMA CommandAges ==
    ASSUME PromotionsInv, NEW i \in Incident, IncidentCommand(i)
    PROVE  IncidentsAge /\ UNCHANGED severity
<1> USE DEF PromotionsInv
<1>1. incident[i].status \in IncidentStatuses \ {"closed"}
  BY DEF IncidentCommand, ContainIncident, SetRemediationPlan, CloseIncident, AllowedFrom,
         IncidentRow, IncidentStatuses
<1>2. PICK status \in IncidentStatuses, planned \in BOOLEAN : Becomes(i, status, planned)
  <2>1. incident[i].planned \in BOOLEAN
    BY DEF IncidentRow
  <2>2. "contained" \in IncidentStatuses /\ "remediating" \in IncidentStatuses
        /\ "closed" \in IncidentStatuses
    BY DEF IncidentStatuses
  <2>3. \/ Becomes(i, "contained", incident[i].planned)
        \/ Becomes(i, "remediating", TRUE)
        \/ Becomes(i, "closed", TRUE)
    BY DEF IncidentCommand, ContainIncident, SetRemediationPlan, CloseIncident
  <2> QED BY <2>1, <2>2, <2>3
<1>3. UNCHANGED severity
  BY DEF IncidentCommand, responses
<1>4. /\ incident' \in [Incident -> IncidentRow]
      /\ \A j \in Incident \ {i} : incident'[j] = incident[j]
      /\ \A j \in Incident : incident'[j].version >= incident[j].version
  BY <1>2, RowBecomes
<1>5. \A j \in Incident : severity[j] >= severity[j]
  BY DEF Severities
<1> QED BY <1>1, <1>3, <1>4, <1>5 DEF IncidentsAge

LEMMA ReportAges ==
    ASSUME PromotionsInv, NEW i \in Incident, NEW s \in Severities, Report(i, s)
    PROVE  IncidentsAge /\ severity'[i] = s
<1> USE DEF PromotionsInv
<1>1. severity[i] = 0 /\ severity' = [severity EXCEPT ![i] = s] /\ UNCHANGED incident
  BY DEF Report, Reported
<1>2. \A j \in Incident : severity[j] \in Nat /\ incident[j].version \in Nat
  BY DEF Severities, IncidentRow
<1>3. severity' \in [Incident -> Severities \cup {0}] /\ severity'[i] = s
  BY <1>1
<1>4. \A j \in Incident : severity'[j] >= severity[j] /\ (j # i => severity'[j] = severity[j])
  BY <1>1, <1>2 DEF Severities
<1>5. \A j \in Incident : incident'[j].version >= incident[j].version
  BY <1>1, <1>2
<1> QED BY <1>1, <1>3, <1>4, <1>5 DEF IncidentsAge

LEMMA EscalationAges ==
    ASSUME PromotionsInv, NEW i \in Incident, NEW s \in Severities, s > severity[i],
           EscalateSeverity(i), severity' = [severity EXCEPT ![i] = s]
    PROVE  IncidentsAge /\ severity'[i] = s
<1> USE DEF PromotionsInv
<1>1. incident[i].status \in IncidentStatuses /\ incident[i].planned \in BOOLEAN
  BY DEF IncidentRow
<1>2. Becomes(i, incident[i].status, incident[i].planned) /\ incident[i].status # "closed"
  BY DEF EscalateSeverity
<1>3. /\ incident' \in [Incident -> IncidentRow]
      /\ \A j \in Incident \ {i} : incident'[j] = incident[j]
      /\ \A j \in Incident : incident'[j].version >= incident[j].version
  BY <1>1, <1>2, RowBecomes
<1>4. /\ severity' \in [Incident -> Severities \cup {0}] /\ severity'[i] = s
      /\ \A j \in Incident : severity'[j] >= severity[j]
  BY DEF Severities
<1> QED BY <1>2, <1>3, <1>4 DEF IncidentsAge

-----------------------------------------------------------------------------
(* Promotions *)

LEMMA PromotedIsReported ==
    ASSUME EvaluationsInv, PromotionsInv
    PROVE  \A n \in DOMAIN promotions :
               /\ promotions[n] \in PromotionRow
               /\ promotions[n].incident \in Incident
               /\ Reported(promotions[n].incident)
<1> TAKE n \in DOMAIN promotions
<1>1. promotions[n] \in PromotionRow
  BY DEF PromotionsInv
<1>2. promotions[n].incident \in Incident
  BY <1>1 DEF PromotionRow
<1>3. Covers(promotions[n])
  BY DEF PromotionsInv
<1>4. Graded(evaluations[promotions[n].evaluation])
  BY <1>3 DEF EvaluationsInv, Covers
<1>5. severity[promotions[n].incident] \in Severities \cup {0}
  BY <1>2 DEF PromotionsInv
<1> QED BY <1>1, <1>2, <1>3, <1>4, <1>5 DEF Covers, Graded, Reported, Severities

LEMMA PromotionsKept ==
    ASSUME EvaluationsInv, PromotionsInv, EvaluationsGrow, IncidentsAge, UNCHANGED promotions
    PROVE  PromotionsInv'
<1>1. \A n \in DOMAIN promotions : promotions[n].incident \in Incident
                                  /\ Reported(promotions[n].incident)
  BY PromotedIsReported
<1>2. ASSUME NEW n \in DOMAIN promotions
      PROVE  Covers(promotions[n])'
  <2> DEFINE p == promotions[n]
  <2>1. Covers(p)
    BY DEF PromotionsInv
  <2>2. p.evaluation \in DOMAIN evaluations /\ evaluations[p.evaluation].outcome = "breached"
    BY <2>1 DEF Covers
  <2>3. Graded(evaluations[p.evaluation])
    BY <2>2 DEF EvaluationsInv
  <2>4. evaluations'[p.evaluation] = evaluations[p.evaluation]
        /\ p.evaluation \in DOMAIN evaluations'
    BY <2>2 DEF EvaluationsGrow
  <2>5. /\ severity[p.incident] \in Severities \cup {0}
        /\ severity'[p.incident] \in Severities \cup {0}
        /\ severity'[p.incident] >= severity[p.incident]
    BY <1>1 DEF PromotionsInv, IncidentsAge
  <2>6. evaluations[p.evaluation].severity \in Severities
    BY <2>2, <2>3 DEF Graded
  <2>7. severity'[p.incident] >= evaluations[p.evaluation].severity
    BY <2>1, <2>5, <2>6 DEF Covers, Severities
  <2>8. p' = p
    OBVIOUS
  <2> QED BY <2>1, <2>2, <2>4, <2>7, <2>8 DEF Covers
<1>3. ASSUME NEW i \in Incident, Reported(i), Active(i)'
      PROVE  Active(i)
  BY <1>3 DEF Active, IncidentsAge
<1>4. OneActiveIncident'
  <2>1. \A n \in DOMAIN promotions : Active(promotions[n].incident)' => Active(promotions[n].incident)
    BY <1>1, <1>3
  <2> QED BY <2>1 DEF PromotionsInv, OneActiveIncident
<1> QED BY <1>2, <1>4 DEF PromotionsInv, IncidentsAge

\* A promotion is kept, and what it says of its incident is true.
LEMMA PromotionAdded ==
    ASSUME EvaluationsInv, PromotionsInv, UNCHANGED evaluations, IncidentsAge,
           NEW k \in DOMAIN evaluations, NEW i \in Incident,
           NEW disposition \in {"created", "deduplicated", "severity_escalated"},
           Promotable(k), SavePromotion(k, i, disposition),
           severity'[i] >= evaluations[k].severity,
           ActiveIncidents(Fingerprint(k)) \subseteq {i}
    PROVE  PromotionsInv'
<1>1. Graded(evaluations[k]) /\ DOMAIN evaluations = 1..Len(evaluations) /\ Len(evaluations) \in Nat
  BY DEF EvaluationsInv
<1>2. PICK row \in PromotionRow :
          /\ row.evaluation = k /\ row.incident = i
          /\ row.fingerprint = evaluations[k].reasons
          /\ promotions' = Append(promotions, row)
  <2> DEFINE r == [evaluation |-> k, incident |-> i, fingerprint |-> Fingerprint(k),
                   disposition |-> disposition]
  <2>1. r \in PromotionRow
    BY <1>1 DEF PromotionRow, Fingerprint, Graded
  <2>2. /\ r.evaluation = k /\ r.incident = i /\ r.fingerprint = evaluations[k].reasons
        /\ promotions' = Append(promotions, r)
    BY DEF Fingerprint, SavePromotion
  <2> QED BY <2>1, <2>2
<1>4. evaluations[k].outcome = "breached"
  BY DEF Promotable, Breached
<1>6. promotions \in Seq(PromotionRow) /\ Len(promotions) \in Nat
      /\ DOMAIN promotions = 1..Len(promotions)
  BY DEF PromotionsInv
<1>7. /\ promotions' \in Seq(PromotionRow)
      /\ Len(promotions') = Len(promotions) + 1
      /\ DOMAIN promotions' = 1..(Len(promotions) + 1)
      /\ \A n \in DOMAIN promotions : promotions'[n] = promotions[n]
      /\ promotions'[Len(promotions) + 1] = row
  BY <1>2, <1>6
<1>3. PICK last : last = Len(promotions) + 1
  OBVIOUS
<1>8. DOMAIN promotions' = DOMAIN promotions \cup {last} /\ last \notin DOMAIN promotions
  BY <1>3, <1>6, <1>7
<1>9. \A n \in DOMAIN promotions : promotions[n].incident \in Incident
                                  /\ Reported(promotions[n].incident)
  BY PromotedIsReported
<1>10. /\ row.evaluation \in DOMAIN evaluations'
       /\ evaluations'[row.evaluation].outcome = "breached"
       /\ row.fingerprint = evaluations'[row.evaluation].reasons
       /\ severity'[row.incident] >= evaluations'[row.evaluation].severity
  BY <1>2, <1>4
<1>11. ASSUME NEW n \in DOMAIN promotions
       PROVE  Covers(promotions[n])'
  <2>1. Covers(promotions[n]) /\ Graded(evaluations[promotions[n].evaluation])
    BY DEF PromotionsInv, Covers, EvaluationsInv
  <2>2. evaluations[promotions[n].evaluation].severity \in Severities
    BY <2>1 DEF Covers, Graded
  <2>3. /\ severity[promotions[n].incident] \in Severities \cup {0}
        /\ severity'[promotions[n].incident] \in Severities \cup {0}
        /\ severity'[promotions[n].incident] >= severity[promotions[n].incident]
    BY <1>9 DEF PromotionsInv, IncidentsAge
  <2>4. severity'[promotions[n].incident] >= evaluations[promotions[n].evaluation].severity
    BY <2>1, <2>2, <2>3 DEF Covers, Severities
  <2> QED BY <1>7, <2>1, <2>4 DEF Covers
<1>12. \A n \in DOMAIN promotions' : Covers(promotions[n])'
  <2>1. Covers(promotions[last])'
    BY <1>3, <1>7, <1>10 DEF Covers
  <2> QED BY <1>8, <1>11, <2>1
<1>13. \A m, n \in DOMAIN promotions' :
           promotions'[m].evaluation = promotions'[n].evaluation => m = n
  <2>1. \A n \in DOMAIN promotions : promotions'[n].evaluation # k
    BY <1>7 DEF Promotable, Promoted
  <2>2. promotions'[last].evaluation = k
    BY <1>2, <1>3, <1>7
  <2>3. \A m, n \in DOMAIN promotions :
            promotions'[m].evaluation = promotions'[n].evaluation => m = n
    BY <1>7 DEF PromotionsInv
  <2> QED BY <1>8, <2>1, <2>2, <2>3
<1>14. \A n \in DOMAIN promotions :
           Active(promotions[n].incident)' => Active(promotions[n].incident)
  <2> TAKE n \in DOMAIN promotions
  <2>1. promotions'[n].incident = promotions[n].incident /\ promotions[n].incident \in Incident
    BY <1>7, <1>9
  <2> QED BY <1>9, <2>1 DEF Active, IncidentsAge
<1>15. \A n \in DOMAIN promotions :
           promotions[n].fingerprint = row.fingerprint /\ Active(promotions[n].incident)'
               => promotions[n].incident = i
  BY <1>2, <1>9, <1>14 DEF ActiveIncidents, Fingerprint
<1>16. OneActiveIncident'
  <2> SUFFICES ASSUME NEW m \in DOMAIN promotions', NEW n \in DOMAIN promotions',
                      promotions'[m].fingerprint = promotions'[n].fingerprint,
                      Active(promotions[m].incident)', Active(promotions[n].incident)'
               PROVE  promotions'[m].incident = promotions'[n].incident
    BY DEF OneActiveIncident
  <2>1. CASE m \in DOMAIN promotions /\ n \in DOMAIN promotions
    BY <1>7, <1>14, <2>1 DEF PromotionsInv, OneActiveIncident
  <2>2. CASE m = last /\ n \in DOMAIN promotions
    BY <1>2, <1>3, <1>7, <1>15, <2>2
  <2>3. CASE n = last /\ m \in DOMAIN promotions
    BY <1>2, <1>3, <1>7, <1>15, <2>3
  <2> QED BY <1>8, <2>1, <2>2, <2>3
<1> QED BY <1>7, <1>12, <1>13, <1>16 DEF PromotionsInv, IncidentsAge

\* What a step does to what the loop is made of.
LEMMA AgesStep ==
    ASSUME EvaluationsInv, PromotionsInv, [Next]_vars
    PROVE  /\ EvaluationsInv' /\ EvaluationsGrow /\ now' >= now
           /\ PromotionsInv'
           /\ IncidentsAge
<1> DEFINE Stays == EvaluationsInv' /\ EvaluationsGrow /\ now' >= now /\ UNCHANGED evaluations
<1>1. ASSUME UNCHANGED assurance
      PROVE  Stays
  BY <1>1 DEF assurance, EvaluationsInv, EvaluationsGrow, Graded
<1>2. CASE (AssuranceStep \/ AssuranceTick) /\ UNCHANGED <<incident, exceptions, responses>>
  <2>1. EvaluationsInv' /\ EvaluationsGrow /\ now' >= now
    BY <1>2, EvaluationsStep
  <2>2. UNCHANGED <<incident, severity, promotions>>
    BY <1>2 DEF responses
  <2>3. IncidentsAge
    BY <2>2, IncidentsStay
  <2> QED BY <2>1, <2>2, <2>3, PromotionsKept
<1>3. ASSUME NEW k \in DOMAIN evaluations, NEW i \in Incident,
             \/ PromoteToNewIncident(k, i)
             \/ PromoteToActiveIncident(k, i)
             \/ PromoteAndEscalate(k, i)
      PROVE  Stays /\ PromotionsInv' /\ IncidentsAge
  <2>1. Stays
    BY <1>1, <1>3 DEF PromoteToNewIncident, PromoteToActiveIncident, PromoteAndEscalate
  <2>2. Promotable(k)
    BY <1>3 DEF PromoteToNewIncident, PromoteToActiveIncident, PromoteAndEscalate
  <2>3. evaluations[k].severity \in Severities
    BY <2>2 DEF Promotable, Breached, EvaluationsInv, Graded
  <2> DEFINE Joins(disposition) ==
          /\ IncidentsAge
          /\ severity'[i] >= evaluations[k].severity
          /\ ActiveIncidents(Fingerprint(k)) \subseteq {i}
          /\ SavePromotion(k, i, disposition)
  <2>4. CASE PromoteToNewIncident(k, i)
    <3>1. Report(i, evaluations[k].severity)
      BY <2>4 DEF PromoteToNewIncident
    <3>2. IncidentsAge /\ severity'[i] = evaluations[k].severity
      BY <2>3, <3>1, ReportAges
    <3>3. severity'[i] >= evaluations[k].severity
      BY <2>3, <3>2 DEF Severities
    <3>4. Joins("created")
      BY <2>4, <3>2, <3>3 DEF PromoteToNewIncident
    <3> QED BY <2>1, <2>2, <3>4, PromotionAdded
  <2>5. CASE PromoteToActiveIncident(k, i)
    <3>1. UNCHANGED <<incident, severity>> /\ ~(evaluations[k].severity > severity[i])
      BY <2>5 DEF PromoteToActiveIncident, ShouldEscalate
    <3>2. IncidentsAge
      BY <3>1, IncidentsStay
    <3>3. severity[i] \in Severities \cup {0}
      BY DEF PromotionsInv
    <3>4. severity'[i] >= evaluations[k].severity
      BY <2>3, <3>1, <3>3 DEF Severities
    <3>5. Joins("deduplicated")
      BY <2>5, <3>2, <3>4 DEF PromoteToActiveIncident
    <3> QED BY <2>1, <2>2, <3>5, PromotionAdded
  <2>6. CASE PromoteAndEscalate(k, i)
    <3>1. /\ EscalateSeverity(i) /\ evaluations[k].severity > severity[i]
          /\ severity' = [severity EXCEPT ![i] = evaluations[k].severity]
      BY <2>6 DEF PromoteAndEscalate, ShouldEscalate
    <3>2. IncidentsAge /\ severity'[i] = evaluations[k].severity
      BY <2>3, <3>1, EscalationAges
    <3>3. severity'[i] >= evaluations[k].severity
      BY <2>3, <3>2 DEF Severities
    <3>4. Joins("severity_escalated")
      BY <2>6, <3>2, <3>3 DEF PromoteAndEscalate
    <3> QED BY <2>1, <2>2, <3>4, PromotionAdded
  <2> QED BY <1>3, <2>1, <2>4, <2>5, <2>6
<1>4. ASSUME UNCHANGED <<assurance, incident, severity, promotions>>
      PROVE  Stays /\ PromotionsInv' /\ IncidentsAge
  <2>1. Stays /\ IncidentsAge
    BY <1>1, <1>4, IncidentsStay
  <2> QED BY <1>4, <2>1, PromotionsKept
<1>5. CASE \/ \E n \in DOMAIN promotions : Recommend(n)
           \/ SwitchOrEdit
           \/ ExceptionCommand
           \/ UNCHANGED vars
  BY <1>4, <1>5 DEF Recommend, SwitchOrEdit, ExceptionCommand, responses, vars
<1>6. ASSUME NEW i \in Incident, IncidentCommand(i)
      PROVE  Stays /\ PromotionsInv' /\ IncidentsAge
  <2>1. UNCHANGED assurance /\ UNCHANGED promotions
    BY <1>6 DEF IncidentCommand, responses
  <2>2. Stays /\ IncidentsAge
    BY <1>1, <1>6, <2>1, CommandAges
  <2> QED BY <2>1, <2>2, PromotionsKept
<1>7. ASSUME NEW i \in Incident, NEW s \in ReportedSeverities, ReportIncident(i, s)
      PROVE  Stays /\ PromotionsInv' /\ IncidentsAge
  <2>1. UNCHANGED assurance /\ UNCHANGED promotions /\ Report(i, s) /\ s \in Severities
    BY <1>7, ReportedAssumption DEF ReportIncident
  <2>2. Stays /\ IncidentsAge
    BY <1>1, <2>1, ReportAges
  <2> QED BY <2>1, <2>2, PromotionsKept
<1> QED BY <1>2, <1>3, <1>5, <1>6, <1>7 DEF Next

\* A sequence of promotions of different evaluations is no longer than they.
LEMMA PromotionsFit ==
    ASSUME NEW rows \in Seq(PromotionRow), NEW last \in Nat,
           \A n \in DOMAIN rows : rows[n].evaluation \in 1..last,
           \A m, n \in DOMAIN rows : rows[m].evaluation = rows[n].evaluation => m = n
    PROVE  DOMAIN rows \subseteq 1..last
<1>1. Len(rows) \in Nat /\ DOMAIN rows = 1..Len(rows)
  OBVIOUS
<1> DEFINE of == [n \in 1..Len(rows) |-> rows[n].evaluation]
<1>2. of \in [1..Len(rows) -> 1..last]
  BY <1>1
<1>3. \A m, n \in 1..Len(rows) : of[m] = of[n] => m = n
  BY <1>1
<1>4. /\ IsFiniteSet(1..Len(rows)) /\ Cardinality(1..Len(rows)) = Len(rows)
      /\ IsFiniteSet(1..last) /\ Cardinality(1..last) = last
  <2>1. \A n \in Nat : IsFiniteSet(1..n) /\ Cardinality(1..n) = IF 1 > n THEN 0 ELSE n - 1 + 1
    BY FS_Interval
  <2>2. \A n \in Nat : IsFiniteSet(1..n) /\ Cardinality(1..n) = n
    BY <2>1
  <2> QED BY <1>1, <2>2
<1> HIDE DEF of
<1>5. ~(last < Len(rows))
  <2> SUFFICES ASSUME last < Len(rows) PROVE FALSE
    OBVIOUS
  <2>1. Cardinality(1..last) < Cardinality(1..Len(rows))
    BY <1>4
  <2>2. ASSUME NEW S, NEW T, IsFiniteSet(S), IsFiniteSet(T), of \in [S -> T],
               Cardinality(T) < Cardinality(S)
        PROVE  \E m, n \in S : m # n /\ of[m] = of[n]
    BY <2>2, FS_PigeonHole
  <2>3. \E m, n \in 1..Len(rows) : m # n /\ of[m] = of[n]
    BY <1>2, <1>4, <2>1, <2>2
  <2> QED BY <1>3, <2>3
<1> QED BY <1>1, <1>5

-----------------------------------------------------------------------------
(* Recommendations *)

LEMMA BackedStays ==
    ASSUME EvaluationsInv, PromotionsInv, EvaluationsGrow, IncidentsAge,
           NEW n \in DOMAIN promotions, promotions'[n] = promotions[n],
           NEW row \in RecommendationRow, Backed(row, promotions[n])
    PROVE  /\ row.version <= incident'[promotions'[n].incident].version
           /\ row.severity \in evaluations'[promotions'[n].evaluation].severity
                                 ..severity'[promotions'[n].incident]
<1>1. PICK p : p = promotions[n] /\ p = promotions'[n]
  OBVIOUS
<1>2. p.incident \in Incident /\ Covers(p)
  BY <1>1, PromotedIsReported DEF PromotionsInv
<1>3. evaluations'[p.evaluation] = evaluations[p.evaluation]
  BY <1>2 DEF Covers, EvaluationsGrow
<1>4. evaluations[p.evaluation].severity \in Severities
  BY <1>2 DEF Covers, EvaluationsInv, Graded
<1>5. /\ incident[p.incident] \in IncidentRow /\ incident'[p.incident] \in IncidentRow
      /\ severity[p.incident] \in Severities \cup {0}
      /\ severity'[p.incident] \in Severities \cup {0}
      /\ severity'[p.incident] >= severity[p.incident]
      /\ incident'[p.incident].version >= incident[p.incident].version
  BY <1>2 DEF PromotionsInv, IncidentsAge
<1>6. /\ row.version <= incident[p.incident].version
      /\ row.severity \in evaluations[p.evaluation].severity..severity[p.incident]
  BY <1>1 DEF Backed
<1>7. /\ incident[p.incident].version \in Nat /\ incident'[p.incident].version \in Nat
      /\ row.version \in Nat /\ row.severity \in Severities
  BY <1>5 DEF IncidentRow, RecommendationRow
<1>8. row.version <= incident'[p.incident].version
  BY <1>5, <1>6, <1>7
<1>9. row.severity \in evaluations'[p.evaluation].severity..severity'[p.incident]
  BY <1>3, <1>4, <1>5, <1>6, <1>7 DEF Severities
<1> QED BY <1>1, <1>8, <1>9

LEMMA RecommendationsStep ==
    ASSUME EvaluationsInv, PromotionsInv, RecommendationsInv, [Next]_vars
    PROVE  RecommendationsInv'
<1>1. /\ EvaluationsInv' /\ EvaluationsGrow /\ PromotionsInv' /\ IncidentsAge
  BY AgesStep
<1>2. DOMAIN promotions \subseteq 1..MaxEvaluations /\ DOMAIN promotions' \subseteq 1..MaxEvaluations
  <2>1. /\ \A n \in DOMAIN promotions : promotions[n].evaluation \in 1..MaxEvaluations
        /\ \A n \in DOMAIN promotions' : promotions'[n].evaluation \in 1..MaxEvaluations
    <3>1. DOMAIN evaluations \subseteq 1..MaxEvaluations
      BY BoundsAssumption DEF EvaluationsInv
    <3>2. DOMAIN evaluations' \subseteq 1..MaxEvaluations
      BY <1>1, BoundsAssumption DEF EvaluationsInv
    <3> QED BY <1>1, <3>1, <3>2 DEF PromotionsInv, Covers
  <2>2. MaxEvaluations \in Nat
    BY BoundsAssumption
  <2>3. promotions \in Seq(PromotionRow) /\ promotions' \in Seq(PromotionRow)
    BY <1>1 DEF PromotionsInv
  <2>4. /\ \A m, n \in DOMAIN promotions :
               promotions[m].evaluation = promotions[n].evaluation => m = n
        /\ \A m, n \in DOMAIN promotions' :
               promotions'[m].evaluation = promotions'[n].evaluation => m = n
    BY <1>1 DEF PromotionsInv
  <2>5. DOMAIN promotions \subseteq 1..MaxEvaluations
    BY <2>1, <2>2, <2>3, <2>4, PromotionsFit
  <2>6. DOMAIN promotions' \subseteq 1..MaxEvaluations
    BY <2>1, <2>2, <2>3, <2>4, PromotionsFit
  <2> QED BY <2>5, <2>6
<1>3. ASSUME NEW n \in DOMAIN promotions, Recommend(n)
      PROVE  RecommendationsInv'
  <2> DEFINE p == promotions[n]
             row == Advice(ResponseContext(n))
  <2>1. /\ recommendations' = [recommendations EXCEPT ![n] = row]
        /\ UNCHANGED <<evaluations, incident, severity, promotions, armed>>
    BY <1>3 DEF Recommend, SaveRecommendation, assurance
  <2>2. p.incident \in Incident /\ Covers(p) /\ Reported(p.incident)
    BY PromotedIsReported DEF PromotionsInv
  <2>3. severity[p.incident] \in Severities /\ incident[p.incident] \in IncidentRow
    BY <2>2 DEF PromotionsInv, Reported
  <2>4. row.version = incident[p.incident].version /\ row.severity = severity[p.incident]
    BY DEF Advice, ResponseContext
  <2>5. row \in RecommendationRow
    <3>1. ResponsePlan(evaluations[p.evaluation].reasons, severity[p.incident], armed)
              \subseteq ResponseActions
      BY DEF ResponsePlan
    <3>2. armed \in BOOLEAN
      BY DEF RecommendationsInv
    <3>3. incident[p.incident].version \in Nat
      BY <2>3 DEF IncidentRow
    <3>4. row = [actions |-> ResponsePlan(evaluations[p.evaluation].reasons,
                                          severity[p.incident], armed),
                 severity |-> severity[p.incident], version |-> incident[p.incident].version,
                 armed |-> armed]
      BY DEF Advice, ResponseContext
    <3> QED BY <2>3, <3>1, <3>2, <3>3, <3>4 DEF RecommendationRow
  <2>6. evaluations[p.evaluation].severity \in Severities
    BY <2>2 DEF Covers, EvaluationsInv, Graded
  <2>7. Backed(row, p)
    <3>1. incident[p.incident].version \in Nat
      BY <2>3 DEF IncidentRow
    <3>2. severity[p.incident] >= evaluations[p.evaluation].severity
      BY <2>2 DEF Covers
    <3> QED BY <2>3, <2>4, <2>6, <3>1, <3>2 DEF Backed, Severities
  <2> HIDE DEF row
  <2>8. recommendations' \in [1..MaxEvaluations -> RecommendationRow \cup {NoRecommendation}]
    BY <2>1, <2>5 DEF RecommendationsInv
  <2>9. \A m \in 1..MaxEvaluations :
            recommendations'[m] = IF m = n THEN row ELSE recommendations[m]
    BY <1>2, <2>1 DEF RecommendationsInv
  <2>10. ASSUME NEW m \in DOMAIN promotions, recommendations'[m] # NoRecommendation
         PROVE  Backed(recommendations'[m], promotions[m])
    <3>1. m \in 1..MaxEvaluations
      BY <1>2
    <3> QED BY <2>7, <2>9, <2>10, <3>1 DEF RecommendationsInv
  <2>11. \A m \in DOMAIN promotions :
             recommendations'[m] # NoRecommendation => Backed(recommendations[m], promotions[m])'
    BY <2>1, <2>10 DEF Backed
  <2> QED BY <1>2, <2>1, <2>8, <2>9, <2>11 DEF RecommendationsInv
<1>4. ASSUME UNCHANGED recommendations, armed' \in BOOLEAN,
             DOMAIN promotions \subseteq DOMAIN promotions',
             \A n \in DOMAIN promotions : promotions'[n] = promotions[n]
      PROVE  RecommendationsInv'
  <2>1. ASSUME NEW n \in DOMAIN promotions', recommendations'[n] # NoRecommendation
        PROVE  Backed(recommendations[n], promotions[n])'
    <3>1. n \in 1..MaxEvaluations /\ n \in DOMAIN promotions
      BY <1>2, <1>4, <2>1 DEF RecommendationsInv
    <3>2. recommendations[n] \in RecommendationRow /\ Backed(recommendations[n], promotions[n])
      BY <1>4, <2>1, <3>1 DEF RecommendationsInv
    <3>3. promotions'[n] = promotions[n]
      BY <1>4, <3>1
    <3>4. /\ recommendations[n].version <= incident'[promotions'[n].incident].version
          /\ recommendations[n].severity \in evaluations'[promotions'[n].evaluation].severity
                                              ..severity'[promotions'[n].incident]
      BY <1>1, <3>1, <3>2, <3>3, BackedStays
    <3> QED BY <1>4, <3>4 DEF Backed
  <2> QED BY <1>4, <2>1 DEF RecommendationsInv
<1>5. ASSUME NEW k, NEW i, NEW disposition, SavePromotion(k, i, disposition)
      PROVE  /\ DOMAIN promotions \subseteq DOMAIN promotions'
             /\ \A n \in DOMAIN promotions : promotions'[n] = promotions[n]
  BY <1>5 DEF SavePromotion, PromotionsInv
<1>6. ASSUME NEW k \in DOMAIN evaluations, NEW i \in Incident,
             \/ PromoteToNewIncident(k, i)
             \/ PromoteToActiveIncident(k, i)
             \/ PromoteAndEscalate(k, i)
      PROVE  RecommendationsInv'
  <2>1. UNCHANGED <<recommendations, armed>> /\ \E disposition : SavePromotion(k, i, disposition)
    BY <1>6 DEF PromoteToNewIncident, PromoteToActiveIncident, PromoteAndEscalate
  <2>2. armed' \in BOOLEAN
    BY <2>1 DEF RecommendationsInv
  <2> QED BY <1>4, <1>5, <2>1, <2>2
<1>7. CASE SwitchOrEdit
  <2>1. armed' \in BOOLEAN
    BY <1>7 DEF SwitchOrEdit
  <2> QED BY <1>4, <1>7, <2>1 DEF SwitchOrEdit
<1>8. ASSUME UNCHANGED <<promotions, recommendations, armed>>
      PROVE  RecommendationsInv'
  <2>1. armed' \in BOOLEAN
    BY <1>8 DEF RecommendationsInv
  <2> QED BY <1>4, <1>8, <2>1
<1>9. CASE \/ (AssuranceStep \/ AssuranceTick) /\ UNCHANGED <<incident, exceptions, responses>>
           \/ \E i \in Incident : IncidentCommand(i) \/ \E s \in ReportedSeverities : ReportIncident(i, s)
           \/ ExceptionCommand
           \/ UNCHANGED vars
  BY <1>8, <1>9 DEF IncidentCommand, ReportIncident, ExceptionCommand, responses, vars
<1> QED BY <1>3, <1>6, <1>7, <1>9 DEF Next

-----------------------------------------------------------------------------
(* Exceptions *)

\* What one command makes of a row of exceptions.
Granted(row) == row.status = "approved" => row.decidedBy \in Administrators \ {row.by}
RowMoves(before, after) ==
    \/ after = before
    \/ before.status \in {"none", "pending"}
    \/ before.status = "approved" /\ after.status = "revoked"

LEMMA ExceptionMade ==
    ASSUME NEW x \in Exceptions, NEW i \in Incident, NEW p \in Requesters,
           NEW deadline \in Deadlines,
           exceptions \in [Exceptions -> ExceptionRow \cup {NoException}],
           RequestException(x, i, p, deadline)
    PROVE  \E row \in ExceptionRow :
               /\ exceptions' = [exceptions EXCEPT ![x] = row]
               /\ Granted(row) /\ RowMoves(exceptions[x], row)
<1> DEFINE row == [status |-> "pending", incident |-> i, by |-> p, expires |-> deadline,
                   decidedBy |-> "nobody"]
<1>1. row \in ExceptionRow /\ row.status = "pending"
  BY DEF ExceptionRow
<1>2. exceptions' = [exceptions EXCEPT ![x] = row] /\ exceptions[x].status = "none"
  BY DEF RequestException, SaveException, NoException
<1> HIDE DEF row
<1> QED BY <1>1, <1>2 DEF Granted, RowMoves

LEMMA ExceptionBecame ==
    ASSUME NEW x \in Exceptions, NEW p \in Administrators,
           NEW status \in {"approved", "rejected", "revoked"},
           exceptions[x] \in ExceptionRow, ExceptionBecomes(x, status, p)
    PROVE  \E row \in ExceptionRow :
               /\ exceptions' = [exceptions EXCEPT ![x] = row]
               /\ row.status = status /\ row.decidedBy = p /\ row.by = exceptions[x].by
<1> DEFINE row == [exceptions[x] EXCEPT !.status = status, !.decidedBy = p]
<1>1. /\ row \in ExceptionRow
      /\ row.status = status /\ row.decidedBy = p /\ row.by = exceptions[x].by
  BY DEF ExceptionRow
<1>2. exceptions' = [exceptions EXCEPT ![x] = row]
  BY DEF ExceptionBecomes, SaveException
<1> QED BY <1>1, <1>2

LEMMA ExceptionsStep ==
    ASSUME ExceptionsInv, [Next]_vars
    PROVE  /\ ExceptionsInv'
           /\ \A x \in Exceptions : RowMoves(exceptions[x], exceptions'[x])
<1>1. ASSUME NEW x \in Exceptions, NEW row \in ExceptionRow,
             exceptions' = [exceptions EXCEPT ![x] = row],
             Granted(row), RowMoves(exceptions[x], row)
      PROVE  /\ ExceptionsInv'
             /\ \A y \in Exceptions : RowMoves(exceptions[y], exceptions'[y])
  <2>1. /\ exceptions' \in [Exceptions -> ExceptionRow \cup {NoException}]
        /\ exceptions'[x] = row
        /\ \A y \in Exceptions \ {x} : exceptions'[y] = exceptions[y]
    BY <1>1 DEF ExceptionsInv
  <2> QED BY <1>1, <2>1 DEF ExceptionsInv, Granted, RowMoves
<1>2. ASSUME UNCHANGED exceptions
      PROVE  /\ ExceptionsInv'
             /\ \A x \in Exceptions : RowMoves(exceptions[x], exceptions'[x])
  BY <1>2 DEF ExceptionsInv, RowMoves
<1>3. ASSUME NEW x \in Exceptions, exceptions[x].status # "none"
      PROVE  exceptions[x] \in ExceptionRow
  BY <1>3 DEF ExceptionsInv, NoException
<1>4. ASSUME NEW x \in Exceptions, NEW p \in Administrators, NEW approved \in BOOLEAN,
             DecideException(x, approved, p)
      PROVE  /\ ExceptionsInv'
             /\ \A y \in Exceptions : RowMoves(exceptions[y], exceptions'[y])
  <2>1. /\ exceptions[x].status = "pending" /\ exceptions[x].by # p
        /\ exceptions[x] \in ExceptionRow
    BY <1>3, <1>4 DEF DecideException, MayDecide
  <2>2. PICK status \in {"approved", "rejected"} : ExceptionBecomes(x, status, p)
    BY <1>4 DEF DecideException
  <2>3. PICK row \in ExceptionRow :
            /\ exceptions' = [exceptions EXCEPT ![x] = row]
            /\ row.status = status /\ row.decidedBy = p /\ row.by = exceptions[x].by
    BY <2>1, <2>2, ExceptionBecame
  <2>4. Granted(row) /\ RowMoves(exceptions[x], row)
    BY <2>1, <2>3 DEF Granted, RowMoves
  <2> QED BY <1>1, <2>3, <2>4
<1>5. ASSUME NEW x \in Exceptions, NEW p \in Administrators, RevokeException(x, p)
      PROVE  /\ ExceptionsInv'
             /\ \A y \in Exceptions : RowMoves(exceptions[y], exceptions'[y])
  <2>1. /\ exceptions[x].status \in {"pending", "approved"}
        /\ exceptions[x] \in ExceptionRow
        /\ ExceptionBecomes(x, "revoked", p)
    BY <1>3, <1>5 DEF RevokeException
  <2>2. PICK row \in ExceptionRow :
            exceptions' = [exceptions EXCEPT ![x] = row] /\ row.status = "revoked"
    BY <2>1, ExceptionBecame
  <2>3. Granted(row) /\ RowMoves(exceptions[x], row)
    BY <2>1, <2>2 DEF Granted, RowMoves
  <2> QED BY <1>1, <2>2, <2>3
<1>6. ASSUME NEW x \in Exceptions, NEW i \in Incident, NEW p \in Requesters,
             NEW deadline \in Deadlines, RequestException(x, i, p, deadline)
      PROVE  /\ ExceptionsInv'
             /\ \A y \in Exceptions : RowMoves(exceptions[y], exceptions'[y])
  <2>1. PICK row \in ExceptionRow :
            /\ exceptions' = [exceptions EXCEPT ![x] = row]
            /\ Granted(row) /\ RowMoves(exceptions[x], row)
    BY <1>6, ExceptionMade DEF ExceptionsInv
  <2> QED BY <1>1, <2>1
<1>7. CASE ExceptionCommand
  BY <1>4, <1>5, <1>6, <1>7 DEF ExceptionCommand, ExceptionStep
<1>8. CASE \/ (AssuranceStep \/ AssuranceTick) /\ UNCHANGED <<incident, exceptions, responses>>
           \/ \E k \in DOMAIN evaluations, i \in Incident :
                  \/ PromoteToNewIncident(k, i)
                  \/ PromoteToActiveIncident(k, i)
                  \/ PromoteAndEscalate(k, i)
           \/ \E n \in DOMAIN promotions : Recommend(n)
           \/ SwitchOrEdit
           \/ \E i \in Incident : IncidentCommand(i) \/ \E s \in ReportedSeverities : ReportIncident(i, s)
           \/ UNCHANGED vars
  BY <1>2, <1>8 DEF PromoteToNewIncident, PromoteToActiveIncident, PromoteAndEscalate, Recommend,
                   SwitchOrEdit, IncidentCommand, ReportIncident, vars
<1> QED BY <1>7, <1>8 DEF Next

-----------------------------------------------------------------------------
(* The evaluator *)

\* Induction over the naturals, for a set of them.
LEMMA EveryNatural ==
    ASSUME NEW T \in SUBSET Nat, 0 \in T, \A n \in T : n + 1 \in T
    PROVE  T = Nat
<1> SUFFICES ASSUME T # Nat PROVE FALSE
  OBVIOUS
<1> DEFINE U == Nat \ T
           R == {d \in Nat \X Nat : d[1] < d[2]}
<1>1. IsWellFoundedOn(R, Nat)
  BY NatLessThanWellFounded DEF OpToRel
<1>2. PICK n \in U : \A m \in U : <<m, n>> \notin R
  <2>1. U # {} /\ U \subseteq Nat
    OBVIOUS
  <2> HIDE DEF U, R
  <2> QED BY <1>1, <2>1, WFMin
<1>3. n \in Nat /\ \A m \in U : n <= m
  <2>1. n \in Nat
    OBVIOUS
  <2>2. ASSUME NEW m \in U PROVE n <= m
    <3>1. m \in Nat /\ <<m, n>> \notin R
      BY <1>2
    <3>2. ~ (m < n)
      BY <2>1, <3>1
    <3> QED BY <2>1, <3>1, <3>2
  <2> QED BY <2>1, <2>2
<1>4. n # 0 /\ n - 1 \in Nat
  BY <1>3
<1>5. n - 1 \in T
  BY <1>3, <1>4
<1> QED BY <1>3, <1>4, <1>5

LEMMA OrderExists ==
    ASSUME NEW S, IsFiniteSet(S), NEW R,
           \A e \in S : <<e, e>> \notin R,
           \A e, f \in S : e # f => <<e, f>> \in R \/ <<f, e>> \in R,
           \A e, f, g \in S : <<e, f>> \in R /\ <<f, g>> \in R => <<e, g>> \in R
    PROVE  \E s \in [1..Cardinality(S) -> S] :
               \A i, j \in 1..Cardinality(S) : i < j => <<s[i], s[j]>> \in R
<1> DEFINE n == Cardinality(S)
           Before(e) == {f \in S : <<f, e>> \in R}
           rank == [e \in S |-> Cardinality(Before(e)) + 1]
<1>1. n \in Nat
  BY FS_CardinalityType
<1>2. ASSUME NEW e \in S PROVE Cardinality(Before(e)) \in 0..(n - 1)
  <2>1. IsFiniteSet(S \ {e}) /\ Cardinality(S \ {e}) = n - 1
    BY FS_RemoveElement
  <2>2. Before(e) \in SUBSET (S \ {e})
    OBVIOUS
  <2>3. IsFiniteSet(Before(e)) /\ Cardinality(Before(e)) <= n - 1
    <3> HIDE DEF Before, n
    <3>1. /\ IsFiniteSet(Before(e))
          /\ Cardinality(Before(e)) <= Cardinality(S \ {e})
      BY <2>1, <2>2, FS_Subset
    <3> QED BY <3>1, <2>1
  <2> QED BY <2>3, <1>1, FS_CardinalityType
<1>3. ASSUME NEW e \in S, NEW f \in S, <<e, f>> \in R
      PROVE  rank[e] < rank[f]
  <2>1. IsFiniteSet(Before(f)) /\ Before(f) \in SUBSET S
    BY FS_Subset
  <2>2. Before(e) \in SUBSET Before(f)
    BY <1>3
  <2>3. e \in Before(f) /\ e \notin Before(e)
    BY <1>3
  <2>4. Cardinality(Before(e)) <= Cardinality(Before(f)) /\ Cardinality(Before(e)) # Cardinality(Before(f))
    <3> HIDE DEF Before
    <3> QED BY <2>1, <2>2, <2>3, FS_Subset
  <2> QED BY <2>4, <1>2
<1>4. rank \in [S -> 1..n]
  BY <1>1, <1>2
<1> HIDE DEF rank, Before
<1>5. ASSUME NEW e \in S, NEW f \in S, rank[e] = rank[f] PROVE e = f
  <2>1. rank[e] \in Int /\ rank[f] \in Int
    BY <1>1, <1>4
  <2>2. ~ (rank[e] < rank[f]) /\ ~ (rank[f] < rank[e])
    BY <2>1, <1>5
  <2> QED BY <2>2, <1>3
<1>6. rank \in Injection(S, 1..n)
  BY <1>4, <1>5 DEF Injection, IsInjective
<1>7. IsFiniteSet(1..n) /\ Cardinality(1..n) = n
  BY <1>1, FS_Interval
<1>8. rank \in Surjection(S, 1..n)
  BY <1>6, <1>7, FS_Injection
<1>9. \A k \in 1..n : \E e \in S : rank[e] = k
  BY <1>8 DEF Surjection
<1> DEFINE s == [k \in 1..n |-> CHOOSE e \in S : rank[e] = k]
<1>10. s \in [1..n -> S] /\ \A k \in 1..n : rank[s[k]] = k
  BY <1>9
<1> HIDE DEF s
<1>11. ASSUME NEW i \in 1..n, NEW j \in 1..n, i < j PROVE <<s[i], s[j]>> \in R
  <2>1. s[i] # s[j]
    BY <1>10, <1>11
  <2>2. ~ <<s[j], s[i]>> \in R
    BY <1>3, <1>10, <1>11
  <2> QED BY <2>1, <2>2, <1>10
<1> QED BY <1>10, <1>11

\* What comes before e, and s lists S in the order R.
Earlier(S, R, e) == {f \in S : <<f, e>> \in R}

Lists(s, S, R) ==
    /\ s \in [1..Cardinality(S) -> S]
    /\ \A i, j \in 1..Cardinality(S) : i < j => <<s[i], s[j]>> \in R

StrictOrder(S, R) ==
    /\ \A e \in S : <<e, e>> \notin R
    /\ \A e, f, g \in S : <<e, f>> \in R /\ <<f, g>> \in R => <<e, g>> \in R

\* The k-th in order has k - 1 before it.
LEMMA PlaceInOrder ==
    ASSUME NEW S, IsFiniteSet(S), NEW R, StrictOrder(S, R), NEW s, Lists(s, S, R)
    PROVE  /\ \A e \in S : \E i \in 1..Cardinality(S) : s[i] = e
           /\ \A k \in 1..Cardinality(S) : Cardinality(Earlier(S, R, s[k])) = k - 1
<1> DEFINE n == Cardinality(S)
<1>1. n \in Nat
  BY FS_CardinalityType
<1> HIDE DEF n
<1>2. s \in [1..n -> S] /\ \A i, j \in 1..n : i < j => <<s[i], s[j]>> \in R
  BY DEF n, Lists
<1>. /\ \A e \in S : <<e, e>> \notin R
     /\ \A e, f, g \in S : <<e, f>> \in R /\ <<f, g>> \in R => <<e, g>> \in R
  BY DEF StrictOrder
<1>3. ASSUME NEW i \in 1..n, NEW j \in 1..n, s[i] = s[j] PROVE i = j
  <2>1. ~ (i < j) /\ ~ (j < i)
    BY <1>2, <1>3
  <2> QED BY <1>1, <2>1
<1>4. s \in Injection(1..n, S)
  BY <1>2, <1>3 DEF Injection, IsInjective
<1>5. IsFiniteSet(1..n) /\ Cardinality(1..n) = n
  BY <1>1, FS_Interval
<1>6. s \in Surjection(1..n, S)
  BY <1>4, <1>5, FS_Injection DEF n
<1>7. \A e \in S : \E i \in 1..n : s[i] = e
  BY <1>6 DEF Surjection
<1>8. ASSUME NEW k \in 1..n
      PROVE  Cardinality(Earlier(S, R, s[k])) = k - 1
  <2> DEFINE before == {f \in S : <<f, s[k]>> \in R}
             c == [i \in 1..(k - 1) |-> s[i]]
  <2>1. k \in Nat /\ k >= 1 /\ \A i \in 1..(k - 1) : i \in 1..n /\ i < k
    BY <1>1
  <2>2. c \in [1..(k - 1) -> before]
    BY <1>2, <2>1
  <2>3. \A e \in before : \E i \in 1..(k - 1) : c[i] = e
    <3> SUFFICES ASSUME NEW e \in before PROVE \E i \in 1..(k - 1) : c[i] = e
      OBVIOUS
    <3>1. PICK i \in 1..n : s[i] = e
      BY <1>7
    <3>2. <<s[i], s[k]>> \in R /\ s[i] \in S /\ s[k] \in S
      BY <1>2, <3>1
    <3>3. i # k /\ ~ (k < i)
      BY <1>2, <3>2
    <3>4. i \in 1..(k - 1)
      BY <1>1, <3>3
    <3> QED BY <3>1, <3>4
  <2>4. \A i, j \in 1..(k - 1) : c[i] = c[j] => i = j
    BY <1>3, <2>1
  <2> HIDE DEF before, c
  <2>5. c \in Bijection(1..(k - 1), before)
    BY <2>2, <2>3, <2>4 DEF Bijection, Injection, Surjection, IsInjective
  <2>6. ExistsBijection(1..(k - 1), before)
    BY <2>5 DEF ExistsBijection
  <2>7. Cardinality(before) = k - 1
    <3>1. k - 1 \in Nat
      BY <2>1
    <3> QED BY <2>6, <3>1, FS_CountingElements
  <2> QED BY <2>7 DEF before, Earlier
<1> QED BY <1>7, <1>8 DEF n

LEMMA OrderIsUnique ==
    ASSUME NEW S, IsFiniteSet(S), NEW R, StrictOrder(S, R),
           NEW s, Lists(s, S, R), NEW t, Lists(t, S, R)
    PROVE  s = t
<1>1. /\ \A e \in S : \E i \in 1..Cardinality(S) : t[i] = e
      /\ \A k \in 1..Cardinality(S) : Cardinality(Earlier(S, R, t[k])) = k - 1
  BY PlaceInOrder
<1>2. \A k \in 1..Cardinality(S) : Cardinality(Earlier(S, R, s[k])) = k - 1
  BY PlaceInOrder
<1>3. Cardinality(S) \in Nat
  BY FS_CardinalityType
<1>4. s \in [1..Cardinality(S) -> S] /\ t \in [1..Cardinality(S) -> S]
  BY DEF Lists
<1>5. ASSUME NEW k \in 1..Cardinality(S) PROVE s[k] = t[k]
  <2>1. PICK i \in 1..Cardinality(S) : t[i] = s[k]
    BY <1>1, <1>4
  <2>2. i - 1 = k - 1
    BY <1>1, <1>2, <2>1
  <2>3. i = k
    BY <1>3, <2>2
  <2> QED BY <2>1, <2>3
<1>6. /\ s = [k \in 1..Cardinality(S) |-> s[k]]
      /\ t = [k \in 1..Cardinality(S) |-> t[k]]
  BY <1>4
<1>7. [k \in 1..Cardinality(S) |-> s[k]] = [k \in 1..Cardinality(S) |-> t[k]]
  BY <1>5
<1> QED BY <1>6, <1>7

LEMMA WindowInOrder ==
    ASSUME NEW W, IsFiniteSet(W), W \subseteq TelemetryCommand,
           \A e, f \in W : e.id = f.id => e = f
    PROVE  /\ Cardinality(W) \in Nat
           /\ InOrder(W, Chronological) \in [1..Cardinality(W) -> W]
           /\ \A i, j \in 1..Cardinality(W) :
                  i < j => Chronological(InOrder(W, Chronological)[i], InOrder(W, Chronological)[j])
<1> DEFINE R == {d \in W \X W : Chronological(d[1], d[2])}
<1>0. \A e \in W : e.at \in Int /\ e.id \in Int
  BY DEF TelemetryCommand
<1>1. \A e, f \in W : <<e, f>> \in R <=> Chronological(e, f)
  OBVIOUS
<1> HIDE DEF R
<1>2. \A e \in W : <<e, e>> \notin R
  BY <1>0, <1>1 DEF Chronological
<1>3. \A e, f \in W : e # f => <<e, f>> \in R \/ <<f, e>> \in R
  BY <1>0, <1>1 DEF Chronological
<1>4. \A e, f, g \in W : <<e, f>> \in R /\ <<f, g>> \in R => <<e, g>> \in R
  BY <1>0, <1>1 DEF Chronological
<1>5. PICK s \in [1..Cardinality(W) -> W] :
          \A i, j \in 1..Cardinality(W) : i < j => <<s[i], s[j]>> \in R
  BY <1>2, <1>3, <1>4, OrderExists
<1>6. \A i, j \in 1..Cardinality(W) : i < j => Chronological(s[i], s[j])
  BY <1>5, <1>1
<1>7. Cardinality(W) \in Nat
  BY FS_CardinalityType
<1> QED BY <1>6, <1>7 DEF InOrder

\* Two samples of one window never tie, so its samples have one order: whoever
\* sorts them, the query or the evaluator, has the same list.
THEOREM OneChronologicalOrder ==
    ASSUME NEW W, IsFiniteSet(W), W \subseteq TelemetryCommand,
           \A e, f \in W : e.id = f.id => e = f,
           NEW s \in [1..Cardinality(W) -> W],
           \A i, j \in 1..Cardinality(W) : i < j => Chronological(s[i], s[j])
    PROVE  s = InOrder(W, Chronological)
<1> DEFINE R == {d \in W \X W : Chronological(d[1], d[2])}
           t == InOrder(W, Chronological)
<1>0. \A e \in W : e.at \in Int /\ e.id \in Int
  BY DEF TelemetryCommand
<1>1. \A e, f \in W : <<e, f>> \in R <=> Chronological(e, f)
  OBVIOUS
<1> HIDE DEF R
<1>2. \A e \in W : <<e, e>> \notin R
  BY <1>0, <1>1 DEF Chronological
<1>3. \A e, f, g \in W : <<e, f>> \in R /\ <<f, g>> \in R => <<e, g>> \in R
  BY <1>0, <1>1 DEF Chronological
<1>4. StrictOrder(W, R)
  BY <1>2, <1>3 DEF StrictOrder
<1>5. Lists(s, W, R)
  BY <1>1 DEF Lists
<1>6. /\ t \in [1..Cardinality(W) -> W]
      /\ \A i, j \in 1..Cardinality(W) : i < j => Chronological(t[i], t[j])
  BY WindowInOrder
<1> HIDE DEF t
<1>7. Lists(t, W, R)
  BY <1>1, <1>6 DEF Lists
<1>8. s = t
  BY <1>4, <1>5, <1>7, OrderIsUnique
<1> QED BY <1>8 DEF t

\* The indices of the samples that have a duration.
Timed(samples) == {k \in DOMAIN samples : samples[k].duration # Absent}

LEMMA TimedSample ==
    ASSUME NEW samples \in Seq(TelemetryCommand), NEW k \in Timed(samples)
    PROVE  k \in 1..Len(samples) /\ k \in Nat /\ samples[k].duration \in Nat
<1>1. Len(samples) \in Nat /\ DOMAIN samples = 1..Len(samples)
  OBVIOUS
<1>2. k \in 1..Len(samples) /\ samples[k].duration # Absent
  BY <1>1 DEF Timed
<1>3. samples[k] \in TelemetryCommand
  BY <1>2
<1>4. samples[k].duration \in Nat \cup {Absent}
  BY <1>3 DEF TelemetryCommand
<1> QED BY <1>1, <1>2, <1>4

\* v has the duration of each timed sample once, the shortest first.
SortedDurations(v, samples) ==
    \E order \in Bijection(1..Cardinality(Timed(samples)), Timed(samples)) :
        /\ v = [k \in 1..Cardinality(Timed(samples)) |-> samples[order[k]].duration]
        /\ \A i, j \in 1..Cardinality(Timed(samples)) :
               i < j => samples[order[i]].duration <= samples[order[j]].duration

LEMMA DurationsSorted ==
    ASSUME NEW samples \in Seq(TelemetryCommand)
    PROVE  /\ IsFiniteSet(Timed(samples)) /\ Cardinality(Timed(samples)) \in Nat
           /\ SortedDurations(Durations(samples), samples)
<1> DEFINE S == Timed(samples)
           m == Cardinality(S)
           Shorter(i, j) == \/ samples[i].duration < samples[j].duration
                            \/ samples[i].duration = samples[j].duration /\ i < j
           R == {d \in S \X S : Shorter(d[1], d[2])}
           order == InOrder(S, Shorter)
<1>1. Len(samples) \in Nat /\ DOMAIN samples = 1..Len(samples)
  OBVIOUS
<1>2. IsFiniteSet(S)
  <2>1. IsFiniteSet(1..Len(samples)) /\ S \in SUBSET (1..Len(samples))
    BY <1>1, FS_Interval DEF Timed
  <2> HIDE DEF S
  <2> QED BY <2>1, FS_Subset
<1>3. \A k \in S : k \in Nat /\ samples[k].duration \in Nat
  BY TimedSample
<1>4. m \in Nat
  BY <1>2, FS_CardinalityType
<1>5. PICK s \in [1..m -> S] : \A i, j \in 1..m : i < j => <<s[i], s[j]>> \in R
  <2>1. \A e, f \in S : <<e, f>> \in R <=> Shorter(e, f)
    OBVIOUS
  <2> HIDE DEF R, S
  <2>2. \A e \in S : <<e, e>> \notin R
    BY <2>1, <1>3
  <2>3. \A e, f \in S : e # f => <<e, f>> \in R \/ <<f, e>> \in R
    BY <2>1, <1>3
  <2>4. ASSUME NEW e \in S, NEW f \in S, NEW g \in S, <<e, f>> \in R, <<f, g>> \in R
        PROVE  <<e, g>> \in R
    <3>1. /\ e \in Nat /\ f \in Nat /\ g \in Nat
          /\ samples[e].duration \in Nat
          /\ samples[f].duration \in Nat
          /\ samples[g].duration \in Nat
      BY <1>3
    <3>2. Shorter(e, f) /\ Shorter(f, g)
      BY <2>1, <2>4
    <3>3. Shorter(e, g)
      BY ONLY <3>1, <3>2
    <3> QED BY <2>1, <3>3
  <2> QED BY <1>2, <2>2, <2>3, <2>4, OrderExists
<1>6. \A i, j \in 1..m : i < j => Shorter(s[i], s[j])
  BY <1>5
<1>7. order \in [1..m -> S] /\ \A i, j \in 1..m : i < j => Shorter(order[i], order[j])
  <2> HIDE DEF S
  <2>1. \E t \in [1..m -> S] : \A i, j \in 1..m : i < j => Shorter(t[i], t[j])
    <3> HIDE DEF Shorter, m
    <3> QED BY <1>6
  <2>2. order = CHOOSE t \in [1..m -> S] : \A i, j \in 1..m : i < j => Shorter(t[i], t[j])
    BY DEF InOrder
  <2> HIDE DEF order, Shorter, m
  <2> QED BY ONLY <2>1, <2>2
<1>8. Durations(samples) = [k \in 1..m |-> samples[order[k]].duration]
  <2>1. Durations(samples) = [k \in DOMAIN order |-> samples[order[k]].duration]
    BY DEF Durations, Timed
  <2> HIDE DEF order
  <2> QED BY <2>1, <1>7
<1> HIDE DEF order, S
<1>9. ASSUME NEW i \in 1..m, NEW j \in 1..m, i < j
      PROVE  samples[order[i]].duration <= samples[order[j]].duration
  <2>1. /\ samples[order[i]].duration \in Nat
        /\ samples[order[j]].duration \in Nat
    BY <1>3, <1>7
  <2>2. Shorter(order[i], order[j])
    BY <1>7, <1>9
  <2> QED BY <2>1, <2>2
<1>10. \A i, j \in 1..m : order[i] = order[j] => i = j
  <2> SUFFICES ASSUME NEW i \in 1..m, NEW j \in 1..m, i < j PROVE order[i] # order[j]
    BY <1>4
  <2>1. Shorter(order[i], order[j]) /\ order[i] \in S
    BY <1>7
  <2> QED BY <2>1, <1>3
<1>11. order \in Injection(1..m, S)
  BY <1>7, <1>10 DEF Injection, IsInjective
<1>12. IsFiniteSet(1..m) /\ Cardinality(1..m) = m
  BY <1>4, FS_Interval
<1>13. order \in Surjection(1..m, S)
  BY <1>2, <1>11, <1>12, FS_Injection
<1>14. order \in Bijection(1..m, S)
  BY <1>11, <1>13 DEF Bijection
<1> QED BY <1>2, <1>4, <1>8, <1>9, <1>14 DEF S, SortedDurations

LEMMA NearestRank ==
    ASSUME NEW m \in Nat \ {0}, NEW c \in Nat
    PROVE  /\ (95 * m + 99) \div 100 \in 1..m
           /\ c >= (95 * m + 99) \div 100 <=> 20 * c >= 19 * m
<1> DEFINE r == (95 * m + 99) \div 100
<1>1. r \in Int /\ 100 * r <= 95 * m + 99 /\ 95 * m + 99 < 100 * r + 100
  OBVIOUS
<1> HIDE DEF r
<1> QED BY <1>1 DEF r

\* The first places of the sorted durations are those within a limit.
LEMMA PlacesWithin ==
    ASSUME NEW samples \in Seq(TelemetryCommand), NEW v, SortedDurations(v, samples),
           NEW limit \in Nat,
           NEW c, c = Cardinality({k \in Timed(samples) : samples[k].duration <= limit})
    PROVE  /\ c \in Nat
           /\ v \in [1..Cardinality(Timed(samples)) -> Nat]
           /\ \A r \in 1..Cardinality(Timed(samples)) : v[r] <= limit <=> r <= c
<1> DEFINE S == Timed(samples)
           m == Cardinality(S)
           within == {k \in S : samples[k].duration <= limit}
<1>1. IsFiniteSet(S) /\ m \in Nat
  BY DurationsSorted
<1>2. PICK order \in Bijection(1..m, S) :
          /\ v = [k \in 1..m |-> samples[order[k]].duration]
          /\ \A i, j \in 1..m : i < j => samples[order[i]].duration <= samples[order[j]].duration
  BY DEF SortedDurations
<1>3. c = Cardinality(within)
  OBVIOUS
<1>4. \A k \in S : samples[k].duration \in Nat
  BY TimedSample
<1>5. /\ order \in [1..m -> S]
      /\ \A e \in S : \E k \in 1..m : order[k] = e
      /\ \A i, j \in 1..m : order[i] = order[j] => i = j
  BY <1>2 DEF Bijection, Injection, Surjection, IsInjective
<1> HIDE DEF S
<1>6. /\ v \in [1..m -> Nat]
      /\ \A k \in 1..m : v[k] = samples[order[k]].duration
      /\ \A i, j \in 1..m : i < j => v[i] <= v[j]
  BY <1>1, <1>2, <1>4, <1>5
\* As many places of the sorted durations as samples are within the limit.
<1> DEFINE places == {k \in 1..m : v[k] <= limit}
<1>7. IsFiniteSet(places) /\ Cardinality(places) = c /\ c \in Nat
  <2>1. IsFiniteSet(1..m)
    BY <1>1, FS_Interval
  <2>2. places \in SUBSET (1..m)
    OBVIOUS
  <2>3. IsFiniteSet(places)
    <3> HIDE DEF places
    <3> QED BY <2>1, <2>2, FS_Subset
  <2> DEFINE f == [k \in places |-> order[k]]
  <2>4. f \in [places -> within]
    BY <1>5, <1>6
  <2>5. \A e \in within : \E k \in places : f[k] = e
    <3> SUFFICES ASSUME NEW e \in within PROVE \E k \in places : f[k] = e
      OBVIOUS
    <3>1. PICK k \in 1..m : order[k] = e
      BY <1>5
    <3>2. k \in places
      BY <1>6, <3>1
    <3> QED BY <3>1, <3>2
  <2>6. \A i, j \in places : f[i] = f[j] => i = j
    BY <1>5
  <2> HIDE DEF f, places, within
  <2>7. f \in Bijection(places, within)
    BY <2>4, <2>5, <2>6 DEF Bijection, Injection, Surjection, IsInjective
  <2>8. ExistsBijection(places, within)
    BY <2>7 DEF ExistsBijection
  <2>9. IsFiniteSet(within) /\ Cardinality(within) = Cardinality(places)
    BY <2>3, <2>8, FS_Bijection
  <2> QED BY <1>3, <2>3, <2>9, FS_CardinalityType DEF within
<1>8. ASSUME NEW r \in 1..m PROVE v[r] <= limit <=> r <= c
  <2>1. r \in 1..m /\ v[r] \in Nat
    BY <1>6
  <2> HIDE DEF places, within
  <2>2. ASSUME v[r] <= limit PROVE r <= c
    <3>1. ASSUME NEW k \in 1..r PROVE k \in places
      <4>1. k \in 1..m /\ r \in 1..m /\ (k < r \/ k = r)
        BY <1>1, <2>1
      <4>2. v[k] <= v[r] /\ v[k] \in Nat
        BY <1>6, <2>1, <4>1
      <4> QED BY <2>1, <2>2, <4>1, <4>2 DEF places
    <3>2. Cardinality(1..r) = r
      <4>1. r \in Int /\ 1 \in Int /\ r >= 1
        BY <1>1, <2>1
      <4>2. Cardinality(1..r) = IF 1 > r THEN 0 ELSE r - 1 + 1
        BY <4>1, FS_Interval
      <4> QED BY <4>1, <4>2
    <3>3. Cardinality(1..r) <= Cardinality(places)
      <4>1. PICK first : first = 1..r
        OBVIOUS
      <4>2. first \in SUBSET places /\ IsFiniteSet(places)
        BY <1>7, <3>1, <4>1
      <4>3. Cardinality(first) <= Cardinality(places)
        BY ONLY <4>2, FS_Subset
      <4> QED BY ONLY <4>1, <4>3
    <3> QED BY <1>7, <3>2, <3>3
  <2>3. ASSUME v[r] > limit PROVE ~ (r <= c)
    <3>1. ASSUME NEW k \in places PROVE k \in 1..(r - 1)
      <4>1. k \in 1..m /\ r \in 1..m /\ v[k] <= limit /\ v[k] \in Nat
        BY <1>6, <2>1 DEF places
      <4>2. ~ (v[r] <= v[k])
        BY <2>1, <2>3, <4>1
      <4>3. ~ (r < k) /\ r # k
        BY <1>6, <4>1, <4>2
      <4> QED BY <1>1, <4>1, <4>3
    <3>2. IsFiniteSet(1..(r - 1)) /\ Cardinality(1..(r - 1)) = r - 1
      <4>1. r \in Nat /\ r >= 1
        BY <1>1, <2>1
      <4>2. r - 1 \in Int /\ 1 \in Int
        BY <4>1
      <4>3. /\ IsFiniteSet(1..(r - 1))
            /\ Cardinality(1..(r - 1)) = IF 1 > r - 1 THEN 0 ELSE r - 1 - 1 + 1
        BY <4>2, FS_Interval
      <4> QED BY <4>1, <4>3
    <3>3. Cardinality(places) <= r - 1
      <4>1. PICK first : first = 1..(r - 1)
        OBVIOUS
      <4>2. places \in SUBSET first /\ IsFiniteSet(first) /\ Cardinality(first) = r - 1
        BY <3>1, <3>2, <4>1
      <4>3. Cardinality(places) <= Cardinality(first)
        BY ONLY <4>2, FS_Subset
      <4> QED BY ONLY <4>2, <4>3
    <3> QED BY <1>1, <1>7, <2>1, <3>3
  <2> QED BY <2>1, <2>2, <2>3
<1> QED BY <1>6, <1>7, <1>8 DEF S

\* The durations have one sorted listing, whichever way equal ones are put: a
\* sort of the values, as in the code, gives what the model does.
THEOREM OneSortedListing ==
    ASSUME NEW samples \in Seq(TelemetryCommand), NEW v, SortedDurations(v, samples)
    PROVE  v = Durations(samples)
<1> DEFINE m == Cardinality(Timed(samples))
           w == Durations(samples)
           Count(d) == Cardinality({k \in Timed(samples) : samples[k].duration <= d})
<1>1. SortedDurations(w, samples)
  BY DurationsSorted
<1>2. ASSUME NEW d \in Nat
      PROVE  /\ v \in [1..m -> Nat]
             /\ \A r \in 1..m : v[r] <= d <=> r <= Count(d)
  <2>1. PICK c : c = Cardinality({k \in Timed(samples) : samples[k].duration <= d})
    OBVIOUS
  <2>2. /\ v \in [1..m -> Nat]
        /\ \A r \in 1..m : v[r] <= d <=> r <= c
    BY <2>1, PlacesWithin
  <2> QED BY <2>1, <2>2
<1>3. ASSUME NEW d \in Nat
      PROVE  /\ w \in [1..m -> Nat]
             /\ \A r \in 1..m : w[r] <= d <=> r <= Count(d)
  <2>1. PICK c : c = Cardinality({k \in Timed(samples) : samples[k].duration <= d})
    OBVIOUS
  <2> HIDE DEF w
  <2>2. /\ w \in [1..m -> Nat]
        /\ \A r \in 1..m : w[r] <= d <=> r <= c
    BY <1>1, <2>1, PlacesWithin
  <2> QED BY <2>1, <2>2
<1> HIDE DEF m, w, Count
<1>4. v \in [1..m -> Nat] /\ w \in [1..m -> Nat]
  BY <1>2, <1>3
<1>5. ASSUME NEW r \in 1..m PROVE v[r] = w[r]
  <2>1. v[r] \in Nat /\ w[r] \in Nat
    BY <1>4
  <2>2. w[r] <= v[r]
    BY <1>2, <1>3, <2>1
  <2>3. v[r] <= w[r]
    BY <1>2, <1>3, <2>1
  <2> QED BY <2>1, <2>2, <2>3
<1>6. v = [r \in 1..m |-> v[r]] /\ w = [r \in 1..m |-> w[r]]
  BY <1>4
<1>7. [r \in 1..m |-> v[r]] = [r \in 1..m |-> w[r]]
  BY <1>5
<1> QED BY <1>6, <1>7 DEF w

\* The nearest rank is over a limit when too few durations are within it.
LEMMA P95OverLimit ==
    ASSUME NEW samples \in Seq(TelemetryCommand), NEW limit \in Nat
    PROVE  NearestRankP95(Durations(samples)) > limit <=> ~ WithinP95(limit, samples)
<1> DEFINE m == Cardinality(Timed(samples))
           c == Cardinality({k \in Timed(samples) : samples[k].duration <= limit})
           v == Durations(samples)
<1>1. m \in Nat /\ SortedDurations(v, samples)
  BY DurationsSorted
<1>2. /\ c \in Nat
      /\ v \in [1..m -> Nat]
      /\ \A r \in 1..m : v[r] <= limit <=> r <= c
  BY <1>1, PlacesWithin
<1>3. WithinP95(limit, samples) <=> 20 * c >= 19 * m
  BY DEF WithinP95, Timed
<1> HIDE DEF v, m, c
<1>4. Len(v) = m
  BY <1>1, <1>2
<1>5. CASE m = 0
  <2>1. v = <<>>
    BY <1>2, <1>5
  <2>2. 20 * c >= 19 * m
    BY <1>2, <1>5
  <2> QED BY <1>3, <2>1, <2>2 DEF NearestRankP95, Absent, v
<1>6. CASE m # 0
  <2> DEFINE r == (95 * m + 99) \div 100
  <2>1. r \in 1..m /\ (c >= r <=> 20 * c >= 19 * m)
    BY <1>1, <1>2, <1>6, NearestRank
  <2>2. NearestRankP95(v) = v[r]
    <3>1. v # <<>>
      BY <1>4, <1>6
    <3> QED BY <1>4, <3>1 DEF NearestRankP95
  <2> HIDE DEF r
  <2>3. v[r] \in Nat /\ r \in Nat
    BY <1>1, <1>2, <2>1
  <2>4. v[r] > limit <=> ~ (c >= r)
    <3>1. v[r] <= limit <=> r <= c
      BY <1>2, <2>1
    <3> QED BY <1>2, <2>3, <3>1
  <2> QED BY <1>3, <2>1, <2>2, <2>4 DEF v
<1> QED BY <1>5, <1>6

\* What the loop has counted after the sample n, from what it had before.
Counters == [current: Nat, maximum: Nat]

Counted(samples, n, before) ==
    LET current == IF samples[n].outcome \in Failures THEN before.current + 1 ELSE 0
    IN  [current |-> current,
         maximum |-> IF current > before.maximum THEN current ELSE before.maximum]

LEMMA CountedType ==
    ASSUME NEW samples, NEW n, NEW before \in Counters
    PROVE  Counted(samples, n, before) \in Counters
BY DEF Counted, Counters

LEMMA RunsOfPrefix ==
    ASSUME NEW samples, NEW N \in Nat
    PROVE  \E f \in [0..N -> Counters] :
               /\ f[0] = [current |-> 0, maximum |-> 0]
               /\ \A n \in 1..N : f[n] = Counted(samples, n, f[n - 1])
<1> DEFINE Loop(f, M) == /\ f \in [0..M -> Counters]
                         /\ f[0] = [current |-> 0, maximum |-> 0]
                         /\ \A n \in 1..M : f[n] = Counted(samples, n, f[n - 1])
           T == {M \in Nat : \E f : Loop(f, M)}
<1>1. 0 \in T
  <2>1. Loop([n \in 0..0 |-> [current |-> 0, maximum |-> 0]], 0)
    BY DEF Counters
  <2> QED BY <2>1
<1>2. ASSUME NEW M \in T PROVE M + 1 \in T
  <2>1. PICK f : Loop(f, M)
    OBVIOUS
  <2>2. M \in Nat
    OBVIOUS
  <2> DEFINE last == Counted(samples, M + 1, f[M])
             g == [n \in 0..(M + 1) |-> IF n = M + 1 THEN last ELSE f[n]]
  <2>3. last \in Counters
    BY <2>1, <2>2, CountedType
  <2> HIDE DEF last
  <2>4. g \in [0..(M + 1) -> Counters]
    BY <2>1, <2>2, <2>3
  <2>5. g[M + 1] = last /\ \A n \in 0..M : g[n] = f[n]
    BY <2>2
  <2> HIDE DEF g
  <2>6. g[0] = [current |-> 0, maximum |-> 0]
    BY <2>1, <2>2, <2>5
  <2>7. ASSUME NEW n \in 1..(M + 1) PROVE g[n] = Counted(samples, n, g[n - 1])
    <3>1. CASE n = M + 1
      <4>1. g[n - 1] = f[M]
        BY <2>2, <2>5, <3>1
      <4> QED BY <2>5, <3>1, <4>1 DEF last
    <3>2. CASE n # M + 1
      <4>1. n \in 1..M /\ n \in 0..M /\ n - 1 \in 0..M
        BY <2>2, <3>2
      <4>2. g[n] = f[n] /\ g[n - 1] = f[n - 1]
        BY <2>5, <4>1
      <4>3. f[n] = Counted(samples, n, f[n - 1])
        BY <2>1, <4>1
      <4> QED BY <4>2, <4>3
    <3> QED BY <3>1, <3>2
  <2>8. Loop(g, M + 1)
    BY <2>4, <2>6, <2>7
  <2> QED BY <2>2, <2>8
<1>3. T = Nat
  <2>1. T \in SUBSET Nat
    OBVIOUS
  <2> HIDE DEF T
  <2> QED BY <1>1, <1>2, <2>1, EveryNatural
<1>4. PICK f : Loop(f, N)
  BY <1>3
<1> QED BY <1>4

LEMMA RunsDefined ==
    ASSUME NEW samples, Len(samples) \in Nat
    PROVE  /\ FailureRuns(samples) \in [0..Len(samples) -> Counters]
           /\ FailureRuns(samples)[0] = [current |-> 0, maximum |-> 0]
           /\ \A n \in 1..Len(samples) :
                  FailureRuns(samples)[n] = Counted(samples, n, FailureRuns(samples)[n - 1])
<1> DEFINE N == Len(samples)
           Body(run, n) == IF n = 0 THEN [current |-> 0, maximum |-> 0]
                           ELSE Counted(samples, n, run[n - 1])
<1>1. PICK f \in [0..N -> Counters] :
          /\ f[0] = [current |-> 0, maximum |-> 0]
          /\ \A n \in 1..N : f[n] = Counted(samples, n, f[n - 1])
  BY RunsOfPrefix
<1>2. FailureRuns(samples) = CHOOSE run : run = [n \in 0..N |-> Body(run, n)]
  BY DEF FailureRuns, Counted
<1>3. f = [n \in 0..N |-> Body(f, n)]
  <2>1. \A n \in 0..N : n = 0 \/ n \in 1..N
    OBVIOUS
  <2>2. \A n \in 0..N : f[n] = Body(f, n)
    BY <1>1, <2>1
  <2> HIDE DEF Body
  <2> QED BY <1>1, <2>2
<1> DEFINE run == FailureRuns(samples)
<1>4. run = [n \in 0..N |-> Body(run, n)]
  <2> HIDE DEF Body
  <2> QED BY <1>2, <1>3
<1> HIDE DEF run
<1>5. run[0] = [current |-> 0, maximum |-> 0]
  <2>1. 0 \in 0..N
    OBVIOUS
  <2> QED BY <1>4, <2>1
<1>6. ASSUME NEW n \in 1..N PROVE run[n] = Counted(samples, n, run[n - 1])
  <2>1. n \in 0..N /\ n # 0
    OBVIOUS
  <2> QED BY <1>4, <2>1
<1>7. \A n \in Nat : n \in 0..N => run[n] \in Counters
  <2> DEFINE T == {n \in Nat : n \in 0..N => run[n] \in Counters}
  <2>1. 0 \in T
    BY <1>5 DEF Counters
  <2>2. ASSUME NEW n \in T PROVE n + 1 \in T
    <3>1. CASE n + 1 \in 1..N
      <4>1. run[n] \in Counters
        BY <3>1
      <4>2. run[n + 1] = Counted(samples, n + 1, run[n])
        BY <1>6, <3>1
      <4> QED BY <4>1, <4>2, CountedType
    <3>2. CASE n + 1 \notin 1..N
      BY <3>2
    <3> QED BY <3>1, <3>2
  <2>3. T = Nat
    <3>1. T \in SUBSET Nat
      OBVIOUS
    <3> HIDE DEF T
    <3> QED BY <2>1, <2>2, <3>1, EveryNatural
  <2> QED BY <2>3
<1>8. run \in [0..N -> Counters]
  BY <1>4, <1>7
<1> QED BY <1>5, <1>6, <1>8 DEF run

\* The samples from one place to another are failures.
AllFailed(samples, first, last) == \A k \in first..last : samples[k].outcome \in Failures

LEMMA CurrentRun ==
    ASSUME NEW samples, Len(samples) \in Nat
    PROVE  \A k \in 0..Len(samples), n \in Nat :
               FailureRuns(samples)[k].current >= n <=>
                   n <= k /\ AllFailed(samples, k - n + 1, k)
<1> DEFINE N == Len(samples)
           run == FailureRuns(samples)
           Ends(k, n) == run[k].current >= n <=> n <= k /\ AllFailed(samples, k - n + 1, k)
           T == {k \in Nat : k \in 0..N => \A n \in Nat : Ends(k, n)}
<1>1. /\ run \in [0..N -> Counters]
      /\ run[0] = [current |-> 0, maximum |-> 0]
      /\ \A k \in 1..N : run[k] = Counted(samples, k, run[k - 1])
  BY RunsDefined
<1> HIDE DEF run
<1>2. 0 \in T
  <2>1. run[0].current = 0
    BY <1>1
  <2>2. ASSUME NEW n \in Nat PROVE Ends(0, n)
    BY <2>1 DEF AllFailed
  <2> QED BY <2>2
<1>3. ASSUME NEW k \in T PROVE k + 1 \in T
  <2> SUFFICES ASSUME k + 1 \in 0..N, NEW n \in Nat PROVE Ends(k + 1, n)
    OBVIOUS
  <2>1. k \in Nat /\ k \in 0..N /\ k + 1 \in 1..N /\ N \in Nat
    OBVIOUS
  <2>2. run[k].current \in Nat
    BY <1>1, <2>1 DEF Counters
  <2>3. run[k + 1].current =
            IF samples[k + 1].outcome \in Failures THEN run[k].current + 1 ELSE 0
    <3>1. run[k + 1] = Counted(samples, k + 1, run[k])
      <4>1. run[k + 1] = Counted(samples, k + 1, run[k + 1 - 1])
        BY <1>1, <2>1
      <4>2. k + 1 - 1 = k
        BY <2>1
      <4> QED BY <4>1, <4>2
    <3> QED BY <3>1 DEF Counted
  <2>4. \A j \in Nat : Ends(k, j)
    BY <2>1
  <2> HIDE DEF T
  <2>5. CASE n = 0
    BY <2>1, <2>2, <2>3, <2>5 DEF AllFailed
  <2>6. CASE n # 0 /\ samples[k + 1].outcome \in Failures
    <3>1. n - 1 \in Nat
      BY <2>6
    <3>2. run[k + 1].current >= n <=> run[k].current >= n - 1
      BY <2>2, <2>3, <2>6
    <3>3. AllFailed(samples, k + 1 - n + 1, k + 1) <=> AllFailed(samples, k - (n - 1) + 1, k)
      <4>1. k + 1 - n + 1 = k - (n - 1) + 1 /\ k + 1 - n + 1 \in Int
        BY <2>1
      <4>2. \A i \in (k + 1 - n + 1)..(k + 1) : i = k + 1 \/ i \in (k + 1 - n + 1)..k
        BY <2>1, <4>1
      <4>3. \A i \in (k + 1 - n + 1)..k : i \in (k + 1 - n + 1)..(k + 1)
        BY <2>1, <4>1
      <4> QED BY <2>6, <4>1, <4>2, <4>3 DEF AllFailed
    <3>4. n <= k + 1 <=> n - 1 <= k
      BY <2>1
    <3>5. Ends(k, n - 1)
      BY <2>4, <3>1
    <3> QED BY <2>1, <3>2, <3>3, <3>4, <3>5
  <2>7. CASE n # 0 /\ samples[k + 1].outcome \notin Failures
    <3>1. ~ (run[k + 1].current >= n)
      BY <2>3, <2>7
    <3>2. ~ AllFailed(samples, k + 1 - n + 1, k + 1)
      <4>1. k + 1 \in (k + 1 - n + 1)..(k + 1)
        BY <2>1, <2>7
      <4> QED BY <2>7, <4>1 DEF AllFailed
    <3> QED BY <2>1, <3>1, <3>2
  <2> QED BY <2>5, <2>6, <2>7
<1>4. T = Nat
  <2>1. T \in SUBSET Nat
    OBVIOUS
  <2> HIDE DEF T
  <2> QED BY <1>2, <1>3, <2>1, EveryNatural
<1> QED BY <1>4 DEF run

LEMMA LongestRun ==
    ASSUME NEW samples, Len(samples) \in Nat, NEW n \in Nat \ {0}
    PROVE  \A k \in 0..Len(samples) :
               FailureRuns(samples)[k].maximum >= n <=>
                   \E first \in 1..(k - n + 1) : AllFailed(samples, first, first + n - 1)
<1> DEFINE N == Len(samples)
           run == FailureRuns(samples)
           Within(k) == \E first \in 1..(k - n + 1) : AllFailed(samples, first, first + n - 1)
           T == {k \in Nat : k \in 0..N => (run[k].maximum >= n <=> Within(k))}
<1>1. /\ run \in [0..N -> Counters]
      /\ run[0] = [current |-> 0, maximum |-> 0]
      /\ \A k \in 1..N : run[k] = Counted(samples, k, run[k - 1])
  BY RunsDefined
<1>2. \A k \in 0..N : run[k].current >= n <=> n <= k /\ AllFailed(samples, k - n + 1, k)
  BY CurrentRun
<1> HIDE DEF run
<1>3. 0 \in T
  <2>1. run[0].maximum = 0
    BY <1>1
  <2>2. ~ Within(0)
    OBVIOUS
  <2> QED BY <2>1, <2>2
<1>4. ASSUME NEW k \in T PROVE k + 1 \in T
  <2> SUFFICES ASSUME k + 1 \in 0..N PROVE run[k + 1].maximum >= n <=> Within(k + 1)
    OBVIOUS
  <2>1. k \in Nat /\ k \in 0..N /\ k + 1 \in 1..N /\ N \in Nat
    OBVIOUS
  <2>2. run[k].maximum \in Nat /\ run[k + 1].current \in Nat
    BY <1>1, <2>1 DEF Counters
  <2>3. run[k + 1].maximum = IF run[k + 1].current > run[k].maximum
                             THEN run[k + 1].current ELSE run[k].maximum
    <3>1. run[k + 1] = Counted(samples, k + 1, run[k])
      <4>1. run[k + 1] = Counted(samples, k + 1, run[k + 1 - 1])
        BY <1>1, <2>1
      <4>2. k + 1 - 1 = k
        BY <2>1
      <4> QED BY <4>1, <4>2
    <3> QED BY <3>1 DEF Counted
  <2>4. run[k + 1].maximum >= n <=> run[k + 1].current >= n \/ run[k].maximum >= n
    <3> DEFINE old == run[k].maximum
               current == run[k + 1].current
    <3>1. old \in Nat /\ current \in Nat
      BY <2>2
    <3>2. run[k + 1].maximum = IF current > old THEN current ELSE old
      BY <2>3
    <3> HIDE DEF old, current
    <3>3. (IF current > old THEN current ELSE old) >= n <=> current >= n \/ old >= n
      BY <3>1
    <3> QED BY <3>2, <3>3 DEF old, current
  <2>5. run[k].maximum >= n <=> Within(k)
    BY <2>1
  <2>6. run[k + 1].current >= n <=> n <= k + 1 /\ AllFailed(samples, k + 1 - n + 1, k + 1)
    BY <1>2
  <2> HIDE DEF T
  <2>7. Within(k + 1) <=> Within(k) \/ (n <= k + 1 /\ AllFailed(samples, k + 1 - n + 1, k + 1))
    <3>1. k + 1 - n + 1 + n - 1 = k + 1
      BY <2>1
    <3>2. \A first \in 1..(k + 1 - n + 1) : first \in 1..(k - n + 1) \/ first = k + 1 - n + 1
      BY <2>1
    <3>3. \A first \in 1..(k - n + 1) : first \in 1..(k + 1 - n + 1)
      BY <2>1
    <3>4. n <= k + 1 <=> k + 1 - n + 1 \in 1..(k + 1 - n + 1)
      BY <2>1
    <3> QED BY <2>1, <3>1, <3>2, <3>3, <3>4
  <2> QED BY <2>4, <2>5, <2>6, <2>7
<1>5. T = Nat
  <2>1. T \in SUBSET Nat
    OBVIOUS
  <2> HIDE DEF T
  <2> QED BY <1>3, <1>4, <2>1, EveryNatural
<1> QED BY <1>5 DEF run

\* The counters of the loop reach n just when n samples in a row failed.
LEMMA MaxConsecutiveIsARun ==
    ASSUME NEW samples, Len(samples) \in Nat, NEW n \in Nat \ {0}
    PROVE  MaxConsecutiveFailures(samples) >= n <=> SomeRunOf(n, samples)
<1>1. Len(samples) \in 0..Len(samples)
  OBVIOUS
<1>2. MaxConsecutiveFailures(samples) >= n <=>
          \E first \in 1..(Len(samples) - n + 1) : AllFailed(samples, first, first + n - 1)
  BY <1>1, LongestRun DEF MaxConsecutiveFailures
<1> QED BY <1>2 DEF SomeRunOf, AllFailed

LEMMA ReasonsJustified ==
    ASSUME NEW p \in Policies, NEW samples \in Seq(TelemetryCommand)
    PROVE  Reasons(p, samples) = {r \in BreachReasons : Justified(p, samples, r)}
<1>1. /\ p.p95 \in Nat \cup {Absent}
      /\ p.consecutive # Absent => p.consecutive \in Nat \ {0}
  <2>1. ValidPolicy(p)
    BY PoliciesAssumption
  <2>2. p.p95 \in Nat \cup {Absent} /\ p.size \in Nat
    BY <2>1 DEF ValidPolicy, PolicyContent
  <2> QED BY <2>1, <2>2 DEF ValidPolicy
<1>2. Len(samples) \in Nat
  OBVIOUS
<1>3. p.p95 # Absent =>
          (NearestRankP95(Durations(samples)) > p.p95 <=> ~ WithinP95(p.p95, samples))
  BY <1>1, P95OverLimit
<1>4. p.consecutive # Absent =>
          (MaxConsecutiveFailures(samples) >= p.consecutive <=> SomeRunOf(p.consecutive, samples))
  BY <1>1, <1>2, MaxConsecutiveIsARun
<1>5. ASSUME NEW r \in BreachReasons
      PROVE  r \in Reasons(p, samples) <=> Justified(p, samples, r)
  <2>1. CASE r = "failure_rate"
    BY <2>1 DEF Reasons, Justified, FailureCount
  <2>2. CASE r = "p95_duration"
    BY <1>3, <2>2 DEF Reasons, Justified
  <2>3. CASE r = "consecutive_failures"
    BY <1>4, <2>3 DEF Reasons, Justified
  <2> QED BY <2>1, <2>2, <2>3 DEF BreachReasons
<1>6. Reasons(p, samples) \subseteq BreachReasons
  BY DEF Reasons
<1> QED BY <1>5, <1>6

\* The query hands over the newest samples of the window, the oldest first.
LEMMA SamplesListed ==
    ASSUME telemetry \subseteq TelemetryEvents, IsFiniteSet(telemetry),
           \A e, f \in telemetry : e.id = f.id => e = f,
           NEW p \in Policies, NEW at
    PROVE  /\ ListTerminalSamples(p, at) \in Seq(Window(p, at, telemetry))
           /\ Len(ListTerminalSamples(p, at)) <= p.size
           /\ \A i, j \in 1..Len(ListTerminalSamples(p, at)) :
                  i < j => Chronological(ListTerminalSamples(p, at)[i], ListTerminalSamples(p, at)[j])
<1> DEFINE W == Window(p, at, telemetry)
           n == Cardinality(W)
           s == InOrder(W, Chronological)
           first == IF n > p.size THEN n - p.size + 1 ELSE 1
<1>1. p.size \in Nat
  BY PoliciesAssumption DEF ValidPolicy, PolicyContent
<1>2. W \in SUBSET telemetry
  BY DEF Window
<1>3. IsFiniteSet(W)
  <2> HIDE DEF W
  <2> QED BY <1>2, FS_Subset
<1>4. W \subseteq TelemetryCommand
  BY <1>2, PoliciesAssumption
<1> HIDE DEF W
<1>5. /\ n \in Nat
      /\ s \in [1..n -> W]
      /\ \A i, j \in 1..n : i < j => Chronological(s[i], s[j])
  BY <1>2, <1>3, <1>4, WindowInOrder
<1> HIDE DEF s, n
<1>6. s \in Seq(W) /\ Len(s) = n
  BY <1>5
<1>7. first \in Int /\ first >= 1 /\ n - first + 1 <= p.size
  BY <1>1, <1>5
<1>8. ListTerminalSamples(p, at) = SubSeq(s, first, n)
  BY <1>6 DEF ListTerminalSamples, LastOf, W, s, n
<1> HIDE DEF first
<1> DEFINE samples == SubSeq(s, first, n)
<1>9. /\ samples \in Seq(W)
      /\ Len(samples) = IF first <= n THEN n - first + 1 ELSE 0
      /\ \A i \in 1..(n - first + 1) : samples[i] = s[first + i - 1]
  <2>1. \A i \in first..n : s[i] \in W
    BY <1>5, <1>7
  <2> QED BY <1>5, <1>7, <2>1, SubSeqProperties
<1> HIDE DEF samples
<1>10. Len(samples) <= p.size
  BY <1>1, <1>5, <1>7, <1>9
<1>11. ASSUME NEW i \in 1..Len(samples), NEW j \in 1..Len(samples), i < j
       PROVE  Chronological(samples[i], samples[j])
  <2>1. i \in 1..(n - first + 1) /\ j \in 1..(n - first + 1)
    BY <1>5, <1>7, <1>9
  <2>2. first + i - 1 \in 1..n /\ first + j - 1 \in 1..n /\ first + i - 1 < first + j - 1
    BY <1>5, <1>7, <1>11, <2>1
  <2>3. samples[i] = s[first + i - 1] /\ samples[j] = s[first + j - 1]
    BY <1>9, <2>1
  <2> QED BY <1>5, <2>2, <2>3
<1> QED BY <1>8, <1>9, <1>10, <1>11 DEF W, samples

\* Samples in strict order are as many as their places.
LEMMA DistinctSamples ==
    ASSUME NEW samples \in Seq(TelemetryCommand),
           \A i, j \in 1..Len(samples) : i < j => Chronological(samples[i], samples[j])
    PROVE  Cardinality(ToSet(samples)) = Len(samples)
<1> DEFINE n == Len(samples)
<1>1. n \in Nat /\ samples \in [1..n -> TelemetryCommand]
  OBVIOUS
<1>2. ASSUME NEW i \in 1..n, NEW j \in 1..n, i < j PROVE samples[i] # samples[j]
  <2>1. samples[i] \in TelemetryCommand
    OBVIOUS
  <2>2. samples[i].at \in Int /\ samples[i].id \in Int
    BY <2>1 DEF TelemetryCommand
  <2> QED BY <1>2, <2>2 DEF Chronological
<1>3. \A i, j \in 1..n : samples[i] = samples[j] => i = j
  BY <1>1, <1>2
<1>4. samples \in [1..n -> ToSet(samples)]
  BY <1>1 DEF ToSet
<1>5. \A e \in ToSet(samples) : \E i \in 1..n : samples[i] = e
  BY <1>1 DEF ToSet
<1>6. samples \in Bijection(1..n, ToSet(samples))
  BY <1>3, <1>4, <1>5 DEF Bijection, Injection, Surjection, IsInjective
<1>7. ExistsBijection(1..n, ToSet(samples))
  BY <1>6 DEF ExistsBijection
<1> QED BY <1>1, <1>7, FS_CountingElements

LEMMA AssessedIsRetold ==
    ASSUME telemetry \subseteq TelemetryEvents, IsFiniteSet(telemetry),
           \A e, f \in telemetry : e.id = f.id => e = f,
           NEW p \in Policies, p.enabled, NEW version \in Nat \ {0}, NEW at \in Nat,
           NEW row, row = Assessed(version, p, at, ListTerminalSamples(p, at))
    PROVE  row \in EvaluationRow /\ row.policy = version /\ Retold(row, p, telemetry)
<1> DEFINE samples == ListTerminalSamples(p, at)
           W == Window(p, at, telemetry)
           reasons == IF Enough(p, samples) THEN Reasons(p, samples) ELSE {}
           outcome == IF ~Enough(p, samples) THEN "insufficient_data"
                      ELSE IF reasons = {} THEN "healthy" ELSE "breached"
           severe == IF reasons = {} THEN 0 ELSE p.severity
<1>1. /\ samples \in Seq(W)
      /\ Len(samples) <= p.size
      /\ \A i, j \in 1..Len(samples) : i < j => Chronological(samples[i], samples[j])
  BY SamplesListed
<1>2. row = [policy |-> version, at |-> at, sources |-> samples, outcome |-> outcome,
             reasons |-> reasons, severity |-> severe]
  BY DEF Assessed
<1>3. W \subseteq TelemetryCommand
  BY PoliciesAssumption DEF Window
<1> HIDE DEF samples, W
<1>4. samples \in Seq(TelemetryCommand)
  BY <1>1, <1>3
<1>5. Reasons(p, samples) = {r \in BreachReasons : Justified(p, samples, r)}
  BY <1>4, ReasonsJustified
<1>6. p.severity \in Severities /\ p.minimum \in Nat
  BY PoliciesAssumption DEF ValidPolicy, PolicyContent
<1>7. reasons \subseteq BreachReasons
  BY DEF Reasons
<1>8. outcome # "insufficient_data" =>
          /\ Len(samples) >= p.minimum
          /\ reasons = {r \in BreachReasons : Justified(p, samples, r)}
  BY <1>5 DEF Enough
<1>9. outcome = "breached" <=> reasons # {}
  OBVIOUS
<1>10. outcome \in {"insufficient_data", "healthy", "breached"} /\ severe \in Severities \cup {0}
  BY <1>6
<1> HIDE DEF reasons, outcome, severe
<1>11. row \in EvaluationRow
  BY <1>2, <1>4, <1>7, <1>10 DEF EvaluationRow
<1>12. /\ row.policy = version /\ row.at = at /\ row.sources = samples
       /\ row.outcome = outcome /\ row.reasons = reasons
  BY <1>2
<1>13. Cardinality(ToSet(samples)) = Len(samples)
  BY <1>1, <1>4, DistinctSamples
<1>14. ToSet(samples) \subseteq W
  BY <1>1 DEF ToSet
<1>15. DOMAIN samples = 1..Len(samples)
  BY <1>1
<1>16. Retold(row, p, telemetry)
  BY <1>1, <1>8, <1>9, <1>12, <1>13, <1>14, <1>15 DEF Retold, W
<1> QED BY <1>11, <1>12, <1>16

\* Events that come later take nothing from what an evaluation names.
LEMMA RetoldStays ==
    ASSUME NEW row, NEW p, NEW events, NEW more, events \subseteq more, Retold(row, p, events)
    PROVE  Retold(row, p, more)
<1>1. Window(p, row.at, events) \subseteq Window(p, row.at, more)
  BY DEF Window
<1> QED BY <1>1 DEF Retold

\* Rows that stand, of policies that stand, over events that stay.
LEMMA EvidenceStands ==
    ASSUME EvaluationsInv, EvidenceInv,
           telemetry \subseteq telemetry', telemetry' \subseteq TelemetryEvents,
           IsFiniteSet(telemetry'),
           \A e, f \in telemetry' : e.id = f.id => e = f,
           DOMAIN policies \subseteq DOMAIN policies',
           \A v \in DOMAIN policies : policies'[v] = policies[v],
           reading' # 0 => policies'[reading'].enabled,
           UNCHANGED evaluations
    PROVE  EvidenceInv'
<1>1. ASSUME NEW k \in DOMAIN evaluations
      PROVE  /\ evaluations'[k] \in EvaluationRow
             /\ evaluations'[k].policy \in DOMAIN policies'
             /\ Retold(evaluations'[k], policies'[evaluations'[k].policy], telemetry')
  <2>1. PICK row : row = evaluations[k]
    OBVIOUS
  <2>2. PICK p : p = policies[row.policy]
    OBVIOUS
  <2>3. PICK events : events = telemetry
    OBVIOUS
  <2>4. PICK more : more = telemetry'
    OBVIOUS
  <2>5. row \in EvaluationRow /\ row.policy \in DOMAIN policies /\ Retold(row, p, events)
    BY <2>1, <2>2, <2>3 DEF EvidenceInv
  <2>6. Retold(row, p, more)
    BY <2>3, <2>4, <2>5, RetoldStays
  <2>7. evaluations'[k] = row /\ policies'[row.policy] = p
    BY <2>1, <2>2, <2>5
  <2> QED BY <2>4, <2>5, <2>6, <2>7
<1>2. DOMAIN evaluations' = DOMAIN evaluations
  OBVIOUS
<1> QED BY <1>1, <1>2 DEF EvidenceInv

LEMMA EvidenceStep ==
    ASSUME EvaluationsInv, EvidenceInv, AssuranceStep \/ AssuranceTick \/ UNCHANGED assurance
    PROVE  EvidenceInv'
<1>0. /\ telemetry \subseteq TelemetryEvents /\ IsFiniteSet(telemetry)
      /\ \A e, f \in telemetry : e.id = f.id => e = f
      /\ reading # 0 => policies[reading].enabled
  BY DEF EvidenceInv
<1>1. /\ policies \in Seq(Policies) /\ reading \in 0..Len(policies)
      /\ Len(policies) \in Nat /\ DOMAIN policies = 1..Len(policies) /\ now \in Nat
  BY DEF EvaluationsInv
\* The events, the policies and the rows are as before.
<1>2. ASSUME UNCHANGED <<telemetry, policies, evaluations>>,
             reading' # 0 => policies[reading'].enabled
      PROVE  EvidenceInv'
  BY <1>0, <1>2, EvidenceStands
<1>3. CASE AssuranceTick
  BY <1>0, <1>2, <1>3 DEF AssuranceTick
<1>4. CASE UNCHANGED assurance
  BY <1>0, <1>2, <1>4 DEF assurance
<1>5. CASE BeginEvaluation
  BY <1>2, <1>5 DEF BeginEvaluation, GetPolicy
<1>6. CASE AbandonEvaluation
  BY <1>2, <1>6 DEF AbandonEvaluation
<1>7. ASSUME NEW e \in TelemetryEvents, IngestTelemetry(e)
      PROVE  EvidenceInv'
  <2>1. telemetry' = telemetry \cup {e} /\ \A known \in telemetry : known.id # e.id
    BY <1>7 DEF IngestTelemetry, SaveTelemetry
  <2>2. UNCHANGED <<now, policies, reading, evaluations>>
    BY <1>7 DEF IngestTelemetry
  <2>3. IsFiniteSet(telemetry \cup {e})
    BY <1>0, FS_AddElement
  <2>4. IsFiniteSet(telemetry')
    BY <2>1, <2>3
  <2>5. \A f, g \in telemetry' : f.id = g.id => f = g
    BY <1>0, <2>1
  <2>6. telemetry \subseteq telemetry' /\ telemetry' \subseteq TelemetryEvents
    BY <1>0, <2>1
  <2> QED BY <1>0, <2>2, <2>4, <2>5, <2>6, EvidenceStands
<1>8. ASSUME NEW p \in Policies, NEW expected, PutPolicy(p, expected)
      PROVE  EvidenceInv'
  <2>1. policies' = Append(policies, p) /\ UNCHANGED <<now, telemetry, reading, evaluations>>
    BY <1>8 DEF PutPolicy, SavePolicy
  <2>2. /\ DOMAIN policies \subseteq DOMAIN policies'
        /\ \A v \in DOMAIN policies : policies'[v] = policies[v]
    BY <1>1, <2>1
  <2>3. reading' # 0 => policies'[reading'].enabled
    <3>1. reading # 0 => reading \in DOMAIN policies
      BY <1>1
    <3> QED BY <1>0, <2>1, <2>2, <3>1
  <2> QED BY <1>0, <2>1, <2>2, <2>3, EvidenceStands
<1>9. CASE RecordEvaluation
  <2>1. PICK p : p = policies[reading]
    OBVIOUS
  <2>2. PICK row : row = Assessed(reading, p, now, ListTerminalSamples(p, now))
    OBVIOUS
  <2>3. reading # 0 /\ reading \in DOMAIN policies /\ p \in Policies /\ p.enabled
    BY <1>0, <1>1, <1>9, <2>1 DEF RecordEvaluation
  <2>4. evaluations' = Append(evaluations, row)
    BY <1>9, <2>1, <2>2 DEF RecordEvaluation, SaveEvaluation, EvaluateSamples
  <2>5. UNCHANGED <<now, telemetry, policies>> /\ reading' = 0
    BY <1>9 DEF RecordEvaluation
  <2>6. reading \in Nat \ {0}
    BY <1>1, <2>3
  <2>7. row \in EvaluationRow /\ row.policy = reading /\ Retold(row, p, telemetry)
    BY <1>0, <1>1, <2>2, <2>3, <2>6, AssessedIsRetold
  <2>8. PICK S : evaluations \in Seq(S)
    BY DEF EvaluationsInv
  <2>9. /\ DOMAIN evaluations = 1..Len(evaluations)
        /\ DOMAIN evaluations' = 1..(Len(evaluations) + 1)
        /\ \A i \in DOMAIN evaluations : evaluations'[i] = evaluations[i]
        /\ evaluations'[Len(evaluations) + 1] = row
    <3>1. PICK more : more = Append(evaluations, row)
      OBVIOUS
    <3>2. /\ DOMAIN evaluations = 1..Len(evaluations)
          /\ DOMAIN more = 1..(Len(evaluations) + 1)
          /\ \A i \in DOMAIN evaluations : more[i] = evaluations[i]
          /\ more[Len(evaluations) + 1] = row
      BY <2>8, <3>1, AppendedRow
    <3>3. evaluations' = more
      BY <2>4, <3>1
    <3> QED BY ONLY <3>2, <3>3
  <2>10. Len(evaluations) \in Nat
    BY <2>8
  <2>11. ASSUME NEW k \in DOMAIN evaluations'
         PROVE  /\ evaluations'[k] \in EvaluationRow
                /\ evaluations'[k].policy \in DOMAIN policies
                /\ Retold(evaluations'[k], policies[evaluations'[k].policy], telemetry)
    <3>1. CASE k \in DOMAIN evaluations
      BY <2>9, <3>1 DEF EvidenceInv
    <3>2. CASE k = Len(evaluations) + 1
      <4>1. evaluations'[k] = row
        BY <2>9, <3>2
      <4> QED BY <2>1, <2>3, <2>7, <4>1
    <3> QED BY <2>9, <2>10, <3>1, <3>2
  <2> QED BY <1>0, <2>5, <2>11 DEF EvidenceInv
<1> QED BY <1>3, <1>4, <1>5, <1>6, <1>7, <1>8, <1>9 DEF AssuranceStep

\* Nothing else touches the telemetry, the policies or the evaluations.
LEMMA EvidenceKept ==
    ASSUME EvaluationsInv, EvidenceInv, [Next]_vars
    PROVE  EvidenceInv'
<1>1. AssuranceStep \/ AssuranceTick \/ UNCHANGED assurance
  BY DEF Next, PromoteToNewIncident, PromoteToActiveIncident, PromoteAndEscalate, Recommend,
         SwitchOrEdit, IncidentCommand, ReportIncident, ExceptionCommand, vars
<1> QED BY <1>1, EvidenceStep

-----------------------------------------------------------------------------
(* What follows *)

LEMMA LoopInvStep ==
    ASSUME LoopInv, [Next]_vars
    PROVE  LoopInv'
BY AgesStep, EvidenceKept, RecommendationsStep, ExceptionsStep DEF LoopInv

LEMMA LoopInvInit ==
    ASSUME Init
    PROVE  LoopInv
<1> USE DEF Init
<1>1. EvaluationsInv
  <2>1. <<>> \in Seq({}) /\ <<>> \in Seq(Policies) /\ Len(<<>>) = 0
    OBVIOUS
  <2> QED BY <2>1, BoundsAssumption DEF AssuranceInit, EvaluationsInv
<1>2. EvidenceInv
  <2>1. telemetry = {} /\ reading = 0 /\ DOMAIN evaluations = {}
    BY DEF AssuranceInit
  <2> QED BY <2>1, FS_EmptySet DEF EvidenceInv
<1>3. PromotionsInv
  BY DEF IncidentInit, IncidentRow, IncidentStatuses, PromotionsInv, OneActiveIncident
<1>4. RecommendationsInv
  BY DEF RecommendationsInv
<1>5. ExceptionsInv
  BY DEF ExceptionsInv, ExceptionsInit, NoException
<1> QED BY <1>1, <1>2, <1>3, <1>4, <1>5 DEF LoopInv

\* In every reachable state the promotions and the recommendations are of
\* breaches that were recorded, and no exception was granted by its requester.
THEOREM LoopIsSound == Spec => []LoopInv
<1>1. Init => LoopInv
  BY LoopInvInit
<1>2. LoopInv /\ [Next]_vars => LoopInv'
  BY LoopInvStep
<1> QED BY <1>1, <1>2, PTL DEF Spec

\* The tables hold what their columns may hold, in every reachable state.
THEOREM AssuranceTyped == Spec => []TypeOK
<1>1. LoopInv => TypeOK
  <2> SUFFICES ASSUME LoopInv PROVE TypeOK
    OBVIOUS
  <2>1. AssuranceTypeOK
    BY DEF LoopInv, EvaluationsInv, EvidenceInv, AssuranceTypeOK
  <2> QED BY <2>1 DEF LoopInv, PromotionsInv, RecommendationsInv, ExceptionsInv, TypeOK
<1> QED BY <1>1, LoopIsSound, PTL

\* Whatever is ingested and however the policy is replaced while it is applied,
\* an evaluation follows from the events it names and the version it names:
\* a reader who counts finds the reasons the code finds by sorting and ranking.
THEOREM EvaluationsReproducibleHolds == Spec => []EvaluationsReproducible
<1>1. LoopInv => EvaluationsReproducible
  <2> SUFFICES ASSUME LoopInv PROVE EvaluationsReproducible
    OBVIOUS
  <2>1. \A k \in DOMAIN evaluations :
            Retold(evaluations[k], policies[evaluations[k].policy], telemetry)
    BY DEF LoopInv, EvidenceInv
  <2> QED BY <2>1 DEF EvaluationsReproducible, Retold
<1> QED BY <1>1, LoopIsSound, PTL

\* However breaches, promotions, plans and closings interleave,
\* the promotions of one fingerprint name one active incident at most.
THEOREM OneActiveIncidentHolds == Spec => []OneActiveIncident
<1>1. LoopInv => OneActiveIncident
  BY DEF LoopInv, PromotionsInv
<1> QED BY <1>1, LoopIsSound, PTL

\* An incident is at least as severe as every breach promoted to it, and a
\* recommendation is about a version and a severity its incident has had.
THEOREM IncidentsCoverEvidenceHolds == Spec => []IncidentsCoverEvidence
<1>1. LoopInv => IncidentsCoverEvidence
  BY DEF LoopInv, PromotionsInv, Covers, RecommendationsInv, Backed, IncidentsCoverEvidence
<1> QED BY <1>1, LoopIsSound, PTL

LEMMA LapseStep ==
    ASSUME LoopInv, [Next]_vars
    PROVE  \A x \in Exceptions :
               /\ ExceptionState(exceptions[x], now) \in {"expired", "rejected", "revoked"} =>
                      ExceptionState(exceptions'[x], now') # "active"
               /\ ExceptionState(exceptions'[x], now') = "active" =>
                      exceptions'[x].decidedBy \in Administrators \ {exceptions'[x].by}
<1> TAKE x \in Exceptions
<1>1. /\ now \in Nat /\ now' \in Nat /\ now' >= now
      /\ ExceptionsInv' /\ RowMoves(exceptions[x], exceptions'[x])
  BY AgesStep, ExceptionsStep DEF LoopInv, EvaluationsInv
<1>2. ASSUME ExceptionState(exceptions'[x], now') = "active"
      PROVE  /\ exceptions'[x].status = "approved" /\ now' < exceptions'[x].expires
             /\ exceptions'[x] \in ExceptionRow
  BY <1>1, <1>2 DEF ExceptionState, ExceptionsInv, ExceptionRow, NoException
<1>3. ASSUME ExceptionState(exceptions'[x], now') = "active"
      PROVE  ExceptionState(exceptions[x], now) \notin {"expired", "rejected", "revoked"}
  <2>1. CASE exceptions'[x] = exceptions[x]
    <3>1. exceptions'[x].expires \in Nat
      BY <1>2, <1>3, DeadlinesAssumption DEF ExceptionRow
    <3>2. now < exceptions[x].expires
      BY <1>1, <1>2, <1>3, <2>1, <3>1
    <3> QED BY <1>2, <1>3, <2>1, <3>2 DEF ExceptionState
  <2>2. CASE exceptions[x].status \in {"none", "pending"}
    BY <2>2 DEF ExceptionState
  <2> QED BY <1>1, <1>2, <1>3, <2>1, <2>2 DEF RowMoves
<1> QED BY <1>1, <1>2, <1>3 DEF ExceptionsInv

\* An exception that has expired, was rejected or was revoked allows nothing
\* again, and what one allows an administrator who did not ask for it granted.
THEOREM ExceptionsLapseHolds == Spec => ExceptionsLapse
<1>1. LoopInv /\ [Next]_vars =>
          [\A x \in Exceptions :
               /\ ExceptionState(exceptions[x], now) \in {"expired", "rejected", "revoked"} =>
                      ExceptionState(exceptions'[x], now') # "active"
               /\ ExceptionState(exceptions'[x], now') = "active" =>
                      exceptions'[x].decidedBy \in Administrators \ {exceptions'[x].by}]_vars
  BY LapseStep
<1> QED BY <1>1, LoopIsSound, PTL DEF Spec, ExceptionsLapse
=============================================================================
