----------------------- MODULE InitiativeReviewProofs -----------------------
(***************************************************************************)
(* Theorems about the review of an initiative, for any policy, people,     *)
(* areas, rounds and number of concurrent requests: types, independent     *)
(* approvals, frozen and coherent rounds, and that decisions are on what   *)
(* was submitted, whatever requests do to the assessments meanwhile.       *)
(***************************************************************************)
EXTENDS InitiativeReview, TLAPS

\* A row once read is still there: nothing deletes an assessment.
RowsPersist ==
    /\ decision.stage = "decided" =>
          \A k \in Kinds : Exists(decision.read[k]) => Exists(assessments[k])
    /\ \A h \in Handlers :
          /\ command[h].stage \in {"validated", "loaded"} =>
                command[h].record \in SavedRow /\ command[h].record.version > 0
          /\ command[h].stage # "idle" =>
                (Exists(command[h].loaded) => Exists(assessments[command[h].kind]))

\* The projection points at the last round.
RoundsInOrder ==
    /\ Current = Len(rounds)
    /\ initiative.status # "draft" => Current > 0

TypeInv == TypeOK /\ RowsPersist /\ RoundsInOrder

\* While the round is in force its facts are those on record and it has the gates they
\* require; every decided gate was decided by an authorized person, at elevated risk a
\* different one each time; and the open decision is still a legal one.
InForce == initiative.status \in {"under_review", "approved"}

GatesMatchFacts ==
    InForce => \A area \in Areas :
        Gates[area].status = "not_required" <=> area \notin RequiredAreas(initiative.facts)

GatesAreAuthorized ==
    InForce => \A area \in Areas :
        /\ Gates[area].status \in {"pending", "not_required"} => Gates[area].by = Nobody
        /\ Gates[area].status = "approved" => Authorized(Gates[area].by, area) /\ Gates[area].by \in People

DecidersDiffer ==
    InForce /\ initiative.facts \in Elevated =>
        \A a, b \in Areas : a # b /\ Gates[a].by = Gates[b].by => Gates[a].by = Nobody

DecisionIsLegal ==
    decision.stage = "decided" =>
        /\ initiative.status = "under_review"
        /\ Open(Gates[decision.area])
        /\ Authorized(decision.by, decision.area)
        /\ Independent(decision.by)

ApprovedMeansAll ==
    initiative.status = "approved" =>
        \A area \in Areas : Gates[area].status \in {"approved", "not_required"}

ReviewInv ==
    /\ TypeInv
    /\ GatesMatchFacts
    /\ GatesAreAuthorized
    /\ DecidersDiffer
    /\ DecisionIsLegal
    /\ ApprovedMeansAll

-----------------------------------------------------------------------------
\* A row that exists is a saved one.
LEMMA SavedRows ==
    ASSUME NEW row \in Assessment
    PROVE  Exists(row) <=> row \in SavedRow
BY DEF Assessment, SavedRow, NoRow, Exists

\* The columns written over a row that exists make a saved row.
LEMMA MergedIsSaved ==
    ASSUME NEW row \in Assessment, NEW loaded \in Assessment, NEW record \in SavedRow,
           record.version > 0,
           Exists(loaded) => Exists(row), Exists(loaded) \/ ~Exists(row)
    PROVE  Merged(row, loaded, record) \in SavedRow
<1>1. CASE Exists(loaded)
  <2>1. row \in SavedRow
    BY <1>1, SavedRows
  <2> QED BY <2>1 DEF Merged, Column, SavedRow
<1>2. CASE ~Exists(loaded)
  <2>1. loaded = NoRow
    BY <1>2 DEF Exists
  <2> QED BY <2>1, NamesAssumption DEF Merged, Column, SavedRow, NoRow
<1> QED BY <1>1, <1>2

\* A gate decision maps gates to gates.
LEMMA DecidedGates ==
    ASSUME NEW gates \in [Areas -> Gate], NEW area \in Areas, NEW p \in People,
           NEW verdict \in Verdicts
    PROVE  Decided(gates, area, p, verdict) \in [Areas -> Gate]
BY DEF Decided, Gate, GateStatuses, Verdicts

LEMMA OutcomeIsStatus ==
    \A statuses : ResultingStatus(statuses)
        \in {"under_review", "changes_requested", "approved", "rejected"}
BY DEF ResultingStatus

-----------------------------------------------------------------------------
LEMMA TypeInit == Init => TypeInv
BY DEF Init, TypeInv, TypeOK, RowsPersist, RoundsInOrder, InitiativeStatuses, Assessment, NoDecision,
       Idle, Current

LEMMA TypeStep == TypeInv /\ [Next]_vars => TypeInv'
<1> SUFFICES ASSUME TypeInv, [Next]_vars PROVE TypeInv'
  OBVIOUS
<1> USE DEF TypeInv
<1>1. CASE Submit \/ Resubmit
  <2>1. StartRound
    BY <1>1 DEF Submit, Resubmit
  <2>2. FreshGates(initiative.facts) \in [Areas -> Gate]
    BY DEF FreshGates, Gate, GateStatuses
  <2>3. [facts |-> initiative.facts, status |-> "under_review",
         gates |-> FreshGates(initiative.facts), snapshot |-> assessments] \in ReviewRound
    BY <2>2 DEF TypeOK, ReviewRound, InitiativeStatuses
  <2>4. rounds' \in Seq(ReviewRound) /\ Len(rounds') = Len(rounds) + 1
    BY <2>1, <2>3 DEF StartRound, InitiativeSnapshot, AssessmentSnapshots,
         Projected, TypeOK
  <2>5. initiative' \in [status: InitiativeStatuses, facts: Facts, round: Nat]
          /\ initiative'.round = initiative.round + 1
    <3>1. initiative' = [status |-> "under_review", facts |-> initiative.facts,
                         round |-> initiative.round + 1]
      BY <2>1 DEF StartRound, InitiativeSnapshot, AssessmentSnapshots,
         Projected, TypeOK
    <3> QED BY <3>1 DEF TypeOK, InitiativeStatuses
  <2>6. TypeOK'
    BY <2>1, <2>4, <2>5 DEF StartRound, InitiativeSnapshot, AssessmentSnapshots,
         Projected, TypeOK
  <2>7. RowsPersist'
    BY <2>1 DEF StartRound, InitiativeSnapshot, AssessmentSnapshots,
         Projected, RowsPersist
  <2>8. RoundsInOrder'
    BY <2>4, <2>5 DEF RoundsInOrder, Current, TypeOK
  <2> QED BY <2>6, <2>7, <2>8
<1>2. ASSUME NEW f \in Facts, Revise(f) PROVE TypeInv'
  <2>1. TypeOK'
    BY <1>2 DEF Revise, TypeOK
  <2>2. RowsPersist' /\ RoundsInOrder'
    BY <1>2 DEF Revise, RowsPersist, RoundsInOrder, TypeOK, Current
  <2> QED BY <2>1, <2>2
<1>3. ASSUME NEW p \in People, NEW area \in Areas, NEW verdict \in Verdicts,
             Decide(p, area, verdict)
      PROVE TypeInv'
  <2>1. TypeOK'
    BY <1>3 DEF Decide, TypeOK, Decisions
  <2>2. RowsPersist' /\ RoundsInOrder'
    BY <1>3 DEF Decide, RowsPersist, RoundsInOrder, Current
  <2> QED BY <2>1, <2>2
<1>4. CASE CommitDecision
  <2> DEFINE status == Outcome(decision.area, decision.verdict)
  <2>1. decision \in Decisions
    BY <1>4 DEF CommitDecision, TypeOK, NoDecision
  <2>2. status \in InitiativeStatuses \ {"draft"}
    BY OutcomeIsStatus DEF Outcome, InitiativeStatuses
  <2>3. rounds' \in Seq(ReviewRound) /\ Len(rounds') = Len(rounds)
    <3>1. CASE Current \in 1..Len(rounds)
      <4>1. rounds[Current] \in ReviewRound
        BY <3>1 DEF TypeOK
      <4>2. Decided(rounds[Current].gates, decision.area, decision.by, decision.verdict)
                \in [Areas -> Gate]
        BY <2>1, <4>1, DecidedGates DEF Decisions, ReviewRound
      <4> DEFINE new == [rounds[Current] EXCEPT !.status = status, !.gates =
                Decided(rounds[Current].gates, decision.area, decision.by, decision.verdict)]
      <4>3. new \in ReviewRound
        BY <2>2, <4>1, <4>2 DEF ReviewRound
      <4>4. rounds' = [rounds EXCEPT ![Current] = new]
        BY <1>4 DEF CommitDecision
      <4> HIDE DEF new
      <4> QED BY <4>3, <4>4, <3>1 DEF TypeOK
    <3>2. CASE Current \notin 1..Len(rounds)
      <4>1. rounds' = rounds
        BY <1>4, <3>2 DEF CommitDecision, TypeOK
      <4> QED BY <4>1 DEF TypeOK
    <3> QED BY <3>1, <3>2
  <2>4. initiative' = [initiative EXCEPT !.status = status]
    BY <1>4 DEF CommitDecision
  <2>5. assessments' \in [Kinds -> Assessment]
          /\ \A k \in Kinds : Exists(assessments[k]) => Exists(assessments'[k])
    <3>1. ASSUME NEW k \in Kinds
          PROVE  /\ Reopened(assessments[k], decision.read[k]) \in Assessment
                 /\ Exists(assessments[k]) => Exists(Reopened(assessments[k], decision.read[k]))
      <4>1. assessments[k] \in Assessment /\ decision.read[k] \in Assessment
        BY <2>1 DEF TypeOK, Decisions
      <4>2. CASE decision.read[k].status = "under_review"
        <5>1. decision.read[k] \in SavedRow
          BY <4>1, <4>2 DEF Assessment, NoRow
        <5>2. assessments[k] \in SavedRow
          BY <4>1, <5>1, <1>4, SavedRows DEF RowsPersist, CommitDecision
        <5>3. Reopened(assessments[k], decision.read[k]) \in SavedRow
          <6>1. Reopened(assessments[k], decision.read[k]) =
                    [status |-> "draft", answers |-> assessments[k].answers,
                     version |-> decision.read[k].version + 1]
            BY <4>2, <5>2 DEF Reopened, SavedRow
          <6> QED BY <5>1, <5>2, <6>1 DEF SavedRow
        <5>4. Reopened(assessments[k], decision.read[k]) \in Assessment
          BY <5>3 DEF Assessment
        <5> QED BY <5>3, <5>4, SavedRows
      <4>3. CASE decision.read[k].status # "under_review"
        BY <4>1, <4>3 DEF Reopened
      <4> QED BY <4>2, <4>3
    <3>2. CASE status = "changes_requested"
      <4>1. assessments' = [k \in Kinds |-> Reopened(assessments[k], decision.read[k])]
        BY <1>4, <3>2 DEF CommitDecision
      <4> QED BY <3>1, <4>1
    <3>3. CASE status # "changes_requested"
      <4>1. assessments' = assessments
        BY <1>4, <3>3 DEF CommitDecision
      <4> QED BY <4>1 DEF TypeOK
    <3> QED BY <3>2, <3>3
  <2>6. TypeOK'
    BY <1>4, <2>2, <2>3, <2>4, <2>5 DEF TypeOK, CommitDecision
  <2>7. RowsPersist'
    <3>1. decision'.stage # "decided" /\ command' = command
      BY <1>4 DEF CommitDecision, NoDecision
    <3>2. \A h \in Handlers : command[h].stage # "idle" => command[h].kind \in Kinds
      BY DEF TypeOK, Commands, Idle
    <3> QED BY <2>5, <3>1, <3>2 DEF RowsPersist
  <2>8. RoundsInOrder'
    BY <1>4, <2>2, <2>3, <2>4 DEF RoundsInOrder, Current, TypeOK, CommitDecision
  <2> QED BY <2>6, <2>7, <2>8
<1>5. CASE AbandonDecision
  BY <1>5 DEF AbandonDecision, TypeOK, RowsPersist, RoundsInOrder, NoDecision, Current
<1>6. ASSUME NEW h \in Handlers, NEW stage \in {"applicable", "validated"}, NEW k \in Kinds,
             NEW record \in Assessment, Holds(h, stage, k, record),
             stage = "validated" => record \in SavedRow /\ record.version > 0
      PROVE TypeInv'
  <2>1. [stage |-> stage, kind |-> k, record |-> record, loaded |-> NoRow] \in Commands
    BY DEF Commands, Assessment
  <2>2. TypeOK'
    BY <1>6, <2>1 DEF Holds, TypeOK
  <2>3. RowsPersist'
    <3>1. \A g \in Handlers \ {h} : command'[g] = command[g]
      BY <1>6 DEF Holds, TypeOK
    <3>2. /\ command'[h].stage = stage /\ command'[h].record = record
          /\ command'[h].loaded = NoRow
      BY <1>6 DEF Holds, TypeOK
    <3> QED BY <1>6, <3>1, <3>2 DEF Holds, RowsPersist, Exists
  <2>4. RoundsInOrder'
    BY <1>6 DEF Holds, RoundsInOrder, Current
  <2> QED BY <2>2, <2>3, <2>4
<1>7. ASSUME NEW h \in Handlers, NEW k \in Kinds, BeginSave(h, k)
      PROVE TypeInv'
  <2>1. NoRow \in Assessment
    BY DEF Assessment
  <2> QED BY <1>6, <1>7, <2>1 DEF BeginSave
<1>8. ASSUME NEW h \in Handlers, NEW k \in Kinds, BeginSubmit(h, k)
      PROVE TypeInv'
  <2>1. assessments[k] \in SavedRow
    BY <1>8 DEF BeginSubmit, TypeOK, Assessment, NoRow
  <2>2. PICK record : record = SubmittedDraft(assessments[k])
    OBVIOUS
  <2>3. record \in SavedRow /\ record.version > 0 /\ record \in Assessment
    BY <2>1, <2>2 DEF SavedRow, SubmittedDraft, Assessment
  <2>4. Holds(h, "validated", k, record)
    BY <1>8, <2>2 DEF BeginSubmit
  <2> QED BY <1>6, <2>3, <2>4
<1>9. ASSUME NEW h \in Handlers, NEW x \in Answers, ReadDraft(h, x)
       PROVE TypeInv'
  <2>1. PICK k \in Kinds : k = command[h].kind
    BY <1>9 DEF ReadDraft, TypeOK, Commands, Idle
  <2>2. assessments[k].version \in Nat
    BY DEF TypeOK, Assessment, SavedRow, NoRow
  <2>3. PICK record : record = [status |-> "draft", answers |-> x, version |-> assessments[k].version + 1]
    OBVIOUS
  <2>4. record \in SavedRow /\ record.version > 0 /\ record \in Assessment
    BY <2>2, <2>3 DEF SavedRow, Assessment
  <2>5. Holds(h, "validated", k, record)
    BY <1>9, <2>1, <2>3 DEF ReadDraft
  <2> QED BY <1>6, <2>4, <2>5
<1>10. ASSUME NEW h \in Handlers, Load(h) PROVE TypeInv'
  <2>1. command[h] \in Commands
    BY <1>10 DEF Load, TypeOK, Idle
  <2> DEFINE row == assessments[command[h].kind]
             new == [stage |-> "loaded", kind |-> command[h].kind,
                     record |-> command[h].record, loaded |-> row]
  <2>2. command' = [command EXCEPT ![h] = new]
    BY <1>10 DEF Load
  <2>3. new \in Commands
    <3>1. row \in Assessment
      BY <2>1 DEF TypeOK, Commands
    <3> QED BY <2>1, <3>1 DEF Commands
  <2>4. TypeOK'
    <3> HIDE DEF new
    <3> QED BY <1>10, <2>2, <2>3 DEF Load, TypeOK
  <2>6. RowsPersist'
    <3>1. new.record \in SavedRow /\ new.record.version > 0 /\ new.kind = command[h].kind
      BY <1>10, <2>1 DEF Load, RowsPersist
    <3>2. Exists(new.loaded) => Exists(assessments[new.kind])
      OBVIOUS
    <3> HIDE DEF new
    <3> QED BY <1>10, <2>2, <3>1, <3>2 DEF Load, RowsPersist, TypeOK
  <2>5. RoundsInOrder'
    BY <1>10 DEF Load, RoundsInOrder, Current
  <2> QED BY <2>4, <2>5, <2>6
<1>11. ASSUME NEW h \in Handlers, Write(h) PROVE TypeInv'
  <2> DEFINE c == command[h]
             new == Merged(assessments[c.kind], c.loaded, c.record)
  <2>1. c \in Commands
    BY <1>11 DEF Write, TypeOK, Idle
  <2>2. new \in SavedRow
    BY <1>11, <2>1, MergedIsSaved DEF Write, RowsPersist, TypeOK, Commands
  <2>3. assessments' = [assessments EXCEPT ![c.kind] = new]
    BY <1>11 DEF Write
  <2>4. command' = [command EXCEPT ![h] = Idle]
    BY <1>11 DEF Write
  <2> HIDE DEF new
  <2>5. Exists(new) /\ new \in Assessment
    BY <2>2, SavedRows DEF Assessment
  <2>6. TypeOK'
    BY <1>11, <2>1, <2>3, <2>4, <2>5 DEF Write, TypeOK, Commands
  <2>7. \A k \in Kinds : Exists(assessments[k]) => Exists(assessments'[k])
    BY <2>1, <2>3, <2>5 DEF TypeOK, Commands
  <2>8. \A g \in Handlers : command[g].stage # "idle" => command[g].kind \in Kinds
    BY DEF TypeOK, Commands, Idle
  <2>9. \A g \in Handlers : command'[g].stage # "idle" => command'[g] = command[g]
    BY <2>4 DEF TypeOK, Idle
  <2>10. RowsPersist'
    BY <1>11, <2>7, <2>8, <2>9 DEF Write, RowsPersist
  <2>11. RoundsInOrder'
    BY <1>11 DEF Write, RoundsInOrder, Current
  <2> QED BY <2>6, <2>10, <2>11
<1>12. ASSUME NEW h \in Handlers, Abandon(h) PROVE TypeInv'
  <2>1. TypeOK'
    BY <1>12 DEF Abandon, TypeOK
  <2>2. RowsPersist' /\ RoundsInOrder'
    BY <1>12 DEF Abandon, RowsPersist, RoundsInOrder, Current, TypeOK, Idle
  <2> QED BY <2>1, <2>2
<1>13. CASE UNCHANGED vars
  BY <1>13 DEF vars, TypeOK, RowsPersist, RoundsInOrder, Current
<1> QED BY <1>1, <1>2, <1>3, <1>4, <1>5, <1>7, <1>8, <1>9, <1>10, <1>11, <1>12, <1>13
        DEF Next, OwnerStep, ReviewStep, AssessmentStep

\* Every row and open transaction of the review stays within its domain.
THEOREM TypeCorrect == Spec => []TypeOK
<1>1. TypeInv => TypeOK
  BY DEF TypeInv
<1> QED BY <1>1, TypeInit, TypeStep, PTL DEF Spec

-----------------------------------------------------------------------------
(* Independence. *)

ReviewState == <<initiative, rounds, decision>>

\* A request on an assessment leaves the initiative, its rounds and the decision alone.
LEMMA OnlyRows == ASSUME NEW h \in Handlers, AssessmentStep(h) PROVE UNCHANGED ReviewState
BY DEF AssessmentStep, BeginSave, ReadDraft, BeginSubmit, Holds, Load, Write, Abandon, ReviewState

\* What the independence of a round depends on is the initiative, its rounds and the
\* open decision: assessment commands do not matter to it.
LEMMA OnlyReviewStateMatters ==
    ASSUME ReviewInv, TypeInv', UNCHANGED ReviewState
    PROVE  ReviewInv'
BY DEF ReviewInv, ReviewState, GatesMatchFacts, GatesAreAuthorized, DecidersDiffer, DecisionIsLegal,
       ApprovedMeansAll, InForce, Gates, Current, Open, Independent, DecidedInRound

LEMMA ReviewInit == Init => ReviewInv
<1> SUFFICES ASSUME Init PROVE ReviewInv
  OBVIOUS
<1>1. initiative.status = "draft" /\ decision.stage = "none"
  BY DEF Init, NoDecision
<1> QED BY <1>1, TypeInit DEF ReviewInv, GatesMatchFacts, GatesAreAuthorized, DecidersDiffer,
           DecisionIsLegal, ApprovedMeansAll, InForce

\* A new round has fresh gates, the ones its facts require.
LEMMA StartRoundStep ==
    ASSUME ReviewInv, TypeInv', StartRound, Unlocked
    PROVE  ReviewInv'
<1> DEFINE f == initiative.facts
<1>1. /\ initiative'.status = "under_review" /\ initiative'.facts = f
      /\ initiative'.round = Len(rounds) + 1
  BY DEF StartRound, InitiativeSnapshot, AssessmentSnapshots,
         Projected, ReviewInv, TypeInv, TypeOK, RoundsInOrder, Current
<1>2. Gates' = FreshGates(f)
  BY <1>1 DEF StartRound, InitiativeSnapshot, AssessmentSnapshots,
         Projected, Gates, Current, ReviewInv, TypeInv, TypeOK
<1>3. decision'.stage # "decided"
  BY DEF StartRound, InitiativeSnapshot, AssessmentSnapshots,
         Projected, Unlocked
<1>4. \A area \in Areas :
        /\ Gates'[area].by = Nobody
        /\ Gates'[area].status # "approved"
        /\ Gates'[area].status = "not_required" <=> area \notin RequiredAreas(f)
  BY <1>2 DEF FreshGates
<1>5. GatesMatchFacts'
  BY <1>1, <1>4 DEF GatesMatchFacts
<1>6. GatesAreAuthorized' /\ DecidersDiffer'
  BY <1>4 DEF GatesAreAuthorized, DecidersDiffer
<1>7. DecisionIsLegal' /\ ApprovedMeansAll'
  BY <1>1, <1>3 DEF DecisionIsLegal, ApprovedMeansAll
<1> QED BY <1>5, <1>6, <1>7 DEF ReviewInv

\* A decision that leaves the round in force approves one open gate, by a person who
\* may decide it; an approved round has no other gate left.
LEMMA CommitStep ==
    ASSUME ReviewInv, TypeInv', CommitDecision
    PROVE  ReviewInv'
<1> DEFINE area == decision.area
           p == decision.by
           verdict == decision.verdict
           status == Outcome(area, verdict)
<1>1. area \in Areas /\ p \in People /\ verdict \in Verdicts
  BY DEF CommitDecision, ReviewInv, TypeInv, TypeOK, NoDecision, Decisions
<1>2. /\ initiative.status = "under_review" /\ Open(Gates[area])
      /\ Authorized(p, area) /\ Independent(p)
  BY DEF CommitDecision, ReviewInv, DecisionIsLegal
<1>3. /\ initiative'.status = status /\ initiative'.facts = initiative.facts
      /\ initiative'.round = initiative.round
  BY DEF CommitDecision, ReviewInv, TypeInv, TypeOK
<1>4. Current \in 1..Len(rounds) /\ rounds[Current] \in ReviewRound
  BY <1>2 DEF ReviewInv, TypeInv, TypeOK, RoundsInOrder, Current
<1>5. Gates' = Decided(Gates, area, p, verdict)
  <2> DEFINE new == [rounds[Current] EXCEPT !.status = status,
                                            !.gates = Decided(Gates, area, p, verdict)]
  <2>1. rounds' = [rounds EXCEPT ![Current] = new]
    BY DEF CommitDecision, Gates
  <2>2. new.gates = Decided(Gates, area, p, verdict)
    BY <1>4 DEF ReviewRound
  <2> HIDE DEF new
  <2>3. rounds'[Current] = new
    BY <1>4, <2>1 DEF ReviewInv, TypeInv, TypeOK
  <2> QED BY <1>3, <2>2, <2>3 DEF Gates, Current
<1>6. Gates \in [Areas -> Gate]
  BY <1>4 DEF Gates, ReviewRound
<1>7. decision'.stage # "decided"
  BY DEF CommitDecision, NoDecision
<1> DEFINE others == {Gates[b].status : b \in {b \in Areas \ {area} : Gates[b].status # "not_required"}}
<1>8. status = ResultingStatus({verdict} \cup others)
  BY DEF Outcome
<1> HIDE DEF status
<1>9. CASE status \notin {"under_review", "approved"}
  BY <1>3, <1>7, <1>9 DEF ReviewInv, GatesMatchFacts, GatesAreAuthorized, DecidersDiffer,
     DecisionIsLegal, ApprovedMeansAll, InForce
<1>10. CASE status \in {"under_review", "approved"}
  <2>1. verdict = "approved"
    BY <1>1, <1>8, <1>10 DEF ResultingStatus, Verdicts
  <2>2. /\ Gates'[area] = [status |-> "approved", by |-> p]
        /\ \A b \in Areas \ {area} : Gates'[b] = Gates[b]
    BY <1>1, <1>5, <2>1 DEF Decided, Refuses
  <2>3. InForce /\ InForce'
    BY <1>2, <1>3, <1>10 DEF InForce
  <2>4. GatesMatchFacts'
    <3>1. area \in RequiredAreas(initiative.facts)
      BY <1>1, <1>2, <2>3 DEF ReviewInv, GatesMatchFacts, Open
    <3> QED BY <1>3, <2>2, <2>3, <3>1 DEF ReviewInv, GatesMatchFacts
  <2>5. GatesAreAuthorized'
    BY <1>1, <1>2, <2>2, <2>3 DEF ReviewInv, GatesAreAuthorized
  <2>6. DecidersDiffer'
    BY <1>1, <1>2, <1>3, <2>2, <2>3
       DEF ReviewInv, DecidersDiffer, Independent, DecidedInRound
  <2>7. ApprovedMeansAll'
    <3>1. SUFFICES ASSUME status = "approved"
                   PROVE  \A b \in Areas \ {area} : Gates[b].status \in {"approved", "not_required"}
      BY <1>3, <2>2 DEF ApprovedMeansAll
    <3>2. {verdict} \cup others = {"approved"}
      BY <1>8, <3>1 DEF ResultingStatus
    <3> QED BY <3>2
  <2>8. DecisionIsLegal'
    BY <1>7 DEF DecisionIsLegal
  <2> QED BY <2>4, <2>5, <2>6, <2>7, <2>8 DEF ReviewInv
<1> QED BY <1>9, <1>10

LEMMA ReviewStepPreserves == ReviewInv /\ [Next]_vars => ReviewInv'
<1> SUFFICES ASSUME ReviewInv, [Next]_vars PROVE ReviewInv'
  OBVIOUS
<1>0. TypeInv'
  BY TypeStep DEF ReviewInv
<1>1. CASE Submit \/ Resubmit
  BY <1>0, <1>1, StartRoundStep DEF Submit, Resubmit
<1>2. ASSUME NEW f \in Facts, Revise(f) PROVE ReviewInv'
  <2>1. initiative'.status = "changes_requested" /\ decision'.stage # "decided"
    BY <1>2 DEF Revise, ChangesRequested, Unlocked, ReviewInv, TypeInv, TypeOK
  <2> QED BY <1>0, <2>1 DEF ReviewInv, GatesMatchFacts, GatesAreAuthorized, DecidersDiffer,
          DecisionIsLegal, ApprovedMeansAll, InForce
<1>3. ASSUME NEW p \in People, NEW area \in Areas, NEW verdict \in Verdicts,
             Decide(p, area, verdict)
      PROVE ReviewInv'
  <2>1. DecisionIsLegal'
    BY <1>3 DEF Decide, DecisionIsLegal, Open, Gates, Current, Independent, DecidedInRound
  <2>2. GatesMatchFacts' /\ GatesAreAuthorized' /\ DecidersDiffer' /\ ApprovedMeansAll'
    BY <1>3 DEF Decide, ReviewInv, GatesMatchFacts, GatesAreAuthorized, DecidersDiffer,
       ApprovedMeansAll, InForce, Gates, Current
  <2> QED BY <1>0, <2>1, <2>2 DEF ReviewInv
<1>4. CASE CommitDecision
  BY <1>0, <1>4, CommitStep
<1>5. CASE AbandonDecision
  <2>1. DecisionIsLegal'
    BY <1>5 DEF AbandonDecision, DecisionIsLegal, NoDecision
  <2>2. GatesMatchFacts' /\ GatesAreAuthorized' /\ DecidersDiffer' /\ ApprovedMeansAll'
    BY <1>5 DEF AbandonDecision, ReviewInv, GatesMatchFacts, GatesAreAuthorized, DecidersDiffer,
       ApprovedMeansAll, InForce, Gates, Current
  <2> QED BY <1>0, <2>1, <2>2 DEF ReviewInv
<1>6. ASSUME NEW h \in Handlers, AssessmentStep(h) PROVE ReviewInv'
  <2>1. UNCHANGED ReviewState
    BY <1>6, OnlyRows
  <2> QED BY <1>0, <2>1, OnlyReviewStateMatters
<1>7. CASE UNCHANGED vars
  <2>1. UNCHANGED ReviewState
    BY <1>7 DEF vars, ReviewState
  <2> QED BY <1>0, <2>1, OnlyReviewStateMatters
<1> QED BY <1>1, <1>2, <1>3, <1>4, <1>5, <1>6, <1>7 DEF Next, OwnerStep, ReviewStep

\* An approved initiative was approved, for the facts on record, by an authorized
\* person for every required area, never the owner, and by different people when its
\* risk is elevated.
THEOREM IndependentApprovalHolds == Spec => []IndependentApproval
<1>1. ReviewInv => IndependentApproval
  <2> SUFFICES ASSUME ReviewInv, initiative.status = "approved",
                      NEW area \in RequiredAreas(initiative.facts)
               PROVE  \E p \in People \ {Owner} :
                          /\ ApprovedBy(area, p)
                          /\ area \in AreasOf(p) \/ p \in Admins
                          /\ initiative.facts \in Elevated =>
                                \A other \in Areas \ {area} : Gates[other].by # p
    BY DEF IndependentApproval
  <2> DEFINE p == Gates[area].by
  <2>0. initiative.facts \in Facts
    BY DEF ReviewInv, TypeInv, TypeOK
  <2>1. area \in Areas /\ InForce
    BY <2>0, PolicyAssumption DEF InForce
  <2>2. Gates[area].status = "approved"
    BY <2>1 DEF ReviewInv, GatesMatchFacts, ApprovedMeansAll
  <2>3. p \in People /\ Authorized(p, area)
    BY <2>1, <2>2 DEF ReviewInv, GatesAreAuthorized
  <2>4. Gates[area] \in Gate
    <3>1. Current \in 1..Len(rounds)
      BY DEF ReviewInv, TypeInv, TypeOK, RoundsInOrder, Current
    <3>2. rounds[Current] \in ReviewRound
      BY <3>1 DEF ReviewInv, TypeInv, TypeOK
    <3> QED BY <2>1, <3>2 DEF Gates, ReviewRound
  <2>5. ApprovedBy(area, p)
    BY <2>2, <2>4 DEF ApprovedBy, Gate
  <2>6. initiative.facts \in Elevated => \A other \in Areas \ {area} : Gates[other].by # p
    BY <2>1, <2>3, NamesAssumption DEF ReviewInv, DecidersDiffer
  <2> QED BY <2>3, <2>5, <2>6 DEF Authorized
<1> QED BY <1>1, ReviewInit, ReviewStepPreserves, PTL DEF Spec

-----------------------------------------------------------------------------
(* Rounds are records. *)

\* The current round has the status of the initiative, so a decision meets a round
\* that is still under review.
StatusProjected == Current > 0 => rounds[Current].status = initiative.status

HistoryInv == ReviewInv /\ StatusProjected

\* What a round's history may not do in one step.
Frozen(r) ==
    /\ rounds'[r].facts = rounds[r].facts
    /\ rounds'[r].snapshot = rounds[r].snapshot
    /\ rounds[r].status # "under_review" => rounds'[r] = rounds[r]
    /\ \A area \in Areas :
          rounds[r].gates[area].status # "pending" => rounds'[r].gates[area] = rounds[r].gates[area]

HistoryKept == Len(rounds') >= Len(rounds) /\ \A r \in 1..Len(rounds) : Frozen(r)

LEMMA SameRounds ==
    ASSUME HistoryInv, rounds' = rounds, initiative'.round = initiative.round,
           initiative'.status = initiative.status
    PROVE  StatusProjected' /\ HistoryKept
BY DEF HistoryInv, StatusProjected, HistoryKept, Frozen, Current, ReviewInv, TypeInv, TypeOK

LEMMA StartRoundKeeps ==
    ASSUME HistoryInv, StartRound
    PROVE  StatusProjected' /\ HistoryKept
<1> DEFINE new == [facts |-> initiative.facts, status |-> "under_review",
                   gates |-> FreshGates(initiative.facts), snapshot |-> assessments]
<1>1. rounds \in Seq(ReviewRound) /\ initiative.round = Len(rounds)
  BY DEF HistoryInv, ReviewInv, TypeInv, TypeOK, RoundsInOrder, Current
<1>2. rounds' = Append(rounds, new)
  BY DEF StartRound, InitiativeSnapshot, AssessmentSnapshots,
         Projected
<1>3. initiative'.status = "under_review" /\ initiative'.round = Len(rounds) + 1
  BY <1>1 DEF StartRound, InitiativeSnapshot, AssessmentSnapshots,
         Projected, HistoryInv, ReviewInv, TypeInv, TypeOK
<1>4. new.status = "under_review"
  OBVIOUS
<1> HIDE DEF new
<1>5. rounds'[Len(rounds) + 1] = new
  BY <1>1, <1>2
<1>6. StatusProjected'
  BY <1>3, <1>4, <1>5 DEF StatusProjected, Current
<1>7. Len(rounds') = Len(rounds) + 1 /\ \A r \in 1..Len(rounds) : rounds'[r] = rounds[r]
  BY <1>1, <1>2
<1>8. HistoryKept
  BY <1>1, <1>7 DEF HistoryKept, Frozen
<1> QED BY <1>6, <1>8

\* A decision changes the current round only: the gate it decides and the open ones it
\* supersedes.
LEMMA CommitKeeps ==
    ASSUME HistoryInv, CommitDecision
    PROVE  StatusProjected' /\ HistoryKept
<1> DEFINE status == Outcome(decision.area, decision.verdict)
           old == rounds[Current]
           gates == Decided(old.gates, decision.area, decision.by, decision.verdict)
           new == [old EXCEPT !.status = status, !.gates = gates]
<1>1. /\ initiative.status = "under_review" /\ Open(old.gates[decision.area])
      /\ decision.area \in Areas
  BY DEF CommitDecision, HistoryInv, ReviewInv, DecisionIsLegal, Gates, TypeInv, TypeOK, NoDecision,
     Decisions
<1>2. rounds \in Seq(ReviewRound) /\ Current \in 1..Len(rounds)
  BY <1>1 DEF HistoryInv, ReviewInv, TypeInv, TypeOK, RoundsInOrder, Current
<1>3. old \in ReviewRound /\ old.status = "under_review"
  BY <1>1, <1>2 DEF HistoryInv, StatusProjected
<1>4. rounds' = [rounds EXCEPT ![Current] = new]
  BY DEF CommitDecision
<1>5. /\ new.status = status /\ new.facts = old.facts /\ new.snapshot = old.snapshot
      /\ new.gates = gates
  <2> HIDE DEF old, gates, status
  <2>1. old = [facts |-> old.facts, status |-> old.status, gates |-> old.gates,
               snapshot |-> old.snapshot]
    BY <1>3 DEF ReviewRound
  <2> DEFINE f == old.facts
             s == old.status
             g == old.gates
             n == old.snapshot
  <2> HIDE DEF f, s, g, n
  <2>2. old = [facts |-> f, status |-> s, gates |-> g, snapshot |-> n]
    BY <2>1 DEF f, s, g, n
  <2>3. new = [[facts |-> f, status |-> s, gates |-> g, snapshot |-> n]
                  EXCEPT !.status = status, !.gates = gates]
    BY <2>2
  <2>4. new.status = status /\ new.facts = f /\ new.snapshot = n /\ new.gates = gates
    BY <2>3
  <2> QED BY <2>4 DEF f, n
<1>6. \A area \in Areas : old.gates[area].status # "pending" => gates[area] = old.gates[area]
  BY <1>1, <1>3 DEF Decided, Open
<1>7. initiative'.status = status /\ initiative'.round = initiative.round
  BY DEF CommitDecision, HistoryInv, ReviewInv, TypeInv, TypeOK
<1> HIDE DEF new, gates, status
<1>8. Len(rounds') = Len(rounds)
        /\ \A r \in 1..Len(rounds) : rounds'[r] = IF r = Current THEN new ELSE rounds[r]
  BY <1>2, <1>4
<1>9. StatusProjected'
  BY <1>2, <1>5, <1>7, <1>8 DEF StatusProjected, Current
<1>10. HistoryKept
  BY <1>2, <1>3, <1>5, <1>6, <1>8 DEF HistoryKept, Frozen
<1> QED BY <1>9, <1>10

LEMMA HistoryStep ==
    ASSUME HistoryInv, [Next]_vars
    PROVE  StatusProjected' /\ HistoryKept
<1>1. CASE Submit \/ Resubmit
  BY <1>1, StartRoundKeeps DEF Submit, Resubmit
<1>2. ASSUME NEW f \in Facts, Revise(f) PROVE StatusProjected' /\ HistoryKept
  <2>1. initiative'.round = initiative.round /\ initiative'.status = initiative.status
    BY <1>2 DEF Revise, HistoryInv, ReviewInv, TypeInv, TypeOK
  <2> QED BY <1>2, <2>1, SameRounds DEF Revise
<1>3. ASSUME NEW p \in People, NEW area \in Areas, NEW verdict \in Verdicts,
             Decide(p, area, verdict)
      PROVE StatusProjected' /\ HistoryKept
  BY <1>3, SameRounds DEF Decide
<1>4. CASE CommitDecision
  BY <1>4, CommitKeeps
<1>5. CASE AbandonDecision
  BY <1>5, SameRounds DEF AbandonDecision
<1>6. ASSUME NEW h \in Handlers, AssessmentStep(h) PROVE StatusProjected' /\ HistoryKept
  <2>1. UNCHANGED ReviewState
    BY <1>6, OnlyRows
  <2> QED BY <2>1, SameRounds DEF ReviewState
<1>7. CASE UNCHANGED vars
  BY <1>7, SameRounds DEF vars
<1> QED BY <1>1, <1>2, <1>3, <1>4, <1>5, <1>6, <1>7 DEF Next, OwnerStep, ReviewStep

\* A round is a record: its facts and snapshot never change, nor do decided and
\* superseded gates, nor anything of a resolved round.
THEOREM HistoryFrozenHolds == Spec => HistoryFrozen
<1>1. Init => HistoryInv
  BY ReviewInit DEF HistoryInv, StatusProjected, Init, Current
<1>2. HistoryInv /\ [Next]_vars => HistoryInv'
  BY ReviewStepPreserves, HistoryStep DEF HistoryInv
<1>3. HistoryInv /\ [Next]_vars =>
        [/\ Len(rounds') >= Len(rounds)
         /\ \A r \in 1..Len(rounds) :
               /\ rounds'[r].facts = rounds[r].facts
               /\ rounds'[r].snapshot = rounds[r].snapshot
               /\ rounds[r].status # "under_review" => rounds'[r] = rounds[r]
               /\ \A area \in Areas :
                     rounds[r].gates[area].status # "pending" =>
                         rounds'[r].gates[area] = rounds[r].gates[area]]_vars
  BY HistoryStep DEF HistoryKept, Frozen
<1> QED BY <1>1, <1>2, <1>3, PTL DEF Spec, HistoryFrozen

-----------------------------------------------------------------------------
(* Rounds and gates say the same. *)

Refusals == {"changes_requested", "rejected"}
StatusesIn(gates) == {gates[area].status : area \in Areas}

\* The status of a round is the one its gates stand for.
Coherent(status, gates) ==
    /\ status = "under_review" <=> "pending" \in StatusesIn(gates)
    /\ "superseded" \in StatusesIn(gates) => status \in StatusesIn(gates)
    /\ status \in Refusals <=> \E refusal \in Refusals : refusal \in StatusesIn(gates)

CoherentRounds ==
    /\ \A r \in 1..Len(rounds) : Coherent(rounds[r].status, rounds[r].gates)
    /\ \A r \in 1..Len(rounds) : r < Current => rounds[r].status = "changes_requested"

LEMMA FreshIsCoherent ==
    ASSUME NEW f \in Facts
    PROVE  Coherent("under_review", FreshGates(f))
<1>1. StatusesIn(FreshGates(f)) \subseteq {"pending", "not_required"}
  BY DEF StatusesIn, FreshGates
<1>2. PICK area \in RequiredAreas(f) : TRUE
  BY BusinessAssumption
<1>3. area \in Areas /\ FreshGates(f)[area].status = "pending"
  BY <1>2, PolicyAssumption DEF FreshGates
<1>4. "pending" \in StatusesIn(FreshGates(f))
  BY <1>3 DEF StatusesIn
<1> QED BY <1>1, <1>4 DEF Coherent, Refusals

\* A verdict on an open gate and the status that follows from it go together: a
\* refusal is the first one, so it decides the round and leaves no gate open.
LEMMA DecidedIsCoherent ==
    ASSUME NEW gates \in [Areas -> Gate], Coherent("under_review", gates),
           NEW area \in Areas, Open(gates[area]), NEW p \in People, NEW verdict \in Verdicts,
           NEW status,
           status = ResultingStatus({verdict} \cup
               {gates[b].status : b \in {b \in Areas \ {area} : gates[b].status # "not_required"}})
    PROVE  Coherent(status, Decided(gates, area, p, verdict))
<1> DEFINE others == {gates[b].status : b \in {b \in Areas \ {area} : gates[b].status # "not_required"}}
           new == Decided(gates, area, p, verdict)
<1>1. \A b \in Areas : gates[b].status \in {"approved", "pending", "not_required"}
  <2>1. SUFFICES ASSUME NEW b \in Areas
                 PROVE  gates[b].status \in {"approved", "pending", "not_required"}
    OBVIOUS
  <2>2. gates[b].status \in GateStatuses /\ gates[b].status \in StatusesIn(gates)
    BY DEF Gate, StatusesIn
  <2>3. "under_review" \notin StatusesIn(gates)
    BY DEF Gate, StatusesIn, GateStatuses, Verdicts
  <2> QED BY <2>2, <2>3 DEF Coherent, Refusals, GateStatuses, Verdicts
<1>2. others \subseteq {"approved", "pending"}
  BY <1>1
<1>3. new[area].status = verdict
  BY DEF Decided
<1>4. CASE verdict \in Refusals
  <2>1. status = verdict
    BY <1>2, <1>4 DEF ResultingStatus, Refusals
  <2>2. \A b \in Areas \ {area} : new[b].status \in {"approved", "superseded", "not_required"}
    BY <1>1, <1>4 DEF Decided, Refuses, Refusals, Open, Gate
  <2>3. verdict \in StatusesIn(new)
    BY <1>3 DEF StatusesIn
  <2>4. "pending" \notin StatusesIn(new)
    BY <1>3, <1>4, <2>2 DEF StatusesIn, Refusals
  <2> QED BY <1>4, <2>1, <2>3, <2>4 DEF Coherent, Refusals
<1>5. CASE verdict = "approved"
  <2>1. \A b \in Areas \ {area} : new[b] = gates[b]
    BY <1>5 DEF Decided, Refuses
  <2>2. StatusesIn(new) \subseteq {"approved", "pending", "not_required"}
    BY <1>1, <1>3, <1>5, <2>1 DEF StatusesIn
  <2>3. "pending" \in StatusesIn(new) <=> "pending" \in others
    BY <1>3, <1>5, <2>1 DEF StatusesIn
  <2>4. status = IF "pending" \in others THEN "under_review" ELSE "approved"
    <3>1. CASE "pending" \in others
      BY <1>2, <1>5, <3>1 DEF ResultingStatus
    <3>2. CASE "pending" \notin others
      <4>1. {verdict} \cup others = {"approved"}
        BY <1>2, <1>5, <3>2
      <4> QED BY <3>2, <4>1 DEF ResultingStatus
    <3> QED BY <3>1, <3>2
  <2> QED BY <2>2, <2>3, <2>4 DEF Coherent, Refusals
<1> QED BY <1>4, <1>5 DEF Verdicts, Refusals

LEMMA SameRoundsCoherent ==
    ASSUME CoherentRounds, rounds' = rounds, initiative'.round = initiative.round
    PROVE  CoherentRounds'
BY DEF CoherentRounds, Current

LEMMA CoherentStep ==
    ASSUME HistoryInv, CoherentRounds, [Next]_vars
    PROVE  CoherentRounds'
<1> USE DEF HistoryInv, ReviewInv, TypeInv
<1>1. CASE Submit \/ Resubmit
  <2> DEFINE new == [facts |-> initiative.facts, status |-> "under_review",
                     gates |-> FreshGates(initiative.facts), snapshot |-> assessments]
  <2>1. rounds' = Append(rounds, new) /\ initiative'.round = initiative.round + 1
    BY <1>1 DEF Submit, Resubmit, StartRound, InitiativeSnapshot, AssessmentSnapshots, Projected, TypeOK
  <2>2. rounds \in Seq(ReviewRound) /\ initiative.round = Len(rounds)
    BY DEF TypeOK, RoundsInOrder, Current
  <2>3. Len(rounds) > 0 => rounds[Len(rounds)].status = "changes_requested"
    BY <1>1, <2>2 DEF Submit, Resubmit, NeverSubmitted, StatusProjected, Current
  <2>4. Coherent(new.status, new.gates)
    BY FreshIsCoherent DEF TypeOK
  <2> HIDE DEF new
  <2>5. /\ Len(rounds') = Len(rounds) + 1 /\ rounds'[Len(rounds) + 1] = new
        /\ \A r \in 1..Len(rounds) : rounds'[r] = rounds[r]
    BY <2>1, <2>2
  <2>6. \A r \in 1..Len(rounds) : rounds[r].status = "changes_requested"
    BY <2>2, <2>3 DEF CoherentRounds, Current
  <2> QED BY <2>1, <2>2, <2>4, <2>5, <2>6 DEF CoherentRounds, Current
<1>2. CASE CommitDecision
  <2> DEFINE status == Outcome(decision.area, decision.verdict)
             old == rounds[Current]
             gates == Decided(Gates, decision.area, decision.by, decision.verdict)
             new == [old EXCEPT !.status = status, !.gates = gates]
  <2>1. decision \in Decisions /\ initiative.status = "under_review" /\ Open(Gates[decision.area])
    BY <1>2 DEF CommitDecision, TypeOK, NoDecision, DecisionIsLegal
  <2>2. rounds \in Seq(ReviewRound) /\ Current \in 1..Len(rounds) /\ Current = Len(rounds)
    BY <2>1 DEF TypeOK, RoundsInOrder, Current
  <2>3. old \in ReviewRound /\ old.status = "under_review"
    BY <2>1, <2>2 DEF StatusProjected
  <2>4. Gates \in [Areas -> Gate] /\ Coherent("under_review", Gates)
    BY <2>2, <2>3 DEF ReviewRound, Gates, CoherentRounds
  <2>5. Coherent(status, gates)
    BY <2>1, <2>4, DecidedIsCoherent DEF Outcome, Decisions
  <2>6. new.status = status /\ new.gates = gates
    <3> HIDE DEF status, gates
    <3> QED BY <2>3 DEF ReviewRound
  <2>7. rounds' = [rounds EXCEPT ![Current] = new] /\ initiative'.round = initiative.round
    BY <1>2 DEF CommitDecision, Gates, TypeOK
  <2> HIDE DEF new, status, gates
  <2>8. /\ Len(rounds') = Len(rounds) /\ rounds'[Current] = new
        /\ \A r \in 1..Len(rounds) : r # Current => rounds'[r] = rounds[r]
    BY <2>2, <2>7
  <2>9. Current' = Current
    BY <2>7 DEF Current
  <2> QED BY <2>2, <2>5, <2>6, <2>8, <2>9 DEF CoherentRounds
<1>3. ASSUME NEW f \in Facts, Revise(f) PROVE CoherentRounds'
  <2>1. initiative'.round = initiative.round
    BY <1>3 DEF Revise, TypeOK
  <2> QED BY <1>3, <2>1, SameRoundsCoherent DEF Revise
<1>4. ASSUME NEW p \in People, NEW area \in Areas, NEW verdict \in Verdicts,
             Decide(p, area, verdict)
      PROVE CoherentRounds'
  BY <1>4, SameRoundsCoherent DEF Decide
<1>5. CASE AbandonDecision
  BY <1>5, SameRoundsCoherent DEF AbandonDecision
<1>6. ASSUME NEW h \in Handlers, AssessmentStep(h) PROVE CoherentRounds'
  <2>1. UNCHANGED ReviewState
    BY <1>6, OnlyRows
  <2> QED BY <2>1, SameRoundsCoherent DEF ReviewState
<1>7. CASE UNCHANGED vars
  BY <1>7, SameRoundsCoherent DEF vars
<1> QED BY <1>1, <1>2, <1>3, <1>4, <1>5, <1>6, <1>7 DEF Next, OwnerStep, ReviewStep

LEMMA CoherentImplies == HistoryInv /\ CoherentRounds => RoundsCoherent
<1> SUFFICES ASSUME HistoryInv, CoherentRounds PROVE RoundsCoherent
  OBVIOUS
<1>1. Current = Len(rounds)
  BY DEF HistoryInv, ReviewInv, TypeInv, RoundsInOrder
<1>2. \A r : GateStatusesOf(r) = StatusesIn(rounds[r].gates)
  BY DEF GateStatusesOf, StatusesIn
<1>3. Current > 0 => rounds[Current].status = initiative.status
  BY DEF HistoryInv, StatusProjected
<1>4. \A r \in 1..Len(rounds) : Coherent(rounds[r].status, rounds[r].gates)
  BY DEF CoherentRounds
<1>5. \A r \in 1..Len(rounds) : r < Current => rounds[r].status = "changes_requested"
  BY DEF CoherentRounds
<1> QED BY <1>1, <1>2, <1>3, <1>4, <1>5 DEF RoundsCoherent, Coherent, Refusals

\* Whatever decisions, refusals and resubmissions there are, an initiative shows the
\* outcome of its current round, and a closed round has no gate left open.
THEOREM RoundsCoherentHolds == Spec => []RoundsCoherent
<1>1. Init => HistoryInv /\ CoherentRounds
  BY ReviewInit DEF HistoryInv, StatusProjected, Init, Current, CoherentRounds
<1>2. HistoryInv /\ CoherentRounds /\ [Next]_vars => HistoryInv' /\ CoherentRounds'
  BY ReviewStepPreserves, HistoryStep, CoherentStep DEF HistoryInv
<1> QED BY <1>1, <1>2, CoherentImplies, PTL DEF Spec

-----------------------------------------------------------------------------
(* Decisions are on what was submitted. *)

\* A step that leaves the proposal and the rounds' records alone, or asks for changes.
LEMMA SameProposal ==
    ASSUME SnapshotInForce, HistoryInv, HistoryKept, initiative'.round = initiative.round,
           \/ initiative'.status = "changes_requested"
           \/ /\ initiative'.facts = initiative.facts
              /\ \/ initiative'.status = initiative.status
                 \/ initiative.status = "under_review"
    PROVE  SnapshotInForce'
<1>1. CASE initiative'.status \in {"under_review", "approved", "rejected"}
  <2>1. /\ initiative'.facts = initiative.facts
        /\ initiative.status \in {"under_review", "approved", "rejected"}
    BY <1>1
  <2>2. Current' = Current /\ Current \in 1..Len(rounds)
    BY <2>1 DEF Current, HistoryInv, ReviewInv, TypeInv, RoundsInOrder, TypeOK
  <2>3. /\ rounds'[Current].facts = rounds[Current].facts
        /\ rounds'[Current].snapshot = rounds[Current].snapshot
    BY <2>2 DEF HistoryKept, Frozen
  <2> QED BY <2>1, <2>2, <2>3 DEF SnapshotInForce
<1>2. CASE initiative'.status \notin {"under_review", "approved", "rejected"}
  BY <1>2 DEF SnapshotInForce
<1> QED BY <1>1, <1>2

\* A round that starts again starts from assessments that are all under review.
LEMMA RoundStarts ==
    ASSUME HistoryInv, Submit \/ Resubmit
    PROVE  SnapshotInForce'
<1> USE DEF HistoryInv, ReviewInv, TypeInv
<1> DEFINE new == [facts |-> initiative.facts, status |-> "under_review",
                   gates |-> FreshGates(initiative.facts), snapshot |-> assessments]
<1>1. /\ rounds' = Append(rounds, new)
      /\ initiative'.round = initiative.round + 1 /\ initiative'.facts = initiative.facts
  BY DEF Submit, Resubmit, StartRound, InitiativeSnapshot, AssessmentSnapshots, Projected, TypeOK
<1>2. rounds \in Seq(ReviewRound) /\ initiative.round = Len(rounds)
  BY DEF TypeOK, RoundsInOrder, Current
<1>3. new.facts = initiative.facts /\ new.snapshot = assessments
  OBVIOUS
<1> HIDE DEF new
<1>4. rounds'[Current'] = new
  BY <1>1, <1>2 DEF Current
<1>5. Current' > 1 => \A k \in RequiredKinds(initiative.facts) : assessments[k].status = "under_review"
  <2>1. CASE Submit
    BY <1>1, <2>1 DEF Submit, NeverSubmitted, Current
  <2>2. CASE Resubmit
    BY <2>2 DEF Resubmit, Ready
  <2> QED BY <2>1, <2>2
<1> QED BY <1>1, <1>3, <1>4, <1>5 DEF SnapshotInForce

LEMMA SnapshotStep ==
    ASSUME HistoryInv, SnapshotInForce, [Next]_vars
    PROVE  SnapshotInForce'
<1>0. HistoryKept /\ initiative \in [status: InitiativeStatuses, facts: Facts, round: Nat]
  BY HistoryStep DEF HistoryInv, ReviewInv, TypeInv, TypeOK
<1>1. CASE Submit \/ Resubmit
  BY <1>1, RoundStarts
<1>2. ASSUME NEW f \in Facts, Revise(f) PROVE SnapshotInForce'
  <2>1. initiative'.round = initiative.round /\ initiative'.status = "changes_requested"
    BY <1>0, <1>2 DEF Revise, ChangesRequested
  <2> QED BY <1>0, <2>1, SameProposal
<1>3. CASE CommitDecision
  <2>1. initiative.status = "under_review"
    BY <1>3 DEF CommitDecision, HistoryInv, ReviewInv, DecisionIsLegal
  <2>2. initiative'.round = initiative.round /\ initiative'.facts = initiative.facts
    BY <1>0, <1>3 DEF CommitDecision
  <2> QED BY <1>0, <2>1, <2>2, SameProposal
<1>4. CASE UNCHANGED initiative
  BY <1>0, <1>4, SameProposal
<1>5. (\E h \in Handlers : AssessmentStep(h)) => UNCHANGED initiative
  BY OnlyRows DEF ReviewState
<1> QED BY <1>1, <1>2, <1>3, <1>4, <1>5
    DEF Next, OwnerStep, ReviewStep, Decide, AbandonDecision, vars

\* Reviewers decide on what was submitted: the facts on record are those of the round,
\* and a resubmitted round has every assessment they require as one submitted for review,
\* however many requests save and submit assessments meanwhile (_start_review_round).
THEOREM SnapshotInForceHolds == Spec => []SnapshotInForce
<1>1. Init => HistoryInv /\ SnapshotInForce
  BY ReviewInit DEF HistoryInv, StatusProjected, Init, Current, SnapshotInForce
<1>2. HistoryInv /\ SnapshotInForce /\ [Next]_vars => HistoryInv' /\ SnapshotInForce'
  BY ReviewStepPreserves, HistoryStep, SnapshotStep DEF HistoryInv
<1> QED BY <1>1, <1>2, PTL DEF Spec
=============================================================================
