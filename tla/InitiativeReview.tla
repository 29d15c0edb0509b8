-------------------------- MODULE InitiativeReview --------------------------
(***************************************************************************)
(* The review of one initiative: its rounds of approval gates              *)
(* (InitiativeService and the pure rules of domain/reviews.py) and its     *)
(* structured assessments (SaveAssessment, SubmitAssessment).              *)
(*                                                                         *)
(* A command on the initiative holds its row lock from its first read to   *)
(* its commit.  A decision also rewrites assessments it read without a     *)
(* lock, so it is two actions; the other commands only read them and are   *)
(* one action, at that read.  An assessment command locks nothing: a save  *)
(* reads the initiative and then the row, a submission reads the row, and  *)
(* both load it again and write the columns that differ from what they     *)
(* loaded.  The policy is a parameter: what it asks of the facts.          *)
(***************************************************************************)
EXTENDS Integers, Sequences, FiniteSets

CONSTANTS
    Facts,             \* the proposals the owner may declare
    Elevated,          \* those whose risk tier is high or critical
    Blocked,           \* those the policy blocks
    Areas,             \* approval areas
    RequiredAreas(_),  \* the gates the policy requires
    Kinds,             \* structured assessments
    RequiredKinds(_),  \* those among the documents the policy requires
    Applicable(_, _),  \* validate_applicability, of a kind and the facts
    Answers,           \* contents of an assessment
    People,            \* authenticated users
    Owner,             \* the owner of the initiative
    Admins,            \* administrators
    AreasOf(_),        \* approval areas of a user
    Handlers,          \* requests that save or submit an assessment
    MaxRounds,         \* bound: rounds
    MaxVersion         \* bound: version at which an assessment is not changed

ASSUME PolicyAssumption ==
    /\ Elevated \subseteq Facts
    /\ Blocked \subseteq Facts
    /\ \A f \in Facts : RequiredAreas(f) \subseteq Areas /\ RequiredKinds(f) \subseteq Kinds
ASSUME BusinessAssumption == \A f \in Facts : RequiredAreas(f) # {}
ASSUME PeopleAssumption == Owner \in People /\ Admins \subseteq People

VARIABLES
    initiative,    \* the initiatives row
    rounds,        \* review_submissions with the approvals of each round
    assessments,   \* the assessments rows by kind
    decision,      \* the open transaction of a gate decision
    command        \* the assessment command each handler runs

vars == <<initiative, rounds, assessments, decision, command>>

-----------------------------------------------------------------------------
InitiativeStatuses == {"draft", "under_review", "changes_requested", "approved", "rejected"}
Verdicts == {"approved", "rejected", "changes_requested"}
GateStatuses == Verdicts \cup {"pending", "not_required", "superseded"}

NoRow == [status |-> "none", answers |-> "none", version |-> 0]
SavedRow == [status: {"draft", "under_review"}, answers: Answers, version: Nat]
Assessment == SavedRow \cup {NoRow}

Nobody == "nobody"
Gate == [status: GateStatuses, by: People \cup {Nobody}]
ReviewRound ==
    [facts: Facts, status: InitiativeStatuses, gates: [Areas -> Gate],
     snapshot: [Kinds -> Assessment]]

ASSUME NamesAssumption == Nobody \notin People /\ "none" \notin Answers

Current == initiative.round
Gates == rounds[Current].gates

\* The row lock is free.
Unlocked == decision.stage = "none"

-----------------------------------------------------------------------------
(* domain/reviews.py *)

Authorized(p, area) ==
    /\ p # Owner
    /\ area \in AreasOf(p) \/ p \in Admins

\* Mutation: a person who decided in an earlier round may not decide again.
DecidedEver(p) == \E r \in 1..Len(rounds) : \E b \in Areas : rounds[r].gates[b].by = p
DecidedInRound(p) == \E b \in Areas : Gates[b].by = p

\* At high or critical risk one person decides one gate of a round.
Independent(p) == initiative.facts \in Elevated => ~DecidedInRound(p)

\* Mutation: a round is approved once no gate refuses.
NoneRefuses(statuses) ==
    IF "changes_requested" \in statuses THEN "changes_requested"
    ELSE IF "rejected" \in statuses THEN "rejected" ELSE "approved"
ResultingStatus(statuses) ==
    IF "changes_requested" \in statuses THEN "changes_requested"
    ELSE IF "rejected" \in statuses THEN "rejected"
    ELSE IF statuses = {"approved"} THEN "approved" ELSE "under_review"

\* Mutation: a request for changes leaves the open gates open.
Rejects(status) == status = "rejected"
Refuses(status) == status \in {"rejected", "changes_requested"}

\* Mutation: a refusal supersedes decided gates too.
EveryOther(gate) == gate.status # "not_required"
Open(gate) == gate.status = "pending"

\* The gates after a verdict: a refusal supersedes the open ones.
Decided(gates, area, p, verdict) ==
    [b \in Areas |->
        IF b = area THEN [status |-> verdict, by |-> p]
        ELSE IF Refuses(verdict) /\ Open(gates[b]) THEN [gates[b] EXCEPT !.status = "superseded"]
        ELSE gates[b]]

Outcome(area, verdict) ==
    ResultingStatus({verdict} \cup
        {Gates[b].status : b \in {b \in Areas \ {area} : Gates[b].status # "not_required"}})

-----------------------------------------------------------------------------
(* InitiativeService *)

FreshGates(f) ==
    [area \in Areas |->
        [status |-> IF area \in RequiredAreas(f) THEN "pending" ELSE "not_required",
         by |-> Nobody]]

\* The policy is evaluated again on the facts on record and may block them.
CanSubmit(f) == f \notin Blocked

\* What a round keeps: the whole proposal, and every assessment there is.
InitiativeSnapshot == initiative.facts
AssessmentSnapshots == assessments

\* The operational projection moves to the new round.
Projected == [initiative EXCEPT !.status = "under_review", !.round = @ + 1]

StartRound ==
    /\ Len(rounds) < MaxRounds
    /\ CanSubmit(initiative.facts)
    /\ rounds' = Append(rounds,
            [facts |-> InitiativeSnapshot, status |-> "under_review",
             gates |-> FreshGates(initiative.facts), snapshot |-> AssessmentSnapshots])
    /\ initiative' = Projected
    /\ UNCHANGED <<assessments, decision, command>>

\* The first submission asks for no assessment.
NeverSubmitted == initiative.status = "draft" /\ Current = 0

Submit ==
    /\ Unlocked
    /\ NeverSubmitted
    /\ StartRound

Exists(row) == row # NoRow

\* Mutation: a draft will do.
Started(row) == Exists(row)
Ready(row) == row.status = "under_review"

Resubmit ==
    /\ Unlocked
    /\ initiative.status = "changes_requested"
    /\ \A k \in RequiredKinds(initiative.facts) : Ready(assessments[k])
    /\ StartRound

\* Mutation: the facts may be revised while a round is open.
Revisable == initiative.status \in {"changes_requested", "under_review"}
ChangesRequested == initiative.status = "changes_requested"

Revise(f) ==
    /\ Unlocked
    /\ ChangesRequested
    /\ f # initiative.facts
    /\ CanSubmit(f)
    /\ initiative' = [initiative EXCEPT !.facts = f]
    /\ UNCHANGED <<rounds, assessments, decision, command>>

NoDecision == [stage |-> "none"]

\* The decision locks the initiative and reads its gates and assessments.
Decide(p, area, verdict) ==
    /\ Unlocked
    /\ initiative.status = "under_review"
    /\ Open(Gates[area])
    /\ Authorized(p, area)
    /\ Independent(p)
    /\ decision' = [stage |-> "decided", by |-> p, area |-> area, verdict |-> verdict,
                    read |-> assessments]
    /\ UNCHANGED <<initiative, rounds, assessments, command>>

\* Only rows read as under review are written, status and version.
Reopened(row, read) ==
    IF read.status = "under_review"
    THEN [row EXCEPT !.status = "draft", !.version = read.version + 1]
    ELSE row

CommitDecision ==
    /\ decision.stage = "decided"
    /\ LET status == Outcome(decision.area, decision.verdict) IN
          /\ rounds' = [rounds EXCEPT ![Current].status = status,
                ![Current].gates = Decided(@, decision.area, decision.by, decision.verdict)]
          /\ initiative' = [initiative EXCEPT !.status = status]
          /\ assessments' = IF status = "changes_requested"
                            THEN [k \in Kinds |-> Reopened(assessments[k], decision.read[k])]
                            ELSE assessments
    /\ decision' = NoDecision
    /\ UNCHANGED command

\* A failed flush or commit, or the end of the process, releases the lock.
AbandonDecision ==
    /\ decision.stage = "decided"
    /\ decision' = NoDecision
    /\ UNCHANGED <<initiative, rounds, assessments, command>>

-----------------------------------------------------------------------------
(* Assessment commands *)

Idle == [stage |-> "idle"]
AssessableStatuses == {"draft", "under_review", "changes_requested", "approved"}

Holds(h, stage, k, record) ==
    /\ command' = [command EXCEPT ![h] =
            [stage |-> stage, kind |-> k, record |-> record, loaded |-> NoRow]]
    /\ UNCHANGED <<initiative, rounds, assessments, decision>>

\* validate_applicability
Assessable(k) ==
    /\ initiative.status \in AssessableStatuses
    /\ Applicable(k, initiative.facts)

\* A save reads the initiative first.
BeginSave(h, k) ==
    /\ command[h].stage = "idle"
    /\ Assessable(k)
    /\ Holds(h, "applicable", k, NoRow)

Editable(row) == row.status \in {"none", "draft"}

\* The version check passes: the client has asked for the row as it is.
ReadDraft(h, x) ==
    LET k == command[h].kind
        row == assessments[k]
    IN  /\ command[h].stage = "applicable"
        /\ Editable(row)
        /\ row.version < MaxVersion
        /\ Holds(h, "validated", k, [status |-> "draft", answers |-> x, version |-> row.version + 1])

SubmittedDraft(row) ==
    [status |-> "under_review", answers |-> row.answers, version |-> row.version + 1]

\* A submission asks the initiative only for its owner.
BeginSubmit(h, k) ==
    /\ command[h].stage = "idle"
    /\ assessments[k].status = "draft"
    /\ assessments[k].version < MaxVersion
    /\ Holds(h, "validated", k, SubmittedDraft(assessments[k]))

\* save() gets the entity again before it sets every attribute.
Load(h) ==
    /\ command[h].stage = "validated"
    /\ LET c == command[h] IN command' = [command EXCEPT ![h] =
            [stage |-> "loaded", kind |-> c.kind, record |-> c.record,
             loaded |-> assessments[c.kind]]]
    /\ UNCHANGED <<initiative, rounds, assessments, decision>>

\* The UPDATE names the columns that differ from what was loaded.
Column(kept, loaded, set) == IF set = loaded THEN kept ELSE set
Merged(row, loaded, record) ==
    [status |-> Column(row.status, loaded.status, record.status),
     answers |-> Column(row.answers, loaded.answers, record.answers),
     version |-> Column(row.version, loaded.version, record.version)]

\* An INSERT that meets another's row breaks uq_assessment_initiative_type.
Write(h) ==
    LET c == command[h] IN
    /\ c.stage = "loaded"
    /\ Exists(c.loaded) \/ ~Exists(assessments[c.kind])
    /\ assessments' = [assessments EXCEPT ![c.kind] = Merged(@, c.loaded, c.record)]
    /\ command' = [command EXCEPT ![h] = Idle]
    /\ UNCHANGED <<initiative, rounds, decision>>

Abandon(h) ==
    /\ command[h].stage # "idle"
    /\ command' = [command EXCEPT ![h] = Idle]
    /\ UNCHANGED <<initiative, rounds, assessments, decision>>

-----------------------------------------------------------------------------
Init ==
    /\ initiative \in [status: {"draft"}, facts: Facts, round: {0}]
    /\ rounds = << >>
    /\ assessments = [k \in Kinds |-> NoRow]
    /\ decision = NoDecision
    /\ command = [h \in Handlers |-> Idle]

OwnerStep == Submit \/ Resubmit \/ \E f \in Facts : Revise(f)

ReviewStep ==
    \E p \in People, area \in Areas, verdict \in Verdicts : Decide(p, area, verdict)

AssessmentStep(h) ==
    \/ \E k \in Kinds : BeginSubmit(h, k) \/ BeginSave(h, k)
    \/ \E x \in Answers : ReadDraft(h, x)
    \/ Load(h)
    \/ Write(h)
    \/ Abandon(h)

Next ==
    \/ OwnerStep
    \/ ReviewStep
    \/ CommitDecision
    \/ AbandonDecision
    \/ \E h \in Handlers : AssessmentStep(h)

Spec == Init /\ [][Next]_vars
-----------------------------------------------------------------------------
Decisions ==
    [stage: {"decided"}, by: People, area: Areas, verdict: Verdicts, read: [Kinds -> Assessment]]
Commands ==
    [stage: {"applicable", "validated", "loaded"}, kind: Kinds, record: Assessment,
     loaded: Assessment]

\* The type invariant: every row and open transaction stays within its domain.
TypeOK ==
    /\ initiative \in [status: InitiativeStatuses, facts: Facts, round: Nat]
    /\ rounds \in Seq(ReviewRound)
    /\ assessments \in [Kinds -> Assessment]
    /\ decision \in Decisions \cup {NoDecision}
    /\ command \in [Handlers -> Commands \cup {Idle}]

\* "Final approval only occurs when all mandatory gates of the current round are
\* approved", and "at high or critical risk, one person cannot decide on behalf of
\* distinct areas": an approval was given, for the facts on record, by an authorized
\* person for every area these facts require, never the owner, and by different
\* people when the risk is elevated.
ApprovedBy(area, p) == Gates[area] = [status |-> "approved", by |-> p]

IndependentApproval ==
    initiative.status = "approved" =>
        \A area \in RequiredAreas(initiative.facts) :
            \E p \in People \ {Owner} :
                /\ ApprovedBy(area, p)
                /\ area \in AreasOf(p) \/ p \in Admins
                /\ initiative.facts \in Elevated =>
                      \A other \in Areas \ {area} : Gates[other].by # p

\* The projection on the initiative is the outcome of its current round, every
\* earlier round was closed by a change request, and a closed round has no gate left
\* open: a gate nobody may decide any more is superseded by a refusal.
GateStatusesOf(r) == {rounds[r].gates[area].status : area \in Areas}

RoundsCoherent ==
    /\ Current = Len(rounds)
    /\ Current > 0 => rounds[Current].status = initiative.status
    /\ \A r \in 1..Len(rounds) :
          /\ r < Current => rounds[r].status = "changes_requested"
          /\ rounds[r].status = "under_review" <=> "pending" \in GateStatusesOf(r)
          /\ "superseded" \in GateStatusesOf(r) => rounds[r].status \in GateStatusesOf(r)
          /\ rounds[r].status \in {"changes_requested", "rejected"} <=>
                \E refusal \in {"changes_requested", "rejected"} : refusal \in GateStatusesOf(r)

\* What reviewers look at is what was submitted: until a change is requested, the facts
\* on record are those of the round, and, from the second round on, the round keeps
\* every assessment these facts require as one submitted for review, whatever requests
\* have done to the rows since.  The first submission asks for none.
SnapshotInForce ==
    initiative.status \in {"under_review", "approved", "rejected"} =>
        /\ initiative.facts = rounds[Current].facts
        /\ Current > 1 => \A k \in RequiredKinds(initiative.facts) :
                rounds[Current].snapshot[k].status = "under_review"

\* A round is a record: its facts and snapshot never change, a decided or superseded
\* gate never changes, and once the round is resolved nothing in it does.
HistoryFrozen ==
    [][/\ Len(rounds') >= Len(rounds)
       /\ \A r \in 1..Len(rounds) :
             /\ rounds'[r].facts = rounds[r].facts
             /\ rounds'[r].snapshot = rounds[r].snapshot
             /\ rounds[r].status # "under_review" => rounds'[r] = rounds[r]
             /\ \A area \in Areas :
                   rounds[r].gates[area].status # "pending" =>
                       rounds'[r].gates[area] = rounds[r].gates[area]]_vars

\* "Once submitted [assessments] become immutable until the explicit
\* review-and-resubmission workflow reopens them", with the answers they had
\* (docs/architecture/ARCHITECTURE.md): a run finds it violated.
SubmittedImmutable ==
    [][\A k \in Kinds : assessments[k].status = "under_review" =>
          \/ assessments'[k] = assessments[k]
          \/ /\ initiative.status = "under_review"
             /\ initiative'.status = "changes_requested"
             /\ assessments'[k] = [assessments[k] EXCEPT !.status = "draft", !.version = @ + 1]]_vars

\* Reviewers are people who get to what waits for them, and a decision that keeps
\* failing is tried again until it commits.
Fairness ==
    /\ WF_vars(ReviewStep)
    /\ SF_vars(CommitDecision)

FairSpec == Spec /\ Fairness

\* A round does not stay open for ever while its reviewers work: the independence rule
\* never leaves a gate that nobody may decide, when every area has a reviewer of its own.
RoundIsResolved == initiative.status = "under_review" ~> initiative.status # "under_review"
=============================================================================
