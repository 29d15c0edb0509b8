-------------------------- MODULE GovernedActuation --------------------------
(***************************************************************************)
(* Governed use of the kill switch: a stop is requested on the strength of *)
(* a recommendation, decided by an independent Security approver, executed *)
(* through RuntimeControl and put on record by a receipt; a restore of     *)
(* that stop goes through a chain of its own, bound to the remediation of  *)
(* the incident.  Operators may still use the kill switch directly.        *)
(*                                                                         *)
(* An execution reads the governance rows, commits, and calls              *)
(* RuntimeControl with the Agent version it read; the transition carries   *)
(* the decision as its evidence reference, by which a retry finds it.  A   *)
(* read transaction that finds something it cannot act on has no effect;   *)
(* one that can act is placed where it reads the Agent row, since what it  *)
(* reads around it either is immutable or is read again under the lock.    *)
(***************************************************************************)
EXTENDS RuntimeControl, Incidents

CONSTANTS
    Recommendations,   \* recommendations that consider the kill switch
    AgentOf,           \* the agent a recommendation is about
    IncidentOf,        \* the incident its promotion is linked to
    OwnerOrAdmin,      \* principals who may request and execute
    Security           \* principals with the Security approval area

ASSUME LineageAssumption ==
    /\ AgentOf \in [Recommendations -> Agents]
    /\ IncidentOf \in [Recommendations -> Incident]

VARIABLES
    requests,    \* actuation and restore requests
    decisions,   \* their terminal decisions
    receipts,    \* actuation and restore executions
    evidence,    \* evidence_reference and requested_by of each transition
    exec         \* the governed execution each command handler is running

governance == <<requests, decisions, receipts>>
gvars == <<vars, incident, governance, evidence, exec>>

-----------------------------------------------------------------------------
\* A request is for the stop a recommendation considers, or for the restore of
\* that stop under one snapshot of the remediation.  The remediation digest
\* covers the incident's version, which every change of it increments.
StopOf(r) == [action |-> "stop", recommendation |-> r, remediation |-> 0]
RestoreOf(r) == [action |-> "restore", recommendation |-> r,
                 remediation |-> incident[IncidentOf[r]].version]

Principals == OwnerOrAdmin \cup Security
Intent == [action: {"stop", "restore"}, recommendation: Recommendations, remediation: Nat]

TargetAgent(k) == AgentOf[k.recommendation]
TargetIncident(k) == incident[IncidentOf[k.recommendation]]
Target(k) == IF k.action = "stop" THEN "active" ELSE "inactive"

\* The transition of an operator's own command names no decision.
Ungoverned == [intent |-> "none"]
Evidence == {Ungoverned} \cup [intent: Intent, by: Principals]

Idle == [stage |-> "idle"]
Execution ==
    [stage: {"ready", "running", "applied", "failed"}, intent: Intent, by: Principals,
     version: Nat, epoch: Nat]

Requested(k) == \E q \in requests : q.intent = k
Decided(k) == \E d \in decisions : d.intent = k
Approved(k) == \E d \in decisions : d.intent = k /\ d.outcome = "approved"
HasReceipt(k) == \E x \in receipts : x.intent = k

\* The transitions that carry the evidence reference of a decision.
Matching(k) ==
    {e \in 1..Latest(TargetAgent(k)) :
        /\ evidence[TargetAgent(k)][e] # Ungoverned
        /\ evidence[TargetAgent(k)][e].intent = k}

-----------------------------------------------------------------------------
(* What a request, a decision and an execution require of the present      *)

\* Mutation: the stop on record may have been superseded since.
OnceInForce(a, source) == transitions[a][source.epoch].status = "applied"
SourceInForce(a, source) ==
    /\ Latest(a) = source.epoch
    /\ transitions[a][source.epoch].status = "applied"

\* validate_restore_source_eligibility: the incident is being remediated and
\* the stop on record is still the newest transition of the agent.
EligibleForRestore(r) ==
    LET a == AgentOf[r] IN
    /\ incident[IncidentOf[r]].status \in {"remediating", "closed"}
    /\ incident[IncidentOf[r]].planned
    /\ agent[a].enabled /\ agent[a].engaged
    /\ \E source \in receipts : source.intent = StopOf(r) /\ SourceInForce(a, source)

Current(k) ==
    IF k.action = "stop"
    THEN TargetIncident(k).status # "closed"
    ELSE k = RestoreOf(k.recommendation) /\ EligibleForRestore(k.recommendation)

Executable(k) ==
    /\ Current(k)
    /\ agent[TargetAgent(k)].enabled
    /\ Target(k) # StateOf(agent[TargetAgent(k)])

-----------------------------------------------------------------------------
(* Requests and decisions.  Asked again, each returns the row it finds.    *)

AddRequest(k, p) ==
    /\ ~Requested(k)
    /\ requests' = requests \cup {[intent |-> k, by |-> p]}
    /\ UNCHANGED <<vars, incident, decisions, receipts, evidence, exec>>

RequestStop(r, p) == Current(StopOf(r)) /\ AddRequest(StopOf(r), p)

RequestRestore(r, p) == EligibleForRestore(r) /\ AddRequest(RestoreOf(r), p)

\* Mutation: the requester may decide.
AnySecurity(q, p) == p \in Security
IndependentSecurity(q, p) == p \in Security /\ p # q.by

Decide(q, p, outcome) ==
    /\ IndependentSecurity(q, p)
    /\ ~Decided(q.intent)
    /\ outcome = "approved" => Current(q.intent)
    /\ decisions' = decisions \cup {[intent |-> q.intent, outcome |-> outcome, by |-> p]}
    /\ UNCHANGED <<vars, incident, requests, receipts, evidence, exec>>

-----------------------------------------------------------------------------
(* Executions *)

Stage(c) == exec[c].stage
Proceed(c, record) == exec' = [exec EXCEPT ![c] = record]

Prepare(c, k, p) ==
    /\ Stage(c) = "idle"
    /\ jobs[c] = {}
    /\ Approved(k)
    /\ ~HasReceipt(k)
    /\ Matching(k) = {}
    /\ Executable(k)
    /\ Proceed(c, [stage |-> "ready", intent |-> k, by |-> p,
                   version |-> agent[TargetAgent(k)].version, epoch |-> 0])
    /\ UNCHANGED <<vars, incident, governance, evidence>>

\* Mutation: the version read before is not compared.
AnyVersion(c) == TRUE
AtExpectedVersion(c) == agent[TargetAgent(exec[c].intent)].version = exec[c].version

\* activate or deactivate up to its commit, with the version read before.
Command(c) ==
    LET k == exec[c].intent
        a == TargetAgent(k)
    IN  /\ Stage(c) = "ready"
        /\ AtExpectedVersion(c)
        /\ k.action = "stop" => TargetIncident(k).status # "closed"
        /\ Change(c, a, Target(k))
        /\ evidence' = [evidence EXCEPT ![a] = Append(@, [intent |-> k, by |-> exec[c].by])]
        /\ Proceed(c, [exec[c] EXCEPT !.stage = "running", !.epoch = Latest(a) + 1])
        /\ UNCHANGED <<incident, governance>>

\* RuntimeControl refuses: version drift, a pending transition, a closed
\* incident, the wrong state, or Redis that does not answer the ping.
CommandRefused(c) ==
    LET k == exec[c].intent
        a == TargetAgent(k)
    IN  /\ Stage(c) = "ready"
        /\ \/ ~AtExpectedVersion(c)
           \/ k.action = "stop" /\ TargetIncident(k).status = "closed"
           \/ Pending(a) \/ ~ValidTransition(a, Target(k))
           \/ ~redisUp \/ Latest(a) >= MaxEpoch
        /\ Proceed(c, [exec[c] EXCEPT !.stage = "failed"])
        /\ UNCHANGED <<vars, incident, governance, evidence>>

\* _validate_runtime_result: the agent is where this command has put it.
ResultMatches(c) ==
    LET row == agent'[TargetAgent(exec[c].intent)] IN
    /\ row.enabled
    /\ StateOf(row) = Target(exec[c].intent)
    /\ row.version = exec[c].version + 1

\* Where a handler goes when its call of RuntimeControl returns or raises.
Returns(c, j) ==
    Proceed(c, IF transitions'[j.agent][j.epoch].status = "pending"
               THEN [exec[c] EXCEPT !.stage = "failed"]
               ELSE IF ResultMatches(c) THEN [exec[c] EXCEPT !.stage = "applied"] ELSE Idle)

GovernedProject(c, j) == Project(c, j) /\ UNCHANGED exec

GovernedProjectFails(c, j) ==
    ProjectFails(c, j) /\ Proceed(c, [exec[c] EXCEPT !.stage = "failed"])

GovernedFinalize(c, j) == (Finalize(c, j) \/ FinalizeAgain(c, j)) /\ Returns(c, j)

GovernedCrash(c) == Crash(c) /\ Proceed(c, Idle)

Running(c) ==
    /\ Stage(c) = "running"
    /\ \/ \E j \in jobs[c] :
            GovernedProject(c, j) \/ GovernedProjectFails(c, j) \/ GovernedFinalize(c, j)
       \/ GovernedCrash(c)
    /\ UNCHANGED <<incident, governance, evidence>>

\* The unique keys on decision and transition admit one receipt of each.  It
\* names who asked for the transition, whoever writes it.
Save(k, e) ==
    /\ ~HasReceipt(k)
    /\ \A x \in receipts : TargetAgent(x.intent) = TargetAgent(k) => x.epoch # e
    /\ receipts' = receipts \cup
           {[intent |-> k, epoch |-> e, by |-> evidence[TargetAgent(k)][e].by]}

SaveReceipt(c) ==
    /\ Stage(c) = "applied"
    /\ Save(exec[c].intent, exec[c].epoch)
    /\ Proceed(c, Idle)
    /\ UNCHANGED <<vars, incident, requests, decisions, evidence>>

\* A retry, or the handler whose command has failed, finds the transition of its
\* decision; more than one is a conflict, a pending one is left to reconciliation.
ReadyForReceipt(a, e) == transitions[a][e].status = "applied"

Retries(c, k) == Stage(c) = "idle" \/ (Stage(c) = "failed" /\ exec[c].intent = k)

RecoverReceipt(c, k) ==
    /\ Retries(c, k)
    /\ jobs[c] = {}
    /\ Approved(k)
    /\ \E e \in 1..Latest(TargetAgent(k)) :
          /\ Matching(k) = {e}
          /\ ReadyForReceipt(TargetAgent(k), e)
          /\ Save(k, e)
    /\ Proceed(c, Idle)
    /\ UNCHANGED <<vars, incident, requests, decisions, evidence>>

\* An error answered, a commit that failed, or the end of the process.
Abandon(c) ==
    /\ Stage(c) \in {"ready", "applied", "failed"}
    /\ Proceed(c, Idle)
    /\ UNCHANGED <<vars, incident, governance, evidence>>

-----------------------------------------------------------------------------
(* The other callers of RuntimeControl *)

OperatorChange(c, a, target) ==
    /\ Stage(c) = "idle"
    /\ Change(c, a, target)
    /\ evidence' = [evidence EXCEPT ![a] = Append(@, Ungoverned)]
    /\ UNCHANGED <<incident, governance, exec>>

Elsewhere ==
    /\ \/ \E w \in Workers : /\ w \in Commands => Stage(w) = "idle"
                             /\ WorkerStep(w) \/ Crash(w)
       \/ \E r \in Reconcilers : ListPending(r)
       \/ \E k \in Checks : GateStep(k) \/ \E a \in Agents : ReadScope(k, a)
       \/ InventoryStep
       \/ RedisStep
    /\ UNCHANGED <<incident, governance, evidence, exec>>

-----------------------------------------------------------------------------
GovernedInit ==
    /\ Init
    /\ IncidentInit
    /\ requests = {}
    /\ decisions = {}
    /\ receipts = {}
    /\ evidence = [a \in Agents |-> << >>]
    /\ exec = [c \in Commands |-> Idle]

GovernanceStep ==
    \/ \E r \in Recommendations, p \in OwnerOrAdmin : RequestStop(r, p) \/ RequestRestore(r, p)
    \/ \E q \in requests, p \in Principals, outcome \in {"approved", "rejected"} :
          Decide(q, p, outcome)

ExecutionStep(c) ==
    \/ Command(c)
    \/ CommandRefused(c)
    \/ Running(c)
    \/ SaveReceipt(c)
    \/ Abandon(c)

GovernedNext ==
    \/ GovernanceStep
    \/ \E c \in Commands, d \in decisions, p \in OwnerOrAdmin : Prepare(c, d.intent, p)
    \/ \E c \in Commands : ExecutionStep(c)
    \/ \E c \in Commands, d \in decisions : RecoverReceipt(c, d.intent)
    \/ \E c \in Commands, a \in Agents, target \in States : OperatorChange(c, a, target)
    \/ Elsewhere
    \/ IncidentStep /\ UNCHANGED <<vars, governance, evidence, exec>>

GovernedSpec == GovernedInit /\ [][GovernedNext]_gvars
-----------------------------------------------------------------------------
(* Properties *)

\* The rows are what the tables allow: one request, decision and receipt of an
\* intent, evidence for every transition, an execution for a stage it has reached.
GovernedTypeOK ==
    /\ TypeOK
    /\ incident \in [Incident -> IncidentRow]
    /\ requests \subseteq [intent: Intent, by: OwnerOrAdmin]
    /\ decisions \subseteq [intent: Intent, outcome: {"approved", "rejected"}, by: Security]
    /\ receipts \subseteq [intent: Intent, epoch: Nat \ {0}, by: Principals]
    /\ evidence \in [Agents -> Seq(Evidence)]
    /\ \A a \in Agents : Len(evidence[a]) = Latest(a)
    /\ exec \in [Commands -> {Idle} \cup Execution]

\* Retries, recoveries and racing executors of one approved decision switch the
\* agent once: no two transitions carry the evidence reference of one decision.
OneTransitionPerDecision ==
    \A a \in Agents : \A e, f \in {n \in 1..Latest(a) : evidence[a][n] # Ungoverned} :
        evidence[a][e].intent = evidence[a][f].intent => e = f

\* A governed transition rests on an approval given by a Security approver who
\* is not its requester, for the agent and the target it has, and on no second
\* thought: that decision is the only one.  Approval of a stop never restores.
EachWasApproved ==
    \A a \in Agents : \A e \in 1..Latest(a) : evidence[a][e] # Ungoverned =>
        LET k == evidence[a][e].intent IN
        /\ AgentOf[k.recommendation] = a
        /\ transitions[a][e].target = Target(k)
        /\ \E q \in requests, d \in decisions :
              /\ q.intent = k /\ d.intent = k
              /\ d.outcome = "approved" /\ d.by # q.by
              /\ \A f \in decisions : f.intent = k => f = d

\* A governed restore undoes the stop it was approved for and no later one: the
\* transition before it is the one on that stop's receipt.
RestoresItsStop ==
    \A a \in Agents : \A e \in 1..Latest(a) :
        (evidence[a][e] # Ungoverned /\ evidence[a][e].intent.action = "restore") =>
            \E x \in receipts :
                /\ x.intent = StopOf(evidence[a][e].intent.recommendation)
                /\ x.epoch = e - 1

\* A receipt tells what happened: its transition carries its decision, has been
\* applied, and was asked for by the principal the receipt names.
ReceiptsAreTrue ==
    \A x \in receipts :
        LET a == TargetAgent(x.intent) IN
        /\ x.epoch \in 1..Latest(a)
        /\ transitions[a][x.epoch].status = "applied"
        /\ evidence[a][x.epoch] = [intent |-> x.intent, by |-> x.by]
=============================================================================
