--------------------------- MODULE RuntimeControl ---------------------------
(***************************************************************************)
(* The runtime kill switch: operator commands and the reconciler           *)
(* (RuntimeControlService), the Redis projection they maintain by          *)
(* epoch compare-and-set, the issuance gate that compares the projection   *)
(* with PostgreSQL (RuntimeControlGate), and the inventory service, the    *)
(* other writer of the Agent row.                                          *)
(*                                                                         *)
(* A transaction of the service holds the Agent row lock from its first    *)
(* read to its commit and calls nothing external in between: it is one     *)
(* action.  The inventory service locks the AISystem row, not the Agent    *)
(* row, so its read and its write of the Agent are two actions.  The       *)
(* foreign key of a new transition needs the AISystem row too: what the    *)
(* two services do beside each other is to finalize and to edit.           *)
(***************************************************************************)
EXTENDS Integers, Sequences, FiniteSets

CONSTANTS
    Agents,        \* governed agents
    Commands,      \* request handlers of activate and deactivate
    Reconcilers,   \* request handlers of reconcile
    Checks,        \* calls of RuntimeControlGate.state_for
    BatchLimit,    \* the limit of a reconcile request (1..1000 in the code)
    MaxEpoch,      \* bound: transitions per agent
    MaxVersion,    \* bound: Agent version at which no inventory edit begins
    MaxLosses,     \* bound: times Redis forgets a key
    MaxOutages,    \* bound: times Redis becomes unreachable
    MaxWire        \* bound: projections whose caller has timed out, at a time

ASSUME BatchLimitAssumption == BatchLimit \in Nat \ {0}
ASSUME BoundsAssumption ==
    /\ MaxEpoch \in Nat
    /\ MaxVersion \in Nat
    /\ MaxLosses \in Nat
    /\ MaxOutages \in Nat
    /\ MaxWire \in Nat
ASSUME AgentsAssumption == Agents # {}
ASSUME WorkersAssumption == Commands \cap Reconcilers = {}

VARIABLES
    agent,         \* the agents table
    transitions,   \* runtime_control_transitions by agent, in epoch order
    clock,         \* what requested_at is read from
    redis,         \* the projected snapshot of each agent
    redisUp,       \* Redis answers
    losses, outages,
    wire,          \* projections sent by callers that did not wait for them
    jobs,          \* the transitions each command or reconciler has in hand
    phase,         \* what it does next with the oldest of them
    confirmed,     \* newest epoch a caller was told is applied (history)
    edit,          \* the Agent version an open inventory transaction read
    check,         \* progress of each gate call
    issued         \* authorizations signed after the gate answered (history)

durable == <<agent, transitions, clock>>
broker == <<redis, redisUp, losses, outages, wire>>
workers == <<jobs, phase, confirmed>>
gate == <<check, issued>>
vars == <<durable, broker, workers, edit, gate>>

-----------------------------------------------------------------------------
States == {"inactive", "active"}
Statuses == {"pending", "applied"}
Workers == Commands \cup Reconcilers

AgentRow == [enabled: BOOLEAN, engaged: BOOLEAN, version: Nat]
TransitionRow ==
    [previous: States, target: States, status: Statuses, revoked: Nat, at: Nat]
Snapshot == [epoch: Nat, state: States, revoked: Nat]
Job == [agent: Agents, epoch: Nat]

\* An absent key is older than every snapshot.
NoSnapshot == [epoch |-> -1, state |-> "inactive", revoked |-> 0]
NoEdit == -1

StateOf(row) == IF row.engaged THEN "active" ELSE "inactive"

Latest(a) == Len(transitions[a])
Pending(a) == Latest(a) > 0 /\ transitions[a][Latest(a)].status = "pending"
Row(j) == transitions[j.agent][j.epoch]

SnapshotFor(j) ==
    [epoch |-> j.epoch, state |-> Row(j).target, revoked |-> Row(j).revoked]

-----------------------------------------------------------------------------
(* The projection: one key per agent, written by compare-and-set on epoch. *)

PlainSet(a, s) == TRUE
Newer(a, s) == s.epoch > redis[a].epoch

\* Mutation: projecting an epoch again is refused.
OnlyNewer(a, s) == Newer(a, s)
Accepted(a, s) == Newer(a, s) \/ redis[a] = s

CompareAndSet(a, s) == redis' = IF Newer(a, s) THEN [redis EXCEPT ![a] = s] ELSE redis

\* Redis acknowledges the write, or refuses it, or cannot be reached, or the
\* caller's timeout fires and the command may still be executed later.
ProjectAcknowledged(a, s) ==
    /\ redisUp
    /\ Accepted(a, s)
    /\ CompareAndSet(a, s)
    /\ UNCHANGED <<redisUp, losses, outages, wire>>

ProjectRefused(a, s) ==
    /\ redisUp => ~Accepted(a, s)
    /\ UNCHANGED broker

ProjectTimesOut(a, s) ==
    /\ redisUp
    /\ Cardinality(wire) < MaxWire
    /\ wire' = wire \cup {[agent |-> a, snapshot |-> s]}
    /\ UNCHANGED <<redis, redisUp, losses, outages>>

-----------------------------------------------------------------------------
(* RuntimeControlService *)

\* Mutation: the Agent may be asked for the state it has.
AnyTarget(a, target) == agent[a].enabled
ValidTransition(a, target) == agent[a].enabled /\ target # StateOf(agent[a])

\* Mutation: a restore lowers the floor.
FloorOfStopsOnly(a) == IF agent[a].engaged THEN 0 ELSE agent[a].version
\* Every authorization signed so far carries the current version or an older one.
RevokedThrough(a) == agent[a].version

\* The INSERT takes a key share lock on the AISystem row, which an inventory
\* transaction holds FOR UPDATE: the command waits until it ends.
SystemRowFree(a) == edit[a] = NoEdit

Change(c, a, target) ==
    /\ jobs[c] = {}
    /\ SystemRowFree(a)
    /\ redisUp
    /\ Latest(a) < MaxEpoch
    /\ ~Pending(a)
    /\ ValidTransition(a, target)
    /\ transitions' = [transitions EXCEPT ![a] = Append(@,
            [previous |-> StateOf(agent[a]), target |-> target, status |-> "pending",
             revoked |-> RevokedThrough(a), at |-> clock])]
    /\ clock' = clock + 1
    /\ jobs' = [jobs EXCEPT ![c] = {[agent |-> a, epoch |-> Latest(a) + 1]}]
    /\ phase' = [phase EXCEPT ![c] = "project"]
    /\ UNCHANGED <<agent, confirmed, broker, edit, gate>>

PendingJobs == {j \in [agent: Agents, epoch: 1..MaxEpoch] :
                    Pending(j.agent) /\ j.epoch = Latest(j.agent)}

OldestFirst(batch) ==
    \A j \in batch, k \in PendingJobs \ batch : Row(j).at <= Row(k).at

ListPending(r) ==
    /\ jobs[r] = {}
    /\ \E batch \in SUBSET PendingJobs :
          /\ Cardinality(batch) <= BatchLimit
          /\ batch # PendingJobs => Cardinality(batch) = BatchLimit
          /\ OldestFirst(batch)
          /\ jobs' = [jobs EXCEPT ![r] = batch]
    /\ phase' = [phase EXCEPT ![r] = "project"]
    /\ UNCHANGED <<durable, confirmed, broker, edit, gate>>

InHand(w, j) == j \in jobs[w] /\ \A k \in jobs[w] : Row(j).at <= Row(k).at

Project(w, j) ==
    /\ InHand(w, j)
    /\ phase[w] = "project"
    /\ ProjectAcknowledged(j.agent, SnapshotFor(j))
    /\ phase' = [phase EXCEPT ![w] = "finalize"]
    /\ UNCHANGED <<durable, jobs, confirmed, edit, gate>>

\* 503 to the caller, a reconciler gives up its whole batch; the transition
\* stays pending.
GiveUp(w) ==
    /\ jobs' = [jobs EXCEPT ![w] = {}]
    /\ phase' = [phase EXCEPT ![w] = "project"]
    /\ UNCHANGED <<durable, confirmed, edit, gate>>

ProjectFails(w, j) ==
    /\ InHand(w, j)
    /\ phase[w] = "project"
    /\ \/ ProjectRefused(j.agent, SnapshotFor(j))
       \/ ProjectTimesOut(j.agent, SnapshotFor(j))
    /\ GiveUp(w)

\* The process dies or PostgreSQL refuses: what is not committed is rolled back.
Crash(w) == jobs[w] # {} /\ GiveUp(w) /\ UNCHANGED broker

Succeed(w, j) ==
    /\ jobs' = [jobs EXCEPT ![w] = @ \ {j}]
    /\ phase' = [phase EXCEPT ![w] = "project"]
    /\ confirmed' = [confirmed EXCEPT ![j.agent] = IF j.epoch > @ THEN j.epoch ELSE @]

\* Mutation: what was projected is taken to be finalized.
AssumeFinalized(w, j) ==
    /\ InHand(w, j)
    /\ phase[w] = "finalize"
    /\ Succeed(w, j)
    /\ UNCHANGED <<durable, broker, edit, gate>>

\* Another worker may have finalized the transition since it was projected.
FinalizeAgain(w, j) ==
    /\ InHand(w, j)
    /\ phase[w] = "finalize"
    /\ Row(j).status = "applied"
    /\ Succeed(w, j)
    /\ UNCHANGED <<durable, broker, edit, gate>>

\* Mutation: a transition is applied with the state it started from.
EngagedBefore(j) == Row(j).previous = "active"
EngagedAfter(j) == Row(j).target = "active"

Switched(row, engaged) ==
    [enabled |-> row.enabled, engaged |-> engaged, version |-> row.version + 1]

Apply(w, j) ==
    /\ agent' = [agent EXCEPT ![j.agent] = Switched(@, EngagedAfter(j))]
    /\ transitions' = [transitions EXCEPT ![j.agent][j.epoch].status = "applied"]
    /\ Succeed(w, j)
    /\ UNCHANGED <<clock, edit, gate>>

\* A durable state other than the one the transition left is a conflict.
Finalize(w, j) ==
    /\ InHand(w, j)
    /\ phase[w] = "finalize"
    /\ Row(j).status = "pending"
    /\ IF StateOf(agent[j.agent]) = Row(j).previous
       THEN Apply(w, j)
       ELSE GiveUp(w)
    /\ UNCHANGED broker

-----------------------------------------------------------------------------
(* The inventory service: update_agent, review_agent, retire_agent and the *)
(* invalidations of a model or system change.  It reads the Agent under    *)
(* the lock of its AISystem row and writes the version it read plus one,   *)
(* whatever the version has become.                                        *)

BeginEdit(a) ==
    /\ edit[a] = NoEdit
    /\ agent[a].version < MaxVersion
    /\ edit' = [edit EXCEPT ![a] = agent[a].version]
    /\ UNCHANGED <<durable, broker, workers, gate>>

Edited(row, read, enabled) ==
    [enabled |-> enabled, engaged |-> row.engaged, version |-> read + 1]

CommitEdit(a, enabled) ==
    /\ edit[a] # NoEdit
    /\ agent' = [agent EXCEPT ![a] = Edited(@, edit[a], enabled)]
    /\ edit' = [edit EXCEPT ![a] = NoEdit]
    /\ UNCHANGED <<transitions, clock, broker, workers, gate>>

\* A conflict, a failed commit or a lost connection releases the row unchanged.
RollBackEdit(a) ==
    /\ edit[a] # NoEdit
    /\ edit' = [edit EXCEPT ![a] = NoEdit]
    /\ UNCHANGED <<durable, broker, workers, gate>>

-----------------------------------------------------------------------------
(* RuntimeControlGate.state_for, called by the routing use case after it   *)
(* has read the scope it will sign.                                        *)

IdleCheck == [stage |-> "idle", agent |-> CHOOSE a \in Agents : TRUE, scope |-> 0,
              floor |-> 0, row |-> [engaged |-> FALSE, version |-> 0],
              expected |-> NoSnapshot]

Unavailable(k) == check' = [check EXCEPT ![k] = IdleCheck]

\* The scope reader reads the Agent version that an authorization will carry.
ReadScope(k, a) ==
    /\ check[k].stage = "idle"
    /\ check' = [check EXCEPT ![k] = [IdleCheck EXCEPT
            !.stage = "scope", !.agent = a, !.scope = agent[a].version, !.floor = Latest(a)]]
    /\ UNCHANGED <<durable, broker, workers, edit, issued>>

GateReadsAgent(k) ==
    /\ check[k].stage = "scope"
    /\ LET row == agent[check[k].agent]
       IN  check' = [check EXCEPT ![k] = [@ EXCEPT
                !.stage = "agent", !.row = [engaged |-> row.engaged, version |-> row.version]]]
    /\ UNCHANGED <<durable, broker, workers, edit, issued>>

\* The snapshot PostgreSQL implies, from the row read before and the newest
\* transition read now, in two statements.
DurableSnapshot(a, row) ==
    IF Latest(a) = 0
    THEN [epoch |-> 0, state |-> StateOf(row),
          revoked |-> IF row.engaged THEN row.version ELSE 0]
    ELSE [epoch |-> Latest(a), state |-> StateOf(row),
          revoked |-> transitions[a][Latest(a)].revoked]

\* A row and a transition that disagree, unless the transition is still pending.
Inconsistent(a, row) ==
    /\ Latest(a) > 0
    /\ transitions[a][Latest(a)].status = "applied"
    /\ transitions[a][Latest(a)].target # StateOf(row)

\* Mutation: a pending transition does not close the gate.
IgnorePending(a, row) == Inconsistent(a, row)
Untrusted(a, row) == Pending(a) \/ Inconsistent(a, row)

GateReadsLatest(k) ==
    /\ check[k].stage = "agent"
    /\ LET a == check[k].agent
           row == check[k].row
       IN  IF Untrusted(a, row)
           THEN Unavailable(k)
           ELSE check' = [check EXCEPT ![k] = [@ EXCEPT
                    !.stage = "read", !.expected = DurableSnapshot(a, row)]]
    /\ UNCHANGED <<durable, broker, workers, edit, issued>>

\* Once observed and expected agree the gate answers; an inactive answer lets
\* the issuer sign the scope, in the same step since nothing is awaited.
Answer(k) ==
    /\ check' = [check EXCEPT ![k] = [@ EXCEPT !.stage = "answered"]]
    /\ issued' = IF check[k].expected.state = "inactive"
                 THEN issued \cup {[agent |-> check[k].agent, version |-> check[k].scope,
                                    epoch |-> check[k].expected.epoch]}
                 ELSE issued

\* Mutation: the gate trusts a projection newer than what it read.
TrustNewer(observed, expected) ==
    observed = expected \/ observed.epoch > expected.epoch
Agrees(observed, expected) == observed = expected

GateObserves(k) ==
    LET observed == redis[check[k].agent]
        expected == check[k].expected
    IN  /\ check[k].stage \in {"read", "reread"}
        /\ IF ~redisUp THEN Unavailable(k) /\ UNCHANGED issued
           ELSE IF Agrees(observed, expected) THEN Answer(k)
           ELSE IF check[k].stage = "read" /\ observed.epoch < expected.epoch
                THEN check' = [check EXCEPT ![k] = [@ EXCEPT !.stage = "repair"]] /\ UNCHANGED issued
                ELSE Unavailable(k) /\ UNCHANGED issued
        /\ UNCHANGED <<durable, broker, workers, edit>>

GateRepairs(k) ==
    /\ check[k].stage = "repair"
    /\ ProjectAcknowledged(check[k].agent, check[k].expected)
    /\ check' = [check EXCEPT ![k] = [@ EXCEPT !.stage = "reread"]]
    /\ UNCHANGED <<durable, workers, edit, issued>>

GateCannotRepair(k) ==
    /\ check[k].stage = "repair"
    /\ \/ ProjectRefused(check[k].agent, check[k].expected)
       \/ ProjectTimesOut(check[k].agent, check[k].expected)
    /\ Unavailable(k)
    /\ UNCHANGED <<durable, workers, edit, issued>>

CheckReturns(k) ==
    /\ check[k].stage = "answered"
    /\ check' = [check EXCEPT ![k] = IdleCheck]
    /\ UNCHANGED <<durable, broker, workers, edit, issued>>

-----------------------------------------------------------------------------
(* Redis as the environment sees it. *)

RedisGoesDown ==
    /\ redisUp
    /\ outages < MaxOutages
    /\ redisUp' = FALSE
    /\ outages' = outages + 1
    /\ UNCHANGED <<durable, redis, losses, wire, workers, edit, gate>>

RedisComesBack ==
    /\ ~redisUp
    /\ redisUp' = TRUE
    /\ UNCHANGED <<durable, redis, losses, outages, wire, workers, edit, gate>>

RedisForgets(a) ==
    /\ losses < MaxLosses
    /\ redis[a] # NoSnapshot
    /\ redis' = [redis EXCEPT ![a] = NoSnapshot]
    /\ losses' = losses + 1
    /\ UNCHANGED <<durable, redisUp, outages, wire, workers, edit, gate>>

\* A command the caller gave up on reaches Redis after all, or never does.
Deliver(m) ==
    /\ redisUp
    /\ m \in wire
    /\ wire' = wire \ {m}
    /\ CompareAndSet(m.agent, m.snapshot)
    /\ UNCHANGED <<durable, redisUp, losses, outages, workers, edit, gate>>

LoseMessage(m) ==
    /\ m \in wire
    /\ wire' = wire \ {m}
    /\ UNCHANGED <<durable, redis, redisUp, losses, outages, workers, edit, gate>>

-----------------------------------------------------------------------------
\* An agent engaged before the transitions table existed has no transition.
Init ==
    /\ agent \in [Agents -> {row \in [enabled: BOOLEAN, engaged: BOOLEAN, version: {1}] :
                                row.engaged => row.enabled}]
    /\ transitions = [a \in Agents |-> << >>]
    /\ clock = 0
    /\ redis = [a \in Agents |-> NoSnapshot]
    /\ redisUp = TRUE
    /\ losses = 0
    /\ outages = 0
    /\ wire = {}
    /\ jobs = [w \in Workers |-> {}]
    /\ phase = [w \in Workers |-> "project"]
    /\ confirmed = [a \in Agents |-> 0]
    /\ edit = [a \in Agents |-> NoEdit]
    /\ check = [k \in Checks |-> IdleCheck]
    /\ issued = {}

WorkerStep(w) ==
    \/ \E j \in jobs[w] : Project(w, j) \/ FinalizeAgain(w, j) \/ Finalize(w, j)
    \/ \E j \in jobs[w] : ProjectFails(w, j)

GateStep(k) ==
    \/ GateReadsAgent(k)
    \/ GateReadsLatest(k)
    \/ GateObserves(k)
    \/ GateRepairs(k)
    \/ GateCannotRepair(k)
    \/ CheckReturns(k)

RedisStep ==
    \/ RedisGoesDown
    \/ RedisComesBack
    \/ \E a \in Agents : RedisForgets(a)
    \/ \E m \in wire : Deliver(m) \/ LoseMessage(m)

InventoryStep ==
    \E a \in Agents :
        \/ BeginEdit(a)
        \/ RollBackEdit(a)
        \/ \E enabled \in BOOLEAN : CommitEdit(a, enabled)

Next ==
    \/ \E c \in Commands, a \in Agents, target \in States : Change(c, a, target)
    \/ \E r \in Reconcilers : ListPending(r)
    \/ \E w \in Workers : WorkerStep(w) \/ Crash(w)
    \/ \E k \in Checks : GateStep(k) \/ \E a \in Agents : ReadScope(k, a)
    \/ InventoryStep
    \/ RedisStep

Spec == Init /\ [][Next]_vars

-----------------------------------------------------------------------------
Authorization == [agent: Agents, version: Nat, epoch: Nat]
CheckFields(stages, snapshots) ==
    [stage: stages, agent: Agents, scope: Nat, floor: Nat,
     row: [engaged: BOOLEAN, version: Nat], expected: snapshots]
CheckRecord ==
    CheckFields({"idle", "scope", "agent"}, {NoSnapshot})
        \cup CheckFields({"read", "repair", "reread", "answered"}, Snapshot)

\* The type invariant: every column, projection, process and history variable
\* stays within its domain.
TypeOK ==
    /\ agent \in [Agents -> AgentRow]
    /\ transitions \in [Agents -> Seq(TransitionRow)]
    /\ clock \in Nat
    /\ redis \in [Agents -> Snapshot \cup {NoSnapshot}]
    /\ redisUp \in BOOLEAN
    /\ losses \in Nat
    /\ outages \in Nat
    /\ wire \in SUBSET [agent: Agents, snapshot: Snapshot]
    /\ jobs \in [Workers -> SUBSET Job]
    /\ phase \in [Workers -> {"project", "finalize"}]
    /\ confirmed \in [Agents -> Nat]
    /\ edit \in [Agents -> Nat \cup {NoEdit}]
    /\ check \in [Checks -> CheckRecord]
    /\ issued \in SUBSET Authorization

\* The transitions of an agent form one alternating history: every one starts
\* from the state its predecessor applied, only the newest may be pending, and
\* the kill_switch_engaged column is what that history says.  So a finalizer
\* never meets the conflict branch and the gate finds an inconsistency only
\* between its own two reads.
DurableEvidence ==
    \A a \in Agents :
        /\ \A e \in 1..Latest(a) :
              /\ transitions[a][e].target # transitions[a][e].previous
              /\ e > 1 => /\ transitions[a][e].previous = transitions[a][e - 1].target
                          /\ transitions[a][e - 1].status = "applied"
        /\ Latest(a) > 0 =>
              StateOf(agent[a]) = IF Pending(a) THEN transitions[a][Latest(a)].previous
                                  ELSE transitions[a][Latest(a)].target

\* Redis never shows a control state that no committed transition asked for,
\* however late, duplicated or repaired the write that put it there.
Justified(a, s) ==
    /\ s.epoch <= Latest(a)
    /\ s.epoch > 0 => s = SnapshotFor([agent |-> a, epoch |-> s.epoch])

ProjectionJustified == \A a \in Agents : Justified(a, redis[a])

\* What the caller was told is applied is applied, and while Redis keeps its
\* data the projection is at least as new (the runbook: "a successful response
\* means the runtime projection was acknowledged and the Agent durable state
\* was finalized").
ConfirmedStands ==
    \A a \in Agents :
        /\ confirmed[a] <= Latest(a)
        /\ \A e \in 1..confirmed[a] : transitions[a][e].status = "applied"
        /\ confirmed[a] > 0 => confirmed[a] <= redis[a].epoch

\* The Router denies while the projection is active and for every authorization
\* whose Agent version is at or below the revocation floor.
RouterAccepts(i) ==
    /\ redis[i.agent] # NoSnapshot
    /\ redis[i.agent].state = "inactive"
    /\ i.version > redis[i.agent].revoked

\* Once a stop issued after an authorization is confirmed, the authorization is
\* dead: neither a restore nor a repair of the projection brings it back.
AuthorizationsStayRevoked ==
    \A i \in issued : confirmed[i.agent] > i.epoch => ~RouterAccepts(i)

Answers(k) == check[k].stage # "answered" /\ check'[k].stage = "answered"

\* A gate call never says "inactive" on evidence older than the newest
\* transition committed before the call began, pending ones included; nor,
\* while Redis keeps its data, on evidence older than a stop whose caller
\* already has the confirmation, not even when it read PostgreSQL before that
\* stop was requested.
GateIsCurrent ==
    [][\A k \in Checks : Answers(k) =>
          LET seen == check[k].expected
          IN  /\ seen.epoch >= check[k].floor
              /\ seen.epoch >= confirmed[check[k].agent]
              /\ seen.epoch > 0 =>
                    /\ transitions[check[k].agent][seen.epoch].status = "applied"
                    /\ transitions[check[k].agent][seen.epoch].target = seen.state]_vars

\* A transition takes effect once: rows are only appended, and the only change
\* to a row is from pending to applied, in the commit that moves the Agent to
\* its target and to the next version.
AppliedOnce ==
    [][\A a \in Agents :
        /\ Latest(a)' >= Latest(a)
        /\ \A e \in 1..Latest(a) :
              \/ transitions'[a][e] = transitions[a][e]
              \/ /\ transitions[a][e].status = "pending"
                 /\ transitions'[a][e] = [transitions[a][e] EXCEPT !.status = "applied"]
                 /\ StateOf(agent'[a]) = transitions[a][e].target
                 /\ StateOf(agent[a]) # StateOf(agent'[a])
                 /\ agent'[a].version = agent[a].version + 1]_vars

\* The scheduling liveness needs: an administrator keeps calling reconcile,
\* Redis comes back, and neither crashes nor time-outs last for ever.
Fairness ==
    /\ WF_vars(RedisComesBack)
    /\ \A r \in Reconcilers :
          /\ WF_vars(ListPending(r))
          /\ WF_vars(WorkerStep(r))
          /\ SF_vars(\E j \in jobs[r] : Project(r, j))
          /\ SF_vars(\E j \in jobs[r] : Finalize(r, j) \/ FinalizeAgain(r, j))

FairSpec == Spec /\ Fairness

\* No request is left half done for ever: reconciliation finishes every pending
\* transition, whatever else the batch it travels in runs into.
PendingIsFinished == \A a \in Agents : Pending(a) ~> ~Pending(a)
=============================================================================
