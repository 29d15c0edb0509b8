----------------------- MODULE GovernedActuationProofs -----------------------
(***************************************************************************)
(* Proofs about RuntimeControl, for every set of agents, commands,         *)
(* reconcilers and gate calls, and about GovernedActuation, which extends  *)
(* it, for every set of recommendations, incidents and principals.         *)
(*                                                                         *)
(* The first part, on RuntimeControl, holds for every value of the bounds; *)
(* what Redis keeps showing is proved for MaxLosses = 0.  The second       *)
(* carries it over: every governed step is a step of RuntimeControl or     *)
(* leaves it alone.                                                        *)
(***************************************************************************)
EXTENDS GovernedActuation, RuntimeControlRefinement, SequenceTheorems, TLAPS

-----------------------------------------------------------------------------
(* I. The kill switch: RuntimeControl *)

\* A worker only holds transitions that exist.
JobsExist == \A w \in Workers : \A j \in jobs[w] : j.epoch \in 1..Latest(j.agent)

Typed == TypeOK /\ JobsExist

-----------------------------------------------------------------------------
(* How the two writes to the transitions table change it. *)

LEMMA StateOfType == ASSUME NEW row PROVE StateOf(row) \in States
BY DEF StateOf, States

LEMMA LatestType == ASSUME TypeOK, NEW a \in Agents PROVE Latest(a) \in Nat
BY LenProperties DEF TypeOK, Latest

LEMMA RowType ==
    ASSUME TypeOK, NEW a \in Agents, NEW e \in 1..Latest(a)
    PROVE  transitions[a][e] \in TransitionRow
BY ElementOfSeq DEF TypeOK, Latest

\* A request appends one pending row and leaves the others alone.
Appended(a, row) ==
    /\ transitions' \in [Agents -> Seq(TransitionRow)]
    /\ Latest(a)' = Latest(a) + 1
    /\ transitions'[a][Latest(a) + 1] = row
    /\ \A e \in 1..Latest(a) : transitions'[a][e] = transitions[a][e]
    /\ \A b \in Agents \ {a} : transitions'[b] = transitions[b]

LEMMA AppendRow ==
    ASSUME TypeOK, NEW a \in Agents, NEW row \in TransitionRow,
           transitions' = [transitions EXCEPT ![a] = Append(@, row)]
    PROVE  Appended(a, row)
<1>1. transitions[a] \in Seq(TransitionRow)
  BY DEF TypeOK
<1>2. transitions'[a] = Append(transitions[a], row)
  BY DEF TypeOK
<1>3. \A b \in Agents \ {a} : transitions'[b] = transitions[b]
  BY DEF TypeOK
<1>4. /\ Append(transitions[a], row) \in Seq(TransitionRow)
      /\ Len(Append(transitions[a], row)) = Len(transitions[a]) + 1
      /\ \A e \in 1..Len(transitions[a]) :
            Append(transitions[a], row)[e] = transitions[a][e]
      /\ Append(transitions[a], row)[Len(transitions[a]) + 1] = row
  BY <1>1, AppendProperties
<1>5. transitions' \in [Agents -> Seq(TransitionRow)]
  BY <1>4 DEF TypeOK
<1> QED
  BY <1>2, <1>3, <1>4, <1>5 DEF Appended, Latest

\* A finalization marks one row applied and leaves the others alone.
MarkedApplied(a, e) ==
    /\ transitions' \in [Agents -> Seq(TransitionRow)]
    /\ \A b \in Agents : Latest(b)' = Latest(b)
    /\ transitions'[a][e] = [transitions[a][e] EXCEPT !.status = "applied"]
    /\ \A d \in 1..Latest(a) : d # e => transitions'[a][d] = transitions[a][d]
    /\ \A b \in Agents \ {a} : transitions'[b] = transitions[b]

LEMMA ApplyRow ==
    ASSUME TypeOK, NEW a \in Agents, NEW e \in 1..Latest(a),
           transitions' = [transitions EXCEPT ![a][e].status = "applied"]
    PROVE  MarkedApplied(a, e)
<1> DEFINE row == [transitions[a][e] EXCEPT !.status = "applied"]
<1>1. /\ transitions[a] \in Seq(TransitionRow)
      /\ row \in TransitionRow
  BY RowType DEF TypeOK, TransitionRow, Statuses
<1>2. transitions'[a] = [transitions[a] EXCEPT ![e] = row]
  BY DEF TypeOK
<1>3. \A b \in Agents \ {a} : transitions'[b] = transitions[b]
  BY DEF TypeOK
<1>4. /\ [transitions[a] EXCEPT ![e] = row] \in Seq(TransitionRow)
      /\ Len([transitions[a] EXCEPT ![e] = row]) = Len(transitions[a])
      /\ \A d \in 1..Len(transitions[a]) :
            [transitions[a] EXCEPT ![e] = row][d] = IF d = e THEN row ELSE transitions[a][d]
  BY <1>1, ExceptSeq DEF Latest
<1>5. transitions' \in [Agents -> Seq(TransitionRow)]
  BY <1>2, <1>4 DEF TypeOK
<1> QED
  BY <1>2, <1>3, <1>4, <1>5 DEF MarkedApplied, Latest

-----------------------------------------------------------------------------
(* Typing. *)

LEMMA SnapshotForType ==
    ASSUME TypeOK, NEW a \in Agents, NEW e \in 1..Latest(a)
    PROVE  SnapshotFor([agent |-> a, epoch |-> e]) \in Snapshot
BY RowType, LatestType DEF SnapshotFor, Row, Snapshot, TransitionRow

LEMMA DurableSnapshotType ==
    ASSUME TypeOK, NEW a \in Agents, NEW row \in [engaged: BOOLEAN, version: Nat]
    PROVE  DurableSnapshot(a, row) \in Snapshot
<1>1. CASE Latest(a) = 0
  BY <1>1, StateOfType DEF DurableSnapshot, Snapshot
<1>2. CASE Latest(a) # 0
  <2>1. Latest(a) \in 1..Latest(a)
    BY <1>2, LatestType
  <2>2. transitions[a][Latest(a)].revoked \in Nat
    BY <2>1, RowType DEF TransitionRow
  <2> QED
    BY <1>2, <2>2, StateOfType, LatestType DEF DurableSnapshot, Snapshot
<1> QED
  BY <1>1, <1>2

LEMMA CompareAndSetType ==
    ASSUME TypeOK, NEW a \in Agents, NEW s \in Snapshot, CompareAndSet(a, s)
    PROVE  redis' \in [Agents -> Snapshot \cup {NoSnapshot}]
BY DEF TypeOK, CompareAndSet

LEMMA ChangeTyped ==
    ASSUME Typed, NEW c \in Commands, NEW a \in Agents, NEW target \in States,
           Change(c, a, target)
    PROVE  Typed'
<1> DEFINE row == [previous |-> StateOf(agent[a]), target |-> target, status |-> "pending",
                   revoked |-> RevokedThrough(a), at |-> clock]
<1> USE DEF Typed
<1>1. row \in TransitionRow
  BY StateOfType DEF TypeOK, AgentRow, TransitionRow, Statuses, RevokedThrough
<1>2. transitions' = [transitions EXCEPT ![a] = Append(@, row)]
  BY DEF Change
<1>3. Appended(a, row)
  BY <1>1, <1>2, AppendRow
<1> HIDE DEF row
<1>4. c \in Workers /\ Latest(a) + 1 \in Nat
  BY LatestType DEF Workers
<1>5. TypeOK'
  BY <1>3, <1>4 DEF Change, Appended, TypeOK, broker, gate, Job
<1>6. JobsExist'
  <2> SUFFICES ASSUME NEW w \in Workers, NEW j \in jobs'[w]
               PROVE  j.epoch \in 1..Latest(j.agent)'
    BY DEF JobsExist
  <2>1. CASE w = c
    <3>1. j = [agent |-> a, epoch |-> Latest(a) + 1]
      BY <2>1, <1>4 DEF Change, TypeOK
    <3> QED
      BY <3>1, <1>3, LatestType DEF Appended
  <2>2. CASE w # c
    <3>1. j \in jobs[w] /\ j.agent \in Agents
      BY <2>2, <1>4 DEF Change, TypeOK, Job
    <3>2. Latest(j.agent)' >= Latest(j.agent)
      BY <3>1, <1>3, LatestType DEF Appended, Latest
    <3> QED
      BY <3>1, <3>2, <1>5, LatestType DEF JobsExist, Latest
  <2> QED
    BY <2>1, <2>2
<1> QED
  BY <1>5, <1>6

LEMMA ListPendingTyped ==
    ASSUME Typed, NEW r \in Reconcilers, ListPending(r)
    PROVE  Typed'
<1> USE DEF Typed
<1>1. PICK batch \in SUBSET PendingJobs : jobs' = [jobs EXCEPT ![r] = batch]
  BY DEF ListPending
<1>2. \A j \in PendingJobs : j \in Job /\ j.epoch \in 1..Latest(j.agent)
  BY BoundsAssumption, LatestType DEF PendingJobs, Job, Pending
<1>3. r \in Workers
  BY DEF Workers
<1>4. TypeOK'
  BY <1>1, <1>2, <1>3 DEF ListPending, TypeOK, durable, broker, gate
<1>5. JobsExist'
  BY <1>1, <1>2, <1>3 DEF ListPending, TypeOK, JobsExist, durable, Latest
<1> QED
  BY <1>4, <1>5

LEMMA ProjectTyped ==
    ASSUME Typed, NEW w \in Workers, NEW j \in jobs[w], Project(w, j)
    PROVE  Typed'
<1> USE DEF Typed
<1>1. j.agent \in Agents /\ j.epoch \in 1..Latest(j.agent) /\ j = [agent |-> j.agent, epoch |-> j.epoch]
  BY DEF TypeOK, JobsExist, Job
<1>2. SnapshotFor(j) \in Snapshot
  BY <1>1, SnapshotForType
<1>3. redis' \in [Agents -> Snapshot \cup {NoSnapshot}]
  BY <1>1, <1>2, CompareAndSetType DEF Project, ProjectAcknowledged
<1>4. TypeOK'
  BY <1>3 DEF Project, ProjectAcknowledged, TypeOK, durable, gate
<1>5. JobsExist'
  BY DEF Project, JobsExist, durable, Latest
<1> QED
  BY <1>4, <1>5

LEMMA GiveUpTyped ==
    ASSUME Typed, NEW w \in Workers, GiveUp(w),
           UNCHANGED <<redis, redisUp, losses, outages>>,
           wire' \in SUBSET [agent: Agents, snapshot: Snapshot]
    PROVE  Typed'
<1>1. TypeOK'
  BY DEF Typed, GiveUp, TypeOK, durable, gate
<1>2. JobsExist'
  BY DEF Typed, GiveUp, TypeOK, JobsExist, durable, Latest
<1> QED
  BY <1>1, <1>2 DEF Typed

LEMMA ProjectFailsTyped ==
    ASSUME Typed, NEW w \in Workers, NEW j \in jobs[w], ProjectFails(w, j)
    PROVE  Typed'
<1>1. j.agent \in Agents /\ j.epoch \in 1..Latest(j.agent) /\ j = [agent |-> j.agent, epoch |-> j.epoch]
  BY DEF Typed, TypeOK, JobsExist, Job
<1>2. SnapshotFor(j) \in Snapshot
  BY <1>1, SnapshotForType DEF Typed
<1>3. wire' \in SUBSET [agent: Agents, snapshot: Snapshot]
  BY <1>1, <1>2 DEF ProjectFails, ProjectRefused, ProjectTimesOut, broker, Typed, TypeOK
<1>4. UNCHANGED <<redis, redisUp, losses, outages>> /\ GiveUp(w)
  BY DEF ProjectFails, ProjectRefused, ProjectTimesOut, broker
<1> QED
  BY <1>3, <1>4, GiveUpTyped

LEMMA CrashTyped ==
    ASSUME Typed, NEW w \in Workers, Crash(w)
    PROVE  Typed'
BY GiveUpTyped DEF Crash, broker, Typed, TypeOK

LEMMA FinalizeAgainTyped ==
    ASSUME Typed, NEW w \in Workers, NEW j \in jobs[w], FinalizeAgain(w, j)
    PROVE  Typed'
<1>1. j.agent \in Agents /\ j.epoch \in Nat
  BY DEF Typed, TypeOK, Job
<1>2. TypeOK'
  BY <1>1 DEF Typed, FinalizeAgain, Succeed, TypeOK, durable, broker, gate
<1>3. JobsExist'
  BY DEF Typed, FinalizeAgain, Succeed, TypeOK, JobsExist, durable, Latest
<1> QED
  BY <1>2, <1>3 DEF Typed

LEMMA EngagedAfterType == ASSUME NEW j PROVE EngagedAfter(j) \in BOOLEAN
BY DEF EngagedAfter

LEMMA SwitchedType ==
    ASSUME NEW row \in AgentRow, NEW engaged \in BOOLEAN
    PROVE  Switched(row, engaged) \in AgentRow
BY DEF Switched, AgentRow

LEMMA EditedType ==
    ASSUME NEW row \in AgentRow, NEW read \in Nat, NEW enabled \in BOOLEAN
    PROVE  Edited(row, read, enabled) \in AgentRow
BY DEF Edited, AgentRow

LEMMA FinalizeTyped ==
    ASSUME Typed, NEW w \in Workers, NEW j \in jobs[w], Finalize(w, j)
    PROVE  Typed'
<1> USE DEF Typed
<1>1. j.agent \in Agents /\ j.epoch \in 1..Latest(j.agent) /\ j.epoch \in Nat
  BY DEF TypeOK, JobsExist, Job
<1>2. CASE StateOf(agent[j.agent]) = Row(j).previous
  <2>0. Apply(w, j) /\ UNCHANGED broker
    BY <1>2 DEF Finalize
  <2>1. MarkedApplied(j.agent, j.epoch)
    BY <1>1, <2>0, ApplyRow DEF Apply
  <2>2. agent' \in [Agents -> AgentRow]
    BY <1>1, <2>0, SwitchedType, EngagedAfterType DEF Apply, TypeOK
  <2>3. TypeOK'
    BY <1>1, <2>0, <2>1, <2>2 DEF Apply, Succeed, MarkedApplied, TypeOK, broker, gate
  <2>4. JobsExist'
    BY <1>1, <2>0, <2>1 DEF Apply, Succeed, MarkedApplied, TypeOK, JobsExist, Job
  <2> QED
    BY <2>3, <2>4
<1>3. CASE StateOf(agent[j.agent]) # Row(j).previous
  BY <1>3, GiveUpTyped DEF Finalize, broker, TypeOK
<1> QED
  BY <1>2, <1>3

LEMMA InventoryTyped ==
    ASSUME Typed, InventoryStep
    PROVE  Typed'
<1> USE DEF Typed
<1>1. PICK a \in Agents : \/ BeginEdit(a) \/ RollBackEdit(a)
                          \/ \E enabled \in BOOLEAN : CommitEdit(a, enabled)
  BY DEF InventoryStep
<1>2. UNCHANGED <<transitions, clock, broker, workers, gate>>
  BY <1>1 DEF BeginEdit, RollBackEdit, CommitEdit, durable
<1>3. agent' \in [Agents -> AgentRow] /\ edit' \in [Agents -> Nat \cup {NoEdit}]
  <2>1. CASE BeginEdit(a)
    BY <2>1 DEF BeginEdit, durable, TypeOK, AgentRow
  <2>2. CASE RollBackEdit(a)
    BY <2>2 DEF RollBackEdit, durable, TypeOK
  <2>3. CASE \E enabled \in BOOLEAN : CommitEdit(a, enabled)
    <3>1. PICK enabled \in BOOLEAN : CommitEdit(a, enabled)
      BY <2>3
    <3>2. edit[a] \in Nat
      BY <3>1 DEF CommitEdit, TypeOK
    <3> QED
      BY <3>1, <3>2, EditedType DEF CommitEdit, TypeOK
  <2> QED
    BY <1>1, <2>1, <2>2, <2>3
<1>4. TypeOK'
  BY <1>2, <1>3 DEF TypeOK, broker, workers, gate
<1>5. JobsExist'
  BY <1>2 DEF JobsExist, workers, Latest
<1> QED
  BY <1>4, <1>5

LEMMA IdleCheckType == IdleCheck \in CheckRecord
BY AgentsAssumption DEF IdleCheck, CheckRecord, CheckFields

\* What the steps of a gate call leave alone.
GateFrame ==
    /\ UNCHANGED <<durable, redisUp, losses, outages, workers, edit>>
    /\ redis' \in [Agents -> Snapshot \cup {NoSnapshot}]
    /\ wire' \in SUBSET [agent: Agents, snapshot: Snapshot]

LEMMA GateFrameTyped ==
    ASSUME Typed, GateFrame, check' \in [Checks -> CheckRecord],
           issued' \in SUBSET Authorization
    PROVE  Typed'
<1>1. TypeOK'
  BY DEF Typed, GateFrame, TypeOK, durable, workers
<1>2. JobsExist'
  BY DEF Typed, GateFrame, JobsExist, durable, workers, Latest
<1> QED
  BY <1>1, <1>2 DEF Typed

LEMMA ReadScopeTyped ==
    ASSUME Typed, NEW k \in Checks, NEW a \in Agents, ReadScope(k, a)
    PROVE  Typed'
<1> DEFINE c == [IdleCheck EXCEPT
        !.stage = "scope", !.agent = a, !.scope = agent[a].version, !.floor = Latest(a)]
<1>1. agent[a].version \in Nat /\ Latest(a) \in Nat
  BY LatestType DEF Typed, TypeOK, AgentRow
<1>2. c \in CheckRecord
  BY <1>1 DEF IdleCheck, CheckRecord, CheckFields
<1>3. check' = [check EXCEPT ![k] = c]
  BY DEF ReadScope
<1> HIDE DEF c
<1>4. check' \in [Checks -> CheckRecord]
  BY <1>2, <1>3 DEF Typed, TypeOK
<1> QED
  BY <1>4, GateFrameTyped DEF ReadScope, GateFrame, broker, Typed, TypeOK

LEMMA CheckTyped ==
    ASSUME TypeOK, NEW k \in Checks, NEW c \in CheckRecord, check' = [check EXCEPT ![k] = c]
    PROVE  check' \in [Checks -> CheckRecord]
BY DEF TypeOK

LEMMA CheckRecords ==
    ASSUME NEW c \in CheckRecord
    PROVE  /\ c.stage \in {"idle", "scope", "agent"} =>
                \A row \in [engaged: BOOLEAN, version: Nat] :
                    [c EXCEPT !.stage = "agent", !.row = row] \in CheckRecord
           /\ \A s \in Snapshot : [c EXCEPT !.stage = "read", !.expected = s] \in CheckRecord
           /\ c.stage \in {"read", "repair", "reread", "answered"} =>
                \A stage \in {"read", "repair", "reread", "answered"} :
                    [c EXCEPT !.stage = stage] \in CheckRecord
BY DEF CheckRecord, CheckFields

\* By its stage, what a gate call has read so far.
LEMMA GateStepTyped ==
    ASSUME Typed, NEW k \in Checks, GateStep(k)
    PROVE  Typed'
<1> DEFINE a == check[k].agent
<1> USE DEF Typed
<1>0. a \in Agents /\ check[k] \in CheckRecord
  BY DEF TypeOK, CheckRecord, CheckFields
<1>1. CASE GateReadsAgent(k)
  <2>1. check' \in [Checks -> CheckRecord]
    <3>1. [engaged |-> agent[a].engaged, version |-> agent[a].version]
            \in [engaged: BOOLEAN, version: Nat]
      BY <1>0 DEF TypeOK, AgentRow
    <3> QED
      BY <1>0, <1>1, <3>1, CheckRecords, CheckTyped DEF GateReadsAgent
  <2> QED
    BY <1>1, <2>1, GateFrameTyped DEF GateReadsAgent, GateFrame, broker, TypeOK
<1>2. CASE GateReadsLatest(k)
  <2>1. DurableSnapshot(a, check[k].row) \in Snapshot
    BY <1>0, DurableSnapshotType DEF CheckRecord, CheckFields
  <2>2. check' \in [Checks -> CheckRecord]
    BY <1>0, <1>2, <2>1, IdleCheckType, CheckRecords, CheckTyped
    DEF GateReadsLatest, Unavailable
  <2> QED
    BY <1>2, <2>2, GateFrameTyped DEF GateReadsLatest, GateFrame, broker, TypeOK
<1>3. CASE GateObserves(k)
  <2>0. check[k].scope \in Nat /\ check[k].expected \in Snapshot
    BY <1>0, <1>3 DEF GateObserves, CheckRecord, CheckFields
  <2>1. check' \in [Checks -> CheckRecord]
    BY <1>0, <1>3, IdleCheckType, CheckRecords, CheckTyped
    DEF GateObserves, Unavailable, Answer
  <2>2. issued' \in SUBSET Authorization
    BY <1>0, <1>3, <2>0 DEF GateObserves, Unavailable, Answer, TypeOK, Authorization, Snapshot
  <2> QED
    BY <1>3, <2>1, <2>2, GateFrameTyped DEF GateObserves, GateFrame, broker, TypeOK
<1>4. CASE GateRepairs(k) \/ GateCannotRepair(k)
  <2>0. check[k].expected \in Snapshot
    BY <1>0, <1>4 DEF GateRepairs, GateCannotRepair, CheckRecord, CheckFields
  <2>1. check' \in [Checks -> CheckRecord]
    BY <1>0, <1>4, IdleCheckType, CheckRecords, CheckTyped
    DEF GateRepairs, GateCannotRepair, Unavailable
  <2>2. GateFrame /\ issued' = issued
    BY <1>0, <1>4, <2>0, CompareAndSetType
    DEF GateRepairs, GateCannotRepair, ProjectAcknowledged, ProjectRefused, ProjectTimesOut,
        GateFrame, broker, TypeOK
  <2> QED
    BY <2>1, <2>2, GateFrameTyped DEF TypeOK
<1>5. CASE CheckReturns(k)
  <2>1. check' \in [Checks -> CheckRecord]
    BY <1>5, IdleCheckType DEF CheckReturns, TypeOK
  <2> QED
    BY <1>5, <2>1, GateFrameTyped DEF CheckReturns, GateFrame, broker, TypeOK
<1> QED
  BY <1>1, <1>2, <1>3, <1>4, <1>5 DEF GateStep

LEMMA RedisTyped ==
    ASSUME Typed, RedisStep
    PROVE  Typed'
<1> USE DEF Typed
<1>1. UNCHANGED <<durable, workers, edit, gate>>
  BY DEF RedisStep, RedisGoesDown, RedisComesBack, RedisForgets, Deliver, LoseMessage
<1>2. /\ redisUp' \in BOOLEAN
      /\ losses' \in Nat
      /\ outages' \in Nat
      /\ wire' \in SUBSET [agent: Agents, snapshot: Snapshot]
  <2>1. wire' \subseteq wire
    BY DEF RedisStep, RedisGoesDown, RedisComesBack, RedisForgets, Deliver, LoseMessage
  <2>2. CASE RedisGoesDown \/ RedisComesBack
    <3>1. redisUp' \in BOOLEAN
      BY <2>2, Zenon DEF RedisGoesDown, RedisComesBack
    <3> QED
      BY <2>1, <2>2, <3>1 DEF RedisGoesDown, RedisComesBack, TypeOK
  <2>3. CASE ~(RedisGoesDown \/ RedisComesBack)
    BY <2>1, <2>3 DEF RedisStep, RedisForgets, Deliver, LoseMessage, TypeOK
  <2> QED
    BY <2>2, <2>3
<1>3. redis' \in [Agents -> Snapshot \cup {NoSnapshot}]
  <2>1. CASE \E m \in wire : Deliver(m)
    BY <2>1, CompareAndSetType DEF Deliver, TypeOK
  <2>2. CASE \E b \in Agents : RedisForgets(b)
    BY <2>2 DEF RedisForgets, TypeOK
  <2>3. CASE RedisGoesDown \/ RedisComesBack \/ \E m \in wire : LoseMessage(m)
    BY <2>3 DEF RedisGoesDown, RedisComesBack, LoseMessage, TypeOK
  <2> QED
    BY <2>1, <2>2, <2>3 DEF RedisStep
<1>4. TypeOK'
  BY <1>1, <1>2, <1>3 DEF TypeOK, durable, workers, gate
<1>5. JobsExist'
  BY <1>1 DEF JobsExist, durable, workers, Latest
<1> QED
  BY <1>4, <1>5

LEMMA InitTyped == Init => Typed
<1> SUFFICES ASSUME Init PROVE Typed
  OBVIOUS
<1>1. agent \in [Agents -> AgentRow]
  BY DEF Init, AgentRow
<1>2. TypeOK
  BY <1>1, IdleCheckType, EmptySeq DEF Init, TypeOK
<1>3. JobsExist
  BY DEF Init, JobsExist
<1> QED
  BY <1>2, <1>3 DEF Typed

LEMMA NextTyped ==
    ASSUME Typed, [Next]_vars
    PROVE  Typed'
<1>1. CASE \E c \in Commands, a \in Agents, target \in States : Change(c, a, target)
  BY <1>1, ChangeTyped
<1>2. CASE \E r \in Reconcilers : ListPending(r)
  BY <1>2, ListPendingTyped
<1>3. CASE \E w \in Workers : WorkerStep(w) \/ Crash(w)
  BY <1>3, ProjectTyped, ProjectFailsTyped, CrashTyped, FinalizeAgainTyped, FinalizeTyped
  DEF WorkerStep
<1>4. CASE \E k \in Checks : GateStep(k) \/ \E a \in Agents : ReadScope(k, a)
  BY <1>4, GateStepTyped, ReadScopeTyped
<1>5. CASE InventoryStep
  BY <1>5, InventoryTyped
<1>6. CASE RedisStep
  BY <1>6, RedisTyped
<1>7. CASE UNCHANGED vars
  BY <1>7 DEF vars, durable, broker, workers, gate, Typed, TypeOK, JobsExist, Latest
<1> QED
  BY <1>1, <1>2, <1>3, <1>4, <1>5, <1>6, <1>7 DEF Next

\* Every variable stays in its domain, and workers only ever hold transitions
\* that were committed.
THEOREM TypeCorrect == Spec => []TypeOK
<1>1. Typed /\ [Next]_vars => Typed'
  BY NextTyped
<1>2. Typed => TypeOK
  BY DEF Typed
<1> QED
  BY InitTyped, <1>1, <1>2, PTL DEF Spec

-----------------------------------------------------------------------------
(* The history of transitions. *)

Recorded == Typed /\ DurableEvidence

LEMMA RecordedByOthers ==
    ASSUME Typed, DurableEvidence, UNCHANGED transitions,
           \A a \in Agents : agent'[a].engaged = agent[a].engaged
    PROVE  DurableEvidence'
BY DEF DurableEvidence, Latest, Pending, StateOf

LEMMA ChangeRecorded ==
    ASSUME Recorded, NEW c \in Commands, NEW a \in Agents, NEW target \in States,
           Change(c, a, target)
    PROVE  DurableEvidence'
<1> DEFINE row == [previous |-> StateOf(agent[a]), target |-> target, status |-> "pending",
                   revoked |-> RevokedThrough(a), at |-> clock]
<1> USE DEF Recorded, Typed
<1>1. row \in TransitionRow
  BY StateOfType DEF TypeOK, AgentRow, TransitionRow, Statuses, RevokedThrough
<1>2. Appended(a, row)
  BY <1>1, AppendRow DEF Change
<1>3. UNCHANGED agent
  BY DEF Change
<1>4. row.status = "pending" /\ row.target # row.previous /\ row.previous = StateOf(agent[a])
  BY DEF Change, ValidTransition
<1> HIDE DEF row
<1> SUFFICES ASSUME NEW b \in Agents
             PROVE  /\ \A e \in 1..Latest(b)' :
                          /\ transitions'[b][e].target # transitions'[b][e].previous
                          /\ e > 1 => /\ transitions'[b][e].previous = transitions'[b][e - 1].target
                                      /\ transitions'[b][e - 1].status = "applied"
                    /\ Latest(b)' > 0 =>
                          StateOf(agent'[b]) = IF Pending(b)'
                                               THEN transitions'[b][Latest(b)'].previous
                                               ELSE transitions'[b][Latest(b)'].target
  BY DEF DurableEvidence
<1>5. CASE b # a
  BY <1>2, <1>3, <1>5 DEF Appended, DurableEvidence, Latest, Pending
<1>6. CASE b = a
  <2> DEFINE n == Latest(a)
  <2>0. n \in Nat /\ Latest(a)' = n + 1
    BY <1>2, LatestType DEF Appended
  <2>1. n > 0 => transitions[a][n].status = "applied" /\ transitions[a][n].target = row.previous
    <3>1. SUFFICES ASSUME n > 0 PROVE transitions[a][n].status = "applied"
                                      /\ transitions[a][n].target = row.previous
      OBVIOUS
    <3>2. ~Pending(a)
      BY DEF Change
    <3>3. transitions[a][n].status \in Statuses
      BY <3>1, <2>0, RowType DEF TransitionRow
    <3> QED
      BY <3>1, <3>2, <3>3, <1>4 DEF Pending, Statuses, DurableEvidence
  <2>2. \A e \in 1..n : /\ transitions'[a][e].target # transitions'[a][e].previous
                        /\ e > 1 => /\ transitions'[a][e].previous = transitions'[a][e - 1].target
                                    /\ transitions'[a][e - 1].status = "applied"
    <3>1. ASSUME NEW e \in 1..n
          PROVE  transitions'[a][e] = transitions[a][e]
                 /\ (e > 1 => transitions'[a][e - 1] = transitions[a][e - 1])
      BY <1>2, <2>0 DEF Appended
    <3> QED
      BY <3>1 DEF DurableEvidence
  <2>3. transitions'[a][n + 1] = row /\ (n > 0 => transitions'[a][n] = transitions[a][n])
    BY <1>2, <2>0 DEF Appended
  <2>4. /\ transitions'[a][n + 1].target # transitions'[a][n + 1].previous
        /\ n + 1 > 1 => /\ transitions'[a][n + 1].previous = transitions'[a][n + 1 - 1].target
                        /\ transitions'[a][n + 1 - 1].status = "applied"
    BY <1>4, <2>0, <2>1, <2>3
  <2>5. StateOf(agent'[a]) = transitions'[a][n + 1].previous /\ Pending(a)'
    BY <1>3, <1>4, <2>0, <2>3 DEF Pending, StateOf
  <2> HIDE DEF n
  <2> QED
    BY <1>6, <2>0, <2>2, <2>4, <2>5
<1> QED
  BY <1>5, <1>6

\* Only the newest transition can be pending.
LEMMA PendingIsLatest ==
    ASSUME Recorded, NEW a \in Agents, NEW e \in 1..Latest(a),
           transitions[a][e].status = "pending"
    PROVE  e = Latest(a) /\ Pending(a)
<1>1. Latest(a) \in Nat
  BY LatestType DEF Recorded, Typed
<1>2. e = Latest(a)
  <2>1. SUFFICES ASSUME e < Latest(a) PROVE FALSE
    BY <1>1
  <2>2. e + 1 \in 1..Latest(a) /\ e + 1 > 1 /\ (e + 1) - 1 = e
    BY <1>1, <2>1
  <2> QED
    BY <2>2 DEF Recorded, DurableEvidence
<1> QED
  BY <1>1, <1>2 DEF Pending

LEMMA FinalizeRecorded ==
    ASSUME Recorded, NEW w \in Workers, NEW j \in jobs[w], Finalize(w, j)
    PROVE  DurableEvidence'
<1> DEFINE a == j.agent
           n == j.epoch
<1> USE DEF Recorded, Typed
<1>1. a \in Agents /\ n \in 1..Latest(a) /\ Latest(a) \in Nat
  BY LatestType DEF TypeOK, JobsExist, Job
<1>2. n = Latest(a) /\ Pending(a)
  BY <1>1, PendingIsLatest DEF Finalize, Row
<1>3. CASE StateOf(agent[a]) # Row(j).previous
  BY <1>3, RecordedByOthers DEF Finalize, GiveUp, durable
<1>4. CASE StateOf(agent[a]) = Row(j).previous
  <2>1. Apply(w, j)
    BY <1>4 DEF Finalize
  <2>2. MarkedApplied(a, n)
    BY <1>1, <2>1, ApplyRow DEF Apply
  <2>3. /\ transitions[a][n] \in TransitionRow
        /\ transitions'[a][n].target = transitions[a][n].target
        /\ transitions'[a][n].previous = transitions[a][n].previous
        /\ transitions'[a][n].status = "applied"
    BY <1>1, <2>2, RowType DEF MarkedApplied, TransitionRow
  <2>4. StateOf(agent'[a]) = transitions[a][n].target
    <3>1. agent'[a].engaged = EngagedAfter(j)
      BY <1>1, <2>1 DEF Apply, TypeOK, Switched
    <3> QED
      BY <3>1, <2>3 DEF StateOf, EngagedAfter, Row, TransitionRow, States
  <2>5. \A b \in Agents \ {a} : agent'[b] = agent[b]
    BY <1>1, <2>1 DEF Apply, TypeOK
  <2> HIDE DEF a, n
  <2>6. ASSUME NEW b \in Agents, b # a
        PROVE  /\ transitions'[b] = transitions[b] /\ Latest(b)' = Latest(b)
               /\ Pending(b)' = Pending(b) /\ agent'[b] = agent[b]
    BY <2>2, <2>5, <2>6 DEF MarkedApplied, Pending
  <2>7. /\ Latest(a)' = Latest(a)
        /\ ~Pending(a)'
        /\ \A e \in 1..Latest(a) :
              /\ transitions'[a][e].target = transitions[a][e].target
              /\ transitions'[a][e].previous = transitions[a][e].previous
              /\ transitions[a][e].status = "applied" => transitions'[a][e].status = "applied"
    BY <1>1, <1>2, <2>2, <2>3 DEF MarkedApplied, Pending
  <2>8. ASSUME NEW e \in 1..Latest(a)
        PROVE  /\ transitions'[a][e].target # transitions'[a][e].previous
               /\ e > 1 => /\ transitions'[a][e].previous = transitions'[a][e - 1].target
                           /\ transitions'[a][e - 1].status = "applied"
    <3>1. e > 1 => e - 1 \in 1..Latest(a)
      BY <1>1
    <3> QED
      BY <1>1, <2>7, <3>1 DEF DurableEvidence
  <2>9. StateOf(agent'[a]) = transitions'[a][Latest(a)'].target
    BY <1>2, <2>3, <2>4, <2>7
  <2> QED
    BY <1>1, <2>6, <2>7, <2>8, <2>9 DEF DurableEvidence
<1> QED
  BY <1>3, <1>4

LEMMA NextRecorded ==
    ASSUME Recorded, [Next]_vars
    PROVE  Recorded'
<1> USE DEF Recorded
<1>0. Typed'
  BY NextTyped
<1>1. CASE \E c \in Commands, a \in Agents, target \in States : Change(c, a, target)
  BY <1>0, <1>1, ChangeRecorded
<1>2. CASE \E w \in Workers : \E j \in jobs[w] : Finalize(w, j)
  BY <1>0, <1>2, FinalizeRecorded
<1>3. CASE InventoryStep
  <2>1. UNCHANGED transitions
    BY <1>3 DEF InventoryStep, BeginEdit, RollBackEdit, CommitEdit, durable
  <2>2. \A a \in Agents : agent'[a].engaged = agent[a].engaged
    BY <1>3 DEF InventoryStep, BeginEdit, RollBackEdit, CommitEdit, durable, Edited, Typed, TypeOK
  <2> QED
    BY <1>0, <2>1, <2>2, RecordedByOthers
<1>4. CASE /\ ~InventoryStep
           /\ ~\E c \in Commands, a \in Agents, target \in States : Change(c, a, target)
           /\ ~\E w \in Workers : \E j \in jobs[w] : Finalize(w, j)
  <2>1. UNCHANGED durable
    BY <1>4 DEF Next, vars, WorkerStep, ListPending, Project, ProjectFails, Crash, GiveUp,
       FinalizeAgain, GateStep, ReadScope, GateReadsAgent, GateReadsLatest, GateObserves,
       GateRepairs, GateCannotRepair, CheckReturns, RedisStep, RedisGoesDown, RedisComesBack,
       RedisForgets, Deliver, LoseMessage
  <2> QED
    BY <1>0, <2>1, RecordedByOthers DEF durable
<1> QED
  BY <1>1, <1>2, <1>3, <1>4

LEMMA InitRecorded == Init => Recorded
<1>1. Init => DurableEvidence
  BY DEF Init, DurableEvidence, Latest
<1> QED
  BY <1>1, InitTyped DEF Recorded

\* However commands, reconcilers, crashes and inventory edits interleave, the
\* transitions of an agent form one alternating history whose end is the
\* kill_switch_engaged column, and only the newest can be pending.
THEOREM DurableEvidenceHolds == Spec => []DurableEvidence
<1>1. Recorded /\ [Next]_vars => Recorded'
  BY NextRecorded
<1>2. Recorded => DurableEvidence
  BY DEF Recorded
<1> QED
  BY InitRecorded, <1>1, <1>2, PTL DEF Spec

-----------------------------------------------------------------------------
(* What a step may do to the history. *)

AppliedOnceStep(a) ==
    /\ Latest(a)' >= Latest(a)
    /\ \A e \in 1..Latest(a) :
          \/ transitions'[a][e] = transitions[a][e]
          \/ /\ transitions[a][e].status = "pending"
             /\ transitions'[a][e] = [transitions[a][e] EXCEPT !.status = "applied"]
             /\ StateOf(agent'[a]) = transitions[a][e].target
             /\ StateOf(agent[a]) # StateOf(agent'[a])
             /\ agent'[a].version = agent[a].version + 1

LEMMA FinalizeAppliesOnce ==
    ASSUME Recorded, NEW w \in Workers, NEW j \in jobs[w], Finalize(w, j), NEW a \in Agents
    PROVE  AppliedOnceStep(a)
<1> USE DEF Recorded, Typed
<1>1. j.agent \in Agents /\ j.epoch \in 1..Latest(j.agent) /\ Latest(a) \in Nat
  BY LatestType DEF TypeOK, JobsExist, Job
<1>2. CASE StateOf(agent[j.agent]) # Row(j).previous
  BY <1>1, <1>2 DEF Finalize, GiveUp, durable, AppliedOnceStep, Latest
<1>3. CASE StateOf(agent[j.agent]) = Row(j).previous
  <2>1. Apply(w, j) /\ Row(j).status = "pending"
    BY <1>3 DEF Finalize
  <2>2. MarkedApplied(j.agent, j.epoch)
    BY <1>1, <2>1, ApplyRow DEF Apply
  <2>3. CASE a # j.agent
    BY <1>1, <2>2, <2>3 DEF MarkedApplied, AppliedOnceStep
  <2>4. CASE a = j.agent
    <3>1. agent'[a] = Switched(agent[a], EngagedAfter(j))
      BY <1>1, <2>1, <2>4 DEF Apply, TypeOK
    <3>2. agent'[a].engaged = EngagedAfter(j) /\ agent'[a].version = agent[a].version + 1
      BY <3>1 DEF Switched
    <3>3. Row(j) \in TransitionRow /\ Row(j).target # Row(j).previous
      BY <1>1, RowType DEF Row, DurableEvidence
    <3>4. StateOf(agent'[a]) = Row(j).target
      BY <3>2, <3>3 DEF StateOf, EngagedAfter, TransitionRow, States
    <3>5. StateOf(agent[a]) # StateOf(agent'[a])
      BY <1>3, <2>4, <3>3, <3>4
    <3>6. Latest(a)' = Latest(a)
      BY <2>2 DEF MarkedApplied
    <3>7. \A e \in 1..Latest(a) : e # j.epoch => transitions'[a][e] = transitions[a][e]
      BY <2>2, <2>4 DEF MarkedApplied
    <3>8. /\ transitions[a][j.epoch].status = "pending"
          /\ transitions'[a][j.epoch] = [transitions[a][j.epoch] EXCEPT !.status = "applied"]
          /\ StateOf(agent'[a]) = transitions[a][j.epoch].target
      BY <2>1, <2>2, <2>4, <3>4 DEF MarkedApplied, Row
    <3> QED
      BY <1>1, <3>2, <3>5, <3>6, <3>7, <3>8 DEF AppliedOnceStep
  <2> QED
    BY <2>3, <2>4
<1> QED
  BY <1>2, <1>3

LEMMA NextAppliesOnce ==
    ASSUME Recorded, [Next]_vars, NEW a \in Agents
    PROVE  AppliedOnceStep(a)
<1>0. Latest(a) \in Nat
  BY LatestType DEF Recorded, Typed
<1>1. CASE \E c \in Commands, b \in Agents, target \in States : Change(c, b, target)
  <2>1. PICK c \in Commands, b \in Agents, target \in States : Change(c, b, target)
    BY <1>1
  <2> DEFINE row == [previous |-> StateOf(agent[b]), target |-> target, status |-> "pending",
                     revoked |-> RevokedThrough(b), at |-> clock]
  <2>2. row \in TransitionRow
    BY StateOfType DEF Recorded, Typed, TypeOK, AgentRow, TransitionRow, Statuses, RevokedThrough
  <2>3. transitions' = [transitions EXCEPT ![b] = Append(@, row)]
    BY <2>1 DEF Change
  <2>4. Appended(b, row)
    BY <2>2, <2>3, AppendRow DEF Recorded, Typed
  <2> QED
    BY <1>0, <2>4 DEF Appended, AppliedOnceStep, Latest
<1>2. CASE \E w \in Workers : \E j \in jobs[w] : Finalize(w, j)
  BY <1>2, FinalizeAppliesOnce
<1>3. CASE /\ ~\E c \in Commands, b \in Agents, target \in States : Change(c, b, target)
           /\ ~\E w \in Workers : \E j \in jobs[w] : Finalize(w, j)
  <2>1. UNCHANGED transitions
    BY <1>3 DEF Next, vars, durable, WorkerStep, ListPending, Project, ProjectFails, Crash,
       GiveUp, FinalizeAgain, GateStep, ReadScope, GateReadsAgent, GateReadsLatest,
       GateObserves, GateRepairs, GateCannotRepair, CheckReturns, InventoryStep, BeginEdit,
       RollBackEdit, CommitEdit, RedisStep, RedisGoesDown, RedisComesBack, RedisForgets,
       Deliver, LoseMessage
  <2> QED
    BY <1>0, <2>1 DEF AppliedOnceStep, Latest
<1> QED
  BY <1>1, <1>2, <1>3

\* No crash, retry or race of finalizers applies a transition twice, undoes one,
\* or moves an Agent without one: effect, evidence and version change together.
THEOREM AppliedOnceHolds == Spec => AppliedOnce
<1>1. Recorded /\ [Next]_vars => [\A a \in Agents : AppliedOnceStep(a)]_vars
  BY NextAppliesOnce
<1>2. Recorded /\ [Next]_vars => Recorded'
  BY NextRecorded
<1> QED
  BY InitRecorded, <1>1, <1>2, PTL DEF Spec, AppliedOnce, AppliedOnceStep

-----------------------------------------------------------------------------
(* The projection. *)

\* Every snapshot that is in Redis, on its way there, or expected by a gate call
\* was asked for by a committed transition.
JustifiedEverywhere ==
    /\ \A a \in Agents : Justified(a, redis[a])
    /\ \A m \in wire : Justified(m.agent, m.snapshot)
    /\ \A k \in Checks : Justified(check[k].agent, check[k].expected)

Projected == Recorded /\ JustifiedEverywhere

LEMMA JustifiedLater ==
    ASSUME Recorded, [Next]_vars, NEW a \in Agents, NEW s \in Snapshot \cup {NoSnapshot},
           Justified(a, s)
    PROVE  Justified(a, s)'
<1>0. Latest(a) \in Nat /\ AppliedOnceStep(a) /\ Typed'
  BY LatestType, NextAppliesOnce, NextTyped DEF Recorded, Typed
<1>1. CASE s.epoch > 0
  <2>1. s.epoch \in 1..Latest(a) /\ s \in Snapshot
    BY <1>0, <1>1 DEF Justified, Snapshot, NoSnapshot
  <2>2. /\ transitions'[a][s.epoch].target = transitions[a][s.epoch].target
        /\ transitions'[a][s.epoch].revoked = transitions[a][s.epoch].revoked
    <3>1. transitions[a][s.epoch] \in TransitionRow
      BY <2>1, RowType DEF Recorded, Typed
    <3> QED
      BY <1>0, <2>1, <3>1 DEF AppliedOnceStep, TransitionRow
  <2>3. s.epoch <= Latest(a)'
    BY <1>0, <2>1, LenProperties DEF AppliedOnceStep, Typed, TypeOK, Latest
  <2> QED
    BY <1>1, <2>1, <2>2, <2>3 DEF Justified, SnapshotFor, Row
<1>2. CASE ~(s.epoch > 0)
  <2>1. Latest(a)' \in Nat /\ s.epoch \in Int
    BY <1>0, LenProperties DEF Typed, TypeOK, Latest, Snapshot, NoSnapshot
  <2> QED
    BY <1>2, <2>1 DEF Justified
<1> QED
  BY <1>1, <1>2

LEMMA ComparedJustified ==
    ASSUME TypeOK, NEW a \in Agents, NEW s, CompareAndSet(a, s), Justified(a, s),
           \A b \in Agents : Justified(b, redis[b])
    PROVE  \A b \in Agents : Justified(b, redis'[b])
BY DEF CompareAndSet, TypeOK

LEMMA SnapshotForJustified ==
    ASSUME Typed, NEW w \in Workers, NEW j \in jobs[w]
    PROVE  Justified(j.agent, SnapshotFor(j))
<1>1. j.agent \in Agents /\ j.epoch \in 1..Latest(j.agent) /\ j = [agent |-> j.agent, epoch |-> j.epoch]
  BY DEF Typed, TypeOK, JobsExist, Job
<1> QED
  BY <1>1, LatestType DEF Typed, Justified, SnapshotFor

\* The row a gate call read may be older than the transition it reads, but it
\* is only trusted when both say the same state.
LEMMA DurableSnapshotJustified ==
    ASSUME Typed, NEW a \in Agents, NEW row, ~Untrusted(a, row)
    PROVE  Justified(a, DurableSnapshot(a, row))
<1>1. CASE Latest(a) = 0
  BY <1>1 DEF Justified, DurableSnapshot
<1>2. CASE Latest(a) # 0
  <2>1. Latest(a) \in 1..Latest(a) /\ Latest(a) > 0
    BY <1>2, LatestType DEF Typed
  <2>2. transitions[a][Latest(a)].status \in Statuses
    BY <2>1, RowType DEF Typed, TransitionRow
  <2>3. transitions[a][Latest(a)].target = StateOf(row)
    BY <2>1, <2>2 DEF Untrusted, Pending, Inconsistent, Statuses
  <2> QED
    BY <1>2, <2>1, <2>3 DEF Justified, DurableSnapshot, SnapshotFor, Row
<1> QED
  BY <1>1, <1>2

\* In terms of the transitions before the step, whatever a step puts into Redis,
\* on the wire or into a gate call is justified.
LEMMA StepJustified ==
    ASSUME Projected, [Next]_vars
    PROVE  /\ \A a \in Agents : Justified(a, redis'[a])
           /\ \A m \in wire' : Justified(m.agent, m.snapshot)
           /\ \A k \in Checks : Justified(check'[k].agent, check'[k].expected)
<1> DEFINE Goal == /\ \A a \in Agents : Justified(a, redis'[a])
                   /\ \A m \in wire' : Justified(m.agent, m.snapshot)
                   /\ \A k \in Checks : Justified(check'[k].agent, check'[k].expected)
<1> USE DEF Projected, Recorded
<1>0. \A a \in Agents : Justified(a, NoSnapshot)
  BY LatestType DEF Typed, Justified, NoSnapshot
<1>1. ASSUME NEW w \in Workers, WorkerStep(w) \/ Crash(w)
      PROVE  Goal
  <2>1. UNCHANGED check
    BY <1>1 DEF WorkerStep, Project, ProjectFails, Crash, GiveUp, FinalizeAgain, Finalize,
       Apply, gate
  <2>2. CASE \E j \in jobs[w] : Project(w, j)
    <3>1. PICK j \in jobs[w] : Project(w, j)
      BY <2>2
    <3>2. j.agent \in Agents /\ Justified(j.agent, SnapshotFor(j))
      BY SnapshotForJustified DEF Typed, TypeOK, Job
    <3>3. CompareAndSet(j.agent, SnapshotFor(j)) /\ UNCHANGED wire
      BY <3>1 DEF Project, ProjectAcknowledged
    <3> QED
      BY <2>1, <3>2, <3>3, ComparedJustified DEF JustifiedEverywhere, Typed
  <2>3. CASE \E j \in jobs[w] : ProjectFails(w, j)
    <3>1. PICK j \in jobs[w] : ProjectFails(w, j)
      BY <2>3
    <3>2. Justified(j.agent, SnapshotFor(j))
      BY SnapshotForJustified
    <3>3. UNCHANGED redis /\ wire' \subseteq wire \cup {[agent |-> j.agent, snapshot |-> SnapshotFor(j)]}
      BY <3>1 DEF ProjectFails, ProjectRefused, ProjectTimesOut, broker
    <3> QED
      BY <2>1, <3>2, <3>3 DEF JustifiedEverywhere
  <2>4. CASE ~\E j \in jobs[w] : Project(w, j) \/ ProjectFails(w, j)
    <3>1. UNCHANGED <<redis, wire>>
      BY <1>1, <2>4 DEF WorkerStep, Crash, FinalizeAgain, Finalize, broker
    <3> QED
      BY <2>1, <3>1 DEF JustifiedEverywhere
  <2> QED
    BY <2>2, <2>3, <2>4
<1>2. ASSUME NEW k \in Checks, GateStep(k) \/ \E a \in Agents : ReadScope(k, a)
      PROVE  Goal
  <2> DEFINE a == check[k].agent
  <2>0. a \in Agents /\ \A i \in Checks : i # k => check'[i] = check[i]
    BY <1>2 DEF GateStep, GateReadsAgent, GateReadsLatest, GateObserves, GateRepairs,
       GateCannotRepair, CheckReturns, ReadScope, Unavailable, Answer, Typed, TypeOK,
       CheckRecord, CheckFields
  <2>1. IdleCheck.agent \in Agents /\ IdleCheck.expected = NoSnapshot
    BY AgentsAssumption DEF IdleCheck
  <2>2. Justified(check'[k].agent, check'[k].expected)
    <3>1. CASE \E b \in Agents : ReadScope(k, b)
      BY <1>0, <3>1 DEF ReadScope, IdleCheck, Typed, TypeOK
    <3>2. CASE GateReadsLatest(k)
      <4>1. CASE Untrusted(a, check[k].row)
        BY <1>0, <2>1, <3>2, <4>1 DEF GateReadsLatest, Unavailable, Typed, TypeOK
      <4>2. CASE ~Untrusted(a, check[k].row)
        <5>1. Justified(a, DurableSnapshot(a, check[k].row))
          BY <2>0, <4>2, DurableSnapshotJustified
        <5>2. check' = [check EXCEPT ![k] = [@ EXCEPT
                  !.stage = "read", !.expected = DurableSnapshot(a, check[k].row)]]
          BY <3>2, <4>2 DEF GateReadsLatest
        <5>3. check'[k].agent = a /\ check'[k].expected = DurableSnapshot(a, check[k].row)
          BY <5>2 DEF Typed, TypeOK, CheckRecord, CheckFields
        <5> QED
          BY <5>1, <5>3
      <4> QED
        BY <4>1, <4>2
    <3>3. CASE ~GateReadsLatest(k) /\ GateStep(k)
      <4> DEFINE Kept == \/ check'[k] = IdleCheck
                         \/ check'[k].agent = a /\ check'[k].expected = check[k].expected
      <4>0. check \in [Checks -> CheckRecord]
        BY DEF Typed, TypeOK
      <4>a. ASSUME GateReadsAgent(k)
            PROVE  Kept
        <5>1. PICK row : check' = [check EXCEPT ![k] = [@ EXCEPT !.stage = "agent", !.row = row]]
          BY <4>a DEF GateReadsAgent
        <5> QED
          BY <4>0, <5>1 DEF CheckRecord, CheckFields
      <4>b. ASSUME NEW stage, check' = [check EXCEPT ![k] = [@ EXCEPT !.stage = stage]]
            PROVE  Kept
        BY <4>0, <4>b DEF CheckRecord, CheckFields
      <4>c. ASSUME check' = [check EXCEPT ![k] = IdleCheck]
            PROVE  Kept
        BY <4>0, <4>c
      <4>d. ASSUME GateObserves(k)
            PROVE  Kept
        BY <4>b, <4>c, <4>d DEF GateObserves, Unavailable, Answer
      <4>e. ASSUME GateRepairs(k)
            PROVE  Kept
        BY <4>b, <4>e DEF GateRepairs
      <4>f. ASSUME GateCannotRepair(k) \/ CheckReturns(k)
            PROVE  Kept
        BY <4>c, <4>f DEF GateCannotRepair, CheckReturns, Unavailable
      <4>1. Kept
        BY <3>3, <4>a, <4>d, <4>e, <4>f DEF GateStep
      <4> QED
        BY <1>0, <2>1, <4>1 DEF JustifiedEverywhere
    <3> QED
      BY <1>2, <3>1, <3>2, <3>3
  <2>3. (\A b \in Agents : Justified(b, redis'[b])) /\ \A m \in wire' : Justified(m.agent, m.snapshot)
    <3>1. Justified(a, check[k].expected)
      BY DEF JustifiedEverywhere
    <3>2. CASE GateRepairs(k)
      BY <2>0, <3>1, <3>2, ComparedJustified
      DEF GateRepairs, ProjectAcknowledged, JustifiedEverywhere, Typed
    <3>3. CASE GateCannotRepair(k)
      BY <2>0, <3>1, <3>3
      DEF GateCannotRepair, ProjectRefused, ProjectTimesOut, broker, JustifiedEverywhere
    <3>4. CASE ~GateRepairs(k) /\ ~GateCannotRepair(k)
      BY <1>2, <3>4 DEF GateStep, ReadScope, GateReadsAgent, GateReadsLatest, GateObserves,
         CheckReturns, broker, JustifiedEverywhere
    <3> QED
      BY <3>2, <3>3, <3>4
  <2> QED
    BY <2>0, <2>2, <2>3 DEF JustifiedEverywhere
<1>3. ASSUME RedisStep
      PROVE  Goal
  <2>1. UNCHANGED check /\ wire' \subseteq wire
    BY <1>3 DEF RedisStep, RedisGoesDown, RedisComesBack, RedisForgets, Deliver, LoseMessage, gate
  <2>2. CASE \E m \in wire : Deliver(m)
    BY <2>1, <2>2, ComparedJustified DEF Deliver, JustifiedEverywhere, Typed, TypeOK
  <2>3. CASE \E a \in Agents : RedisForgets(a)
    BY <1>0, <2>1, <2>3 DEF RedisForgets, JustifiedEverywhere, Typed, TypeOK
  <2>4. CASE RedisGoesDown \/ RedisComesBack \/ \E m \in wire : LoseMessage(m)
    BY <2>1, <2>4 DEF RedisGoesDown, RedisComesBack, LoseMessage, JustifiedEverywhere
  <2> QED
    BY <1>3, <2>2, <2>3, <2>4 DEF RedisStep
<1>4. CASE \/ \E c \in Commands, a \in Agents, target \in States : Change(c, a, target)
           \/ \E r \in Reconcilers : ListPending(r)
           \/ InventoryStep
           \/ UNCHANGED vars
  <2>1. UNCHANGED <<broker, check>>
    BY <1>4 DEF Change, ListPending, InventoryStep, BeginEdit, RollBackEdit, CommitEdit, vars, gate
  <2> QED
    BY <2>1 DEF JustifiedEverywhere, broker
<1> QED
  BY <1>1, <1>2, <1>3, <1>4 DEF Next

LEMMA NextProjected ==
    ASSUME Projected, [Next]_vars
    PROVE  Projected'
<1>1. Recorded'
  BY NextRecorded DEF Projected
<1>2. TypeOK'
  BY <1>1 DEF Recorded, Typed
<1>3. \A a \in Agents : Justified(a, redis[a])'
  BY <1>2, StepJustified, JustifiedLater DEF Projected, TypeOK
<1>4. \A m \in wire' : Justified(m.agent, m.snapshot)'
  BY <1>2, StepJustified, JustifiedLater DEF Projected, TypeOK
<1>5. \A k \in Checks : Justified(check[k].agent, check[k].expected)'
  <2>1. \A k \in Checks : check'[k].agent \in Agents /\ check'[k].expected \in Snapshot \cup {NoSnapshot}
    BY <1>2 DEF TypeOK, CheckRecord, CheckFields
  <2> QED
    BY <2>1, StepJustified, JustifiedLater DEF Projected
<1> QED
  BY <1>1, <1>3, <1>4, <1>5 DEF Projected, JustifiedEverywhere

LEMMA InitProjected == Init => Projected
<1>1. Init => JustifiedEverywhere
  BY DEF Init, JustifiedEverywhere, Justified, NoSnapshot, IdleCheck, Latest
<1> QED
  BY <1>1, InitRecorded DEF Projected

\* Lost keys, repairs from old reads and writes that arrive late never make
\* Redis show a state that no committed transition asked for.
THEOREM ProjectionJustifiedHolds == Spec => []ProjectionJustified
<1>1. Projected /\ [Next]_vars => Projected'
  BY NextProjected
<1>2. Projected => ProjectionJustified
  BY DEF Projected, JustifiedEverywhere, ProjectionJustified
<1> QED
  BY InitProjected, <1>1, <1>2, PTL DEF Spec

-----------------------------------------------------------------------------
(* What confirmations and the gate rest on while Redis keeps its keys. *)

\* A transition that exists stays what it was, and once applied it stays so.
LEMMA TransitionsStay ==
    ASSUME Recorded, [Next]_vars, NEW a \in Agents, NEW e \in 1..Latest(a)
    PROVE  /\ e \in 1..Latest(a)'
           /\ transitions'[a][e].at = transitions[a][e].at
           /\ transitions'[a][e].target = transitions[a][e].target
           /\ transitions'[a][e].previous = transitions[a][e].previous
           /\ transitions'[a][e].revoked = transitions[a][e].revoked
           /\ transitions[a][e].status = "applied" => transitions'[a][e].status = "applied"
<1>1. AppliedOnceStep(a) /\ Latest(a) \in Nat /\ Latest(a)' \in Nat
  BY NextAppliesOnce, NextRecorded, LatestType, LenProperties DEF Recorded, Typed, TypeOK, Latest
<1>2. transitions[a][e] \in TransitionRow
  BY RowType DEF Recorded, Typed
<1>3. e \in 1..Latest(a)'
  BY <1>1 DEF AppliedOnceStep
<1>4. \/ transitions'[a][e] = transitions[a][e]
      \/ transitions'[a][e] = [transitions[a][e] EXCEPT !.status = "applied"]
  BY <1>1 DEF AppliedOnceStep
<1> QED
  BY <1>2, <1>3, <1>4 DEF TransitionRow

\* The history of an agent: a transition is requested, or the pending one is
\* applied, or nothing happens but an edit of the Agent row.
Recording(a) ==
    /\ ~Pending(a) /\ Pending(a)' /\ Latest(a)' = Latest(a) + 1
    /\ agent' = agent /\ edit[a] = NoEdit /\ edit' = edit
    /\ clock' = clock + 1
    /\ transitions'[a][Latest(a) + 1].at = clock
    /\ transitions'[a][Latest(a) + 1].revoked = agent[a].version
    /\ transitions'[a][Latest(a) + 1].target # StateOf(agent[a])
    /\ transitions'[a][Latest(a) + 1].target \in States
    /\ \A e \in 1..Latest(a) : transitions'[a][e] = transitions[a][e]
    /\ \A b \in Agents \ {a} : transitions'[b] = transitions[b]
    /\ redis' = redis /\ issued' = issued

Completed(a, w, j) ==
    /\ j.agent = a /\ j.epoch = Latest(a) /\ Latest(a) > 0
    /\ InHand(w, j) /\ phase[w] = "finalize"
    /\ Pending(a) /\ ~Pending(a)' /\ Latest(a)' = Latest(a)
    /\ agent'[a].version = agent[a].version + 1 /\ edit' = edit
    /\ StateOf(agent'[a]) = transitions[a][Latest(a)].target
    /\ clock' = clock
    /\ \A b \in Agents \ {a} : transitions'[b] = transitions[b] /\ agent'[b] = agent[b]
    /\ redis' = redis /\ issued' = issued

\* What the inventory may do to the Agent row, beside leaving it alone.
Rewritten(a) ==
    \/ agent'[a] = agent[a] /\ edit'[a] \in {edit[a], agent[a].version, NoEdit}
    \/ edit[a] # NoEdit /\ edit'[a] = NoEdit /\ agent'[a].version = edit[a] + 1

Rests ==
    /\ transitions' = transitions /\ clock' = clock
    /\ \A a \in Agents : agent'[a].engaged = agent[a].engaged
    /\ \A a \in Agents : Rewritten(a)

LEMMA HistoryMoves ==
    ASSUME Recorded, [Next]_vars
    PROVE  \/ \E a \in Agents : Recording(a)
           \/ \E a \in Agents : \E w \in Workers : \E j \in jobs[w] : Completed(a, w, j)
           \/ Rests
<1> USE DEF Recorded, Typed
<1>1. CASE \E c \in Commands, a \in Agents, target \in States : Change(c, a, target)
  <2>1. PICK c \in Commands, a \in Agents, target \in States : Change(c, a, target)
    BY <1>1
  <2> DEFINE row == [previous |-> StateOf(agent[a]), target |-> target, status |-> "pending",
                     revoked |-> RevokedThrough(a), at |-> clock]
  <2>2. row \in TransitionRow
    BY StateOfType DEF TypeOK, AgentRow, TransitionRow, Statuses, RevokedThrough
  <2>3. Appended(a, row)
    BY <2>1, <2>2, AppendRow DEF Change
  <2>4. /\ row.at = clock /\ row.revoked = agent[a].version /\ row.target = target
        /\ row.status = "pending"
    BY DEF RevokedThrough
  <2>5. /\ ~Pending(a) /\ target # StateOf(agent[a]) /\ clock' = clock + 1
        /\ agent' = agent /\ redis' = redis /\ issued' = issued
        /\ edit[a] = NoEdit /\ edit' = edit
    BY <2>1 DEF Change, SystemRowFree, ValidTransition, broker, gate
  <2> HIDE DEF row
  <2>6. Pending(a)'
    BY <2>3, <2>4, LatestType DEF Appended, Pending
  <2> QED
    BY <2>3, <2>4, <2>5, <2>6 DEF Appended, Recording
<1>2. CASE \E w \in Workers : \E j \in jobs[w] : Finalize(w, j)
  <2>1. PICK w \in Workers : \E j \in jobs[w] : Finalize(w, j)
    BY <1>2
  <2>2. PICK j \in jobs[w] : Finalize(w, j)
    BY <2>1
  <2> DEFINE a == j.agent
  <2>3. a \in Agents /\ j.epoch \in 1..Latest(a) /\ Latest(a) \in Nat
    BY LatestType DEF TypeOK, JobsExist, Job
  <2>4. j.epoch = Latest(a) /\ Pending(a)
    BY <2>2, <2>3, PendingIsLatest DEF Finalize, Row
  <2>5. CASE StateOf(agent[a]) # Row(j).previous
    BY <2>2, <2>5 DEF Finalize, GiveUp, durable, Rests, Rewritten
  <2>6. CASE StateOf(agent[a]) = Row(j).previous
    <3>1. Apply(w, j) /\ Row(j).status = "pending" /\ UNCHANGED broker
          /\ InHand(w, j) /\ phase[w] = "finalize"
      BY <2>2, <2>6 DEF Finalize
    <3>2. MarkedApplied(a, j.epoch)
      BY <2>3, <3>1, ApplyRow DEF Apply
    <3>3. AppliedOnceStep(a)
      BY <2>2, <2>3, FinalizeAppliesOnce
    <3>4. \A b \in Agents \ {a} : agent'[b] = agent[b]
      BY <2>3, <3>1 DEF Apply, TypeOK
    <3>5. clock' = clock /\ edit' = edit /\ redis' = redis /\ issued' = issued
      BY <3>1 DEF Apply, broker, gate
    <3>6. transitions[a][j.epoch] \in TransitionRow
      BY <2>3, RowType
    <3>7. transitions'[a][j.epoch].status = "applied" /\ Latest(a)' = Latest(a)
      BY <2>3, <3>2, <3>6 DEF MarkedApplied, TransitionRow
    <3>8. ~Pending(a)'
      BY <2>4, <3>7 DEF Pending
    <3>9. /\ StateOf(agent'[a]) = transitions[a][j.epoch].target
          /\ agent'[a].version = agent[a].version + 1
      <4>1. transitions'[a][j.epoch] # transitions[a][j.epoch]
        BY <3>1, <3>7 DEF Row
      <4> QED
        BY <2>3, <3>3, <4>1 DEF AppliedOnceStep
    <3> QED
      BY <2>3, <2>4, <3>1, <3>2, <3>4, <3>5, <3>7, <3>8, <3>9 DEF MarkedApplied, Completed
  <2> QED
    BY <2>5, <2>6
<1>3. CASE InventoryStep
  <2>1. UNCHANGED <<transitions, clock>>
    BY <1>3 DEF InventoryStep, BeginEdit, RollBackEdit, CommitEdit, durable
  <2>2. \A a \in Agents : agent'[a].engaged = agent[a].engaged
    BY <1>3 DEF InventoryStep, BeginEdit, RollBackEdit, CommitEdit, durable, Edited, TypeOK
  <2>3. ASSUME NEW a \in Agents PROVE Rewritten(a)
    BY <1>3 DEF InventoryStep, BeginEdit, RollBackEdit, CommitEdit, durable, Edited, Rewritten, TypeOK
  <2> QED
    BY <2>1, <2>2, <2>3 DEF Rests
<1>4. CASE /\ ~InventoryStep
           /\ ~\E c \in Commands, a \in Agents, target \in States : Change(c, a, target)
           /\ ~\E w \in Workers : \E j \in jobs[w] : Finalize(w, j)
  <2>1. UNCHANGED durable /\ edit' = edit
    BY <1>4 DEF Next, vars, WorkerStep, ListPending, Project, ProjectFails, Crash, GiveUp,
       FinalizeAgain, GateStep, ReadScope, GateReadsAgent, GateReadsLatest, GateObserves,
       GateRepairs, GateCannotRepair, CheckReturns, RedisStep, RedisGoesDown, RedisComesBack,
       RedisForgets, Deliver, LoseMessage
  <2> QED
    BY <2>1 DEF Rests, Rewritten, durable
<1> QED
  BY <1>1, <1>2, <1>3, <1>4

\* Two transitions are never requested at the same instant.
Times ==
    /\ \A a \in Agents : \A e \in 1..Latest(a) : transitions[a][e].at < clock
    /\ \A a, b \in Agents : \A e \in 1..Latest(a), f \in 1..Latest(b) :
          transitions[a][e].at = transitions[b][f].at => a = b /\ e = f

LEMMA NextTimes ==
    ASSUME Recorded, Times, [Next]_vars
    PROVE  Times'
<1>0. \A a \in Agents : /\ Latest(a) \in Nat
                        /\ \A e \in 1..Latest(a) : transitions'[a][e].at = transitions[a][e].at
                        /\ \A e \in 1..Latest(a) : transitions[a][e].at \in Nat
  BY TransitionsStay, RowType, LatestType DEF Recorded, Typed, TransitionRow
<1>c. clock \in Nat
  BY DEF Recorded, Typed, TypeOK
<1>1. CASE \E a \in Agents : Recording(a)
  <2>1. PICK c \in Agents : Recording(c)
    BY <1>1
  <2> DEFINE new == Latest(c) + 1
  <2>2. \A a \in Agents \ {c} : Latest(a)' = Latest(a)
    BY <2>1 DEF Recording, Latest
  <2>3. \A a \in Agents : \A e \in 1..Latest(a)' : e \in 1..Latest(a) \/ (a = c /\ e = new)
    BY <1>0, <2>1, <2>2 DEF Recording
  <2>4. transitions'[c][new].at = clock /\ clock' = clock + 1
    BY <2>1 DEF Recording
  <2> HIDE DEF new
  <2>5. ASSUME NEW a \in Agents, NEW e \in 1..Latest(a)'
        PROVE  /\ transitions'[a][e].at < clock'
               /\ transitions'[a][e].at = clock <=> (a = c /\ e = new)
    <3>1. CASE e \in 1..Latest(a)
      <4>1. transitions'[a][e].at < clock /\ transitions'[a][e].at \in Nat
        BY <1>0, <3>1 DEF Times
      <4> QED
        BY <1>c, <2>4, <4>1
    <3>2. CASE a = c /\ e = new
      BY <1>c, <2>4, <3>2
    <3> QED
      BY <2>3, <3>1, <3>2
  <2>6. ASSUME NEW a \in Agents, NEW b \in Agents, NEW e \in 1..Latest(a)', NEW f \in 1..Latest(b)',
               transitions'[a][e].at = transitions'[b][f].at
        PROVE  a = b /\ e = f
    <3>1. CASE transitions'[a][e].at = clock
      BY <2>5, <2>6, <3>1
    <3>2. CASE transitions'[a][e].at # clock
      <4>1. e \in 1..Latest(a) /\ f \in 1..Latest(b)
        BY <2>3, <2>4, <2>6, <3>2
      <4> QED
        BY <1>0, <2>6, <4>1 DEF Times
    <3> QED
      BY <3>1, <3>2
  <2> QED
    BY <2>5, <2>6 DEF Times
<1>2. CASE ~\E a \in Agents : Recording(a)
  <2>1. clock' = clock /\ \A a \in Agents : Latest(a)' = Latest(a)
    <3>1. CASE Rests
      BY <3>1 DEF Rests, Latest
    <3>2. CASE \E a \in Agents : \E w \in Workers : \E j \in jobs[w] : Completed(a, w, j)
      BY <3>2 DEF Completed, Latest
    <3> QED
      BY <1>2, <3>1, <3>2, HistoryMoves
  <2> QED
    BY <1>0, <2>1 DEF Times
<1> QED
  BY <1>1, <1>2

\* Without losses the projection of an agent only grows.
LEMMA ProjectionGrows ==
    ASSUME MaxLosses = 0, Typed, [Next]_vars, NEW a \in Agents
    PROVE  redis[a].epoch <= redis'[a].epoch
<1> USE DEF Typed
<1>0. redis \in [Agents -> Snapshot \cup {NoSnapshot}] /\ redis[a].epoch \in Int
  BY DEF TypeOK, Snapshot, NoSnapshot
<1>1. ASSUME NEW b \in Agents, NEW s \in Snapshot, CompareAndSet(b, s)
      PROVE  redis[a].epoch <= redis'[a].epoch
  BY <1>0, <1>1 DEF CompareAndSet, Newer, Snapshot
<1>2. CASE \E w \in Workers : \E j \in jobs[w] : Project(w, j)
  <2>1. PICK w \in Workers : \E j \in jobs[w] : Project(w, j)
    BY <1>2
  <2>2. PICK j \in jobs[w] : Project(w, j)
    BY <2>1
  <2>3. /\ j.agent \in Agents /\ j.epoch \in 1..Latest(j.agent)
        /\ j = [agent |-> j.agent, epoch |-> j.epoch]
    BY DEF TypeOK, JobsExist, Job
  <2>4. SnapshotFor(j) \in Snapshot
    BY <2>3, SnapshotForType
  <2> QED
    BY <1>1, <2>2, <2>3, <2>4 DEF Project, ProjectAcknowledged
<1>3. CASE \E k \in Checks : GateRepairs(k)
  <2>1. PICK k \in Checks : GateRepairs(k)
    BY <1>3
  <2>2. check[k].agent \in Agents /\ check[k].expected \in Snapshot
    BY <2>1 DEF GateRepairs, TypeOK, CheckRecord, CheckFields
  <2> QED
    BY <1>1, <2>1, <2>2 DEF GateRepairs, ProjectAcknowledged
<1>4. CASE \E m \in wire : Deliver(m)
  BY <1>1, <1>4 DEF Deliver, TypeOK
<1>5. CASE /\ ~\E w \in Workers : \E j \in jobs[w] : Project(w, j)
           /\ ~\E k \in Checks : GateRepairs(k)
           /\ ~\E m \in wire : Deliver(m)
  <2>1. ~\E b \in Agents : RedisForgets(b)
    BY DEF RedisForgets, TypeOK
  <2>2. UNCHANGED redis
    BY <1>5, <2>1 DEF Next, vars, broker, Change, WorkerStep, ListPending, ProjectFails,
       ProjectRefused, ProjectTimesOut, Crash, Finalize,
       FinalizeAgain, GateStep, ReadScope, GateReadsAgent, GateReadsLatest, GateObserves,
       GateCannotRepair, CheckReturns, RedisStep, RedisGoesDown, RedisComesBack,
       LoseMessage, InventoryStep, BeginEdit, RollBackEdit, CommitEdit
  <2> QED
    BY <1>0, <2>2
<1> QED
  BY <1>2, <1>3, <1>4, <1>5

LEMMA EpochTypes ==
    ASSUME Recorded, [Next]_vars, NEW a \in Agents
    PROVE  /\ redis[a].epoch \in Int /\ redis'[a].epoch \in Int
           /\ Latest(a) \in Nat /\ Latest(a)' \in Nat /\ Latest(a) <= Latest(a)'
<1>1. TypeOK /\ TypeOK'
  BY NextTyped DEF Recorded, Typed
<1>2. /\ redis[a] \in Snapshot \cup {NoSnapshot} /\ redis'[a] \in Snapshot \cup {NoSnapshot}
      /\ transitions[a] \in Seq(TransitionRow) /\ transitions'[a] \in Seq(TransitionRow)
  BY <1>1 DEF TypeOK
<1>3. Latest(a) \in Nat /\ Latest(a)' \in Nat
  BY <1>2, LenProperties DEF Latest
<1>4. Latest(a) <= Latest(a)'
  BY <1>3, NextAppliesOnce DEF AppliedOnceStep
<1> QED
  BY <1>2, <1>3, <1>4 DEF Snapshot, NoSnapshot

\* What a worker is about to finalize is in Redis, or something newer is.
Shown == \A w \in Workers : phase[w] = "finalize" =>
             \A j \in jobs[w] : InHand(w, j) => j.epoch <= redis[j.agent].epoch

LEMMA WorkerMoves ==
    ASSUME Typed, [Next]_vars, NEW w \in Workers
    PROVE  \/ phase'[w] = "project"
           \/ phase'[w] = phase[w] /\ jobs'[w] = jobs[w]
           \/ \E j \in jobs[w] : Project(w, j)
<1> USE DEF Typed, TypeOK
<1>1. CASE \E v \in Workers : \E j \in jobs[v] : Project(v, j)
  BY <1>1 DEF Project
<1>2. CASE \E c \in Commands, a \in Agents, target \in States : Change(c, a, target)
  BY <1>2 DEF Change
<1>3. CASE \E r \in Reconcilers : ListPending(r)
  BY <1>3 DEF ListPending
<1>4. CASE \E v \in Workers : \/ Crash(v)
                              \/ \E j \in jobs[v] : FinalizeAgain(v, j) \/ ProjectFails(v, j)
                              \/ \E j \in jobs[v] : Finalize(v, j)
  BY <1>4 DEF FinalizeAgain, ProjectFails, Finalize, Apply, Succeed, GiveUp, Crash
<1>5. CASE \/ \E k \in Checks : GateStep(k) \/ \E a \in Agents : ReadScope(k, a)
           \/ InventoryStep \/ RedisStep \/ UNCHANGED vars
  <2>1. UNCHANGED workers
    BY <1>5 DEF GateStep, ReadScope, GateReadsAgent, GateReadsLatest, GateObserves, GateRepairs,
       GateCannotRepair, CheckReturns, InventoryStep, BeginEdit, RollBackEdit, CommitEdit,
       RedisStep, RedisGoesDown, RedisComesBack, RedisForgets, Deliver, LoseMessage, vars
  <2> QED
    BY <2>1 DEF workers
<1> QED
  BY <1>1, <1>2, <1>3, <1>4, <1>5 DEF Next, WorkerStep

LEMMA JobExists ==
    ASSUME Typed, NEW w \in Workers, NEW j \in jobs[w]
    PROVE  /\ j.agent \in Agents /\ j.epoch \in 1..Latest(j.agent) /\ Latest(j.agent) \in Nat
           /\ j = [agent |-> j.agent, epoch |-> j.epoch]
BY LatestType DEF Typed, TypeOK, JobsExist, Job

LEMMA NextShown ==
    ASSUME MaxLosses = 0, Recorded, Times, Shown, [Next]_vars
    PROVE  Shown'
<1> SUFFICES ASSUME NEW w \in Workers, phase'[w] = "finalize", NEW j \in jobs'[w], InHand(w, j)'
             PROVE  j.epoch <= redis'[j.agent].epoch
  BY DEF Shown
<1> USE DEF Recorded
<1>1. \A k \in jobs[w] : Row(k)' = transitions'[k.agent][k.epoch] /\ Row(k)'.at = Row(k).at
  BY JobExists, TransitionsStay DEF Row
<1>2. ASSUME jobs'[w] = jobs[w]
      PROVE  j \in jobs[w] /\ InHand(w, j)
  BY <1>1, <1>2 DEF InHand
<1>3. CASE \E k \in jobs[w] : Project(w, k)
  <2>1. PICK k \in jobs[w] : Project(w, k)
    BY <1>3
  <2>2. jobs'[w] = jobs[w] /\ j \in jobs[w] /\ InHand(w, j) /\ InHand(w, k)
    BY <1>2, <2>1 DEF Project
  <2>3. Row(j).at = Row(k).at
    <3>1. Row(j) \in TransitionRow /\ Row(k) \in TransitionRow
      BY <2>2, JobExists, RowType DEF Row, Typed
    <3> QED
      BY <2>2, <3>1 DEF InHand, TransitionRow
  <2>4. j = k
    BY <2>2, <2>3, JobExists DEF Times, Row
  <2>5. Accepted(j.agent, SnapshotFor(j)) /\ CompareAndSet(j.agent, SnapshotFor(j))
    BY <2>1, <2>4 DEF Project, ProjectAcknowledged
  <2>6. j.agent \in Agents /\ SnapshotFor(j) \in Snapshot /\ SnapshotFor(j).epoch = j.epoch
    BY <2>2, JobExists, SnapshotForType DEF Typed, SnapshotFor
  <2>7. redis \in [Agents -> Snapshot \cup {NoSnapshot}]
    BY DEF Typed, TypeOK
  <2> QED
    BY <2>5, <2>6, <2>7 DEF Accepted, CompareAndSet, Newer, Snapshot
<1>4. CASE phase'[w] = phase[w] /\ jobs'[w] = jobs[w]
  <2>1. j \in jobs[w] /\ InHand(w, j) /\ j.epoch <= redis[j.agent].epoch
    BY <1>2, <1>4 DEF Shown
  <2>2. j.agent \in Agents /\ j.epoch \in Nat /\ redis[j.agent].epoch <= redis'[j.agent].epoch
    BY <2>1, JobExists, ProjectionGrows
  <2>3. redis[j.agent].epoch \in Int /\ redis'[j.agent].epoch \in Int
    BY <2>2, EpochTypes
  <2> QED
    BY <2>1, <2>2, <2>3
<1> QED
  BY <1>3, <1>4, WorkerMoves

LEMMA ConfirmedMoves ==
    ASSUME Recorded, [Next]_vars, NEW a \in Agents
    PROVE  \/ confirmed'[a] = confirmed[a]
           \/ \E w \in Workers : \E j \in jobs[w] :
                 /\ j.agent = a /\ confirmed'[a] = j.epoch
                 /\ InHand(w, j) /\ phase[w] = "finalize"
                 /\ transitions'[a][j.epoch].status = "applied"
<1> USE DEF Recorded
<1>1. ASSUME NEW w \in Workers, NEW j \in jobs[w], Succeed(w, j), InHand(w, j), phase[w] = "finalize",
             transitions'[j.agent][j.epoch].status = "applied"
      PROVE  \/ confirmed'[a] = confirmed[a]
             \/ /\ j.agent = a /\ confirmed'[a] = j.epoch
                /\ InHand(w, j) /\ phase[w] = "finalize"
                /\ transitions'[a][j.epoch].status = "applied"
  <2>1. confirmed \in [Agents -> Nat]
    BY DEF Typed, TypeOK
  <2> QED
    BY <1>1, <2>1 DEF Succeed
<1>2. CASE \E w \in Workers : \E j \in jobs[w] : FinalizeAgain(w, j)
  <2>1. PICK w \in Workers : \E j \in jobs[w] : FinalizeAgain(w, j)
    BY <1>2
  <2>2. PICK j \in jobs[w] : FinalizeAgain(w, j)
    BY <2>1
  <2>3. /\ Succeed(w, j) /\ InHand(w, j) /\ phase[w] = "finalize"
        /\ transitions'[j.agent][j.epoch].status = "applied"
    BY <2>2 DEF FinalizeAgain, Row, durable
  <2> QED
    BY <1>1, <2>3
<1>3. CASE \E w \in Workers : \E j \in jobs[w] : Finalize(w, j) /\ Apply(w, j)
  <2>1. PICK w \in Workers : \E j \in jobs[w] : Finalize(w, j) /\ Apply(w, j)
    BY <1>3
  <2>2. PICK j \in jobs[w] : Finalize(w, j) /\ Apply(w, j)
    BY <2>1
  <2>3. transitions'[j.agent][j.epoch].status = "applied"
    <3>1. MarkedApplied(j.agent, j.epoch)
      BY <2>2, JobExists, ApplyRow DEF Apply, Typed
    <3>2. transitions[j.agent][j.epoch] \in TransitionRow
      BY JobExists, RowType DEF Typed
    <3> QED
      BY <3>1, <3>2 DEF MarkedApplied, TransitionRow
  <2>4. Succeed(w, j) /\ InHand(w, j) /\ phase[w] = "finalize"
    BY <2>2 DEF Finalize, Apply
  <2> QED
    BY <1>1, <2>3, <2>4
<1>4. CASE /\ ~\E w \in Workers : \E j \in jobs[w] : FinalizeAgain(w, j)
           /\ ~\E w \in Workers : \E j \in jobs[w] : Finalize(w, j) /\ Apply(w, j)
  <2>1. UNCHANGED confirmed
    BY <1>4 DEF Next, vars, workers, Change, WorkerStep, ListPending, Project, ProjectFails,
       GiveUp, Crash, Finalize, GateStep, ReadScope, GateReadsAgent, GateReadsLatest, GateObserves,
       GateRepairs, GateCannotRepair, CheckReturns, RedisStep, RedisGoesDown, RedisComesBack,
       RedisForgets, Deliver, LoseMessage, InventoryStep, BeginEdit, RollBackEdit, CommitEdit
  <2> QED
    BY <2>1
<1> QED
  BY <1>2, <1>3, <1>4

LEMMA NextConfirmed ==
    ASSUME MaxLosses = 0, Recorded, Shown, ConfirmedStands, [Next]_vars
    PROVE  ConfirmedStands'
<1> SUFFICES ASSUME NEW a \in Agents
             PROVE  /\ confirmed'[a] <= Latest(a)'
                    /\ \A e \in 1..confirmed'[a] : transitions'[a][e].status = "applied"
                    /\ confirmed'[a] > 0 => confirmed'[a] <= redis'[a].epoch
  BY DEF ConfirmedStands
<1>0. /\ confirmed[a] \in Nat /\ Latest(a) \in Nat /\ Latest(a)' \in Nat /\ Latest(a)' >= Latest(a)
      /\ redis[a].epoch \in Int /\ redis'[a].epoch \in Int /\ redis[a].epoch <= redis'[a].epoch
  <2>1. confirmed[a] \in Nat
    BY DEF Recorded, Typed, TypeOK
  <2> QED
    BY <2>1, EpochTypes, ProjectionGrows DEF Recorded
<1>1. CASE confirmed'[a] = confirmed[a]
  <2>1. \A e \in 1..confirmed[a] : e \in 1..Latest(a) /\ transitions[a][e].status = "applied"
    BY <1>0 DEF ConfirmedStands
  <2>2. \A e \in 1..confirmed[a] : transitions'[a][e].status = "applied"
    BY <2>1, TransitionsStay
  <2> QED
    BY <1>0, <1>1, <2>2 DEF ConfirmedStands
<1>2. CASE \E w \in Workers : \E j \in jobs[w] :
              /\ j.agent = a /\ confirmed'[a] = j.epoch
              /\ InHand(w, j) /\ phase[w] = "finalize"
              /\ transitions'[a][j.epoch].status = "applied"
  <2>1. PICK n \in 1..Latest(a) : /\ confirmed'[a] = n /\ n <= redis[a].epoch
                                  /\ transitions'[a][n].status = "applied"
    BY <1>2, JobExists DEF Recorded, Shown
  <2>2. ASSUME NEW e \in 1..n
        PROVE  transitions'[a][e].status = "applied"
    <3>1. CASE e = n
      BY <2>1, <3>1
    <3>2. CASE e < n
      <4>1. e + 1 \in 1..Latest(a)' /\ e + 1 > 1 /\ (e + 1) - 1 = e
        BY <1>0, <3>2
      <4>2. DurableEvidence'
        BY NextRecorded DEF Recorded
      <4> QED
        BY <4>1, <4>2 DEF DurableEvidence
    <3> QED
      BY <1>0, <3>1, <3>2
  <2> QED
    BY <1>0, <2>1, <2>2
<1> QED
  BY <1>1, <1>2, ConfirmedMoves

-----------------------------------------------------------------------------
(* The gate. *)

Told == {"read", "repair", "reread", "answered"}

\* What a gate call has read is no older than what there was when it began, and
\* what it expects had been applied.
Reads(k) ==
    LET c == check[k] IN
    /\ c.stage # "idle" => c.floor <= Latest(c.agent)
    /\ c.stage \in Told =>
           /\ c.floor <= c.expected.epoch /\ c.expected.epoch <= Latest(c.agent)
           /\ c.expected.epoch > 0 => transitions[c.agent][c.expected.epoch].status = "applied"

\* The gate call moves on with the scope, floor and expectation it has.
Brings(k) ==
    /\ check'[k].agent = check[k].agent /\ check'[k].scope = check[k].scope
    /\ check'[k].floor = check[k].floor /\ check'[k].expected = check[k].expected

\* GateReadsLatest, when it trusts what it reads.
Expects(k) ==
    LET a == check[k].agent IN
    /\ check[k].stage = "agent" /\ ~Untrusted(a, check[k].row)
    /\ check'[k].agent = a /\ check'[k].scope = check[k].scope /\ check'[k].floor = check[k].floor
    /\ check'[k].expected = DurableSnapshot(a, check[k].row) /\ check'[k].stage = "read"
    /\ transitions' = transitions /\ agent' = agent

Begins(k, a) ==
    /\ check'[k].agent = a /\ check'[k].scope = agent[a].version /\ check'[k].floor = Latest(a)
    /\ check'[k].stage = "scope" /\ check'[k].expected = NoSnapshot
    /\ transitions' = transitions /\ agent' = agent

ReadsRow(k) ==
    /\ Brings(k) /\ check[k].stage = "scope" /\ check'[k].stage = "agent"
    /\ check'[k].row.engaged = agent[check[k].agent].engaged
    /\ transitions' = transitions /\ agent' = agent

LEMMA CheckMoves ==
    ASSUME Typed, [Next]_vars, NEW k \in Checks
    PROVE  \/ check'[k] = check[k]
           \/ check'[k].stage = "idle"
           \/ \E a \in Agents : Begins(k, a)
           \/ ReadsRow(k)
           \/ Expects(k)
           \/ Brings(k) /\ check[k].stage \in Told /\ check'[k].stage \in Told
<1> DEFINE Goal == \/ check'[k] = check[k]
                   \/ check'[k].stage = "idle"
                   \/ \E a \in Agents : Begins(k, a)
                   \/ ReadsRow(k)
                   \/ Expects(k)
                   \/ Brings(k) /\ check[k].stage \in Told /\ check'[k].stage \in Told
<1>0. check \in [Checks -> CheckRecord] /\ IdleCheck.stage = "idle"
  BY DEF Typed, TypeOK, IdleCheck
<1>1. ASSUME NEW i \in Checks, check' = [check EXCEPT ![i] = IdleCheck]
      PROVE  Goal
  BY <1>0, <1>1
<1>2. ASSUME NEW i \in Checks, NEW stage \in Told, check[i].stage \in Told,
             check' = [check EXCEPT ![i] = [@ EXCEPT !.stage = stage]]
      PROVE  Goal
  <2>1. CASE i = k
    <3>1. check'[k] = [check[k] EXCEPT !.stage = stage]
      BY <1>0, <1>2, <2>1
    <3>2. Brings(k) /\ check'[k].stage = stage
      BY <1>0, <3>1 DEF CheckRecord, CheckFields, Brings
    <3> QED
      BY <1>2, <2>1, <3>2
  <2>2. CASE i # k
    BY <1>0, <1>2, <2>2
  <2> QED
    BY <2>1, <2>2
<1>3. ASSUME NEW i \in Checks, NEW a \in Agents, ReadScope(i, a)
      PROVE  Goal
  <2>1. CASE i = k
    <3>1. check'[k] = [IdleCheck EXCEPT !.stage = "scope", !.agent = a,
                                        !.scope = agent[a].version, !.floor = Latest(a)]
      BY <1>0, <1>3, <2>1 DEF ReadScope
    <3> QED
      BY <1>3, <3>1 DEF IdleCheck, Begins, ReadScope, durable
  <2>2. CASE i # k
    BY <1>0, <1>3, <2>2 DEF ReadScope
  <2> QED
    BY <2>1, <2>2
<1>4. ASSUME NEW i \in Checks, GateReadsAgent(i)
      PROVE  Goal
  <2>1. CASE i = k
    <3>1. /\ check'[k] = [check[k] EXCEPT !.stage = "agent",
                  !.row = [engaged |-> agent[check[k].agent].engaged,
                           version |-> agent[check[k].agent].version]]
          /\ check[k].stage = "scope"
      BY <1>0, <1>4, <2>1 DEF GateReadsAgent
    <3>2. check'[k].row = [engaged |-> agent[check[k].agent].engaged,
                           version |-> agent[check[k].agent].version]
      BY <1>0, <3>1 DEF CheckRecord, CheckFields
    <3>3. Brings(k) /\ check'[k].stage = "agent"
      BY <1>0, <3>1 DEF CheckRecord, CheckFields, Brings
    <3> QED
      BY <1>4, <3>1, <3>2, <3>3 DEF ReadsRow, GateReadsAgent, durable
  <2>2. CASE i # k
    BY <1>0, <1>4, <2>2 DEF GateReadsAgent
  <2> QED
    BY <2>1, <2>2
<1>5. ASSUME NEW i \in Checks, GateReadsLatest(i)
      PROVE  Goal
  <2>1. CASE Untrusted(check[i].agent, check[i].row)
    BY <1>1, <1>5, <2>1 DEF GateReadsLatest, Unavailable
  <2>2. CASE i = k /\ ~Untrusted(check[i].agent, check[i].row)
    <3>1. check'[k] = [check[k] EXCEPT
                !.stage = "read", !.expected = DurableSnapshot(check[k].agent, check[k].row)]
      BY <1>0, <1>5, <2>2 DEF GateReadsLatest
    <3> HIDE DEF Goal
    <3>2. /\ check'[k].agent = check[k].agent /\ check'[k].scope = check[k].scope
          /\ check'[k].floor = check[k].floor /\ check'[k].stage = "read"
          /\ check'[k].expected = DurableSnapshot(check[k].agent, check[k].row)
      BY <1>0, <3>1 DEF CheckRecord, CheckFields
    <3>3. Expects(k)
      BY <1>5, <2>2, <3>2 DEF GateReadsLatest, Expects, durable
    <3> QED
      BY <3>3 DEF Goal
  <2>3. CASE i # k /\ ~Untrusted(check[i].agent, check[i].row)
    BY <1>0, <1>5, <2>3 DEF GateReadsLatest
  <2> QED
    BY <2>1, <2>2, <2>3
<1>6. ASSUME NEW i \in Checks, GateObserves(i)
      PROVE  Goal
  <2>1. check[i].stage \in Told
    BY <1>6 DEF GateObserves, Told
  <2>2. \/ Unavailable(i) \/ Answer(i)
        \/ check' = [check EXCEPT ![i] = [@ EXCEPT !.stage = "repair"]]
    BY <1>6 DEF GateObserves
  <2> QED
    BY <1>1, <1>2, <2>1, <2>2 DEF Told, Unavailable, Answer
<1>7. ASSUME NEW i \in Checks, GateRepairs(i)
      PROVE  Goal
  BY <1>2, <1>7 DEF GateRepairs, Told
<1>8. ASSUME NEW i \in Checks, GateCannotRepair(i) \/ CheckReturns(i)
      PROVE  Goal
  BY <1>1, <1>8 DEF GateCannotRepair, CheckReturns, Unavailable
<1>9. CASE ~\E i \in Checks : GateStep(i) \/ \E a \in Agents : ReadScope(i, a)
  <2>1. UNCHANGED check
    BY <1>9 DEF Next, vars, gate, Change, WorkerStep, ListPending, Project, ProjectFails,
       GiveUp, Crash, Finalize, FinalizeAgain, Apply, RedisStep, RedisGoesDown, RedisComesBack,
       RedisForgets, Deliver, LoseMessage, InventoryStep, BeginEdit, RollBackEdit, CommitEdit
  <2> QED
    BY <2>1
<1>a. CASE \E i \in Checks : GateStep(i)
  <2>1. PICK i \in Checks : GateStep(i)
    BY <1>a
  <2> QED
    BY <1>4, <1>5, <1>6, <1>7, <1>8, <2>1 DEF GateStep
<1>b. CASE \E i \in Checks : \E a \in Agents : ReadScope(i, a)
  BY <1>3, <1>b
<1>10. Goal
  BY <1>9, <1>a, <1>b
<1> QED
  BY <1>10 DEF Goal

LEMMA CheckTypes ==
    ASSUME Typed, NEW k \in Checks
    PROVE  /\ check[k].agent \in Agents /\ check[k].floor \in Nat /\ check[k].scope \in Nat
           /\ check[k].expected \in Snapshot \cup {NoSnapshot}
           /\ check[k].stage \in Told => check[k].expected \in Snapshot
                                         /\ check[k].expected.epoch \in Nat
<1>1. \/ check[k] \in CheckFields({"idle", "scope", "agent"}, {NoSnapshot})
      \/ check[k] \in CheckFields({"read", "repair", "reread", "answered"}, Snapshot)
  BY DEF Typed, TypeOK, CheckRecord
<1>2. CASE check[k] \in CheckFields({"idle", "scope", "agent"}, {NoSnapshot})
  BY <1>2 DEF CheckFields, Told
<1>3. CASE check[k] \in CheckFields({"read", "repair", "reread", "answered"}, Snapshot)
  BY <1>3 DEF CheckFields, Snapshot
<1> QED
  BY <1>1, <1>2, <1>3

LEMMA NextReads ==
    ASSUME Recorded, [Next]_vars, NEW k \in Checks, Reads(k)
    PROVE  Reads(k)'
<1>a. PICK a \in Agents : a = check[k].agent
  BY CheckTypes DEF Recorded
<1>0. /\ check[k].floor \in Nat
      /\ check[k].stage \in Told => check[k].expected.epoch \in Nat
  BY CheckTypes DEF Recorded
<1>1. Latest(a) \in Nat /\ Latest(a)' \in Nat /\ Latest(a) <= Latest(a)'
  BY EpochTypes
<1>2. ASSUME check[k].stage # "idle" => check[k].floor <= Latest(a)
      PROVE  check[k].stage # "idle" => check[k].floor <= Latest(a)'
  BY <1>0, <1>1, <1>2
<1>3. ASSUME check[k].stage \in Told
      PROVE  /\ check[k].floor <= check[k].expected.epoch /\ check[k].expected.epoch <= Latest(a)'
             /\ check[k].expected.epoch > 0 =>
                    transitions'[a][check[k].expected.epoch].status = "applied"
  <2>1. /\ check[k].floor <= check[k].expected.epoch /\ check[k].expected.epoch <= Latest(a)
        /\ check[k].expected.epoch > 0 => transitions[a][check[k].expected.epoch].status = "applied"
    BY <1>a, <1>3 DEF Reads
  <2>2. check[k].expected.epoch > 0 => check[k].expected.epoch \in 1..Latest(a)
    BY <1>0, <1>1, <1>3, <2>1
  <2> QED
    BY <1>0, <1>1, <1>3, <2>1, <2>2, TransitionsStay
<1>4. CASE check'[k] = check[k] \/ (Brings(k) /\ check[k].stage \in Told /\ check'[k].stage \in Told)
  <2>1. /\ check'[k].agent = a /\ check'[k].floor = check[k].floor
        /\ check'[k].expected = check[k].expected
        /\ check'[k].stage \in Told => check[k].stage \in Told
        /\ check'[k].stage # "idle" => check[k].stage # "idle"
    BY <1>a, <1>4 DEF Brings, Told
  <2>2. check[k].stage # "idle" => check[k].floor <= Latest(a)
    BY <1>a DEF Reads
  <2>3. Latest(check[k].agent)' = Latest(a)'
    BY <2>1 DEF Latest
  <2> QED
    BY <1>a, <1>2, <1>3, <2>1, <2>2, <2>3 DEF Reads
<1>5. CASE check'[k].stage = "idle"
  BY <1>5 DEF Reads, Told
<1>6. CASE \E b \in Agents : Begins(k, b)
  <2>1. PICK b \in Agents : Begins(k, b)
    BY <1>6
  <2>2. Latest(b) \in Nat
    BY LatestType DEF Recorded, Typed
  <2> QED
    BY <2>1, <2>2 DEF Begins, Reads, Told, Latest
<1>7. CASE ReadsRow(k)
  BY <1>a, <1>7 DEF ReadsRow, Brings, Reads, Told, Latest
<1>8. CASE Expects(k)
  <2>1. /\ check'[k].agent = a /\ check'[k].floor = check[k].floor /\ check'[k].stage = "read"
        /\ check'[k].expected = DurableSnapshot(a, check[k].row) /\ transitions' = transitions
        /\ ~Pending(a)
    BY <1>a, <1>8 DEF Expects, Untrusted
  <2>2. check[k].floor <= Latest(a)
    BY <1>a, <1>8 DEF Expects, Reads
  <2>3. check'[k].expected.epoch = Latest(a)
    BY <2>1 DEF DurableSnapshot
  <2>4. Latest(a) > 0 => transitions[a][Latest(a)].status = "applied"
    <3>1. Latest(a) > 0 => transitions[a][Latest(a)].status \in Statuses
      BY <1>0, <1>1, RowType DEF Recorded, Typed, TransitionRow
    <3> QED
      BY <2>1, <3>1 DEF Pending, Statuses
  <2>5. Latest(check[k].agent)' = Latest(a)
    BY <2>1 DEF Latest
  <2> QED
    BY <1>1, <2>1, <2>2, <2>3, <2>4, <2>5 DEF Reads
<1> QED
  BY <1>4, <1>5, <1>6, <1>7, <1>8, CheckMoves DEF Recorded

\* A gate call answers when Redis shows what it expects; only then may an
\* authorization be signed.
Signed(k) == [agent |-> check[k].agent, version |-> check[k].scope,
              epoch |-> check[k].expected.epoch]
Answered(k) ==
    /\ check[k].stage \in Told
    /\ redis[check[k].agent] = check[k].expected
    /\ redis' = redis /\ transitions' = transitions /\ agent' = agent
    /\ issued' = IF check[k].expected.state = "inactive" THEN issued \cup {Signed(k)} ELSE issued

LEMMA AnswerMoves ==
    ASSUME Typed, [Next]_vars
    PROVE  \/ issued' = issued /\ \A k \in Checks : ~Answers(k)
           \/ \E i \in Checks : Answered(i) /\ \A k \in Checks \ {i} : ~Answers(k)
<1>0. check \in [Checks -> CheckRecord] /\ IdleCheck.stage = "idle"
  BY DEF Typed, TypeOK, IdleCheck
<1>1. ASSUME NEW i \in Checks, NEW stage, stage # "answered",
             check' = [check EXCEPT ![i] = [@ EXCEPT !.stage = stage]]
      PROVE  \A k \in Checks : ~Answers(k)
  BY <1>0, <1>1 DEF Answers, CheckRecord, CheckFields
<1>2. ASSUME NEW i \in Checks, check' = [check EXCEPT ![i] = IdleCheck]
      PROVE  \A k \in Checks : ~Answers(k)
  BY <1>0, <1>2 DEF Answers
<1>3. CASE \E i \in Checks : GateObserves(i)
  <2>1. PICK i \in Checks : GateObserves(i)
    BY <1>3
  <2>2. check[i].stage \in Told
    BY <2>1 DEF GateObserves, Told
  <2>3. CASE issued' = issued /\ (\/ Unavailable(i)
                                  \/ check' = [check EXCEPT ![i] = [@ EXCEPT !.stage = "repair"]])
    BY <1>1, <1>2, <2>3 DEF Unavailable
  <2>4. CASE Answer(i) /\ redis[check[i].agent] = check[i].expected
    <3>1. redis' = redis /\ transitions' = transitions /\ agent' = agent
      BY <2>1 DEF GateObserves, durable, broker
    <3>2. \A k \in Checks \ {i} : check'[k] = check[k]
      BY <1>0, <2>4 DEF Answer
    <3> QED
      BY <2>2, <2>4, <3>1, <3>2 DEF Answer, Answered, Answers, Signed
  <2> QED
    BY <2>1, <2>3, <2>4 DEF GateObserves, Agrees
<1>4. CASE \E i \in Checks : \E a \in Agents : ReadScope(i, a)
  <2>1. PICK i \in Checks, a \in Agents : ReadScope(i, a)
    BY <1>4
  <2>2. /\ check' = [check EXCEPT ![i] = [IdleCheck EXCEPT
                !.stage = "scope", !.agent = a, !.scope = agent[a].version, !.floor = Latest(a)]]
        /\ issued' = issued
    BY <2>1 DEF ReadScope
  <2>3. check'[i].stage = "scope" /\ \A k \in Checks \ {i} : check'[k] = check[k]
    BY <1>0, <2>2 DEF IdleCheck
  <2> QED
    BY <2>2, <2>3 DEF Answers
<1>5. CASE \E i \in Checks : GateReadsAgent(i)
  <2>1. PICK i \in Checks : GateReadsAgent(i)
    BY <1>5
  <2>2. PICK row : check' = [check EXCEPT ![i] = [@ EXCEPT !.stage = "agent", !.row = row]]
    BY <2>1 DEF GateReadsAgent
  <2>3. check'[i].stage = "agent" /\ \A k \in Checks \ {i} : check'[k] = check[k]
    BY <1>0, <2>2 DEF CheckRecord, CheckFields
  <2> QED
    BY <2>1, <2>3 DEF Answers, GateReadsAgent
<1>6. CASE \E i \in Checks : GateReadsLatest(i)
  <2>1. PICK i \in Checks : GateReadsLatest(i)
    BY <1>6
  <2>2. CASE Unavailable(i)
    BY <1>2, <2>1, <2>2 DEF Unavailable, GateReadsLatest
  <2>3. CASE ~Unavailable(i)
    <3>1. PICK s : check' = [check EXCEPT ![i] = [@ EXCEPT !.stage = "read", !.expected = s]]
      BY <2>1, <2>3 DEF GateReadsLatest
    <3>2. check'[i].stage = "read" /\ \A k \in Checks \ {i} : check'[k] = check[k]
      BY <1>0, <3>1 DEF CheckRecord, CheckFields
    <3> QED
      BY <2>1, <3>2 DEF Answers, GateReadsLatest
  <2> QED
    BY <2>2, <2>3
<1>7. CASE \E i \in Checks : GateRepairs(i) \/ GateCannotRepair(i) \/ CheckReturns(i)
  <2>1. PICK i \in Checks : GateRepairs(i) \/ GateCannotRepair(i) \/ CheckReturns(i)
    BY <1>7
  <2>2. /\ \/ check' = [check EXCEPT ![i] = [@ EXCEPT !.stage = "reread"]]
           \/ check' = [check EXCEPT ![i] = IdleCheck]
        /\ issued' = issued
    BY <2>1 DEF GateRepairs, GateCannotRepair, CheckReturns, Unavailable
  <2> QED
    BY <1>1, <1>2, <2>2
<1>8. CASE ~\E i \in Checks : GateStep(i) \/ \E a \in Agents : ReadScope(i, a)
  <2>1. UNCHANGED <<check, issued>>
    BY <1>8 DEF Next, vars, gate, Change, WorkerStep, ListPending, Project, ProjectFails,
       GiveUp, Crash, Finalize, FinalizeAgain, Apply, RedisStep, RedisGoesDown, RedisComesBack,
       RedisForgets, Deliver, LoseMessage, InventoryStep, BeginEdit, RollBackEdit, CommitEdit
  <2> QED
    BY <2>1 DEF Answers
<1> QED
  BY <1>3, <1>4, <1>5, <1>6, <1>7, <1>8 DEF GateStep

Kept == /\ Projected /\ Times /\ Shown /\ ConfirmedStands
        /\ \A k \in Checks : Reads(k)

LEMMA InitKept == Init => Kept
<1> SUFFICES ASSUME Init PROVE Kept
  OBVIOUS
<1>1. Projected
  BY InitProjected
<1>2. \A a \in Agents : Latest(a) = 0
  BY DEF Init, Latest
<1>3. Times /\ ConfirmedStands /\ Shown
  BY <1>2 DEF Init, Times, ConfirmedStands, Shown
<1>4. \A k \in Checks : Reads(k)
  BY DEF Init, Reads, IdleCheck, Told
<1> QED
  BY <1>1, <1>3, <1>4 DEF Kept

LEMMA NextKept ==
    ASSUME MaxLosses = 0, Kept, [Next]_vars
    PROVE  Kept'
<1>1. Projected'
  BY NextProjected DEF Kept
<1>2. Recorded
  BY DEF Kept, Projected
<1>3. Times' /\ Shown' /\ ConfirmedStands'
  BY <1>2, NextTimes, NextShown, NextConfirmed DEF Kept
<1>4. \A k \in Checks : Reads(k)'
  BY <1>2, NextReads DEF Kept
<1> QED
  BY <1>1, <1>3, <1>4 DEF Kept

\* While Redis keeps its keys, what a caller was told is applied is applied, and
\* the projection is at least as new, whatever outages, late writes, crashes and
\* inventory edits come in between (_finalize_transition, project).
THEOREM ConfirmedStandsHolds ==
    ASSUME MaxLosses = 0
    PROVE  Spec => []ConfirmedStands
<1>1. Kept /\ [Next]_vars => Kept'
  BY NextKept
<1>2. Kept => ConfirmedStands
  BY DEF Kept
<1> QED
  BY InitKept, <1>1, <1>2, PTL DEF Spec

LEMMA AnswersAreCurrent ==
    ASSUME Kept, [Next]_vars, NEW k \in Checks, Answers(k)
    PROVE  LET seen == check[k].expected
           IN  /\ seen.epoch >= check[k].floor
               /\ seen.epoch >= confirmed[check[k].agent]
               /\ seen.epoch > 0 =>
                     /\ transitions[check[k].agent][seen.epoch].status = "applied"
                     /\ transitions[check[k].agent][seen.epoch].target = seen.state
<1> USE DEF Kept, Projected, Recorded
<1>1. Answered(k)
  BY AnswerMoves
<1>2. PICK a \in Agents : a = check[k].agent
  BY CheckTypes
<1>3. PICK s \in Snapshot : s = check[k].expected /\ s.epoch \in Nat
  BY <1>1, CheckTypes DEF Answered
<1>4. redis[a] = s /\ Justified(a, s)
  BY <1>1, <1>2, <1>3 DEF Answered, JustifiedEverywhere
<1>5. check[k].floor \in Nat /\ confirmed[a] \in Nat /\ Latest(a) \in Nat
  BY CheckTypes, LatestType DEF Typed, TypeOK
<1>6. check[k].floor <= s.epoch /\ (s.epoch > 0 => transitions[a][s.epoch].status = "applied")
  BY <1>1, <1>2, <1>3 DEF Answered, Reads
<1>7. confirmed[a] <= s.epoch
  BY <1>3, <1>4, <1>5 DEF ConfirmedStands
<1>8. s.epoch > 0 => transitions[a][s.epoch].target = s.state
  BY <1>4 DEF Justified, SnapshotFor, Row
<1> QED
  BY <1>2, <1>3, <1>5, <1>6, <1>7, <1>8

\* While Redis keeps its keys, a gate call never answers on evidence older than
\* the transitions of when it began, or than a confirmation somebody has
\* (state_for).
THEOREM GateIsCurrentHolds ==
    ASSUME MaxLosses = 0
    PROVE  Spec => GateIsCurrent
<1>1. Kept /\ [Next]_vars => Kept'
  BY NextKept
<1>2. Kept /\ [Next]_vars =>
        [\A k \in Checks : Answers(k) =>
          LET seen == check[k].expected
          IN  /\ seen.epoch >= check[k].floor
              /\ seen.epoch >= confirmed[check[k].agent]
              /\ seen.epoch > 0 =>
                    /\ transitions[check[k].agent][seen.epoch].status = "applied"
                    /\ transitions[check[k].agent][seen.epoch].target = seen.state]_vars
  BY AnswersAreCurrent
<1> QED
  BY InitKept, <1>1, <1>2, PTL DEF Spec, GateIsCurrent

-----------------------------------------------------------------------------
(* Versions and floors.  The inventory writes the version it read plus     *)
(* one, whatever happened since; what can have happened is one Finalize,   *)
(* since a new transition waits for the AISystem row.  So the version of   *)
(* an Agent never goes back, and the floors that transitions record bound  *)
(* what was signed before them.                                            *)

\* An open edit has read the present version, or the one before it.
EditIsRecent(a) ==
    edit[a] # NoEdit => /\ edit[a] <= agent[a].version
                        /\ agent[a].version <= edit[a] + 1
                        /\ Pending(a) => agent[a].version = edit[a]

\* A transition revokes the version it found, and applying it leaves that behind.
FloorsBelow(a) ==
    \A e \in 1..Latest(a) :
        /\ transitions[a][e].revoked <= agent[a].version
        /\ transitions[a][e].status = "applied" => transitions[a][e].revoked < agent[a].version

Ordered(a) == EditIsRecent(a) /\ FloorsBelow(a)

\* Every transition of a later than the epoch revokes the version.
RevokedAfter(a, epoch, version) ==
    \A f \in 1..Latest(a) : f > epoch => version <= transitions[a][f].revoked

Scoped(k) ==
    /\ check[k].stage # "idle" => check[k].scope <= agent[check[k].agent].version
    /\ check[k].stage \in Told =>
          RevokedAfter(check[k].agent, check[k].expected.epoch, check[k].scope)

\* Whatever is requested after an authorization was signed revokes it.
Covered(i) ==
    /\ i.version <= agent[i.agent].version
    /\ RevokedAfter(i.agent, i.epoch, i.version)
    /\ i.epoch <= redis[i.agent].epoch

Versions ==
    /\ \A a \in Agents : Ordered(a)
    /\ \A k \in Checks : Scoped(k)
    /\ \A i \in issued : Covered(i)

LEMMA VersionTypes ==
    ASSUME Recorded, [Next]_vars, NEW a \in Agents
    PROVE  /\ agent[a].version \in Nat /\ agent'[a].version \in Nat
           /\ edit[a] \in Nat \cup {NoEdit} /\ edit'[a] \in Nat \cup {NoEdit}
           /\ Latest(a) \in Nat
           /\ \A e \in 1..Latest(a) : /\ transitions[a][e].revoked \in Nat
                                      /\ transitions'[a][e].revoked = transitions[a][e].revoked
<1>1. Typed /\ Typed'
  BY NextTyped DEF Recorded
<1> QED
  BY <1>1, LatestType, RowType, TransitionsStay DEF Typed, TypeOK, AgentRow, TransitionRow

LEMMA RecordingOrdered ==
    ASSUME Recorded, [Next]_vars, NEW a \in Agents, Recording(a), Ordered(a)
    PROVE  Ordered(a)'
<1>1. EditIsRecent(a)'
  BY DEF Recording, EditIsRecent
<1>2. FloorsBelow(a)'
  <2>1. SUFFICES ASSUME NEW e \in 1..Latest(a)'
                 PROVE  /\ transitions'[a][e].revoked <= agent'[a].version
                        /\ transitions'[a][e].status = "applied" =>
                              transitions'[a][e].revoked < agent'[a].version
    BY DEF FloorsBelow
  <2>2. e \in 1..Latest(a) \/ e = Latest(a)'
    BY VersionTypes DEF Recording
  <2>3. CASE e \in 1..Latest(a)
    BY <2>3 DEF Recording, Ordered, FloorsBelow
  <2>4. CASE e = Latest(a)'
    <3>1. transitions'[a][e].status = "pending"
      BY <2>4 DEF Recording, Pending, Latest
    <3>2. transitions'[a][e].revoked = agent'[a].version
      BY <2>4 DEF Recording
    <3> QED
      BY <3>1, <3>2, VersionTypes
  <2> QED
    BY <2>2, <2>3, <2>4
<1> QED
  BY <1>1, <1>2 DEF Ordered

LEMMA NextOrdered ==
    ASSUME Recorded, [Next]_vars, NEW b \in Agents, Ordered(b)
    PROVE  Ordered(b)' /\ agent[b].version <= agent'[b].version
<1> DEFINE v == agent[b].version
           v2 == agent'[b].version
<1>0. /\ v \in Nat /\ v2 \in Nat /\ edit[b] \in Nat \cup {NoEdit} /\ Latest(b) \in Nat
      /\ \A e \in 1..Latest(b) : /\ transitions[b][e].revoked \in Nat
                                 /\ transitions'[b][e].revoked = transitions[b][e].revoked
  BY VersionTypes
<1>1. ASSUME transitions'[b] = transitions[b], agent'[b] = agent[b], edit'[b] = edit[b]
      PROVE  Ordered(b)' /\ v <= v2
  BY <1>0, <1>1 DEF Ordered, EditIsRecent, FloorsBelow, Pending, Latest
<1>2. CASE \E a \in Agents : Recording(a)
  <2>1. PICK a \in Agents : Recording(a)
    BY <1>2
  <2>2. agent' = agent /\ edit' = edit /\ \A c \in Agents \ {a} : transitions'[c] = transitions[c]
    BY <2>1 DEF Recording
  <2>3. CASE b = a
    <3>1. Ordered(b)'
      BY <2>1, <2>3, RecordingOrdered
    <3> QED
      BY <1>0, <2>2, <3>1
  <2>4. CASE b # a
    BY <1>1, <2>2, <2>4
  <2> QED
    BY <2>3, <2>4
<1>3. CASE \E a \in Agents : \E w \in Workers : \E j \in jobs[w] : Completed(a, w, j)
  <2>1. PICK a \in Agents : \E w \in Workers : \E j \in jobs[w] : Completed(a, w, j)
    BY <1>3
  <2>2. /\ Pending(a) /\ ~Pending(a)' /\ Latest(a)' = Latest(a) /\ edit' = edit
        /\ agent'[a].version = agent[a].version + 1
        /\ \A c \in Agents \ {a} : transitions'[c] = transitions[c] /\ agent'[c] = agent[c]
    BY <2>1 DEF Completed
  <2>3. CASE b = a
    <3>1. EditIsRecent(b)'
      BY <1>0, <2>2, <2>3 DEF Ordered, EditIsRecent
    <3>2. FloorsBelow(b)'
      BY <1>0, <2>2, <2>3 DEF Ordered, FloorsBelow
    <3> QED
      BY <1>0, <2>2, <2>3, <3>1, <3>2 DEF Ordered
  <2>4. CASE b # a
    BY <1>1, <2>2, <2>4
  <2> QED
    BY <2>3, <2>4
<1>4. CASE Rests
  <2>1. transitions'[b] = transitions[b] /\ Rewritten(b)
    BY <1>4 DEF Rests
  <2>2. Latest(b)' = Latest(b) /\ Pending(b)' = Pending(b)
    BY <2>1 DEF Latest, Pending
  <2>3. v <= v2 /\ EditIsRecent(b)'
    BY <1>0, <2>1, <2>2 DEF Rewritten, Ordered, EditIsRecent, NoEdit
  <2>4. FloorsBelow(b)'
    BY <1>0, <2>1, <2>2, <2>3 DEF Ordered, FloorsBelow
  <2> QED
    BY <2>3, <2>4 DEF Ordered
<1> QED
  BY <1>2, <1>3, <1>4, HistoryMoves

\* What a transition requested now would revoke, every later one revokes.
LEMMA RevokedLater ==
    ASSUME Recorded, [Next]_vars, NEW a \in Agents, NEW epoch, NEW version \in Nat,
           version <= agent[a].version, RevokedAfter(a, epoch, version)
    PROVE  RevokedAfter(a, epoch, version)'
<1>1. SUFFICES ASSUME NEW f \in 1..Latest(a)', f > epoch
               PROVE  version <= transitions'[a][f].revoked
  BY DEF RevokedAfter
<1>2. CASE f \in 1..Latest(a)
  BY <1>1, <1>2, VersionTypes DEF RevokedAfter
<1>3. CASE f \notin 1..Latest(a)
  <2>1. PICK b \in Agents : Recording(b)
    <3>1. CASE Rests
      BY <1>3, <3>1 DEF Rests, Latest
    <3>2. CASE \E b \in Agents : \E w \in Workers : \E j \in jobs[w] : Completed(b, w, j)
      BY <1>3, <3>2 DEF Completed, Latest
    <3> QED
      BY <3>1, <3>2, HistoryMoves
  <2>2. b = a
    BY <1>3, <2>1 DEF Recording, Latest
  <2>3. f = Latest(a) + 1
    BY <1>3, <2>1, <2>2, VersionTypes DEF Recording
  <2> QED
    BY <2>1, <2>2, <2>3 DEF Recording
<1> QED
  BY <1>2, <1>3

LEMMA NextScoped ==
    ASSUME Recorded, [Next]_vars, \A a \in Agents : Ordered(a), NEW k \in Checks, Scoped(k)
    PROVE  Scoped(k)'
<1> USE DEF Recorded
<1>a. PICK a \in Agents : a = check[k].agent
  BY CheckTypes
<1>0. /\ check[k].scope \in Nat /\ agent[a].version \in Nat /\ Latest(a) \in Nat
      /\ agent[a].version <= agent'[a].version /\ agent'[a].version \in Nat
  BY CheckTypes, VersionTypes, NextOrdered
<1>1. CASE check'[k] = check[k] \/ (Brings(k) /\ check[k].stage \in Told /\ check'[k].stage \in Told)
  <2>1. /\ check'[k].agent = a /\ check'[k].scope = check[k].scope
        /\ check'[k].expected = check[k].expected
        /\ check'[k].stage \in Told => check[k].stage \in Told
        /\ check'[k].stage # "idle" => check[k].stage # "idle"
    BY <1>a, <1>1 DEF Brings, Told
  <2>2. /\ check[k].stage # "idle" => check[k].scope <= agent[a].version
        /\ check[k].stage \in Told => RevokedAfter(a, check[k].expected.epoch, check[k].scope)
    BY <1>a DEF Scoped
  <2>3. check'[k].stage # "idle" => check'[k].scope <= agent'[a].version
    BY <1>0, <2>1, <2>2
  <2>4. ASSUME check'[k].stage \in Told
        PROVE  RevokedAfter(a, check[k].expected.epoch, check[k].scope)'
    <3>1. PICK epoch, version : epoch = check[k].expected.epoch /\ version = check[k].scope
      OBVIOUS
    <3>2. check[k].stage \in Told /\ check[k].stage # "idle"
      BY <2>1, <2>4 DEF Told
    <3>3. RevokedAfter(a, epoch, version)'
      BY <1>0, <2>2, <3>1, <3>2, RevokedLater
    <3> QED
      BY <2>1, <3>1, <3>3 DEF RevokedAfter
  <2> QED
    BY <2>1, <2>3, <2>4 DEF Scoped, RevokedAfter, Latest
<1>2. CASE check'[k].stage = "idle"
  BY <1>2 DEF Scoped, Told
<1>3. CASE \E b \in Agents : Begins(k, b)
  <2>1. PICK b \in Agents : Begins(k, b)
    BY <1>3
  <2>2. agent[b].version \in Nat
    BY VersionTypes
  <2> QED
    BY <2>1, <2>2 DEF Begins, Scoped, Told
<1>4. CASE ReadsRow(k)
  BY <1>a, <1>4 DEF ReadsRow, Brings, Scoped, Told
<1>5. CASE Expects(k)
  <2>1. /\ check'[k].agent = a /\ check'[k].scope = check[k].scope /\ check'[k].stage = "read"
        /\ check'[k].expected = DurableSnapshot(a, check[k].row)
        /\ agent' = agent /\ transitions' = transitions
    BY <1>a, <1>5 DEF Expects
  <2>2. check[k].scope <= agent[a].version
    BY <1>a, <1>5 DEF Expects, Scoped
  <2>3. check'[k].expected.epoch = Latest(a) /\ Latest(a)' = Latest(a)
    BY <2>1 DEF DurableSnapshot, Latest
  <2>4. ASSUME NEW f \in 1..Latest(a)'
        PROVE  ~(f > check'[k].expected.epoch)
    BY <1>0, <2>3
  <2>5. RevokedAfter(check[k].agent, check[k].expected.epoch, check[k].scope)'
    BY <2>1, <2>4 DEF RevokedAfter
  <2> QED
    BY <2>1, <2>2, <2>5 DEF Scoped
<1> QED
  BY <1>1, <1>2, <1>3, <1>4, <1>5, CheckMoves

LEMMA NextCovered ==
    ASSUME MaxLosses = 0, Recorded, [Next]_vars, \A a \in Agents : Ordered(a),
           \A k \in Checks : Scoped(k), \A i \in issued : Covered(i)
    PROVE  \A i \in issued' : Covered(i)'
<1> USE DEF Recorded
<1>1. ASSUME NEW i \in issued
      PROVE  Covered(i)'
  <2>1. i.agent \in Agents /\ i.epoch \in Nat /\ i.version \in Nat
    BY DEF Typed, TypeOK, Authorization
  <2>2. redis[i.agent].epoch <= redis'[i.agent].epoch
    BY <2>1, ProjectionGrows
  <2>3. redis[i.agent].epoch \in Int /\ redis'[i.agent].epoch \in Int
    BY <2>1, EpochTypes
  <2>4. i.version <= agent'[i.agent].version
    BY <2>1, VersionTypes, NextOrdered DEF Covered
  <2>5. RevokedAfter(i.agent, i.epoch, i.version)'
    BY <2>1, RevokedLater DEF Covered
  <2> QED
    BY <2>1, <2>2, <2>3, <2>4, <2>5 DEF Covered
<1>2. ASSUME NEW k \in Checks, Answered(k), NEW i, i = Signed(k)
      PROVE  Covered(i)'
  <2>1. PICK a \in Agents : a = check[k].agent
    BY CheckTypes
  <2>2. /\ check[k].scope <= agent[a].version
        /\ RevokedAfter(a, check[k].expected.epoch, check[k].scope)
        /\ redis'[a] = check[k].expected /\ transitions' = transitions /\ agent' = agent
    BY <1>2, <2>1 DEF Answered, Scoped, Told
  <2>3. check[k].expected.epoch \in Nat
    BY <1>2, CheckTypes DEF Answered
  <2>4. i.agent = a /\ i.version = check[k].scope /\ i.epoch = check[k].expected.epoch
    BY <1>2, <2>1 DEF Signed
  <2> QED
    BY <2>2, <2>3, <2>4 DEF Covered, RevokedAfter, Latest
<1>3. CASE issued' = issued
  BY <1>1, <1>3
<1>4. CASE \E k \in Checks : Answered(k)
  <2>1. PICK k \in Checks : Answered(k)
    BY <1>4
  <2>2. issued' \subseteq issued \cup {Signed(k)}
    BY <2>1 DEF Answered
  <2> QED
    BY <1>1, <1>2, <2>1, <2>2
<1> QED
  BY <1>3, <1>4, AnswerMoves

LEMMA InitVersions == Init => Versions
<1> SUFFICES ASSUME Init PROVE Versions
  OBVIOUS
<1>1. \A a \in Agents : Latest(a) = 0 /\ ~Pending(a)
  BY DEF Init, Latest, Pending
<1>2. \A a \in Agents : Ordered(a)
  BY <1>1 DEF Init, Ordered, EditIsRecent, FloorsBelow
<1>3. (\A k \in Checks : Scoped(k)) /\ (\A i \in issued : Covered(i))
  BY DEF Init, Scoped, IdleCheck, Told
<1> QED
  BY <1>2, <1>3 DEF Versions

LEMMA NextVersions ==
    ASSUME MaxLosses = 0, Kept, Versions, [Next]_vars
    PROVE  Versions'
BY NextOrdered, NextScoped, NextCovered DEF Kept, Projected, Versions

LEMMA RevokedForEver ==
    ASSUME Kept, Versions
    PROVE  AuthorizationsStayRevoked
<1> SUFFICES ASSUME NEW i \in issued, confirmed[i.agent] > i.epoch, RouterAccepts(i)
             PROVE  FALSE
  BY DEF AuthorizationsStayRevoked
<1> USE DEF Kept, Projected, Recorded
<1>1. PICK a \in Agents : a = i.agent
  BY DEF Typed, TypeOK, Authorization
<1>2. i.version \in Nat /\ i.epoch \in Nat /\ confirmed[a] \in Nat /\ Latest(a) \in Nat
  BY <1>1, LatestType DEF Typed, TypeOK, Authorization
<1>3. PICK s \in Snapshot : s = redis[a]
  BY <1>1 DEF RouterAccepts, Typed, TypeOK
<1>4. s.epoch \in Nat
  BY DEF Snapshot
<1>5. confirmed[a] <= s.epoch
  BY <1>1, <1>2, <1>3 DEF ConfirmedStands
<1>6. s.epoch \in 1..Latest(a) /\ s.revoked = transitions[a][s.epoch].revoked
  <2>1. Justified(a, s)
    BY <1>3 DEF JustifiedEverywhere
  <2>2. s.epoch > 0
    BY <1>1, <1>2, <1>4, <1>5
  <2> QED
    BY <1>2, <1>4, <2>1, <2>2 DEF Justified, SnapshotFor, Row
<1>7. i.version > s.revoked
  BY <1>1, <1>3 DEF RouterAccepts
<1>8. s.epoch > i.epoch
  BY <1>1, <1>2, <1>4, <1>5
<1>9. i.version <= s.revoked
  BY <1>1, <1>6, <1>8 DEF Versions, Covered, RevokedAfter
<1> QED
  BY <1>2, <1>7, <1>9 DEF Snapshot

\* While Redis keeps its keys a confirmed stop kills every authorization signed
\* before it, and no restore, late write, crash, repair or inventory edit revives
\* one (_change, project).
THEOREM AuthorizationsStayRevokedHolds ==
    ASSUME MaxLosses = 0
    PROVE  Spec => []AuthorizationsStayRevoked
<1>1. Kept /\ Versions /\ [Next]_vars => Kept' /\ Versions'
  BY NextKept, NextVersions
<1>2. Init => Kept /\ Versions
  BY InitKept, InitVersions
<1>3. Kept /\ Versions => AuthorizationsStayRevoked
  BY RevokedForEver
<1> QED
  BY <1>1, <1>2, <1>3, PTL DEF Spec

-----------------------------------------------------------------------------
(* The refinement of KillSwitch. *)

\* The state before the first transition.
Original(a) == IF Latest(a) = 0 THEN StateOf(agent[a]) ELSE transitions[a][1].previous

LEMMA OriginalStays ==
    ASSUME Recorded, [Next]_vars, NEW a \in Agents
    PROVE  /\ Original(a)' = Original(a)
           /\ Latest(a)' = 0 => Latest(a) = 0 /\ agent'[a].engaged = agent[a].engaged
<1>0. Latest(a) \in Nat /\ Latest(a)' \in Nat /\ Latest(a) <= Latest(a)'
  BY EpochTypes
<1>1. ASSUME Latest(a) > 0
      PROVE  Original(a)' = Original(a) /\ Latest(a)' > 0
  <2>1. 1 \in 1..Latest(a)
    BY <1>0, <1>1
  <2>2. transitions'[a][1].previous = transitions[a][1].previous
    BY <2>1, TransitionsStay
  <2> QED
    BY <1>0, <1>1, <2>2 DEF Original
<1>2. CASE \E c \in Agents : Recording(c)
  <2>1. PICK c \in Agents : Recording(c)
    BY <1>2
  <2>2. CASE c = a /\ Latest(a) = 0
    <3>1. Pending(a)' /\ Latest(a)' = 1 /\ agent' = agent
      BY <2>1, <2>2 DEF Recording
    <3>2. StateOf(agent'[a]) = transitions'[a][1].previous
      BY <3>1, NextRecorded DEF Recorded, DurableEvidence
    <3> QED
      BY <2>2, <3>1, <3>2 DEF Original
  <2>3. CASE c # a
    BY <1>0, <2>1, <2>3 DEF Recording, Original, Latest
  <2> QED
    BY <1>0, <1>1, <2>1, <2>2, <2>3 DEF Recording
<1>3. CASE \E c \in Agents : \E w \in Workers : \E j \in jobs[w] : Completed(c, w, j)
  <2>1. PICK c \in Agents : \E w \in Workers : \E j \in jobs[w] : Completed(c, w, j)
    BY <1>3
  <2>2. /\ Latest(c) > 0
        /\ \A b \in Agents \ {c} : transitions'[b] = transitions[b] /\ agent'[b] = agent[b]
    BY <2>1 DEF Completed
  <2>3. CASE c # a
    BY <2>2, <2>3 DEF Original, Latest
  <2> QED
    BY <1>0, <1>1, <2>2, <2>3
<1>4. CASE Rests
  BY <1>4 DEF Rests, Original, Latest, StateOf
<1> QED
  BY <1>2, <1>3, <1>4, HistoryMoves

\* Where a snapshot on its way to Redis comes from.
Source(a, s) ==
    \/ s.epoch >= 1
    \/ [agent |-> a, snapshot |-> s] \in wire
    \/ \E k \in Checks : /\ check[k].stage \in Told
                         /\ check[k].agent = a /\ check[k].expected = s

\* A write of the projection that takes effect.
Written(a, s) ==
    /\ redis' = [redis EXCEPT ![a] = s]
    /\ s.epoch > redis[a].epoch /\ Source(a, s) /\ Justified(a, s)
    /\ agent' = agent /\ transitions' = transitions /\ issued' = issued

LEMMA ProjectionMoves ==
    ASSUME MaxLosses = 0, Projected, [Next]_vars
    PROVE  redis' = redis \/ \E a \in Agents, s \in Snapshot : Written(a, s)
<1> USE DEF Projected, Recorded
<1>1. ASSUME NEW a \in Agents, NEW s \in Snapshot, CompareAndSet(a, s), Source(a, s), Justified(a, s),
             agent' = agent, transitions' = transitions, issued' = issued
      PROVE  redis' = redis \/ \E b \in Agents, t \in Snapshot : Written(b, t)
  BY <1>1 DEF CompareAndSet, Newer, Written
<1>2. CASE \E w \in Workers : \E j \in jobs[w] : Project(w, j)
  <2>1. PICK w \in Workers : \E j \in jobs[w] : Project(w, j)
    BY <1>2
  <2>2. PICK j \in jobs[w] : Project(w, j)
    BY <2>1
  <2>3. j.agent \in Agents /\ SnapshotFor(j) \in Snapshot /\ Justified(j.agent, SnapshotFor(j))
    BY JobExists, SnapshotForType, SnapshotForJustified DEF Typed
  <2>4. Source(j.agent, SnapshotFor(j))
    BY JobExists DEF Source, SnapshotFor
  <2>5. CompareAndSet(j.agent, SnapshotFor(j)) /\ agent' = agent /\ transitions' = transitions
        /\ issued' = issued
    BY <2>2 DEF Project, ProjectAcknowledged, durable, gate
  <2> QED
    BY <1>1, <2>3, <2>4, <2>5
<1>3. CASE \E k \in Checks : GateRepairs(k)
  <2>1. PICK k \in Checks : GateRepairs(k)
    BY <1>3
  <2>2. /\ CompareAndSet(check[k].agent, check[k].expected) /\ check[k].stage \in Told
        /\ agent' = agent /\ transitions' = transitions /\ issued' = issued
    BY <2>1 DEF GateRepairs, ProjectAcknowledged, Told, durable
  <2>3. /\ check[k].agent \in Agents /\ check[k].expected \in Snapshot
        /\ Justified(check[k].agent, check[k].expected)
    BY <2>2, CheckTypes DEF JustifiedEverywhere
  <2>4. Source(check[k].agent, check[k].expected)
    BY <2>2 DEF Source
  <2> QED
    BY <1>1, <2>2, <2>3, <2>4
<1>4. CASE \E m \in wire : Deliver(m)
  <2>1. PICK m \in wire : Deliver(m)
    BY <1>4
  <2>2. /\ m.agent \in Agents /\ m.snapshot \in Snapshot
        /\ m = [agent |-> m.agent, snapshot |-> m.snapshot]
    BY DEF Typed, TypeOK
  <2>3. Justified(m.agent, m.snapshot) /\ Source(m.agent, m.snapshot)
    BY <2>2 DEF JustifiedEverywhere, Source
  <2> QED
    BY <1>1, <2>1, <2>2, <2>3 DEF Deliver, durable, gate
<1>5. CASE /\ ~\E w \in Workers : \E j \in jobs[w] : Project(w, j)
           /\ ~\E k \in Checks : GateRepairs(k)
           /\ ~\E m \in wire : Deliver(m)
  <2>1. ~\E b \in Agents : RedisForgets(b)
    BY DEF RedisForgets, Typed, TypeOK
  <2>2. UNCHANGED redis
    BY <1>5, <2>1 DEF Next, vars, broker, Change, WorkerStep, ListPending, ProjectFails,
       ProjectRefused, ProjectTimesOut, Crash, Finalize,
       FinalizeAgain, GateStep, ReadScope, GateReadsAgent, GateReadsLatest, GateObserves,
       GateCannotRepair, CheckReturns, RedisStep, RedisGoesDown, RedisComesBack,
       LoseMessage, InventoryStep, BeginEdit, RollBackEdit, CommitEdit
  <2> QED
    BY <2>2
<1> QED
  BY <1>2, <1>3, <1>4, <1>5

LEMMA WireMoves ==
    ASSUME Typed, [Next]_vars, NEW m \in wire'
    PROVE  m.agent \in Agents /\ Source(m.agent, m.snapshot)
<1>1. ASSUME m \in wire
      PROVE  m.agent \in Agents /\ Source(m.agent, m.snapshot)
  <2>1. m.agent \in Agents /\ m = [agent |-> m.agent, snapshot |-> m.snapshot]
    BY <1>1 DEF Typed, TypeOK
  <2> QED
    BY <1>1, <2>1 DEF Source
<1>2. CASE \E w \in Workers : \E j \in jobs[w] : ProjectFails(w, j)
  <2>1. PICK w \in Workers : \E j \in jobs[w] : ProjectFails(w, j)
    BY <1>2
  <2>2. PICK j \in jobs[w] : ProjectFails(w, j)
    BY <2>1
  <2>3. wire' \subseteq wire \cup {[agent |-> j.agent, snapshot |-> SnapshotFor(j)]}
    BY <2>2 DEF ProjectFails, ProjectRefused, ProjectTimesOut, broker
  <2>4. j.agent \in Agents /\ Source(j.agent, SnapshotFor(j))
    BY JobExists DEF Source, SnapshotFor
  <2> QED
    BY <1>1, <2>3, <2>4
<1>3. CASE \E k \in Checks : GateCannotRepair(k)
  <2>1. PICK k \in Checks : GateCannotRepair(k)
    BY <1>3
  <2>2. wire' \subseteq wire \cup {[agent |-> check[k].agent, snapshot |-> check[k].expected]}
    BY <2>1 DEF GateCannotRepair, ProjectRefused, ProjectTimesOut, broker
  <2>3. check[k].stage \in Told
    BY <2>1 DEF GateCannotRepair, Told
  <2>4. check[k].agent \in Agents /\ Source(check[k].agent, check[k].expected)
    BY <2>3, CheckTypes DEF Source
  <2> QED
    BY <1>1, <2>2, <2>4
<1>4. CASE /\ ~\E w \in Workers : \E j \in jobs[w] : ProjectFails(w, j)
           /\ ~\E k \in Checks : GateCannotRepair(k)
  <2>1. wire' \subseteq wire
    BY <1>4 DEF Next, vars, broker, Change, WorkerStep, ListPending, Project, ProjectAcknowledged,
       Crash, Finalize, FinalizeAgain, GateStep, ReadScope, GateReadsAgent, GateReadsLatest,
       GateObserves, GateRepairs, CheckReturns, RedisStep, RedisGoesDown, RedisComesBack,
       RedisForgets, Deliver, LoseMessage, InventoryStep, BeginEdit, RollBackEdit, CommitEdit
  <2> QED
    BY <1>1, <2>1
<1> QED
  BY <1>2, <1>3, <1>4

\* A snapshot of epoch 0, wherever it is, shows the original state.
FromOriginal(a, s) == s.epoch = 0 => s.state = Original(a)
ReadsOriginal(k) ==
    /\ check[k].stage \in Told => FromOriginal(check[k].agent, check[k].expected)
    /\ check[k].stage = "agent" /\ Latest(check[k].agent) = 0 =>
           check[k].row.engaged = agent[check[k].agent].engaged
Originals ==
    /\ \A a \in Agents : FromOriginal(a, redis[a])
    /\ \A m \in wire : FromOriginal(m.agent, m.snapshot)
    /\ \A k \in Checks : ReadsOriginal(k)

LEMMA NextOriginals ==
    ASSUME MaxLosses = 0, Projected, Originals, [Next]_vars
    PROVE  Originals'
<1> USE DEF Projected, Recorded
<1>1. ASSUME NEW a \in Agents, NEW s, Source(a, s)
      PROVE  FromOriginal(a, s)'
  <2>1. FromOriginal(a, s)
    BY <1>1 DEF Source, Originals, FromOriginal, ReadsOriginal
  <2> QED
    BY <2>1, OriginalStays DEF FromOriginal
<1>2. ASSUME NEW a \in Agents
      PROVE  FromOriginal(a, redis[a])'
  <2>1. CASE redis' = redis
    BY <2>1, OriginalStays DEF Originals, FromOriginal
  <2>2. CASE \E b \in Agents, s \in Snapshot : Written(b, s)
    <3>1. PICK b \in Agents, s \in Snapshot : Written(b, s)
      BY <2>2
    <3>2. CASE a = b
      <4>1. redis'[a] = s /\ Source(a, s)
        BY <3>1, <3>2 DEF Written, Typed, TypeOK
      <4> QED
        BY <1>1, <4>1 DEF FromOriginal
    <3>3. CASE a # b
      <4>1. redis'[a] = redis[a]
        BY <3>1, <3>3 DEF Written, Typed, TypeOK
      <4> QED
        BY <4>1, OriginalStays DEF Originals, FromOriginal
    <3> QED
      BY <3>2, <3>3
  <2> QED
    BY <2>1, <2>2, ProjectionMoves
<1>3. ASSUME NEW m \in wire'
      PROVE  FromOriginal(m.agent, m.snapshot)'
  BY <1>1, WireMoves
<1>4. ASSUME NEW k \in Checks
      PROVE  ReadsOriginal(k)'
  <2>a. PICK a \in Agents : a = check[k].agent
    BY CheckTypes
  <2>0. /\ Original(a)' = Original(a)
        /\ Latest(a)' = 0 => Latest(a) = 0 /\ agent'[a].engaged = agent[a].engaged
    BY OriginalStays
  <2>1. CASE check'[k] = check[k]
    <3>1. Original(check[k].agent)' = Original(a)' /\ Latest(check[k].agent)' = Latest(a)'
      BY <2>a, <2>1 DEF Original, Latest
    <3> QED
      BY <2>a, <2>0, <2>1, <3>1 DEF Originals, ReadsOriginal, FromOriginal
  <2>2. CASE Brings(k) /\ check[k].stage \in Told /\ check'[k].stage \in Told
    <3>1. check'[k].agent = a /\ check'[k].expected = check[k].expected /\ check'[k].stage # "agent"
      BY <2>a, <2>2 DEF Brings, Told
    <3>2. Original(check[k].agent)' = Original(a)'
      BY <3>1 DEF Original, Latest
    <3> QED
      BY <2>a, <2>0, <2>2, <3>1, <3>2 DEF Originals, ReadsOriginal, FromOriginal
  <2>3. CASE check'[k].stage = "idle" \/ \E b \in Agents : Begins(k, b)
    BY <2>3 DEF ReadsOriginal, Begins, Told
  <2>4. CASE ReadsRow(k)
    BY <2>a, <2>4 DEF ReadsRow, Brings, ReadsOriginal, Told
  <2>5. CASE Expects(k)
    <3>1. /\ check'[k].agent = a /\ check'[k].stage = "read" /\ check[k].stage = "agent"
          /\ check'[k].expected = DurableSnapshot(a, check[k].row)
          /\ transitions' = transitions /\ agent' = agent
      BY <2>a, <2>5 DEF Expects
    <3>2. Original(check[k].agent)' = Original(a)
      BY <3>1 DEF Original, Latest
    <3>3. Latest(a) = 0 => StateOf(check[k].row) = Original(a)
      BY <2>a, <3>1 DEF Originals, ReadsOriginal, Original, StateOf
    <3>4. FromOriginal(a, DurableSnapshot(a, check[k].row))
      BY <3>3 DEF FromOriginal, DurableSnapshot
    <3> QED
      BY <3>1, <3>2, <3>4 DEF ReadsOriginal, FromOriginal
  <2> QED
    BY <2>1, <2>2, <2>3, <2>4, <2>5, CheckMoves
<1> QED
  BY <1>2, <1>3, <1>4 DEF Originals

\* What is applied has been projected.
AppliedShown == \A a \in Agents : \A e \in 1..Latest(a) :
                    transitions[a][e].status = "applied" => e <= redis[a].epoch

LEMMA NextAppliedShown ==
    ASSUME MaxLosses = 0, Recorded, Shown, AppliedShown, [Next]_vars
    PROVE  AppliedShown'
<1> SUFFICES ASSUME NEW a \in Agents, NEW e \in 1..Latest(a)', transitions'[a][e].status = "applied"
             PROVE  e <= redis'[a].epoch
  BY DEF AppliedShown
<1> USE DEF Recorded
<1>0. /\ redis[a].epoch \in Int /\ redis'[a].epoch \in Int /\ redis[a].epoch <= redis'[a].epoch
      /\ Latest(a) \in Nat /\ Latest(a)' \in Nat
  BY EpochTypes, ProjectionGrows
<1>1. ASSUME e \in 1..Latest(a), transitions[a][e].status = "applied"
      PROVE  e <= redis'[a].epoch
  BY <1>0, <1>1 DEF AppliedShown
<1>2. CASE \E c \in Agents : Recording(c)
  <2>1. PICK c \in Agents : Recording(c)
    BY <1>2
  <2>2. CASE c = a
    <3>1. transitions'[a][Latest(a)'].status = "pending" /\ Latest(a)' = Latest(a) + 1
      BY <2>1, <2>2 DEF Recording, Pending
    <3>2. e \in 1..Latest(a)
      BY <1>0, <3>1
    <3> QED
      BY <1>1, <2>1, <2>2, <3>2 DEF Recording
  <2>3. CASE c # a
    BY <1>1, <2>1, <2>3 DEF Recording, Latest
  <2> QED
    BY <2>2, <2>3
<1>3. CASE \E c \in Agents : \E w \in Workers : \E j \in jobs[w] : Completed(c, w, j)
  <2>1. PICK c \in Agents : \E w \in Workers : \E j \in jobs[w] : Completed(c, w, j)
    BY <1>3
  <2>2. CASE c = a
    <3>1. Latest(a) <= redis[a].epoch /\ Latest(a)' = Latest(a)
      BY <2>1, <2>2 DEF Completed, Shown
    <3> QED
      BY <1>0, <3>1
  <2>3. CASE c # a
    BY <1>1, <2>1, <2>3 DEF Completed, Latest
  <2> QED
    BY <2>2, <2>3
<1>4. CASE Rests
  BY <1>1, <1>4 DEF Rests, Latest
<1> QED
  BY <1>2, <1>3, <1>4, HistoryMoves

Mapped == Kept /\ Versions /\ Originals /\ AppliedShown

LEMMA InitMapped == Init => Mapped
<1> SUFFICES ASSUME Init PROVE Mapped
  OBVIOUS
<1>1. Kept /\ Versions
  BY InitKept, InitVersions
<1>2. \A a \in Agents : Latest(a) = 0
  BY DEF Init, Latest
<1>3. AppliedShown
  BY <1>2 DEF AppliedShown
<1>4. Originals
  BY DEF Init, Originals, FromOriginal, ReadsOriginal, NoSnapshot, IdleCheck, Told
<1> QED
  BY <1>1, <1>3, <1>4 DEF Mapped

LEMMA NextMapped ==
    ASSUME MaxLosses = 0, Mapped, [Next]_vars
    PROVE  Mapped'
<1> USE DEF Mapped
<1>1. Kept' /\ Versions'
  BY NextKept, NextVersions
<1>2. Projected /\ Recorded /\ Shown
  BY DEF Kept, Projected
<1>3. Originals' /\ AppliedShown'
  BY <1>2, NextOriginals, NextAppliedShown
<1> QED
  BY <1>1, <1>3

LEMMA Requests ==
    ASSUME Mapped, [Next]_vars, NEW a \in Agents, Recording(a)
    PROVE  \E target \in {"inactive", "active"} : Promise!Request(a, target)
<1>1. PICK target \in {"inactive", "active"} : target = transitions'[a][Latest(a) + 1].target
  BY DEF Recording, States
<1>2. /\ RequestedState(a) = "none" /\ target # StateOf(agent[a])
      /\ RequestedState(a)' = target
  BY <1>1 DEF Recording, RequestedState
<1>3. \A b \in Agents \ {a} : RequestedState(b)' = RequestedState(b)
  BY DEF Recording, RequestedState, Pending, Latest
<1>4. agent' = agent /\ redis' = redis /\ issued' = issued
  BY DEF Recording
<1>5. [b \in Agents |-> RequestedState(b)]'
        = [[b \in Agents |-> RequestedState(b)] EXCEPT ![a] = target]
  BY <1>2, <1>3
<1>6. /\ [b \in Agents |-> StateOf(agent[b])]' = [b \in Agents |-> StateOf(agent[b])]
      /\ [b \in Agents |-> EnforcedState(b)]' = [b \in Agents |-> EnforcedState(b)]
      /\ {i \in issued : RouterAccepts(i)}' = {i \in issued : RouterAccepts(i)}
  BY <1>4 DEF EnforcedState, RouterAccepts
<1> QED
  BY <1>2, <1>5, <1>6 DEF Promise!Request

LEMMA Completes ==
    ASSUME Mapped, [Next]_vars, NEW a \in Agents, NEW w \in Workers, NEW j \in jobs[w],
           Completed(a, w, j)
    PROVE  Promise!Complete(a)
<1> USE DEF Mapped, Kept, Projected, Recorded
<1> DEFINE target == transitions[a][Latest(a)].target
<1>1. /\ Latest(a) \in Nat /\ Latest(a) > 0 /\ transitions[a][Latest(a)] \in TransitionRow
      /\ redis[a].epoch \in Int
  <2>1. Recorded /\ TypeOK
    BY DEF Typed
  <2>2. /\ Latest(a) \in Nat /\ Latest(a) > 0 /\ redis[a].epoch \in Int
    BY <2>1, EpochTypes DEF Completed
  <2>3. Latest(a) \in 1..Latest(a)
    BY <2>2
  <2> QED
    BY <2>1, <2>2, <2>3, RowType
<1>2. redis[a].epoch = Latest(a) /\ redis[a].state = target /\ redis[a] # NoSnapshot
  <2>1. Latest(a) <= redis[a].epoch
    BY DEF Completed, Shown
  <2>2. Justified(a, redis[a])
    BY DEF JustifiedEverywhere
  <2> QED
    BY <1>1, <2>1, <2>2 DEF Justified, SnapshotFor, Row, NoSnapshot
<1>3. RequestedState(a) = target /\ RequestedState(a)' = "none" /\ EnforcedState(a) = target
  BY <1>2 DEF Completed, RequestedState, EnforcedState
<1>4. target # "none" /\ StateOf(agent'[a]) = target
  BY <1>1 DEF TransitionRow, States, Completed
<1>5. \A b \in Agents \ {a} : RequestedState(b)' = RequestedState(b) /\ agent'[b] = agent[b]
  BY DEF Completed, RequestedState, Pending, Latest
<1>6. redis' = redis /\ issued' = issued
  BY DEF Completed
<1>7. /\ [b \in Agents |-> StateOf(agent[b])]'
           = [[b \in Agents |-> StateOf(agent[b])] EXCEPT ![a] = target]
      /\ [b \in Agents |-> RequestedState(b)]'
           = [[b \in Agents |-> RequestedState(b)] EXCEPT ![a] = "none"]
  BY <1>3, <1>4, <1>5
<1>8. /\ [b \in Agents |-> EnforcedState(b)]' = [b \in Agents |-> EnforcedState(b)]
      /\ {i \in issued : RouterAccepts(i)}' = {i \in issued : RouterAccepts(i)}
  BY <1>6 DEF EnforcedState, RouterAccepts
<1> HIDE DEF target
<1> QED
  BY <1>3, <1>4, <1>7, <1>8 DEF Promise!Complete

LEMMA EnforcedElsewhere ==
    ASSUME Mapped, NEW a \in Agents, NEW s \in Snapshot, Written(a, s)
    PROVE  /\ [b \in Agents |-> StateOf(agent[b])]' = [b \in Agents |-> StateOf(agent[b])]
           /\ [b \in Agents |-> RequestedState(b)]' = [b \in Agents |-> RequestedState(b)]
           /\ [b \in Agents |-> EnforcedState(b)]'
                = [[b \in Agents |-> EnforcedState(b)] EXCEPT ![a] = s.state]
           /\ \A i \in issued : i.agent # a => RouterAccepts(i)' = RouterAccepts(i)
<1>1. redis'[a] = s /\ s # NoSnapshot /\ \A b \in Agents \ {a} : redis'[b] = redis[b]
  BY DEF Written, Mapped, Kept, Projected, Recorded, Typed, TypeOK, Snapshot, NoSnapshot
<1>2. EnforcedState(a)' = s.state /\ \A b \in Agents \ {a} : EnforcedState(b)' = EnforcedState(b)
  BY <1>1 DEF EnforcedState
<1>3. ASSUME NEW i \in issued, i.agent # a
      PROVE  RouterAccepts(i)' = RouterAccepts(i)
  <2>1. i.agent \in Agents
    BY DEF Mapped, Kept, Projected, Recorded, Typed, TypeOK, Authorization
  <2> QED
    BY <1>1, <1>3, <2>1 DEF RouterAccepts
<1>4. agent' = agent /\ transitions' = transitions
  BY DEF Written
<1>5. \A b \in Agents : RequestedState(b)' = RequestedState(b)
  BY <1>4 DEF RequestedState, Pending, Latest
<1> QED
  BY <1>2, <1>3, <1>4, <1>5

LEMMA Enforces ==
    ASSUME Mapped, NEW a \in Agents, NEW s \in Snapshot, Written(a, s), s.epoch >= 1
    PROVE  Promise!Enforce(a)
<1> USE DEF Mapped, Kept, Projected, Recorded
<1> DEFINE e == s.epoch
<1>1. /\ e \in Nat /\ Latest(a) \in Nat /\ redis[a].epoch \in Int /\ redis[a].epoch < e
      /\ redis[a] \in Snapshot \cup {NoSnapshot}
  BY LatestType DEF Written, Typed, TypeOK, Snapshot, NoSnapshot
<1>2. e \in 1..Latest(a) /\ s = SnapshotFor([agent |-> a, epoch |-> e])
  BY <1>1 DEF Written, Justified
<1>3. transitions[a][e] \in TransitionRow
  BY <1>2, RowType DEF Typed
<1>4. transitions[a][e].status = "pending"
  BY <1>1, <1>2, <1>3 DEF AppliedShown, TransitionRow, Statuses
<1>5. e = Latest(a) /\ Pending(a)
  BY <1>2, <1>4, PendingIsLatest
<1>6. /\ s.state = transitions[a][e].target /\ s.state # transitions[a][e].previous
      /\ s.state \in States /\ s.revoked = transitions[a][e].revoked
  BY <1>2, <1>3 DEF SnapshotFor, Row, TransitionRow, DurableEvidence
<1>7. RequestedState(a) = s.state /\ s.state # "none"
  BY <1>5, <1>6 DEF RequestedState, States
<1>8. EnforcedState(a) # s.state
  <2>1. CASE redis[a] = NoSnapshot
    BY <1>6, <2>1 DEF EnforcedState, States
  <2>2. CASE redis[a] # NoSnapshot /\ e = 1
    <3>1. redis[a].epoch = 0
      BY <1>1, <2>2 DEF Snapshot
    <3>2. redis[a].state = Original(a)
      BY <3>1 DEF Originals, FromOriginal
    <3>3. Original(a) = transitions[a][e].previous
      BY <1>1, <1>5, <2>2 DEF Original
    <3>4. EnforcedState(a) = redis[a].state
      BY <2>2 DEF EnforcedState
    <3> QED
      BY <1>6, <3>2, <3>3, <3>4
  <2>3. CASE redis[a] # NoSnapshot /\ e > 1
    <3>1. /\ e - 1 \in 1..Latest(a) /\ transitions[a][e - 1].status = "applied"
          /\ transitions[a][e].previous = transitions[a][e - 1].target
      BY <1>1, <1>2, <2>3 DEF DurableEvidence
    <3>2. e - 1 <= redis[a].epoch
      BY <3>1 DEF AppliedShown
    <3>3. redis[a].epoch = e - 1 /\ redis[a].epoch > 0
      BY <1>1, <2>3, <3>2
    <3>4. Justified(a, redis[a])
      BY DEF JustifiedEverywhere
    <3>5. redis[a].state = transitions[a][e - 1].target
      BY <3>3, <3>4 DEF Justified, SnapshotFor, Row
    <3>6. EnforcedState(a) = redis[a].state
      BY <2>3 DEF EnforcedState
    <3> QED
      BY <1>6, <3>1, <3>5, <3>6
  <2> QED
    BY <1>1, <1>2, <2>1, <2>2, <2>3
<1>9. {i \in issued : RouterAccepts(i)}' = {i \in {i \in issued : RouterAccepts(i)} : i.agent # a}
  <2>1. ASSUME NEW i \in issued, i.agent = a
        PROVE  ~RouterAccepts(i)'
    <3>1. /\ RevokedAfter(a, i.epoch, i.version) /\ i.epoch <= redis[a].epoch
          /\ i.version \in Nat /\ i.epoch \in Nat
      BY <2>1 DEF Versions, Covered, Typed, TypeOK, Authorization
    <3>2. i.version <= s.revoked
      <4>1. e > i.epoch
        BY <1>1, <3>1
      <4> QED
        BY <1>2, <1>6, <3>1, <4>1 DEF RevokedAfter
    <3>3. redis'[a] = s
      BY DEF Written, Typed, TypeOK
    <3>4. s.revoked \in Nat
      BY DEF Snapshot
    <3> QED
      BY <2>1, <3>1, <3>2, <3>3, <3>4 DEF RouterAccepts
  <2>2. \A i \in issued : i.agent # a => RouterAccepts(i)' = RouterAccepts(i)
    BY EnforcedElsewhere
  <2>3. issued' = issued
    BY DEF Written
  <2> QED
    BY <2>1, <2>2, <2>3
<1> HIDE DEF e
<1> QED
  BY <1>7, <1>8, <1>9, EnforcedElsewhere DEF Promise!Enforce

LEMMA Learns ==
    ASSUME Mapped, NEW a \in Agents, NEW s \in Snapshot, Written(a, s), ~(s.epoch >= 1)
    PROVE  Promise!Learn(a)
<1> USE DEF Mapped, Kept, Projected, Recorded
<1>1. s.epoch = 0 /\ redis[a] = NoSnapshot /\ redis[a].epoch = -1 /\ Latest(a) \in Nat
  <2>1. s.epoch = 0 /\ redis[a].epoch < 0 /\ redis[a] \in Snapshot \cup {NoSnapshot}
    BY DEF Written, Typed, TypeOK, Snapshot
  <2> QED
    BY <2>1, LatestType DEF Typed, Snapshot, NoSnapshot
<1>2. s.state = Original(a)
  BY <1>1 DEF Written, Source, Originals, ReadsOriginal, FromOriginal
<1>3. Original(a) = StateOf(agent[a])
  <2>1. CASE Latest(a) = 0
    BY <2>1 DEF Original
  <2>2. CASE Latest(a) # 0
    <3>1. 1 \in 1..Latest(a) /\ transitions[a][1] \in TransitionRow
      BY <1>1, <2>2, RowType DEF Typed
    <3>2. transitions[a][1].status = "pending"
      BY <1>1, <3>1 DEF AppliedShown, TransitionRow, Statuses
    <3>3. Latest(a) = 1 /\ Pending(a)
      BY <3>1, <3>2, PendingIsLatest
    <3> QED
      BY <3>3 DEF Original, DurableEvidence
  <2> QED
    BY <2>1, <2>2
<1>4. EnforcedState(a) = "unknown"
  BY <1>1 DEF EnforcedState
<1>5. {i \in issued : RouterAccepts(i)}' = {i \in issued : RouterAccepts(i)}
  <2>1. \A i \in issued : i.agent # a
    <3>1. SUFFICES ASSUME NEW i \in issued, i.agent = a PROVE FALSE
      OBVIOUS
    <3>2. i.epoch \in Nat /\ i.epoch <= redis[a].epoch
      BY <3>1 DEF Versions, Covered, Typed, TypeOK, Authorization
    <3> QED
      BY <1>1, <3>2
  <2>2. issued' = issued
    BY DEF Written
  <2> QED
    BY <2>1, <2>2, EnforcedElsewhere
<1> QED
  BY <1>2, <1>3, <1>4, <1>5, EnforcedElsewhere DEF Promise!Learn

LEMMA Issues ==
    ASSUME Mapped, NEW k \in Checks, Answered(k)
    PROVE  (\E a \in Agents : Promise!Issue(a)) \/ UNCHANGED Promise!vars
<1> USE DEF Mapped, Kept, Projected, Recorded
<1>1. PICK a \in Agents : a = check[k].agent
  BY CheckTypes
<1>2. agent' = agent /\ transitions' = transitions /\ redis' = redis
  BY DEF Answered
<1>3. /\ [b \in Agents |-> StateOf(agent[b])]' = [b \in Agents |-> StateOf(agent[b])]
      /\ [b \in Agents |-> RequestedState(b)]' = [b \in Agents |-> RequestedState(b)]
      /\ [b \in Agents |-> EnforcedState(b)]' = [b \in Agents |-> EnforcedState(b)]
      /\ \A i : RouterAccepts(i)' = RouterAccepts(i)
  BY <1>2 DEF RequestedState, Pending, Latest, EnforcedState, RouterAccepts
<1>4. CASE check[k].expected.state = "inactive"
  <2>1. redis[a] = check[k].expected /\ check[k].expected \in Snapshot
    BY <1>1, CheckTypes DEF Answered
  <2>2. EnforcedState(a) = "inactive"
    BY <1>4, <2>1 DEF EnforcedState, Snapshot, NoSnapshot
  <2>3. issued' = issued \cup {Signed(k)} /\ Signed(k).agent = a
    BY <1>1, <1>4 DEF Answered, Signed
  <2> DEFINE live == {i \in issued : RouterAccepts(i)}
  <2>4. live \subseteq live' /\ \A i \in live' \ live : i.agent = a
    BY <1>3, <2>3
  <2> QED
    BY <1>3, <2>2, <2>4 DEF Promise!Issue
<1>5. CASE check[k].expected.state # "inactive"
  <2>1. issued' = issued
    BY <1>5 DEF Answered
  <2>2. {i \in issued : RouterAccepts(i)}' = {i \in issued : RouterAccepts(i)}
    BY <1>3, <2>1
  <2> QED
    BY <1>3, <2>2 DEF Promise!vars
<1> QED
  BY <1>4, <1>5

LEMMA StepImplements ==
    ASSUME MaxLosses = 0, Mapped, [Next]_vars
    PROVE  [Promise!Next]_Promise!vars
<1>0. Projected /\ Recorded /\ Typed
  BY DEF Mapped, Kept, Projected, Recorded
<1>1. CASE \E a \in Agents : Recording(a)
  BY <1>1, Requests DEF Promise!Next
<1>2. CASE \E a \in Agents : \E w \in Workers : \E j \in jobs[w] : Completed(a, w, j)
  <2>1. \E a \in Agents : Promise!Complete(a)
    BY <1>2, Completes
  <2> QED
    BY <2>1 DEF Promise!Next
<1>3. CASE Rests
  <2>1. CASE \E a \in Agents, s \in Snapshot : Written(a, s)
    <3>1. \E a \in Agents : Promise!Enforce(a) \/ Promise!Learn(a)
      BY <2>1, Enforces, Learns
    <3> QED
      BY <3>1 DEF Promise!Next
  <2>2. CASE \E k \in Checks : Answered(k)
    <3>1. (\E a \in Agents : Promise!Issue(a)) \/ UNCHANGED Promise!vars
      BY <2>2, Issues
    <3> QED
      BY <3>1 DEF Promise!Next
  <2>3. CASE redis' = redis /\ issued' = issued
    <3>1. transitions' = transitions /\ \A a \in Agents : StateOf(agent'[a]) = StateOf(agent[a])
      BY <1>3 DEF Rests, StateOf
    <3>2. UNCHANGED Promise!vars
      BY <2>3, <3>1 DEF Promise!vars, RequestedState, Pending, Latest, EnforcedState, RouterAccepts
    <3> QED
      BY <3>2
  <2> QED
    BY <1>0, <2>1, <2>2, <2>3, ProjectionMoves, AnswerMoves
<1> QED
  BY <1>0, <1>1, <1>2, <1>3, HistoryMoves

LEMMA InitImplements == Init => Promise!Init
<1> SUFFICES ASSUME Init PROVE Promise!Init
  OBVIOUS
<1>1. \A a \in Agents : RequestedState(a) = "none" /\ EnforcedState(a) = "unknown"
  BY DEF Init, RequestedState, EnforcedState, Pending, Latest
<1>2. \A a \in Agents : StateOf(agent[a]) \in {"inactive", "active"}
  BY DEF StateOf
<1>3. {i \in issued : RouterAccepts(i)} = {}
  BY DEF Init
<1> QED
  BY <1>1, <1>2, <1>3 DEF Promise!Init

\* While Redis keeps its keys the service, the inventory, Redis, its late writes
\* and the gate together are the kill switch the operators were promised: enforced
\* before it is on record, and for good.
THEOREM ImplementsKillSwitchHolds ==
    ASSUME MaxLosses = 0
    PROVE  Spec => ImplementsKillSwitch
<1>1. Mapped /\ [Next]_vars => Mapped'
  BY NextMapped
<1>2. Mapped /\ [Next]_vars => [Promise!Next]_Promise!vars
  BY StepImplements
<1> QED
  BY InitMapped, InitImplements, <1>1, <1>2, PTL DEF Spec, ImplementsKillSwitch, Promise!Spec

-----------------------------------------------------------------------------
(* II. Governed actuation and restore *)

\* The decision of an intent is the only one, and was made by another than one
\* who asked for it.
DecidedIndependently ==
    \A d \in decisions :
        /\ \A f \in decisions : f.intent = d.intent => f = d
        /\ \E q \in requests : q.intent = d.intent /\ d.by # q.by

\* The transition on record for an execution that has come so far.
Carries(x) ==
    /\ x.epoch \in 1..Latest(TargetAgent(x.intent))
    /\ evidence[TargetAgent(x.intent)][x.epoch] = [intent |-> x.intent, by |-> x.by]

InHandOf(x) == [agent |-> TargetAgent(x.intent), epoch |-> x.epoch]

ExecutionStands(c) ==
    /\ Stage(c) = "ready" => Approved(exec[c].intent)
    /\ Stage(c) \in {"running", "applied"} => Carries(exec[c])
    /\ Stage(c) = "running" => jobs[c] \subseteq {InHandOf(exec[c])}
    /\ Stage(c) = "applied" =>
          transitions[TargetAgent(exec[c].intent)][exec[c].epoch].status = "applied"

ExecutionsStand == \A c \in Commands : ExecutionStands(c)

\* A governed transition has the agent and the target of an approved intent.
RestsOnApproval(a, e) ==
    /\ TargetAgent(evidence[a][e].intent) = a
    /\ transitions[a][e].target = Target(evidence[a][e].intent)
    /\ Approved(evidence[a][e].intent)

TransitionsApproved ==
    \A a \in Agents : \A e \in 1..Latest(a) :
        evidence[a][e] # Ungoverned => RestsOnApproval(a, e)

GovernedTyped == GovernedTypeOK /\ Recorded

Governed ==
    /\ GovernedTyped
    /\ DecidedIndependently
    /\ ExecutionsStand
    /\ TransitionsApproved
    /\ ReceiptsAreTrue

-----------------------------------------------------------------------------
(* A governed step as RuntimeControl sees it. *)

LEMMA TargetType ==
    ASSUME NEW k \in Intent
    PROVE  TargetAgent(k) \in Agents /\ Target(k) \in States
BY LineageAssumption DEF Intent, TargetAgent, Target, States

LEMMA ExecutionType ==
    ASSUME GovernedTypeOK, NEW c \in Commands, Stage(c) # "idle"
    PROVE  /\ exec[c] \in Execution
           /\ exec[c].intent \in Intent
           /\ TargetAgent(exec[c].intent) \in Agents
           /\ Target(exec[c].intent) \in States
<1>1. exec[c] \in Execution
  BY DEF GovernedTypeOK, Stage, Idle
<1>2. exec[c].intent \in Intent
  BY <1>1 DEF Execution
<1> QED
  BY <1>1, <1>2, TargetType

LEMMA GovernedStepIsStep == ASSUME GovernedTypeOK, [GovernedNext]_gvars PROVE [Next]_vars
<1> USE DEF Workers
<1>1. CASE \E c \in Commands : Command(c)
  <2>1. PICK c \in Commands : Command(c)
    BY <1>1
  <2>2. Stage(c) # "idle" /\ Change(c, TargetAgent(exec[c].intent), Target(exec[c].intent))
    BY <2>1 DEF Command
  <2> QED
    BY <2>2, ExecutionType DEF Next
<1>2. CASE \E c \in Commands : Running(c)
  BY <1>2 DEF Running, GovernedProject, GovernedProjectFails, GovernedFinalize,
              GovernedCrash, Next, WorkerStep
<1>3. CASE \E c \in Commands, a \in Agents, target \in States : OperatorChange(c, a, target)
  BY <1>3 DEF OperatorChange, Next
<1>4. CASE Elsewhere
  BY <1>4 DEF Elsewhere, Next
<1>5. CASE UNCHANGED vars
  BY <1>5
<1> QED
  BY <1>1, <1>2, <1>3, <1>4, <1>5 DEF GovernedNext, GovernanceStep, RequestStop,
     RequestRestore, AddRequest, Decide, Prepare, ExecutionStep, CommandRefused,
     SaveReceipt, RecoverReceipt, Abandon, IncidentStep, gvars

\* What RuntimeControl keeps of the past, and the evidence with it.
Grown ==
    \A a \in Agents :
        /\ Latest(a) \in Nat /\ Latest(a)' \in Nat /\ Latest(a)' >= Latest(a)
        /\ \A e \in 1..Latest(a) :
              /\ evidence'[a][e] = evidence[a][e]
              /\ transitions'[a][e].target = transitions[a][e].target
              /\ transitions[a][e].status = "applied" => transitions'[a][e].status = "applied"

EvidenceTyped ==
    /\ evidence \in [Agents -> Seq(Evidence)]
    /\ \A a \in Agents : Len(evidence[a]) = Latest(a)

LEMMA RowsStay ==
    ASSUME GovernedTyped, [GovernedNext]_gvars, NEW a \in Agents
    PROVE  /\ Latest(a) \in Nat /\ Latest(a)' \in Nat /\ Latest(a)' >= Latest(a)
           /\ \A e \in 1..Latest(a) :
                 /\ transitions'[a][e].target = transitions[a][e].target
                 /\ transitions[a][e].status = "applied" => transitions'[a][e].status = "applied"
<1>1. [Next]_vars
  BY GovernedStepIsStep DEF GovernedTyped
<1>2. Recorded' /\ AppliedOnceStep(a)
  BY <1>1, NextRecorded, NextAppliesOnce DEF GovernedTyped
<1>3. Latest(a) \in Nat /\ Latest(a)' \in Nat
  BY <1>2, LatestType DEF GovernedTyped, Recorded, Typed, Latest, TypeOK
<1>4. ASSUME NEW e \in 1..Latest(a)
      PROVE  /\ transitions'[a][e].target = transitions[a][e].target
             /\ transitions[a][e].status = "applied" => transitions'[a][e].status = "applied"
  <2>1. transitions[a][e] \in TransitionRow
    BY RowType DEF GovernedTyped, Recorded, Typed
  <2> QED
    BY <1>2, <2>1 DEF AppliedOnceStep, TransitionRow
<1> QED
  BY <1>2, <1>3, <1>4 DEF AppliedOnceStep

\* Only a command adds a transition.
LEMMA NoNewTransition ==
    ASSUME Typed, NEW a \in Agents,
           \/ \E w \in Workers : WorkerStep(w) \/ Crash(w) \/ ListPending(w)
           \/ \E k \in Checks : GateStep(k) \/ \E b \in Agents : ReadScope(k, b)
           \/ InventoryStep
           \/ RedisStep
    PROVE  Latest(a)' = Latest(a)
<1> USE DEF durable
<1>1. CASE \E w \in Workers : \E j \in jobs[w] : Finalize(w, j)
  <2>0. PICK w \in Workers : \E j \in jobs[w] : Finalize(w, j)
    BY <1>1
  <2>1. PICK j \in jobs[w] : Finalize(w, j)
    BY <2>0
  <2>2. j.agent \in Agents /\ j.epoch \in 1..Latest(j.agent)
    BY DEF Typed, TypeOK, JobsExist, Job
  <2>3. CASE UNCHANGED transitions
    BY <2>3 DEF Latest
  <2>4. CASE transitions' = [transitions EXCEPT ![j.agent][j.epoch].status = "applied"]
    BY <2>2, <2>4, ApplyRow DEF Typed, MarkedApplied
  <2> QED
    BY <2>1, <2>3, <2>4 DEF Finalize, Apply, GiveUp
<1>2. CASE UNCHANGED transitions
  BY <1>2 DEF Latest
<1> QED
  BY <1>1, <1>2 DEF WorkerStep, Crash, ListPending, GiveUp, Project, ProjectFails,
     FinalizeAgain, GateStep, GateReadsAgent, GateReadsLatest, GateObserves, GateRepairs,
     GateCannotRepair, CheckReturns, ReadScope, InventoryStep, BeginEdit, RollBackEdit,
     CommitEdit, RedisStep, RedisGoesDown, RedisComesBack, RedisForgets, Deliver, LoseMessage

\* A command adds its transition and the evidence of it together.
TransitionAdded(a, target, x) ==
    /\ EvidenceTyped'
    /\ Latest(a)' = Latest(a) + 1
    /\ evidence'[a][Latest(a) + 1] = x
    /\ transitions'[a][Latest(a) + 1].target = target
    /\ \A b \in Agents : \A e \in 1..Latest(b) : evidence'[b][e] = evidence[b][e]
    /\ \A b \in Agents \ {a} : Latest(b)' = Latest(b)

LEMMA EvidenceAppended ==
    ASSUME GovernedTyped, NEW c \in Commands, NEW a \in Agents, NEW target \in States,
           Change(c, a, target), NEW x \in Evidence,
           evidence' = [evidence EXCEPT ![a] = Append(@, x)]
    PROVE  TransitionAdded(a, target, x)
<1> DEFINE row == [previous |-> StateOf(agent[a]), target |-> target, status |-> "pending",
                   revoked |-> RevokedThrough(a), at |-> clock]
<1>1. TypeOK
  BY DEF GovernedTyped, Recorded, Typed
<1>2. row \in TransitionRow
  BY <1>1, StateOfType DEF TypeOK, AgentRow, TransitionRow, Statuses, RevokedThrough
<1>3. transitions' = [transitions EXCEPT ![a] = Append(@, row)]
  BY DEF Change
<1>4. Appended(a, row) /\ row.target = target
  BY <1>1, <1>2, <1>3, AppendRow
<1> HIDE DEF row
<1>5. /\ Latest(a)' = Latest(a) + 1
      /\ transitions'[a][Latest(a) + 1].target = target
      /\ \A b \in Agents \ {a} : Latest(b)' = Latest(b)
  BY <1>4 DEF Appended, Latest
<1>6. evidence \in [Agents -> Seq(Evidence)] /\ \A b \in Agents : Len(evidence[b]) = Latest(b)
  BY DEF GovernedTyped, GovernedTypeOK
<1>7. /\ Append(evidence[a], x) \in Seq(Evidence)
      /\ Len(Append(evidence[a], x)) = Len(evidence[a]) + 1
      /\ \A e \in 1..Len(evidence[a]) : Append(evidence[a], x)[e] = evidence[a][e]
      /\ Append(evidence[a], x)[Len(evidence[a]) + 1] = x
  BY <1>6, AppendProperties
<1>8. /\ evidence'[a] = Append(evidence[a], x)
      /\ \A b \in Agents \ {a} : evidence'[b] = evidence[b]
      /\ evidence' \in [Agents -> Seq(Evidence)]
  BY <1>6, <1>7
<1>9. EvidenceTyped'
  BY <1>5, <1>6, <1>7, <1>8 DEF EvidenceTyped, Latest
<1> QED
  BY <1>5, <1>6, <1>7, <1>8, <1>9 DEF TransitionAdded

LEMMA StepGrown ==
    ASSUME GovernedTyped, [GovernedNext]_gvars
    PROVE  EvidenceTyped' /\ Grown
<1>0. EvidenceTyped
  BY DEF GovernedTyped, GovernedTypeOK, EvidenceTyped
<1>1. CASE \E c \in Commands : Command(c)
  <2>1. PICK c \in Commands : Command(c)
    BY <1>1
  <2> DEFINE a == TargetAgent(exec[c].intent)
             x == [intent |-> exec[c].intent, by |-> exec[c].by]
  <2>2. Stage(c) # "idle"
    BY <2>1 DEF Command
  <2>3. a \in Agents /\ Target(exec[c].intent) \in States /\ x \in Evidence
    BY <2>2, ExecutionType DEF GovernedTyped, Execution, Evidence
  <2>4. Change(c, a, Target(exec[c].intent)) /\ evidence' = [evidence EXCEPT ![a] = Append(@, x)]
    BY <2>1 DEF Command
  <2> HIDE DEF a, x
  <2>5. EvidenceTyped' /\ \A b \in Agents : \A e \in 1..Latest(b) : evidence'[b][e] = evidence[b][e]
    BY <2>3, <2>4, EvidenceAppended DEF TransitionAdded
  <2> QED
    BY <2>5, RowsStay DEF Grown
<1>2. CASE \E c \in Commands, a \in Agents, target \in States : OperatorChange(c, a, target)
  <2>1. Ungoverned \in Evidence
    BY DEF Evidence
  <2>2. EvidenceTyped' /\ \A b \in Agents : \A e \in 1..Latest(b) : evidence'[b][e] = evidence[b][e]
    BY <1>2, <2>1, EvidenceAppended DEF OperatorChange, TransitionAdded
  <2> QED
    BY <2>2, RowsStay DEF Grown
<1>3. CASE UNCHANGED evidence /\ \A a \in Agents : Latest(a)' = Latest(a)
  BY <1>0, <1>3, RowsStay DEF Grown, EvidenceTyped, Latest
<1>4. CASE \E c \in Commands : Running(c)
  <2>1. PICK w \in Workers : WorkerStep(w) \/ Crash(w)
    BY <1>4 DEF Running, GovernedProject, GovernedProjectFails, GovernedFinalize,
                GovernedCrash, WorkerStep, Workers
  <2>2. \A a \in Agents : Latest(a)' = Latest(a)
    BY <2>1, NoNewTransition DEF GovernedTyped, Recorded
  <2>3. UNCHANGED evidence
    BY <1>4 DEF Running
  <2> QED
    BY <1>3, <2>2, <2>3
<1>5. CASE Elsewhere
  <2>1. \A a \in Agents : Latest(a)' = Latest(a)
    BY <1>5, NoNewTransition DEF GovernedTyped, Recorded, Elsewhere, Workers
  <2>2. UNCHANGED evidence
    BY <1>5 DEF Elsewhere
  <2> QED
    BY <1>3, <2>1, <2>2
<1>6. CASE UNCHANGED <<vars, evidence>>
  <2>1. UNCHANGED transitions
    BY <1>6 DEF vars, durable
  <2> QED
    BY <1>3, <1>6, <2>1 DEF Latest
<1> QED
  BY <1>1, <1>2, <1>4, <1>5, <1>6 DEF GovernedNext, GovernanceStep, RequestStop,
     RequestRestore, AddRequest, Decide, Prepare, ExecutionStep, CommandRefused,
     SaveReceipt, RecoverReceipt, Abandon, IncidentStep, gvars

-----------------------------------------------------------------------------
(* Requests, decisions and incidents *)

LEMMA IncidentsTyped ==
    ASSUME GovernedTypeOK, [GovernedNext]_gvars
    PROVE  incident' \in [Incident -> IncidentRow]
<1>1. CASE IncidentStep
  <2>1. PICK i \in Incident, status \in IncidentStatuses, planned \in BOOLEAN :
           Becomes(i, status, planned)
    BY <1>1 DEF IncidentStep, ContainIncident, SetRemediationPlan, CloseIncident,
       EscalateSeverity, IncidentStatuses, GovernedTypeOK, IncidentRow
  <2> QED
    BY <2>1 DEF Becomes, SaveIncident, GovernedTypeOK, IncidentRow
<1>2. CASE UNCHANGED incident
  BY <1>2 DEF GovernedTypeOK
<1> QED
  BY <1>1, <1>2 DEF GovernedNext, GovernanceStep, RequestStop, RequestRestore, AddRequest,
     Decide, Prepare, ExecutionStep, Command, CommandRefused, Running, SaveReceipt,
     RecoverReceipt, Abandon, OperatorChange, Elsewhere, gvars

LEMMA DecisionStep ==
    ASSUME GovernedTypeOK, DecidedIndependently, [GovernedNext]_gvars
    PROVE  /\ requests' \subseteq [intent: Intent, by: OwnerOrAdmin]
           /\ decisions' \subseteq [intent: Intent, outcome: {"approved", "rejected"}, by: Security]
           /\ DecidedIndependently'
           /\ decisions \subseteq decisions'
<1>1. CASE \E r \in Recommendations, p \in OwnerOrAdmin : RequestStop(r, p) \/ RequestRestore(r, p)
  <2>1. PICK k \in Intent, p \in OwnerOrAdmin : AddRequest(k, p)
    <3>1. \A r \in Recommendations : StopOf(r) \in Intent /\ RestoreOf(r) \in Intent
      BY LineageAssumption DEF StopOf, RestoreOf, Intent, GovernedTypeOK, IncidentRow
    <3> QED
      BY <1>1, <3>1 DEF RequestStop, RequestRestore
  <2> QED
    BY <2>1 DEF AddRequest, GovernedTypeOK, DecidedIndependently
<1>2. CASE \E q \in requests, p \in Principals, outcome \in {"approved", "rejected"} :
              Decide(q, p, outcome)
  <2>1. PICK q \in requests, p \in Principals, outcome \in {"approved", "rejected"} :
           Decide(q, p, outcome)
    BY <1>2
  <2> DEFINE d == [intent |-> q.intent, outcome |-> outcome, by |-> p]
  <2>2. /\ decisions' = decisions \cup {d} /\ requests' = requests
        /\ p \in Security /\ p # q.by
        /\ \A f \in decisions : f.intent # q.intent
    BY <2>1 DEF Decide, IndependentSecurity, Decided
  <2>3. d \in [intent: Intent, outcome: {"approved", "rejected"}, by: Security]
    BY <2>2 DEF GovernedTypeOK
  <2>4. d.intent = q.intent /\ d.by = p
    OBVIOUS
  <2> HIDE DEF d
  <2>5. DecidedIndependently'
    BY <2>2, <2>4 DEF DecidedIndependently
  <2> QED
    BY <2>2, <2>3, <2>5 DEF GovernedTypeOK
<1>3. CASE UNCHANGED <<requests, decisions>>
  BY <1>3 DEF GovernedTypeOK, DecidedIndependently
<1> QED
  BY <1>1, <1>2, <1>3 DEF GovernedNext, GovernanceStep, Prepare, ExecutionStep, Command,
     CommandRefused, Running, SaveReceipt, RecoverReceipt, Abandon, OperatorChange,
     Elsewhere, governance, gvars

\* An approval is for ever.
LEMMA ApprovedStays ==
    ASSUME GovernedTypeOK, DecidedIndependently, [GovernedNext]_gvars, NEW k, Approved(k)
    PROVE  Approved(k)'
BY DecisionStep DEF Approved

-----------------------------------------------------------------------------
(* Executions *)

\* A worker touches its own work only, and only a command adds to it.
LEMMA JobsOfOthers ==
    ASSUME Typed, NEW w \in Workers, WorkerStep(w) \/ Crash(w) \/ ListPending(w)
    PROVE  /\ \A v \in Workers \ {w} : jobs'[v] = jobs[v]
           /\ ~ListPending(w) => jobs'[w] \subseteq jobs[w]
<1>1. jobs \in [Workers -> SUBSET Job]
  BY DEF Typed, TypeOK
<1>2. CASE ListPending(w)
  BY <1>1, <1>2 DEF ListPending
<1>3. CASE UNCHANGED jobs \/ GiveUp(w)
  BY <1>1, <1>3 DEF GiveUp
<1>4. CASE \E j \in jobs[w] : Succeed(w, j)
  BY <1>1, <1>4 DEF Succeed
<1> QED
  BY <1>2, <1>3, <1>4 DEF WorkerStep, Crash, Project, ProjectFails, FinalizeAgain,
     Finalize, Apply

LEMMA CarriesStays ==
    ASSUME Grown, NEW x, TargetAgent(x.intent) \in Agents, Carries(x)
    PROVE  /\ Carries(x)'
           /\ transitions[TargetAgent(x.intent)][x.epoch].status = "applied"
                 => transitions'[TargetAgent(x.intent)][x.epoch].status = "applied"
<1> DEFINE a == TargetAgent(x.intent)
<1>1. a' = a
  BY DEF TargetAgent
<1>2. x.epoch \in 1..Latest(a) /\ evidence[a][x.epoch] = [intent |-> x.intent, by |-> x.by]
  BY DEF Carries
<1>3. /\ Latest(a) \in Nat /\ Latest(a)' \in Nat /\ Latest(a)' >= Latest(a)
      /\ evidence'[a][x.epoch] = evidence[a][x.epoch]
      /\ transitions[a][x.epoch].status = "applied" => transitions'[a][x.epoch].status = "applied"
  BY <1>2 DEF Grown
<1>4. x.epoch \in 1..Latest(a)'
  BY <1>2, <1>3
<1> QED
  BY <1>1, <1>2, <1>3, <1>4 DEF Carries, Latest

LEMMA ExecutionKept ==
    ASSUME Governed, [GovernedNext]_gvars, NEW c \in Commands, exec'[c] = exec[c],
           Stage(c) = "running" => jobs'[c] \subseteq jobs[c]
    PROVE  ExecutionStands(c)'
<1>1. ExecutionStands(c) /\ GovernedTypeOK /\ GovernedTyped
  BY DEF Governed, GovernedTyped, ExecutionsStand
<1>2. CASE Stage(c) = "ready"
  BY <1>1, <1>2, ApprovedStays DEF ExecutionStands, Stage, Governed
<1>3. CASE Stage(c) \in {"running", "applied"}
  <2>1. TargetAgent(exec[c].intent) \in Agents
    BY <1>1, <1>3, ExecutionType
  <2>2. /\ Carries(exec[c])'
        /\ transitions[TargetAgent(exec[c].intent)][exec[c].epoch].status = "applied"
             => transitions'[TargetAgent(exec[c].intent)][exec[c].epoch].status = "applied"
    <3> DEFINE x == exec[c]
    <3>1. Carries(x) /\ TargetAgent(x.intent) \in Agents
      BY <1>1, <1>3, <2>1 DEF ExecutionStands
    <3>2. Grown
      BY <1>1, StepGrown
    <3> QED
      BY <3>1, <3>2, CarriesStays DEF Carries, TargetAgent, Latest
  <2> QED
    BY <1>1, <1>3, <2>2 DEF ExecutionStands, Stage, Carries, InHandOf, TargetAgent, Latest
<1>4. CASE Stage(c) \notin {"ready", "running", "applied"}
  BY <1>4 DEF ExecutionStands, Stage
<1> QED
  BY <1>2, <1>3, <1>4

\* What a step may make of the execution of a handler.
ExecutionOK(c) == exec'[c] \in {Idle} \cup Execution /\ ExecutionStands(c)'

LEMMA ExecutionUnchanged ==
    ASSUME Governed, [GovernedNext]_gvars, NEW c \in Commands, exec'[c] = exec[c],
           Stage(c) = "running" => jobs'[c] \subseteq jobs[c]
    PROVE  ExecutionOK(c)
BY ExecutionKept DEF ExecutionOK, Governed, GovernedTyped, GovernedTypeOK

LEMMA ExecutionEnds ==
    ASSUME GovernedTypeOK, NEW c \in Commands,
           \/ exec'[c] = Idle
           \/ Stage(c) # "idle" /\ exec'[c] = [exec[c] EXCEPT !.stage = "failed"]
    PROVE  ExecutionOK(c)
<1>1. CASE exec'[c] = Idle
  BY <1>1 DEF ExecutionOK, ExecutionStands, Stage, Idle
<1>2. CASE Stage(c) # "idle" /\ exec'[c] = [exec[c] EXCEPT !.stage = "failed"]
  <2>1. exec'[c] \in Execution /\ exec'[c].stage = "failed"
    BY <1>2, ExecutionType DEF Execution
  <2> QED
    BY <2>1 DEF ExecutionOK, ExecutionStands, Stage
<1> QED
  BY <1>1, <1>2

Started(x, n) == [x EXCEPT !.stage = "running", !.epoch = n]

LEMMA StartedType ==
    ASSUME NEW x \in Execution, NEW n \in Nat
    PROVE  /\ Started(x, n) \in Execution
           /\ Started(x, n).stage = "running" /\ Started(x, n).epoch = n
           /\ Started(x, n).intent = x.intent /\ Started(x, n).by = x.by
BY DEF Started, Execution

LEMMA CommandStands ==
    ASSUME Governed, [GovernedNext]_gvars, NEW d \in Commands, Command(d), NEW c \in Commands
    PROVE  ExecutionOK(c)
<1>0. GovernedTyped /\ GovernedTypeOK /\ Typed
  BY DEF Governed, GovernedTyped, Recorded
<1>1. Stage(d) # "idle"
  BY DEF Command
<1>2. PICK k \in Intent, a \in Agents, p \in Principals :
         k = exec[d].intent /\ a = TargetAgent(k) /\ p = exec[d].by /\ exec[d] \in Execution
  BY <1>0, <1>1, ExecutionType DEF Execution
<1>9. PICK x \in Evidence, t \in States : x = [intent |-> k, by |-> p] /\ t = Target(k)
  BY <1>2, TargetType DEF Evidence
<1> DEFINE n == Latest(a) + 1
<1>3. /\ Change(d, a, t)
      /\ evidence' = [evidence EXCEPT ![a] = Append(@, x)]
      /\ exec' = [exec EXCEPT ![d] = Started(exec[d], n)]
  BY <1>2, <1>9 DEF Command, Proceed, Started
<1>4. jobs' = [jobs EXCEPT ![d] = {[agent |-> a, epoch |-> n]}]
  BY <1>3 DEF Change
<1>5. d \in Workers /\ jobs \in [Workers -> SUBSET Job] /\ exec \in [Commands -> {Idle} \cup Execution]
  BY <1>0 DEF Workers, Typed, TypeOK, GovernedTypeOK
<1>6. Latest(a) \in Nat /\ n \in Nat
  BY <1>0, <1>2, LatestType DEF Typed
<1>7. CASE c # d
  BY <1>3, <1>4, <1>5, <1>7, ExecutionUnchanged DEF Workers
<1>8. CASE c = d
  <2>1. Latest(a)' = Latest(a) + 1 /\ evidence'[a][Latest(a) + 1] = x
    <3>1. TransitionAdded(a, t, x)
      BY <1>0, <1>3, EvidenceAppended
    <3> QED
      BY <3>1 DEF TransitionAdded
  <2> HIDE DEF n
  <2>3. /\ exec'[c] \in Execution
        /\ exec'[c].stage = "running" /\ exec'[c].epoch = n
        /\ exec'[c].intent = k /\ exec'[c].by = p
    BY <1>2, <1>3, <1>5, <1>6, <1>8, StartedType
  <2>4. n \in 1..Latest(a)' /\ evidence'[a][n] = x
    BY <1>6, <2>1 DEF n
  <2>5. Carries(exec[c])'
    BY <1>2, <1>9, <2>3, <2>4 DEF Carries, TargetAgent, Latest
  <2>6. jobs'[c] \subseteq {InHandOf(exec[c])'}
    BY <1>2, <1>4, <1>5, <1>8, <2>3 DEF InHandOf, TargetAgent
  <2> QED
    BY <2>3, <2>5, <2>6 DEF ExecutionOK, ExecutionStands, Stage
<1> QED
  BY <1>7, <1>8

LEMMA RunningStands ==
    ASSUME Governed, [GovernedNext]_gvars, NEW d \in Commands, Running(d), NEW c \in Commands
    PROVE  ExecutionOK(c)
<1>0. GovernedTyped /\ GovernedTypeOK /\ Typed /\ ExecutionStands(d)
  BY DEF Governed, GovernedTyped, Recorded, ExecutionsStand
<1>1. Stage(d) = "running" /\ d \in Workers
  BY DEF Running, Workers
<1>2. WorkerStep(d) \/ Crash(d)
  BY DEF Running, GovernedProject, GovernedProjectFails, GovernedFinalize, GovernedCrash, WorkerStep
<1>3. /\ \A v \in Workers \ {d} : jobs'[v] = jobs[v]
      /\ jobs'[d] \subseteq jobs[d]
  <2>1. ~ListPending(d)
    BY WorkersAssumption, <1>0, <1>2 DEF WorkerStep, Crash, ListPending, Typed, TypeOK
  <2> QED
    BY <1>0, <1>1, <1>2, <2>1, JobsOfOthers
<1>4. exec \in [Commands -> {Idle} \cup Execution]
  BY <1>0 DEF GovernedTypeOK
<1>5. CASE c # d
  <2>1. exec'[c] = exec[c]
    BY <1>4, <1>5 DEF Running, GovernedProject, GovernedProjectFails, GovernedFinalize,
       GovernedCrash, Proceed, Returns
  <2> QED
    BY <1>3, <1>5, <2>1, ExecutionUnchanged DEF Workers
<1>6. CASE c = d
  <2>1. CASE \E j \in jobs[d] : GovernedProject(d, j)
    BY <1>3, <1>6, <2>1, ExecutionUnchanged DEF GovernedProject
  <2>2. CASE \E j \in jobs[d] : GovernedProjectFails(d, j)
    BY <1>0, <1>1, <1>4, <1>6, <2>2, ExecutionEnds DEF GovernedProjectFails, Proceed
  <2>3. CASE GovernedCrash(d)
    BY <1>0, <1>4, <1>6, <2>3, ExecutionEnds DEF GovernedCrash, Proceed
  <2>4. CASE \E j \in jobs[d] : GovernedFinalize(d, j)
    <3>1. PICK j \in jobs[d] : GovernedFinalize(d, j)
      BY <2>4
    <3>2. CASE exec'[c] = Idle \/ exec'[c] = [exec[c] EXCEPT !.stage = "failed"]
      BY <1>0, <1>1, <1>6, <3>2, ExecutionEnds
    <3>3. CASE /\ exec'[c] = [exec[c] EXCEPT !.stage = "applied"]
               /\ transitions'[j.agent][j.epoch].status # "pending"
      <4>1. PICK k \in Intent, a \in Agents, n \in Nat, p \in Principals :
               /\ exec[c] \in Execution /\ Carries(exec[c])
               /\ k = exec[c].intent /\ a = TargetAgent(k) /\ n = exec[c].epoch /\ p = exec[c].by
        BY <1>0, <1>1, <1>6, ExecutionType DEF ExecutionStands, Execution
      <4>2. j.agent = a /\ j.epoch = n
        BY <1>0, <1>1, <1>6, <4>1 DEF ExecutionStands, InHandOf
      <4>3. /\ exec'[c] \in Execution /\ exec'[c].stage = "applied"
            /\ exec'[c].intent = k /\ exec'[c].epoch = n /\ exec'[c].by = p
        BY <3>3, <4>1 DEF Execution
      <4>4. n \in 1..Latest(a)' /\ evidence'[a][n] = [intent |-> k, by |-> p]
        <5> DEFINE y == [intent |-> k, epoch |-> n, by |-> p]
        <5>1. Carries(y) /\ TargetAgent(y.intent) \in Agents
          BY <4>1 DEF Carries
        <5>2. Grown
          BY <1>0, StepGrown
        <5> HIDE DEF y
        <5>3. Carries(y)'
          BY <5>1, <5>2, CarriesStays
        <5> QED
          BY <4>1, <5>3 DEF y, Carries, TargetAgent, Latest
      <4>5. Carries(exec[c])'
        BY <4>1, <4>3, <4>4 DEF Carries, TargetAgent, Latest
      <4>6. transitions'[a][n].status = "applied"
        <5>1. [Next]_vars
          BY <1>0, GovernedStepIsStep
        <5>2. TypeOK'
          BY <1>0, <5>1, NextTyped DEF Typed
        <5>3. transitions'[a][n] \in TransitionRow
          BY <4>4, <5>2, ElementOfSeq DEF TypeOK, Latest
        <5> QED
          BY <3>3, <4>2, <5>3 DEF TransitionRow, Statuses
      <4> QED
        BY <4>1, <4>3, <4>5, <4>6 DEF ExecutionOK, ExecutionStands, Stage, TargetAgent
    <3> QED
      BY <1>4, <1>6, <3>1, <3>2, <3>3 DEF GovernedFinalize, Returns, Proceed
  <2> QED
    BY <2>1, <2>2, <2>3, <2>4 DEF Running
<1> QED
  BY <1>5, <1>6

LEMMA PrepareStands ==
    ASSUME Governed, [GovernedNext]_gvars, NEW d \in Commands, NEW f \in decisions,
           NEW p \in OwnerOrAdmin, Prepare(d, f.intent, p), NEW c \in Commands
    PROVE  ExecutionOK(c)
<1>0. GovernedTypeOK /\ DecidedIndependently /\ TypeOK
  BY DEF Governed, GovernedTyped, GovernedTypeOK
<1>1. PICK k \in Intent : k = f.intent
  BY <1>0 DEF GovernedTypeOK
<1> DEFINE x == [stage |-> "ready", intent |-> k, by |-> p,
                 version |-> agent[TargetAgent(k)].version, epoch |-> 0]
<1>2. exec' = [exec EXCEPT ![d] = x] /\ Approved(k) /\ UNCHANGED jobs
  BY <1>1 DEF Prepare, Proceed, vars, workers
<1>3. x \in Execution
  BY <1>0, <1>1, TargetType DEF TypeOK, AgentRow, Execution, Principals
<1>4. x.stage = "ready" /\ x.intent = k
  OBVIOUS
<1> HIDE DEF x
<1>5. CASE c # d
  BY <1>0, <1>2, <1>5, ExecutionUnchanged DEF GovernedTypeOK
<1>6. CASE c = d
  <2>1. exec'[c] = x
    BY <1>0, <1>2, <1>6 DEF GovernedTypeOK
  <2>2. Approved(k)'
    BY <1>0, <1>2, ApprovedStays
  <2> QED
    BY <1>3, <1>4, <2>1, <2>2 DEF ExecutionOK, ExecutionStands, Stage, Approved
<1> QED
  BY <1>5, <1>6

\* An operator's command runs in a handler that executes no decision.
LEMMA OperatorStands ==
    ASSUME Governed, [GovernedNext]_gvars, NEW d \in Commands, NEW a \in Agents,
           NEW target \in States, OperatorChange(d, a, target), NEW c \in Commands
    PROVE  ExecutionOK(c)
<1>1. d \in Workers /\ jobs \in [Workers -> SUBSET Job]
  BY DEF Governed, GovernedTyped, GovernedTypeOK, TypeOK, Workers
<1>2. UNCHANGED exec /\ Stage(d) = "idle"
  BY DEF OperatorChange
<1>3. c # d => jobs'[c] = jobs[c]
  BY <1>1 DEF OperatorChange, Change, Workers
<1> QED
  BY <1>2, <1>3, ExecutionUnchanged

LEMMA ElsewhereStands ==
    ASSUME Governed, [GovernedNext]_gvars, Elsewhere, NEW c \in Commands
    PROVE  ExecutionOK(c)
<1>0. Typed /\ c \in Workers /\ UNCHANGED exec
  BY DEF Governed, GovernedTyped, Recorded, Workers, Elsewhere
<1>1. CASE \E w \in Workers : (w \in Commands => Stage(w) = "idle") /\ (WorkerStep(w) \/ Crash(w))
  <2>1. PICK w \in Workers : /\ w \in Commands => Stage(w) = "idle"
                             /\ WorkerStep(w) \/ Crash(w)
    BY <1>1
  <2>2. c # w => jobs'[c] = jobs[c]
    BY <1>0, <2>1, JobsOfOthers
  <2> QED
    BY <1>0, <2>1, <2>2, ExecutionUnchanged
<1>2. CASE \E r \in Reconcilers : ListPending(r)
  <2>1. PICK r \in Reconcilers : ListPending(r)
    BY <1>2
  <2>2. jobs'[c] = jobs[c]
    BY <1>0, <2>1, JobsOfOthers, WorkersAssumption DEF Workers
  <2> QED
    BY <1>0, <2>2, ExecutionUnchanged
<1>3. CASE UNCHANGED jobs
  BY <1>0, <1>3, ExecutionUnchanged
<1> QED
  BY <1>1, <1>2, <1>3 DEF Elsewhere, workers, GateStep, GateReadsAgent, GateReadsLatest,
     GateObserves, GateRepairs, GateCannotRepair, CheckReturns, ReadScope, InventoryStep,
     BeginEdit, RollBackEdit, CommitEdit, RedisStep, RedisGoesDown, RedisComesBack,
     RedisForgets, Deliver, LoseMessage

LEMMA StepStands ==
    ASSUME Governed, [GovernedNext]_gvars
    PROVE  exec' \in [Commands -> {Idle} \cup Execution] /\ ExecutionsStand'
<1>0. GovernedTypeOK /\ exec \in [Commands -> {Idle} \cup Execution]
  BY DEF Governed, GovernedTyped, GovernedTypeOK
<1>1. exec' = [c \in Commands |-> exec'[c]]
  <2>1. UNCHANGED exec \/ \E c \in Commands : \E x : exec' = [exec EXCEPT ![c] = x]
    BY DEF GovernedNext, GovernanceStep, RequestStop, RequestRestore, AddRequest, Decide,
       Prepare, ExecutionStep, Command, CommandRefused, Running, GovernedProject,
       GovernedProjectFails, GovernedFinalize, Returns, GovernedCrash, SaveReceipt,
       RecoverReceipt, Abandon, OperatorChange, Elsewhere, Proceed, gvars
  <2> QED
    BY <1>0, <2>1
<1>2. ASSUME NEW c \in Commands PROVE ExecutionOK(c)
  <2>1. CASE \E d \in Commands, f \in decisions, p \in OwnerOrAdmin : Prepare(d, f.intent, p)
    BY <2>1, PrepareStands
  <2>2. CASE \E d \in Commands : Command(d)
    BY <2>2, CommandStands
  <2>3. CASE \E d \in Commands : Running(d)
    BY <2>3, RunningStands
  <2>4. CASE \E d \in Commands, a \in Agents, target \in States : OperatorChange(d, a, target)
    BY <2>4, OperatorStands
  <2>5. CASE Elsewhere
    BY <2>5, ElsewhereStands
  <2>6. CASE \E d \in Commands : CommandRefused(d)
    <3>1. PICK d \in Commands : CommandRefused(d)
      BY <2>6
    <3>2. CASE c = d
      BY <1>0, <3>1, <3>2, ExecutionEnds DEF CommandRefused, Proceed
    <3>3. CASE c # d
      BY <1>0, <3>1, <3>3, ExecutionUnchanged DEF CommandRefused, Proceed, vars, workers
    <3> QED
      BY <3>2, <3>3
  <2>7. CASE \E d \in Commands : SaveReceipt(d) \/ Abandon(d) \/ \E f \in decisions : RecoverReceipt(d, f.intent)
    <3>1. PICK d \in Commands : exec' = [exec EXCEPT ![d] = Idle] /\ UNCHANGED jobs
      BY <2>7 DEF SaveReceipt, Abandon, RecoverReceipt, Proceed, vars, workers
    <3>2. CASE c = d
      BY <1>0, <3>1, <3>2, ExecutionEnds
    <3>3. CASE c # d
      BY <1>0, <3>1, <3>3, ExecutionUnchanged
    <3> QED
      BY <3>2, <3>3
  <2>8. CASE UNCHANGED <<vars, exec>>
    BY <2>8, ExecutionUnchanged DEF vars, workers
  <2> QED
    BY <2>1, <2>2, <2>3, <2>4, <2>5, <2>6, <2>7, <2>8 DEF GovernedNext, GovernanceStep,
       RequestStop, RequestRestore, AddRequest, Decide, ExecutionStep, IncidentStep, gvars
<1> QED
  BY <1>1, <1>2 DEF ExecutionOK, ExecutionsStand

-----------------------------------------------------------------------------
(* Transitions and receipts *)

LEMMA OldTransitionsApproved ==
    ASSUME Governed, [GovernedNext]_gvars, NEW a \in Agents, NEW e \in 1..Latest(a),
           evidence'[a][e] # Ungoverned
    PROVE  RestsOnApproval(a, e)'
<1>1. /\ evidence'[a][e] = evidence[a][e]
      /\ transitions'[a][e].target = transitions[a][e].target
  BY StepGrown DEF Governed, Grown
<1> DEFINE k == evidence[a][e].intent
<1>2. TargetAgent(k) = a /\ transitions[a][e].target = Target(k) /\ Approved(k)
  BY <1>1 DEF Governed, TransitionsApproved, RestsOnApproval
<1>3. Approved(k) => \E d \in decisions' : d.intent = k /\ d.outcome = "approved"
  BY DecisionStep DEF Governed, GovernedTyped, Approved
<1> QED
  BY <1>1, <1>2, <1>3 DEF RestsOnApproval, Approved, TargetAgent, Target

LEMMA StepApproved ==
    ASSUME Governed, [GovernedNext]_gvars
    PROVE  TransitionsApproved'
<1>0. GovernedTyped /\ GovernedTypeOK /\ DecidedIndependently /\ ExecutionsStand
  BY DEF Governed, GovernedTyped
<1> SUFFICES ASSUME NEW a \in Agents, NEW e \in 1..Latest(a)', evidence'[a][e] # Ungoverned
             PROVE  RestsOnApproval(a, e)'
  BY DEF TransitionsApproved
<1>1. CASE e \in 1..Latest(a)
  BY <1>1, OldTransitionsApproved
<1>2. CASE Latest(a)' = Latest(a)
  BY <1>2, OldTransitionsApproved
<1>3. CASE \E c \in Commands : Command(c)
  <2>1. PICK c \in Commands : Command(c)
    BY <1>3
  <2>2. Stage(c) = "ready"
    BY <2>1 DEF Command
  <2>3. PICK k \in Intent, b \in Agents, t \in States, x \in Evidence :
           /\ k = exec[c].intent /\ b = TargetAgent(k) /\ t = Target(k)
           /\ x = [intent |-> k, by |-> exec[c].by]
    BY <1>0, <2>2, ExecutionType DEF Execution, Evidence
  <2>4. Change(c, b, t) /\ evidence' = [evidence EXCEPT ![b] = Append(@, x)] /\ UNCHANGED decisions
    BY <2>1, <2>3 DEF Command, governance
  <2>5. TransitionAdded(b, t, x)
    BY <1>0, <2>4, EvidenceAppended
  <2>6. Approved(k)'
    BY <1>0, <2>2, <2>3, <2>4 DEF ExecutionsStand, ExecutionStands, Approved
  <2>7. CASE a # b
    BY <1>2, <2>5, <2>7 DEF TransitionAdded
  <2>8. CASE a = b
    <3>1. e \in 1..Latest(a) \/ e = Latest(a) + 1
      BY <1>0, <2>5, <2>8, RowsStay DEF TransitionAdded
    <3>2. CASE e = Latest(a) + 1
      <4>1. evidence'[a][e] = x /\ transitions'[a][e].target = t
        BY <2>5, <2>8, <3>2 DEF TransitionAdded
      <4>2. evidence'[a][e].intent = k /\ TargetAgent(k) = a /\ Target(k) = t
        BY <2>3, <2>8, <4>1
      <4> QED
        BY <2>6, <4>1, <4>2 DEF RestsOnApproval, Approved, TargetAgent, Target
    <3> QED
      BY <1>1, <3>1, <3>2
  <2> QED
    BY <2>7, <2>8
<1>4. CASE \E c \in Commands, b \in Agents, t \in States : OperatorChange(c, b, t)
  <2>1. PICK c \in Commands, b \in Agents, t \in States : OperatorChange(c, b, t)
    BY <1>4
  <2>2. Change(c, b, t) /\ evidence' = [evidence EXCEPT ![b] = Append(@, Ungoverned)]
    BY <2>1 DEF OperatorChange
  <2>3. TransitionAdded(b, t, Ungoverned)
    <3>1. Ungoverned \in Evidence
      BY DEF Evidence
    <3> QED
      BY <1>0, <2>2, <3>1, EvidenceAppended
  <2>4. CASE a # b
    BY <1>2, <2>3, <2>4 DEF TransitionAdded
  <2>5. CASE a = b
    BY <1>0, <1>1, <2>3, <2>5, RowsStay DEF TransitionAdded
  <2> QED
    BY <2>4, <2>5
<1>5. CASE (\E c \in Commands : Running(c)) \/ Elsewhere
  BY <1>0, <1>2, <1>5, NoNewTransition DEF GovernedTyped, Recorded, Running, Elsewhere,
     GovernedProject, GovernedProjectFails, GovernedFinalize, GovernedCrash, WorkerStep, Workers
<1>6. CASE UNCHANGED vars
  BY <1>2, <1>6 DEF vars, durable, Latest
<1> QED
  BY <1>3, <1>4, <1>5, <1>6 DEF GovernedNext, GovernanceStep, RequestStop, RequestRestore,
     AddRequest, Decide, Prepare, ExecutionStep, CommandRefused, SaveReceipt, RecoverReceipt,
     Abandon, IncidentStep, gvars

\* What makes a receipt true.
Receipt(k, e) ==
    /\ TargetAgent(k) \in Agents
    /\ e \in 1..Latest(TargetAgent(k))
    /\ transitions[TargetAgent(k)][e].status = "applied"
    /\ evidence[TargetAgent(k)][e] # Ungoverned
    /\ evidence[TargetAgent(k)][e].intent = k

LEMMA ReceiptSaved ==
    ASSUME Governed, NEW k \in Intent, NEW e, Receipt(k, e), Save(k, e),
           UNCHANGED <<vars, evidence>>
    PROVE  receipts' \subseteq [intent: Intent, epoch: Nat \ {0}, by: Principals] /\ ReceiptsAreTrue'
<1> DEFINE a == AgentOf[k.recommendation]
           x == [intent |-> k, epoch |-> e, by |-> evidence[a][e].by]
<1>0. GovernedTypeOK /\ ReceiptsAreTrue /\ UNCHANGED <<transitions, evidence>>
  BY DEF Governed, GovernedTyped, vars, durable
<1>1. /\ a \in Agents /\ e \in 1..Latest(a) /\ transitions[a][e].status = "applied"
      /\ evidence[a][e] # Ungoverned /\ evidence[a][e].intent = k
  BY DEF Receipt, TargetAgent
<1>2. evidence[a][e] \in Evidence
  BY <1>0, <1>1, ElementOfSeq DEF GovernedTypeOK
<1>3. evidence[a][e].by \in Principals /\ evidence[a][e] = [intent |-> k, by |-> evidence[a][e].by]
  BY <1>1, <1>2 DEF Evidence
<1>4. receipts' = receipts \cup {x}
  BY DEF Save, TargetAgent
<1>5. Latest(a) \in Nat /\ e \in Nat \ {0}
  BY <1>0, <1>1, LatestType DEF GovernedTypeOK
<1>6. x \in [intent: Intent, epoch: Nat \ {0}, by: Principals]
  BY <1>3, <1>5
<1>7. x.intent = k /\ x.epoch = e /\ x.by = evidence[a][e].by
  OBVIOUS
<1> HIDE DEF x
<1>8. ReceiptsAreTrue'
  <2> SUFFICES ASSUME NEW y \in receipts'
               PROVE  /\ y.epoch \in 1..Latest(TargetAgent(y.intent))
                      /\ transitions[TargetAgent(y.intent)][y.epoch].status = "applied"
                      /\ evidence[TargetAgent(y.intent)][y.epoch] = [intent |-> y.intent, by |-> y.by]
    BY <1>0 DEF ReceiptsAreTrue, TargetAgent, Latest
  <2>1. CASE y \in receipts
    BY <1>0, <2>1 DEF ReceiptsAreTrue
  <2>2. CASE y = x
    BY <1>1, <1>3, <1>7, <2>2 DEF TargetAgent
  <2> QED
    BY <1>4, <2>1, <2>2
<1> QED
  BY <1>0, <1>4, <1>6, <1>8 DEF GovernedTypeOK

LEMMA StepReceipts ==
    ASSUME Governed, [GovernedNext]_gvars
    PROVE  receipts' \subseteq [intent: Intent, epoch: Nat \ {0}, by: Principals] /\ ReceiptsAreTrue'
<1>0. GovernedTyped /\ GovernedTypeOK /\ ExecutionsStand /\ ReceiptsAreTrue /\ TypeOK
  BY DEF Governed, GovernedTyped, GovernedTypeOK
<1>1. CASE \E c \in Commands : SaveReceipt(c)
  <2>1. PICK c \in Commands : SaveReceipt(c)
    BY <1>1
  <2>2. /\ Stage(c) = "applied" /\ Save(exec[c].intent, exec[c].epoch)
        /\ UNCHANGED <<vars, evidence>>
    BY <2>1 DEF SaveReceipt
  <2>3. PICK k \in Intent, e \in Nat : k = exec[c].intent /\ e = exec[c].epoch
    BY <1>0, <2>2, ExecutionType DEF Execution
  <2>4. Receipt(k, e)
    <3>1. /\ Carries(exec[c])
          /\ transitions[TargetAgent(k)][e].status = "applied"
      BY <1>0, <2>2, <2>3 DEF ExecutionsStand, ExecutionStands
    <3>2. [intent |-> k, by |-> exec[c].by] # Ungoverned
      BY DEF Ungoverned, Intent
    <3> QED
      BY <2>3, <3>1, <3>2, TargetType DEF Carries, Receipt
  <2> QED
    BY <2>2, <2>3, <2>4, ReceiptSaved
<1>2. CASE \E c \in Commands, d \in decisions : RecoverReceipt(c, d.intent)
  <2>1. PICK c \in Commands, d \in decisions : RecoverReceipt(c, d.intent)
    BY <1>2
  <2>2. PICK k \in Intent : k = d.intent
    BY <1>0 DEF GovernedTypeOK
  <2>3. PICK e \in 1..Latest(TargetAgent(k)) :
           Matching(k) = {e} /\ ReadyForReceipt(TargetAgent(k), e) /\ Save(k, e)
    BY <2>1, <2>2 DEF RecoverReceipt
  <2>4. UNCHANGED <<vars, evidence>>
    BY <2>1 DEF RecoverReceipt
  <2>5. Receipt(k, e)
    BY <2>3, TargetType DEF Matching, ReadyForReceipt, Receipt
  <2> QED
    BY <2>3, <2>4, <2>5, ReceiptSaved
<1>3. CASE UNCHANGED receipts
  <2>1. ASSUME NEW x \in receipts
        PROVE  /\ TargetAgent(x.intent) \in Agents /\ Carries(x)
               /\ transitions[TargetAgent(x.intent)][x.epoch].status = "applied"
    BY <1>0, TargetType DEF GovernedTypeOK, ReceiptsAreTrue, Carries
  <2>2. ASSUME NEW x \in receipts
        PROVE  /\ Carries(x)'
               /\ transitions'[TargetAgent(x.intent)][x.epoch].status = "applied"
    BY <1>0, <2>1, StepGrown, CarriesStays
  <2> QED
    BY <1>0, <1>3, <2>2 DEF GovernedTypeOK, ReceiptsAreTrue, Carries, TargetAgent, Latest
<1> QED
  BY <1>1, <1>2, <1>3 DEF GovernedNext, GovernanceStep, RequestStop, RequestRestore,
     AddRequest, Decide, Prepare, ExecutionStep, Command, CommandRefused, Running, Abandon,
     OperatorChange, Elsewhere, governance, gvars

-----------------------------------------------------------------------------
(* The invariant, and what follows from it. *)

LEMMA InitGoverned == GovernedInit => Governed
<1> SUFFICES ASSUME GovernedInit PROVE Governed
  OBVIOUS
<1>1. Recorded /\ TypeOK
  BY InitRecorded DEF GovernedInit, Recorded, Typed
<1>2. \A a \in Agents : Latest(a) = 0 /\ Len(evidence[a]) = 0
  BY EmptySeq DEF GovernedInit, Init, Latest
<1>3. GovernedTypeOK
  BY <1>1, <1>2, EmptySeq DEF GovernedInit, IncidentInit, IncidentRow, IncidentStatuses, GovernedTypeOK
<1>4. ExecutionsStand
  BY DEF GovernedInit, ExecutionsStand, ExecutionStands, Stage, Idle
<1> QED
  BY <1>1, <1>2, <1>3, <1>4 DEF GovernedInit, Governed, GovernedTyped, DecidedIndependently,
     TransitionsApproved, ReceiptsAreTrue

LEMMA NextGoverned ==
    ASSUME Governed, [GovernedNext]_gvars
    PROVE  Governed'
<1>1. Recorded'
  BY GovernedStepIsStep, NextRecorded DEF Governed, GovernedTyped
<1>2. GovernedTypeOK'
  BY <1>1, IncidentsTyped, DecisionStep, StepGrown, StepStands, StepReceipts
     DEF Governed, GovernedTyped, GovernedTypeOK, EvidenceTyped, Recorded, Typed
<1>3. DecidedIndependently'
  BY DecisionStep DEF Governed, GovernedTyped
<1> QED
  BY <1>1, <1>2, <1>3, StepStands, StepApproved, StepReceipts DEF Governed, GovernedTyped

LEMMA GovernedImpliesApproval == Governed => EachWasApproved
<1> SUFFICES ASSUME Governed, NEW a \in Agents, NEW e \in 1..Latest(a),
                    evidence[a][e] # Ungoverned
             PROVE  LET k == evidence[a][e].intent IN
                    /\ AgentOf[k.recommendation] = a
                    /\ transitions[a][e].target = Target(k)
                    /\ \E q \in requests, d \in decisions :
                          /\ q.intent = k /\ d.intent = k
                          /\ d.outcome = "approved" /\ d.by # q.by
                          /\ \A f \in decisions : f.intent = k => f = d
  BY DEF EachWasApproved
<1> DEFINE k == evidence[a][e].intent
<1>1. TargetAgent(k) = a /\ transitions[a][e].target = Target(k) /\ Approved(k)
  BY DEF Governed, TransitionsApproved, RestsOnApproval
<1>2. PICK d \in decisions : d.intent = k /\ d.outcome = "approved"
  BY <1>1 DEF Approved
<1>3. /\ \A f \in decisions : f.intent = d.intent => f = d
      /\ \E q \in requests : q.intent = d.intent /\ d.by # q.by
  BY DEF Governed, DecidedIndependently
<1> QED
  BY <1>1, <1>2, <1>3 DEF TargetAgent

LEMMA GovernedAlways == GovernedSpec => []Governed
BY InitGoverned, NextGoverned, PTL DEF GovernedSpec

\* The governance rows, the evidence and the executions stay within their
\* domains, and there is one entry of evidence for each transition.
THEOREM GovernedTypeCorrect == GovernedSpec => []GovernedTypeOK
<1>1. Governed => GovernedTypeOK
  BY DEF Governed, GovernedTyped
<1> QED
  BY <1>1, GovernedAlways, PTL

\* Whatever executions, retries, crashes, operators and inventory edits do, a
\* governed transition rests on the one decision of its intent, an approval by
\* a Security approver other than one who requested it.
THEOREM SeparationOfDuties == GovernedSpec => []EachWasApproved
BY GovernedImpliesApproval, GovernedAlways, PTL

\* No receipt is ever wrong: its transition carries its decision, is applied,
\* and was asked for by the principal it names.
THEOREM ReceiptsTell == GovernedSpec => []ReceiptsAreTrue
<1>1. Governed => ReceiptsAreTrue
  BY DEF Governed
<1> QED
  BY <1>1, GovernedAlways, PTL

-----------------------------------------------------------------------------
(* One transition per decision.  The version that an execution has read    *)
(* dates what it has seen: what is requested later revokes that version.   *)

\* A command that is still to be given: the transitions of its decision, if there
\* are any by now, are later than what it has read, and the stop that a restore
\* undoes was the newest transition then.
Fresh(c) ==
    LET x == exec[c]
        k == x.intent
        a == TargetAgent(k)
    IN  Stage(c) = "ready" =>
            /\ x.version <= agent[a].version
            /\ \A e \in Matching(k) : x.version <= transitions[a][e].revoked
            /\ k.action = "restore" =>
                  \E source \in receipts : /\ source.intent = StopOf(k.recommendation)
                                          /\ source.epoch \in 1..Latest(a)
                                          /\ RevokedAfter(a, source.epoch, x.version)

Dated ==
    /\ Governed
    /\ \A a \in Agents : Ordered(a)
    /\ \A c \in Commands : Fresh(c)

OnceEach == Dated /\ OneTransitionPerDecision /\ RestoresItsStop

LEMMA ReceiptsGrow == ASSUME [GovernedNext]_gvars PROVE receipts \subseteq receipts'
BY DEF GovernedNext, GovernanceStep, RequestStop, RequestRestore, AddRequest, Decide, Prepare,
   ExecutionStep, Command, CommandRefused, Running, SaveReceipt, RecoverReceipt, Save, Abandon,
   OperatorChange, Elsewhere, governance, gvars

\* Only Prepare makes a handler ready.
LEMMA ReadyIsPrepared ==
    ASSUME GovernedTypeOK, [GovernedNext]_gvars, NEW c \in Commands, exec'[c].stage = "ready"
    PROVE  \/ exec'[c] = exec[c]
           \/ \E d \in decisions, p \in OwnerOrAdmin : Prepare(c, d.intent, p)
<1>1. exec \in [Commands -> {Idle} \cup Execution]
  BY DEF GovernedTypeOK
<1>2. CASE \E d \in Commands, q \in decisions, p \in OwnerOrAdmin : Prepare(d, q.intent, p)
  BY <1>1, <1>2 DEF Prepare, Proceed
<1>3. CASE \E d \in Commands : \E x : exec' = [exec EXCEPT ![d] = x] /\ x.stage # "ready"
  BY <1>1, <1>3
<1>4. CASE UNCHANGED exec
  BY <1>4
<1>5. CASE \E d \in Commands : Stage(d) # "idle" /\ (Command(d) \/ CommandRefused(d) \/ Running(d))
  <2>1. PICK d \in Commands : Stage(d) # "idle" /\ (Command(d) \/ CommandRefused(d) \/ Running(d))
    BY <1>5
  <2>2. exec[d] \in Execution
    BY <1>1, <2>1 DEF Stage, Idle
  <2>3. /\ [exec[d] EXCEPT !.stage = "running", !.epoch = Latest(TargetAgent(exec[d].intent)) + 1].stage = "running"
        /\ [exec[d] EXCEPT !.stage = "failed"].stage = "failed"
        /\ [exec[d] EXCEPT !.stage = "applied"].stage = "applied"
        /\ Idle.stage = "idle"
    BY <2>2 DEF Execution, Idle
  <2> QED
    BY <1>3, <1>4, <2>1, <2>3 DEF Command, CommandRefused, Running, GovernedProject,
       GovernedProjectFails, GovernedFinalize, Returns, GovernedCrash, Proceed
<1>6. CASE \E d \in Commands : SaveReceipt(d) \/ Abandon(d) \/ \E q \in decisions : RecoverReceipt(d, q.intent)
  <2>1. PICK d \in Commands : exec' = [exec EXCEPT ![d] = Idle]
    BY <1>6 DEF SaveReceipt, Abandon, RecoverReceipt, Proceed
  <2>2. Idle.stage # "ready"
    BY DEF Idle
  <2> QED
    BY <1>3, <2>1, <2>2
<1> QED
  BY <1>2, <1>4, <1>5, <1>6 DEF GovernedNext, GovernanceStep, RequestStop, RequestRestore,
     AddRequest, Decide, ExecutionStep, Command, CommandRefused, Running, OperatorChange,
     Elsewhere, IncidentStep, gvars

\* Fresh, of the execution x of the intent k on the agent a.
FreshAt(x, k, a) ==
    /\ x.version <= agent[a].version
    /\ \A e \in Matching(k) : x.version <= transitions[a][e].revoked
    /\ k.action = "restore" =>
          \E source \in receipts : /\ source.intent = StopOf(k.recommendation)
                                  /\ source.epoch \in 1..Latest(a)
                                  /\ RevokedAfter(a, source.epoch, x.version)

LEMMA StaysFresh ==
    ASSUME Dated, [GovernedNext]_gvars, NEW x \in Execution, NEW k \in Intent, NEW a \in Agents,
           a = TargetAgent(k), FreshAt(x, k, a)
    PROVE  FreshAt(x, k, a)'
<1>0. GovernedTypeOK /\ GovernedTyped /\ Recorded /\ Typed /\ [Next]_vars
  BY GovernedStepIsStep DEF Dated, Governed, GovernedTyped, Recorded
<1>1. /\ Latest(a) \in Nat /\ Latest(a)' \in Nat /\ Latest(a)' >= Latest(a)
      /\ \A e \in 1..Latest(a) : evidence'[a][e] = evidence[a][e]
  BY <1>0, StepGrown DEF Grown
<1>2. /\ agent[a].version \in Nat /\ agent'[a].version \in Nat
      /\ agent[a].version <= agent'[a].version /\ x.version \in Nat
  BY <1>0, VersionTypes, NextOrdered DEF Dated, Execution
<1>3. x.version <= agent'[a].version
  BY <1>2 DEF FreshAt
<1>4. ASSUME NEW e \in Matching(k)'
      PROVE  x.version <= transitions'[a][e].revoked
  <2>1. e \in 1..Latest(a)' /\ evidence'[a][e] # Ungoverned /\ evidence'[a][e].intent = k
    BY <1>4 DEF Matching, TargetAgent, Latest
  <2>2. CASE e \in 1..Latest(a)
    BY <1>0, <1>1, <2>1, <2>2, VersionTypes DEF FreshAt, Matching
  <2>3. CASE e \notin 1..Latest(a)
    <3>1. RevokedAfter(a, Latest(a), x.version)
      BY <1>1 DEF RevokedAfter
    <3>2. \A epoch : RevokedAfter(a, epoch, x.version) => RevokedAfter(a, epoch, x.version)'
      BY <1>0, <1>2, RevokedLater DEF FreshAt
    <3>3. PICK epoch : epoch = Latest(a)
      OBVIOUS
    <3>4. RevokedAfter(a, epoch, x.version)'
      BY <3>1, <3>2, <3>3
    <3> QED
      BY <1>1, <2>1, <2>3, <3>3, <3>4 DEF RevokedAfter
  <2> QED
    BY <2>2, <2>3
<1>5. ASSUME k.action = "restore"
      PROVE  \E source \in receipts' : /\ source.intent = StopOf(k.recommendation)
                                       /\ source.epoch \in 1..Latest(a)'
                                       /\ RevokedAfter(a, source.epoch, x.version)'
  <2>1. PICK source \in receipts : /\ source.intent = StopOf(k.recommendation)
                                  /\ source.epoch \in 1..Latest(a)
                                  /\ RevokedAfter(a, source.epoch, x.version)
    BY <1>5 DEF FreshAt
  <2>2. RevokedAfter(a, source.epoch, x.version)'
    BY <1>0, <1>2, <2>1, RevokedLater DEF FreshAt
  <2>3. source \in receipts' /\ source.epoch \in 1..Latest(a)'
    BY <1>1, <2>1, ReceiptsGrow
  <2> QED
    BY <2>1, <2>2, <2>3
<1> QED
  BY <1>3, <1>4, <1>5 DEF FreshAt, StopOf, RevokedAfter

LEMMA PreparedFresh ==
    ASSUME Dated, NEW c \in Commands, NEW d \in decisions, NEW p \in OwnerOrAdmin,
           Prepare(c, d.intent, p), NEW x, x = exec'[c]
    PROVE  FreshAt(x, x.intent, TargetAgent(x.intent))'
<1>0. GovernedTypeOK /\ GovernedTyped /\ Recorded /\ Typed
  BY DEF Dated, Governed, GovernedTyped, Recorded
<1>1. PICK k \in Intent, a \in Agents : k = d.intent /\ a = TargetAgent(k)
  BY <1>0, TargetType DEF GovernedTypeOK
<1>2. /\ x.intent = k /\ x.version = agent[a].version
      /\ UNCHANGED <<evidence, receipts, transitions, agent>>
      /\ Matching(k) = {} /\ Current(k)
  BY <1>0, <1>1 DEF Prepare, Proceed, Executable, GovernedTypeOK, vars, durable, governance
<1>3. Latest(a) \in Nat /\ Latest(a)' = Latest(a) /\ agent[a].version \in Nat
  BY <1>0, <1>2, LatestType DEF Latest, Typed, TypeOK, AgentRow
<1>4. ASSUME k.action = "restore"
      PROVE  \E source \in receipts : /\ source.intent = StopOf(k.recommendation)
                                      /\ source.epoch \in 1..Latest(a)
                                      /\ RevokedAfter(a, source.epoch, agent[a].version)'
  <2>1. PICK source \in receipts : source.intent = StopOf(k.recommendation) /\ SourceInForce(a, source)
    BY <1>1, <1>2, <1>4 DEF Current, EligibleForRestore, TargetAgent
  <2>2. source.epoch = Latest(a) /\ source.epoch \in Nat \ {0}
    BY <1>0, <2>1 DEF SourceInForce, GovernedTypeOK
  <2> QED
    BY <1>3, <2>1, <2>2 DEF RevokedAfter
<1>5. Matching(k)' = {}
  BY <1>2 DEF Matching, TargetAgent, Latest
<1>6. \/ k.action # "restore"
      \/ \E source \in receipts' : /\ source.intent = StopOf(k.recommendation)
                                   /\ source.epoch \in 1..Latest(a)'
                                   /\ RevokedAfter(a, source.epoch, x.version)'
  BY <1>2, <1>3, <1>4 DEF RevokedAfter, Latest
<1>7. FreshAt(x, k, a)'
  BY <1>2, <1>3, <1>5, <1>6 DEF FreshAt, StopOf
<1> QED
  BY <1>1, <1>2, <1>7

LEMMA NextFresh ==
    ASSUME Dated, [GovernedNext]_gvars, NEW c \in Commands
    PROVE  Fresh(c)'
<1> SUFFICES ASSUME Stage(c)' = "ready" PROVE Fresh(c)'
  BY DEF Fresh
<1>0. GovernedTypeOK /\ GovernedTyped /\ Typed
  BY DEF Dated, Governed, GovernedTyped, Recorded
<1>1. CASE exec'[c] = exec[c]
  <2>1. PICK x \in Execution, k \in Intent, a \in Agents :
           x = exec[c] /\ k = x.intent /\ a = TargetAgent(k)
    BY <1>0, <1>1, ExecutionType DEF Stage
  <2>2. FreshAt(x, k, a)
    BY <1>1, <2>1 DEF Dated, Fresh, FreshAt, Stage
  <2>3. FreshAt(x, k, a)'
    BY <2>1, <2>2, StaysFresh
  <2>4. exec'[c] = x /\ TargetAgent(k)' = a
    BY <1>1, <2>1 DEF TargetAgent
  <2> QED
    BY <2>1, <2>3, <2>4 DEF Fresh, FreshAt, Latest, TargetAgent, StopOf, Matching, RevokedAfter
<1>2. CASE \E d \in decisions, p \in OwnerOrAdmin : Prepare(c, d.intent, p)
  <2>1. PICK x : x = exec'[c]
    OBVIOUS
  <2>2. FreshAt(x, x.intent, TargetAgent(x.intent))'
    BY <1>2, <2>1, PreparedFresh
  <2> QED
    BY <2>1, <2>2 DEF Fresh, FreshAt, Latest, TargetAgent, StopOf, Matching, RevokedAfter
<1> QED
  BY <1>0, <1>1, <1>2, ReadyIsPrepared DEF Stage

\* A transition that is new and carries a decision is the one of a command, given
\* at the version its execution had read.
LEMMA NewIsCommanded ==
    ASSUME Dated, [GovernedNext]_gvars, NEW a \in Agents, NEW e \in 1..Latest(a)',
           e \notin 1..Latest(a), evidence'[a][e] # Ungoverned
    PROVE  \E c \in Commands :
               /\ Stage(c) = "ready" /\ exec[c].intent \in Intent
               /\ TargetAgent(exec[c].intent) = a /\ evidence'[a][e].intent = exec[c].intent
               /\ e = Latest(a) + 1 /\ exec[c].version = agent[a].version /\ ~Pending(a)
<1>0. GovernedTyped /\ GovernedTypeOK /\ Typed
  BY DEF Dated, Governed, GovernedTyped, Recorded
<1>1. Latest(a)' # Latest(a)
  OBVIOUS
<1>2. Latest(a) \in Nat /\ Latest(a)' \in Nat
  BY <1>0, RowsStay
<1>3. CASE \E c \in Commands : Command(c)
  <2>1. PICK c \in Commands : Command(c)
    BY <1>3
  <2>2. Stage(c) = "ready"
    BY <2>1 DEF Command
  <2>3. PICK k \in Intent, b \in Agents, t \in States, x \in Evidence :
           /\ k = exec[c].intent /\ b = TargetAgent(k) /\ t = Target(k)
           /\ x = [intent |-> k, by |-> exec[c].by]
    BY <1>0, <2>2, ExecutionType DEF Execution, Evidence
  <2>4. /\ Change(c, b, t) /\ evidence' = [evidence EXCEPT ![b] = Append(@, x)]
        /\ exec[c].version = agent[b].version
    BY <2>1, <2>3 DEF Command, AtExpectedVersion
  <2>5. TransitionAdded(b, t, x)
    BY <1>0, <2>4, EvidenceAppended
  <2>6. a = b /\ e = Latest(a) + 1 /\ evidence'[a][e] = x
    BY <1>1, <1>2, <2>5 DEF TransitionAdded
  <2>7. ~Pending(a)
    BY <2>4, <2>6 DEF Change
  <2>8. evidence'[a][e].intent = exec[c].intent
    BY <2>3, <2>6
  <2>9. exec[c].version = agent[a].version
    BY <2>4, <2>6
  <2> QED
    BY <2>2, <2>3, <2>6, <2>7, <2>8, <2>9
<1>4. CASE \E c \in Commands, b \in Agents, t \in States : OperatorChange(c, b, t)
  <2>1. PICK c \in Commands, b \in Agents, t \in States : OperatorChange(c, b, t)
    BY <1>4
  <2>2. Change(c, b, t) /\ evidence' = [evidence EXCEPT ![b] = Append(@, Ungoverned)]
    BY <2>1 DEF OperatorChange
  <2>3. TransitionAdded(b, t, Ungoverned)
    <3>1. Ungoverned \in Evidence
      BY DEF Evidence
    <3> QED
      BY <1>0, <2>2, <3>1, EvidenceAppended
  <2> QED
    BY <1>1, <1>2, <2>3 DEF TransitionAdded
<1>5. CASE (\E c \in Commands : Running(c)) \/ Elsewhere
  BY <1>0, <1>1, <1>5, NoNewTransition DEF Running, Elsewhere, GovernedProject,
     GovernedProjectFails, GovernedFinalize, GovernedCrash, WorkerStep, Workers
<1>6. CASE UNCHANGED vars
  BY <1>1, <1>6 DEF vars, durable, Latest
<1> QED
  BY <1>3, <1>4, <1>5, <1>6 DEF GovernedNext, GovernanceStep, RequestStop, RequestRestore,
     AddRequest, Decide, Prepare, ExecutionStep, CommandRefused, SaveReceipt, RecoverReceipt,
     Abandon, IncidentStep, gvars

\* When a command is given every transition of its agent has been applied, and so
\* revokes only versions older than the one the command has found.
LEMMA AppliedBehind ==
    ASSUME Dated, NEW a \in Agents, ~Pending(a), NEW e \in 1..Latest(a)
    PROVE  ~(agent[a].version <= transitions[a][e].revoked)
<1>1. Recorded /\ Typed /\ Ordered(a)
  BY DEF Dated, Governed, GovernedTyped, Recorded
<1>2. Latest(a) \in Nat /\ transitions[a][e] \in TransitionRow /\ agent[a].version \in Nat
  BY <1>1, LatestType, RowType DEF Typed, TypeOK, AgentRow
<1>3. transitions[a][e].status # "pending"
  BY <1>1, <1>2, PendingIsLatest
<1>4. transitions[a][e].status = "applied"
  BY <1>2, <1>3 DEF TransitionRow, Statuses
<1> QED
  BY <1>1, <1>2, <1>4 DEF Ordered, FloorsBelow, TransitionRow

LEMMA NextOnceEach ==
    ASSUME OnceEach, [GovernedNext]_gvars
    PROVE  OnceEach'
<1>0. Dated /\ GovernedTyped /\ GovernedTypeOK /\ Recorded /\ [Next]_vars
  BY GovernedStepIsStep DEF OnceEach, Dated, Governed, GovernedTyped
<1>1. Dated'
  BY <1>0, NextGoverned, NextOrdered, NextFresh DEF Dated
<1>2. \A a \in Agents : /\ Latest(a) \in Nat
                        /\ \A e \in 1..Latest(a) : evidence'[a][e] = evidence[a][e]
  BY <1>0, StepGrown DEF Grown
<1>3. ASSUME NEW a \in Agents, NEW e \in 1..Latest(a)', e \notin 1..Latest(a),
             evidence'[a][e] # Ungoverned,
             NEW f \in 1..Latest(a)', evidence'[a][f] # Ungoverned,
             evidence'[a][f].intent = evidence'[a][e].intent
      PROVE  f = e
  <2>1. PICK c \in Commands :
           /\ Stage(c) = "ready" /\ TargetAgent(exec[c].intent) = a
           /\ evidence'[a][e].intent = exec[c].intent
           /\ e = Latest(a) + 1 /\ exec[c].version = agent[a].version /\ ~Pending(a)
    BY <1>0, <1>3, NewIsCommanded
  <2>2. CASE f \in 1..Latest(a)
    <3>1. f \in Matching(exec[c].intent)
      BY <1>2, <1>3, <2>1, <2>2 DEF Matching
    <3>2. agent[a].version <= transitions[a][f].revoked
      BY <1>0, <2>1, <3>1 DEF Dated, Fresh
    <3> QED
      BY <1>0, <2>1, <2>2, <3>2, AppliedBehind
  <2>3. CASE f \notin 1..Latest(a)
    BY <1>0, <1>3, <2>1, <2>3, NewIsCommanded
  <2> QED
    BY <2>2, <2>3
<1>4. OneTransitionPerDecision'
  <2>1. SUFFICES ASSUME NEW a \in Agents,
                        NEW e \in 1..Latest(a)', evidence'[a][e] # Ungoverned,
                        NEW f \in 1..Latest(a)', evidence'[a][f] # Ungoverned,
                        evidence'[a][e].intent = evidence'[a][f].intent
                 PROVE  e = f
    BY DEF OneTransitionPerDecision
  <2>2. CASE e \in 1..Latest(a) /\ f \in 1..Latest(a)
    BY <1>2, <2>1, <2>2 DEF OnceEach, OneTransitionPerDecision
  <2> QED
    BY <1>3, <2>1, <2>2
<1>5. RestoresItsStop'
  <2>1. SUFFICES ASSUME NEW a \in Agents, NEW e \in 1..Latest(a)', evidence'[a][e] # Ungoverned,
                        evidence'[a][e].intent.action = "restore"
                 PROVE  \E x \in receipts' :
                            /\ x.intent = StopOf(evidence'[a][e].intent.recommendation)
                            /\ x.epoch = e - 1
    BY DEF RestoresItsStop, StopOf
  <2>2. receipts \subseteq receipts'
    BY ReceiptsGrow
  <2>3. CASE e \in 1..Latest(a)
    BY <1>2, <2>1, <2>2, <2>3 DEF OnceEach, RestoresItsStop
  <2>4. CASE e \notin 1..Latest(a)
    <3>1. PICK c \in Commands :
             /\ Stage(c) = "ready" /\ TargetAgent(exec[c].intent) = a
             /\ evidence'[a][e].intent = exec[c].intent
             /\ e = Latest(a) + 1 /\ exec[c].version = agent[a].version /\ ~Pending(a)
      BY <1>0, <2>1, <2>4, NewIsCommanded
    <3>2. PICK x \in receipts : /\ x.intent = StopOf(exec[c].intent.recommendation)
                                /\ x.epoch \in 1..Latest(a)
                                /\ RevokedAfter(a, x.epoch, agent[a].version)
      BY <1>0, <2>1, <3>1 DEF Dated, Fresh
    <3>3. x.epoch = Latest(a)
      <4>1. SUFFICES ASSUME x.epoch # Latest(a) PROVE FALSE
        OBVIOUS
      <4>2. Latest(a) \in 1..Latest(a) /\ Latest(a) > x.epoch
        BY <1>2, <3>2, <4>1
      <4>3. agent[a].version <= transitions[a][Latest(a)].revoked
        BY <3>2, <4>2 DEF RevokedAfter
      <4> QED
        BY <1>0, <3>1, <4>2, <4>3, AppliedBehind
    <3> QED
      BY <1>2, <2>2, <3>1, <3>2, <3>3
  <2> QED
    BY <2>3, <2>4
<1> QED
  BY <1>1, <1>4, <1>5 DEF OnceEach

LEMMA InitOnceEach == GovernedInit => OnceEach
<1> SUFFICES ASSUME GovernedInit PROVE OnceEach
  OBVIOUS
<1>1. Governed /\ \A a \in Agents : Ordered(a) /\ Latest(a) = 0
  BY InitGoverned, InitVersions, EmptySeq DEF GovernedInit, Versions, Init, Latest
<1>2. \A c \in Commands : Stage(c) # "ready"
  BY DEF GovernedInit, Stage, Idle
<1> QED
  BY <1>1, <1>2 DEF OnceEach, Dated, Fresh, OneTransitionPerDecision, RestoresItsStop

\* One approved decision switches its agent at most once, whatever executors race,
\* retry, crash or recover, and whatever the inventory edits meanwhile.
THEOREM OneTransitionPerDecisionHolds == GovernedSpec => []OneTransitionPerDecision
<1>1. OnceEach /\ [GovernedNext]_gvars => OnceEach'
  BY NextOnceEach
<1>2. OnceEach => OneTransitionPerDecision
  BY DEF OnceEach
<1> QED
  BY InitOnceEach, <1>1, <1>2, PTL DEF GovernedSpec

\* A governed restore undoes the stop it was approved for: no transition has come
\* in between.
THEOREM RestoresItsStopHolds == GovernedSpec => []RestoresItsStop
<1>1. OnceEach /\ [GovernedNext]_gvars => OnceEach'
  BY NextOnceEach
<1>2. OnceEach => RestoresItsStop
  BY DEF OnceEach
<1> QED
  BY InitOnceEach, <1>1, <1>2, PTL DEF GovernedSpec
=============================================================================
