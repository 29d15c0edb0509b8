# Verification of the governance control plane

This directory holds TLA+ modules, TLC configurations and TLAPS proofs for the
API of this repository (`src/apps/api/src/ai_governance_api`, abbreviated
`API/` below).  Every definition is translated from the Python source; the
`map` of `PROJECT.json` names the lines each definition stands for.

## The system

A FastAPI process serves requests over PostgreSQL (READ COMMITTED, one session
per request, `expire_on_commit=False`), Redis, an object store, a malware
scanner and an external policy-aware model Router.  Several replicas run at a
time, each interleaving its requests at every `await`.  Nothing in the schema
enforces the `version` columns: optimistic concurrency is what each service
checks in Python between its read and its unconditional UPDATE, so it is sound
exactly where a row lock covers both.

| component | state | operations | what makes it correct |
|---|---|---|---|
| Runtime kill switch (`application/runtime_control.py`) | Agent row, transitions, Redis projection | activate, deactivate, reconcile, gate check | one alternating history per agent, applied once; a confirmed stop kills every authorization issued before it; pending work is finished |
| Policy engine and control catalogue (`packages/policy-engine`) | none: pure | evaluate, select controls | one more risk factor never lowers what is required; what is required hangs together |
| Asset inventory (`services/inventory.py`) | systems, models, agents, review digests | create, update, review, retire, invalidate | no agent is authorized on a model whose approval is gone; owners do not review their own assets |
| Initiative reviews (`services/initiatives.py`, `domain/reviews.py`) | initiative, rounds, gates | create, submit, decide, revise, resubmit | an approval comes from every required area of the current round, by independent people |
| Assessments (`application/assessments.py`) | assessment rows | save draft, submit, reopen | what is under review is what was submitted |
| Model routing (`application/model_routing.py`) | decision records, pending to final | execute | no allowed record without gate, scope and Router agreeing; every exchange is on record with its own evidence |
| Authorization issuance and replay (`application/runtime_authorization_*.py`) | key sets, signed authorizations, consumed ids | issue, verify, consume | one use before expiry, bounded by scope and revocation floor |
| Runtime telemetry and assurance (`application/runtime_telemetry.py`, `runtime_assurance*.py`) | events, policies, evaluations, promotions, recommendations | ingest, evaluate, promote, recommend | an evaluation can be told again from its evidence; one active incident per breach, as severe as its evidence |
| Governed actuation and restore (`runtime_assurance_actuation*.py`, `runtime_assurance_restore.py`) | requests, decisions, executions | request, decide, execute, recover | four eyes; one transition per approved decision; what is answered is what was written |
| Incidents and exceptions (`application/incidents.py`) | incidents, exceptions | report, contain, plan, close, request, decide, revoke | an exception is approved independently, expires and stays over |
| Evidence (`application/evidence.py`) | metadata rows, stored objects | upload, list | no saved metadata without its clean object |
| Governance intelligence (`application/governance_*.py`) | audit trail, releases, review receipts | analyse, release, review | a release rests on verified bytes; one receipt per review request |
| Backups (`application/backups.py`) | archives, restore targets | create, verify, restore, test | what is restored has an object for each row |
| Directory access and authorization cache (`application/directory_*.py`, `adapters/microsoft_graph.py`) | restrictions, cached snapshots | block, restore, invalidate, resolve, reuse | an answered block stands; an invalidated snapshot is not reused; lost groups end |
| Audit chain (`audit.py`) | audit_events | append | each event names a predecessor that is on record |
| Dashboard, settings, telemetry export, routers, scripts, web | none of their own, or operational | | |

How they interact.  The kill switch and the inventory write the same Agent row,
under two different locks (Agent and AISystem).  Routing reads the scope the
inventory maintains, asks the kill switch's gate, signs an authorization that
carries the Agent version, calls the Router (which reads the same Redis
projection) and asks the gate once more.  Governed actuation drives the kill
switch as one more caller, after a request and an independent decision.
Breaches found in telemetry are promoted to incidents, whose recommendations
governed actuation requests start from.  Initiative approval is what allows a
system to be created.  Uploaded evidence is what analyses read, reviews judge
and backups copy.  Every request passes the restriction of its bearer and the
areas the directory gives.  Every one of these commits with an audit event.

What is hard: rows read before an `await` and used after it; two services that
lock different rows; PostgreSQL and Redis changed in two steps with a crash,
a time-out or an outage in between; writes that reach Redis after their caller
gave up; retries of work that was already done; idempotent replay that races
its own first attempt.  `hazards` in `PROJECT.json` lists each at its line.

## Modules

### `RuntimeControl` (core), `MCRuntimeControl`

The state is the two tables (`agent`, `transitions`), the Redis key of each
agent (`redis`), the commands whose callers timed out (`wire`), the progress of
each request handler (`jobs`, `phase`), of each gate call (`check`), of each open
inventory transaction (`edit`), and two histories: the epochs whose callers have
a confirmation (`confirmed`) and the authorizations signed (`issued`).

| code | action |
|---|---|
| `_change` up to its commit | `Change` |
| `reconcile_pending`, its query | `ListPending` |
| `projection.project` and its outcomes | `Project`, `ProjectFails` |
| `_finalize_transition` | `Finalize`, `FinalizeAgain` |
| process death, failed commit | `Crash` |
| inventory read / UPDATE of the Agent | `BeginEdit` / `CommitEdit`, `RollBackEdit` |
| scope read by routing, then `state_for` | `ReadScope`, `GateReadsAgent`, `GateReadsLatest`, `GateObserves`, `GateRepairs`, `GateCannotRepair` |
| Redis: outage, lost key, late command | `RedisGoesDown`, `RedisComesBack`, `RedisForgets`, `Deliver`, `LoseMessage` |

A transaction of the service holds the Agent row lock from its first read to
its commit and calls nothing external, so it is one action.  The inventory
locks the AISystem row and writes `agent.version = read + 1`, so its read and
its write are two.  The one place where the two services meet is the foreign key
of a transition: its INSERT takes a share lock on the AISystem row and so waits
while an edit of the system is open (`SystemRowFree`, models.py:280).  A
finalization inserts no transition and does not wait.  The gate reads the Agent row and the newest transition in
two statements of a READ COMMITTED transaction: two actions.  Who may call,
reasons, evidence references and audit payloads are data the properties do not
tell apart; any caller passes, with the version it must name.

SQLAlchemy's identity map is weak, so a read after a commit is a fresh one, with
one exception: an Agent read with its system and that system refer to each
other, and live until the collector runs.  A finalization that finds such an
Agent compares the version of before with the row's (`apply_agent_state`) and
raises where they differ, which `Crash` stands for, or answers with the facts
of before, which no property speaks of.

`GateReadsAgent` and `GateReadsLatest` record what the call could have known
when it began (`floor`), so that `GateIsCurrent` can compare the answer with it.  Every transition, stop or restore, revokes through the Agent
version it finds (`RevokedThrough`), and its finalization moves the Agent to the
next one.

### `KillSwitch`, `RuntimeControlRefinement`

`KillSwitch` is what the operator is promised, without databases or epochs: a
stop is requested, enforced at the Router, then on record; enforcing it kills
every authorization, and nothing revives one.  `RuntimeControlRefinement` maps
`RuntimeControl` to it: `enforced` is what Redis shows, `live` the signed
authorizations the Router would still accept.  The mapping holds while Redis
keeps its data, inventory edits included, and is proved under this assumption;
what a lost key does is told under the runs.

### `PolicyEngine`, `ControlCatalog`, `PolicyLattice`, `PolicyProofs`

`PolicyEngine` translates `policy_engine/engine.py` into pure operators over a
record of ranks and flags.  `ControlCatalog` translates the bundled catalogue
(`control_catalog.yaml`) rule by rule with the loader's rules of well-formedness
and the selection of controls.  `PolicyLattice` explores the contexts one risk factor at
a time, so that "one more factor" is a step and monotonicity an action property.
Only self-hosted and hybrid are told from the other hosting models, as in the
code; the selector on hosting models, which no bundled rule uses, the
non-authoritative crosswalk and the wording of reasons and controls are left
out.

### `InitiativeReview`, `MCInitiativeReview`, `InitiativeReviewProofs`

| code | action |
|---|---|
| `submit`, `resubmit`, `revise` | `Submit`, `Resubmit`, `Revise` |
| `decide_approval`, from the row lock to its reads / from its writes to the commit | `Decide` / `CommitDecision`, `AbandonDecision` |
| `SaveAssessment`: the initiative / the row, and validation | `BeginSave` / `ReadDraft` |
| `SubmitAssessment`: the row, and validation | `BeginSubmit` |
| the repository's `save`: `session.get`, then the UPDATE or INSERT | `Load`, `Write` |
| failed commit, end of the process | `Abandon` |

The initiative's commands hold its row lock, so `Unlocked` is what they wait
for.  A decision reads the assessments without a lock and later writes `status`
and `version` of those it read as under review: two actions.  An assessment
command locks nothing and its UPDATE names only the columns that differ from
what it loaded (`Merged`).  The policy is a parameter (`RequiredAreas`,
`RequiredKinds`, `Applicable`, `Elevated`, `Blocked`), which `PolicyEngine`
instantiates in the code.  An administrator may decide any gate, as in
`domain/reviews.py`.

### `AuditChain`

`append_audit_event` is `AppendEvent` (the query, which flushes the event added
before, and the hash) and `Flush` (the INSERT, where `occurred_at` is taken);
`Commit` and `RollBack` end the transaction of a service.  A hash is the
sequence of the bodies behind it, so equal hashes are equal histories and the
unique key on `event_hash` is a comparison of histories.  Each process has its
own clock (`offset`).

### `AssetRegistry`

One system with its models and agents.  Every inventory command locks the
AISystem row before it reads anything else (`_get_system_for_update`), so each
method is one action of the same name: `CreateSystem`, `UpdateSystem`,
`RetireSystem`, `CreateModel`, `UpdateModel`, `ReviewModel`, `RetireModel`,
`CreateAgent`, `UpdateAgent`, `ReviewAgent`, `RetireAgent`, each with the
cascades its code calls (`AgentsWithout`, `Invalidated`, `RetiredIfLive`).  A
review digest is the scope it was computed from; the material fields of a scope
are abstracted to what the review policy and routing tell apart.  `Tick` is the
clock that makes reviews lapse, `SwitchAgent` the other writer of an Agent row.
That writer does not take the system's lock, and the lost version this causes
is `RuntimeControl`'s subject: here no property speaks of agent versions.

### `ModelRouting`, `MCModelRouting`, `ModelRoutingProofs`

Extends `AssetRegistry` with requests to the Router.

| code (`application/model_routing.py`) | action |
|---|---|
| `scope_reader.get`: the agent and its system / its models | `ReadAgent` / `Open` |
| pending record persisted | `Open` |
| `evaluate_routing_scope` blocks; the gate or the signer refuses | `Refuse` |
| `issue`, `router.decide` sent | `AskRouter` |
| `decide` raises / answers | `RouterFails` / `RouterAnswers` |
| the gate refuses after an acceptance | `RefuseAgain` |
| second `scope_reader.get`, `enforce_router_decision`, final record | `ReadAgentAgain`, `Conclude` |
| process death, failed commit | `Die` |

`selectinload` makes the reader two statements of a READ COMMITTED transaction,
so either scope may be torn, with the agent of one instant and the models of
another.  `granted` is a history variable: what the inventory allowed at the
instant the agent was read again.  The gate, the signer and the Router answer
as they may.  The requested cost is compared with a limit of the agent's own
scope only and is left out.

### `RoutingExchange`

The other half of a routing request, composed with `ModelRouting` in
`MCModelRouting`: one attempt as an exchange with a Router that may lose, delay
or swap its answers.  A scope carries the verdict of `evaluate_routing_scope` as
a fact, and a digest is the facts it covers.

| code | action |
|---|---|
| `execute` up to the scope read; the pending record | `Begin`; `Intend` |
| scope refused, gate before, authorization not issued | `RefuseScope`, `GateBefore`, `IssueFails` |
| the request, signed and sent | `Ask` |
| the Router (external) | `AnswerOne`, `RouterUnavailable` |
| validation of the answer, its bindings, a signed violation | `Receive` |
| gate after, second scope, `enforce_router_decision` | `GateAfter`, `Recheck` |
| the final record with its audit event | `FinalizeAttempt` |
| process death; a commit that fails, or takes effect and raises | `DieAt`; the argument of `Intend` and `FinalizeAttempt` |

An accepted decision is bound to its schema, workflow and task, a violation also
to its attempt and authorization (ADR 0031); the unique `router_decision_id`
keeps one decision out of two records.

### `RuntimeAssurance`, `PolicyExceptions`, `Incidents`, `AssuranceIncidents`, `AssuranceIncidentsProofs`

`RuntimeAssurance` has the telemetry table, the versions of one policy and its
evaluations: `IngestTelemetry`, `PutPolicy` (under locks, by version),
`BeginEvaluation` (the policy's read) and `RecordEvaluation` (the samples' read
and the row), with `AbandonEvaluation`.  `EvaluateSamples` computes rates,
percentile and the run of failures as `evaluate_runtime_assurance` does, a sort
being the listing of a set in its order (`InOrder`); ids are numbers, since the
code only compares them.
`Incidents` is the life cycle of an incident, each command under the AISystem
lock and so one action; `PolicyExceptions` that of an exception, whose
`ExceptionState` is computed when read.  `AssuranceIncidents` composes them with
promotions (`PromoteToNewIncident`, `PromoteToActiveIncident`,
`PromoteAndEscalate`) and with `Recommend`, which stands where its statement
began to wait for the lock, because that is the moment of the facts it records.

### `GovernedActuation`, `MCGovernedActuation`, `GovernedActuationProofs`

`GovernedActuation` extends `Incidents` and `RuntimeControl`: it is the kill
switch with its governed callers.  A decision is known by its *intent*: the action, the
recommendation it goes back to and, for a restore, the version of the incident
its remediation digest covers.  `evidence` is the evidence reference and the
requester of every transition; `exec` is what each command handler does.

| code | action |
|---|---|
| `create` of actuation and restore requests | `RequestStop`, `RequestRestore` |
| `decide`, approval and rejection | `Decide` |
| `execute`: its read transaction | `Prepare` |
| `activate` / `deactivate` with the version read, up to its commit | `Command`, `CommandRefused` |
| the rest of that call | `Running`: `GovernedProject`, `GovernedProjectFails`, `GovernedFinalize`, `GovernedCrash` |
| `_persist_receipt` after a result that matches | `SaveReceipt` |
| a retry, or `_recover_after_runtime_error`, that finds the transition | `RecoverReceipt` |
| an error answered, a failed commit, process death | `Abandon` |
| operators, reconcilers, Redis | `OperatorChange`, `Elsewhere` |

A request or a decision takes a lock under which nobody else writes the same
row; what it reads besides can move on before its commit, but nothing reads its
new row earlier, so it is placed at its reads.  `Prepare` is placed where it
reads the Agent: the incident's version, the newest transition and the
transitions of its decision only grow, and what the approval fixed is what it
finds again after that point, so it held at that point too.  The execution and
the call of `RuntimeControl` are two transactions, hence two actions, with the
Agent version as the only link.  The gate, which has its own run, takes no
part here (`Checks = {}`).  A handler that answers with facts of before (see
`RuntimeControl`) takes `Abandon` instead of `SaveReceipt`.

### `GovernedEvidence`, `MCStoredEvidence`, `StoredEvidenceProofs`

The rows the same chain leaves in eight tables, each naming the one it rests on
by id and by digest.  `table` is what is stored, `written` what the code wrote;
`Damage` changes one column of one stored row, within the keys and foreign keys
of its table, which is what the digests are there to detect.  Each step loads
its chain with the adapter's bindings (`RecommendationHolds` to
`RestoreExecutionHolds`) and writes from what it has loaded; each `Get...` is a
read or a retry.  A digest is the record of the columns it is taken over.
Conditions on the present (the incident, the remediation, the switch) stay in
`GovernedActuation`.  `StoredEvidenceProofs` has the theorems of this lineage and
of `AuditChain`; `GovernedActuationProofs` those of `RuntimeControl` and its
refinement, which it needs, and of `GovernedActuation`.

### `EvidenceStore`, `GovernanceIntelligence`, `FindingReviews`, `Backups`, `EvidenceUse`, `EvidenceUseProofs`

| code | action |
|---|---|
| `UploadEvidence`: checks and scan / put / metadata / compensation | `AcceptUpload`, `RefuseUpload` / `PutObject`, `PutFails` / `SaveMetadata`, `SaveMetadataFails`, `CommitUnknown` / `DeleteAfterFailure`, `DeleteFails` |
| process death; the object store loses or alters an object | `UploadDies`; `ObjectDamaged` |
| `RunGovernanceIntelligenceAnalysis`, stage by stage | `RequestAnalysis`, `SourcesVerified`, `ProviderAnswers`, `ProviderRejected`, `ProviderFails`, `PersistCompletion`, `CompletionConflicts`, `CompletionUnknown`, `AnalysisDies` |
| `ResolveGovernanceKnowledgeSources`, source by source | `AuthorizeSource`, `ReadSource`, `ResolutionFails` |
| `ReviewGovernanceFinding` | `BeginReview`, `RequireReleased`, `NotFound`, `Replay`, `InsertReceipt`, `WriteConflict`, `CommitReceipt`, `CommitUnanswered`, `ReviewFails` |
| `CreateBackup` | `InspectDatabase`, `CreateDump`, `ListKeys`, `Download`, `Finalize`, `Discard` |
| a published file is replaced, lost or altered (external) | `ArchiveDamaged` |
| `RestoreBackup`, `TestRestore` | `BeginRestore`, `RestoreDatabase`, `DatabaseRefused`, `CompareDatabase`, `RestoreBucket`, `BucketRefused`, `DropDatabase`, `CleanAfterTest` |

The bucket and PostgreSQL share no transaction, so a put or a deletion may take
effect although it is answered with an error, and a commit may although it
raises (`unknown` counts those).  An archive is what is in its files, apart from
the manifest that describes them: a restore compares the two once
(`VerifyBackup`, part of `BeginRestore`) and then reads the files again.  An
object's file is compared with the manifest once more after its put; the dump is
not (`backup_services.py:103`), so `RestoredIsWhole` rests on the dump read being
the one that was verified.  Every removal a refused restore makes may fail as
well and leave its target behind.  `EvidenceUse` composes the four over the
evidence table, the bucket and the release registry.

### `DirectoryIdentity`, `MicrosoftGraph`, `DirectoryAccess`, `RuntimeAuthorization`, `AccessClock`, `AccessControl`, `AccessControlProofs`

`DirectoryIdentity` is pure: what the claims of a verified Entra token make of
its bearer and which mappings of a catalogue match.  `MicrosoftGraph` is the
conversation of one request: `ExchangesToken`, `ReadsProfile`, `ReadsPage` for
each page, `Retries`, while memberships change (`LeavesAGroup`).  The groups are
asked for with `ConsistencyLevel: eventual`, so a page may list a group its
bearer has left (`Shown`); `Lag` is the external bound on how long, which the
code neither knows nor checks.
`DirectoryAccess` is admission (`Authenticate`, `RejectToken`, `RequireActive`,
`Reuse`, `ResolveFromToken`, `ResolveFromGraph`, `GraphAnswers`, `GraphFails`,
`GrantUncached`, `Save`, `SaveFails`) and the commands of administrators
(`Admit`, `ReadClock`, `ChangeAccess`, `Invalidate`, `CommandFails`).  An upsert
locks the row until its commit, so a save or a command is one step there, with
the instant it read from the clock before.  `RuntimeAuthorization` has the key
sets, the signer, the consumer and its replay guard: `Publish`, `RestartIssuer`,
`RestartConsumer`, `Issue`, `Consume`, `RefuseReplay`.  The instant a verification
works with is read by its caller before the signature and the guard's lock, so
the last two take any instant since the process started (`Held`), however many
callers there are.  `AccessControl` composes both on one clock.

## What the runs check

| run | question | bounds, and why they are enough |
|---|---|---|
| `kill_switch_core` | durable history, projection, confirmations, revocation, gate; refinement of `KillSwitch` | a command and a reconciler on one agent with a gate call: three transitions (a stop, a restore and a stop), one outage, one late command, inventory edits that begin while the Agent has its first version and may commit after a finalization; every pair of writers races |
| `kill_switch_reconciliation` | pending transitions are finished | two agents in batches of one, so that one may block the other; one edit, one outage and one lost key on the way |
| `policy_monotone` | monotonicity of score, tier, gates, documents and controls; each specialised document has its gates and its control | every rank, up to three flags: each capped score passes its cap with them; the theorems remove the bound |
| `review_core` | approvals, rounds and what they keep, history, liveness | three kinds of proposal, two areas, an owner who also holds areas, an administrator, two rounds; two requests on one assessment, so that one writes what it read before the other, a decision or a resubmission, the second beside a proposal of elevated risk only |
| `submitted_overwritten` | finding | two requests, two contents |
| `registry_routing` | independence, support, allowed decisions; exchanges and their evidence | two models, one agent, eight changes: the shortest history that approves both models and the agent, lets a request read half a scope, and changes it twice; owner and reviewer may swap roles.  Two attempts of one agent at one task, explored while the inventory rests, since the two share no variable |
| `governed_actuation` | one transition per decision, approval by another person, restores of the right stop | one recommendation, two handlers and a reconciler; four transitions: a governed stop, an operator's restore and stop, and the governed restore that comes too late; two re-plannings of the incident; inventory edits and one outage, in behaviours of their own |
| `stored_evidence` | what is answered was written; effects follow approvals; predecessors, one chain | two recommendations about two agents, so that evidence of one chain can take the place of the other's; one column changed at any moment; until then the second chain follows the first.  Of the audit trail two writers with several events each, clocks equal or one apart, explored while the lineage rests, since the two share no variable |
| `assurance_loop` | evaluations, active incidents, severities, exceptions | three samples under two ids, two policies of different limits and severities replaced twice, two evaluations, two incidents; exceptions and reported incidents, which meet the rest only through an incident's status, in behaviours of their own |
| `evidence_use` | uploads, releases, receipts, restored backups | two uploads of three contents, one unknown commit, one damaged object; two analyses of one source, two calls of one review request; a backup beside uploads without faults (none is promised then), of whose published files one may change at any moment |
| `access` | cached snapshots, blocks, lost groups, one-time use | two identities, one group, two catalogues and replicas; two requests with one command or one with two, two attempts and two pages, a Graph that is one instant behind; an authorization part with two key sets, a guard of one entry, callers with any instant and three acceptances, in behaviours of its own.  Four instants: a group lost, no longer shown, and the end of the snapshot's TTL lie in different ones |
| `access_forgotten_invalidation` | finding | one request and two commands |

Requests, handlers and gate calls only meet through the shared rows, so one
(two, where they write) is enough to see each interleaving with the writers;
the theorems hold for any number.  The `Apart` constraints keep components that
share nothing but a clock or a table at rest beside each other; each says what
it holds apart.  The deadlock check is off where the bounds or final states stop
the system: all runs but those of the kill switch.

`kill_switch_core` has no lost keys (`MaxLosses = 0`), which break
`AuthorizationsStayRevoked`: after Redis loses the key of an agent, a gate call
that had read PostgreSQL before a stop, now confirmed, repairs the projection
with the snapshot it read, and the Router accepts authorizations of before the
stop until the next gate call or transition (set `MaxLosses = 1` to see it).
ADR 0033:34 lets the gate repair a missing snapshot from durable evidence and
says nothing of a key lost beside a racing stop, so this is a condition of the
run and no finding.

### Fairness

`PendingIsFinished` assumes that Redis comes back, that an administrator goes
on calling reconcile, that a reconciler that runs goes on running (weak), and
that a projection and a finalization tried again and again succeed once
(strong: an outage or a crash may come between any two tries, not between all).
Nothing in the process schedules reconciliation; ADR 0033 makes it an
administrator's duty, which is where the assumption comes from.  `RoundIsResolved`
assumes that reviewers decide what is open to them (weak) and that a decision
which keeps failing to commit commits in the end (strong).  It holds where every
area has a reviewer of its own, as in the run: at elevated risk
`domain/reviews.py:86` lets a person decide one gate of a round, so where two
required areas share their only reviewer, and no administrator can help, the
second gate waits until somebody else is given the area.  No other property
needs fairness.

## What is proved

Each theorem is for every value of the constants, under the named assumptions
of the modules (`BoundsAssumption`: a bound is a natural number;
`DeadlinesAssumption` and `PromotionsAssumption`: the domain of each deadline and
promotion).  The bounds occur only in guards, and no theorem depends on
them but six: `MaxLosses = 0` says that Redis keeps its keys, and `MaxDamages` of
0 or 1 that at most one stored column changes.  Each is named below.

- `GovernedActuationProofs`, part I, the kill switch: `TypeOK`, `DurableEvidence`, `AppliedOnce`,
  `ProjectionJustified`, `ConfirmedStands`, `GateIsCurrent`,
  `AuthorizationsStayRevoked`, `ImplementsKillSwitch`.  `DurableEvidence` is not inductive alone: the
  strengthening adds that every job in hand names an existing transition, and
  `ProjectionJustified` that snapshots on the wire and in the hands of a gate
  call are justified as well.  `ConfirmedStands` and `GateIsCurrent` hold for
  `MaxLosses = 0`: what is confirmed, about to be finalized, or expected by a gate
  call is then shown in Redis or superseded (`Kept`), since the Lua script never
  lets an epoch go back.  `AuthorizationsStayRevoked` and the refinement
  `ImplementsKillSwitch` hold for `MaxLosses = 0` too, with inventory edits: an
  open edit has read the present version or, after one finalization, the one
  before (`EditIsRecent`), because no transition begins while it is open; so the
  version never goes back, each transition revokes what was signed before it
  (`RevokedAfter`), and what an authorization carries is at most the floor of
  every later epoch (`Covered`).  The refinement adds that a snapshot of epoch 0 shows the
  state from before the first transition (`Originals`) and that what is applied
  is shown (`AppliedShown`).
- `PolicyProofs`: `WithinContract`, `Monotone`, `DocumentsAreBacked` from the
  monotonicity of each dimension, of the tier and of every rule (`RuleMonotone`:
  a rule whose selectors are upward closed keeps applying), and `BaselineLoads`:
  every rule of the bundled catalogue passes the loader's checks.
- `InitiativeReviewProofs`: `TypeOK`, `IndependentApproval`, `HistoryFrozen`,
  `RoundsCoherent`, `SnapshotInForce`.
  `ReviewInv` says of a round still open that its gates are those its facts
  require, that each decided one had an authorized decider, different ones at
  elevated risk, and that the decision in progress is still legal;
  `HistoryInv` adds that the initiative shows the status of its current round.
  `RoundsCoherent` follows from it round by round: while a round is open no gate of
  it refuses, so the first refusal decides it and supersedes what is open.
  `SnapshotInForce` holds for any number of requests that save and submit at the
  same time: a round keeps copies, which a resubmission takes of rows that are
  all submitted (`Ready`) and no request reaches afterwards.  What the rows
  themselves promise does not hold (see the findings).
- `ModelRoutingProofs`: of the inventory `RegistryTypeOK`,
  `ApprovalsAreIndependent`, `AgentsOnApprovedModels`, `RetiredForEver`,
  `EveryChangeCounts`.  `RegistryInv` adds that nothing exists before the system
  does, which is why a new system has no asset of another owner.
  Of routing `TypeOK`, `AllowedWasGranted`.  `RoutingInv` follows each
  model fact a request holds: the row has still that version and those facts, or
  a later version (`Tracks`, from `EveryChangeCounts`).  Two scopes with equal
  model versions therefore sandwich the second read of the agent: the models
  did not change between, so what the two torn scopes agree on was true then.
  Of the exchanges `ExchangesAreRecorded`, `EvidenceIsItsOwn`.  `ExchangeInv`
  adds that while an attempt is on its way its row is the pending record it
  committed, that what it holds of the Router is of its own operation (`Fits`),
  and that no two rows share an id in a unique column (`Distinct`).
- `GovernedActuationProofs`, part II: `GovernedTypeOK`, `EachWasApproved`,
  `ReceiptsAreTrue`, `OneTransitionPerDecision`, `RestoresItsStop`.  Every governed step is a step of `RuntimeControl` or leaves
  it alone (`GovernedStepIsStep`), so what part I shows of a step
  carries over.  `Governed` adds that each decision is the only one of its
  intent, that a handler about to command has an approval, and that one that
  runs or has returned holds the transition which carries its decision.
  `OneTransitionPerDecision` and `RestoresItsStop`, for any bounds: the version of
  an Agent never goes back and every transition, once applied, leaves behind the
  one it found (`FloorsBelow`), so the version an execution has read dates what it
  saw.  Any transition of its decision found that version or a later one
  (`Fresh`), and the command is given at no other version.
- `AssuranceIncidentsProofs`: `TypeOK`, `EvaluationsReproducible`,
  `OneActiveIncident`, `IncidentsCoverEvidence`, `ExceptionsLapse`.
  `EvaluationsReproducible` compares two programs: the evaluator, which sorts,
  takes ranks and keeps two counters in a loop, and a reader who counts.  Four
  lemmas say that they agree on samples of any number: a finite set of samples
  with different ids has one chronological order (`OrderExists`, and
  `OneChronologicalOrder`: the k-th sample is the one with k - 1 before it); the
  sorted durations are the timed samples, each once (`DurationsSorted`, and
  `OneSortedListing`: however ties are broken); the
  value of the nearest rank is over a limit exactly when fewer than 95% of them
  are within it (`P95OverLimit`); and the counters of the loop reach n exactly
  when n samples in a row failed (`MaxConsecutiveIsARun`).  The last is an
  induction over the samples, made with `EveryNatural`: a set of naturals that
  has 0 and every successor has them all.  `EvidenceInv` adds what happens in
  time: an event id has one content, the version an evaluation reads was enabled
  and stays, and events that come later take nothing from a row.
  `LoopInv` says that an evaluation, once recorded, stays, so
  what a promotion keeps of its breach stays true; that a breach has one promotion
  at most; that the severity of an incident covers each breach promoted to it,
  and that a recommendation is about a version and a severity its incident has
  had, both of which only grow.  A promotion joins the active incident of its
  fingerprint where there is one, and an incident that closed does not come back
  (`AllowedFrom`), which gives `OneActiveIncident`.  Of exceptions the invariant says
  who approved them; that one which lapsed never comes back is a fact of each
  step, since the clock only goes forward and no command leaves a final status.
- `StoredEvidenceProofs`, of the governed lineage: `ChainsServedAsWritten`,
  `StopsFollowApproval`, for any number of changed columns, and
  `ServedAsWritten`, `EffectsFollowApproval`, for at most one.  `EvidenceInv` has
  three parts.  `Stored`: a row written has the digest of its columns, and a digest
  or reference found in a table is one that was written or nonsense, so a row
  whose digest fits is the row that was written.  `Made`: the rows written name
  one another as the steps made them.  `ReceiptsStand`: where one column at most
  has changed, the transition a receipt leads to is the one it was written for.
  A read climbs the first two.  The last is needed because no digest is taken
  over a transition: with two changed columns one transition can take the place
  of another, and what the two properties say of it is then false.
- `StoredEvidenceProofs`, of the audit trail: `TypeOK`, `LinksResolve`, `TimesFollowLinks`, `OneChain`.
  `ChainInv` says that a writer's flushed and added events link to rows that are committed
  or its own, so that a roll-back strands nobody else's; `TimeInv` says that every
  row was stamped in the past of some process's clock.  `OneChain` needs that,
  while nothing overlaps, one writer at most has anything pending and what it
  has added continues the chain it sees (`Alone`).
- `EvidenceUseProofs`: `UploadsAreWhole`, `ReleasesAreGrounded`,
  `ReviewsAreIdempotent`, `RestoredIsWhole` and `TypeOK`.  `UploadInv` says for
  each stage of an upload what its row, object and answer are; from it a row,
  once there, never changes.  `IntelligenceInv` ties the audit trail and the
  sources of an analysis to its stage, `ReviewsInv` says that an insertion in
  progress is the only one of its request.  `BackupsInv` says that, as long as
  nothing failed, every row of the dump has its object, so that equal counts
  mean equal sets; this needs a finite set of uploads (`BackupsAssumption`).
- `AccessControlProofs`: `SnapshotsFollowInvalidations`, `BlocksStand`,
  `SpentOnce`, `LostGroupsEnd`.  `AccessInv` says that a cache row holds either a snapshot later
  than the last invalidation or its marker, that a restriction row is at least
  as late as every committed command and unblocked only by a restore, and that
  an acceptance which is still live has its entry in the replay guard.
  `LostInv` dates what Graph lists: in the hands of a request, resolved or cached,
  it holds no group that Graph no longer showed when the resolution began
  (`ListedBy`), because a page is read later than that and Graph is behind by
  `Lag` at most.  `LostGroupsEnd` is about the last
  invalidation committed; that an earlier one is not forgotten is what
  `access_forgotten_invalidation` refutes.  `SpentOnce` measures by the clock at
  the acceptance: an entry is dropped only by a caller whose own instant is past
  its expiry, and no caller is ahead of the clock.

Only model-checked: liveness (`PendingIsFinished`, `RoundIsResolved`), which is
out of the prover's reach.

## Findings

Two runs refute a property that a document states; `findings` in `PROJECT.json`
quotes the lines.

- `submitted_overwritten`: `docs/architecture/ARCHITECTURE.md:129` makes submitted
  assessments immutable until the review workflow reopens them.
  `assessment_persistence.py:77` compares the version in Python with a row read
  without a lock, and its UPDATE is unconditional: a save that read the draft
  before a concurrent submission commits after it and turns the submitted
  assessment back into a draft.
- `access_forgotten_invalidation`: ADR 0017 reuses a snapshot only when no
  invalidation exists at or after its resolution.  The upsert of an invalidation
  has no WHERE (`directory_authorization_cache.py:166`): of two that commit out of
  order of their instants the earlier instant stays, and a resolution begun
  between the two is saved and served although the later one, of a block, is
  committed.

Observations made while modelling, without a run of their own:

Reviews and inventory

- The first submission asks for no assessment, so a first round can be approved
  while assessments are absent or drafts; the documents demand ready ones of
  resubmissions only, and `SnapshotInForce` starts there.
- `policy_engine` requires a RIPD for sensitive or children's data alone, while
  `domain/assessments.py:170` accepts one only where personal data is declared.
- An approved model reviewed again with an earlier deadline leaves the agents
  approved on its former review valid for longer than it (ADR 0019:45); routing
  checks each model's own deadline, so the harm is contained.
- The agent card is required where actions are executed without agents too,
  while of the controls it is evidence of, AGT-001 applies to agents only
  (AGT-003 applies in both).  An explicitly configured catalogue may replace the
  bundled one; it must hold 25 distinct well-formed controls.

Audit

- `append_audit_event` reads the latest event without a lock, so concurrent
  transactions name the same predecessor and the trail is a tree: the end of a
  branch nobody follows can be removed, and the rest still verifies
  (README.md:116 calls later alteration detectable).

Kill switch and governed actuation

- An Agent engaged before the transitions table existed has the floor of its
  current version at epoch 0; an inventory edit then changes the snapshot
  without a new epoch and the gate refuses until a transition is applied.
- A receipt derives `resulting_agent_version` from the version the transition
  found; where an edit commits between a transition and its finalization, the
  finalization moves the Agent one version further than the receipt says.
- An edit holds the AISystem row and goes on to update the Agent row; a command
  holds the Agent row and waits for the AISystem row by its foreign key.
  PostgreSQL resolves this deadlock by aborting one of the two.
- A restore's execution checks the remediation in a transaction of its own and
  `deactivate` does not look at it again: a plan replaced, a severity raised or
  an incident closed in between does not stop the restore (ADR 0044:57).
- `get_context(for_update=True)` of the response and actuation repositories
  reads its facts in the snapshot of the statement that then waits for the lock.
- A transition carries no digest of its own: its `requested_by` changed before a
  recovery writes the receipt is copied into the receipt; a transition whose
  agent or reference changed is not found by the retry; a decision whose request
  id changed leaves its request open to a second one.  The recommendation's
  digest does not cover its id; the request's does.

Routing and authorizations

- A command the API accepts (up to ten million tokens, eight decimals of cost)
  may not be encodable in the authorization (one million tokens, millionths)
  and is answered 503 rather than 422.
- Two attempts at one task may record one another's accepted decision, once:
  the second finalization meets the unique key, fails with 500 and leaves its
  record pending.  Pending records are never resumed.
- A record blocked by the gate or the registry after an acceptance keeps its
  `selected_model_group`, and a rejected answer is attributed to the Router even
  when the block code is the registry's.  Owners are not in the scope digest.
- Within the clock skew after its expiry an authorization still verifies though
  its replay entry may be pruned, and a restart of the process forgets all
  entries.  The guard prunes and compares by the instant its caller has read: a
  caller that was slow after reading it can be accepted after the expiry, once
  another's later instant has pruned the entry (`runtime_authorization_replay.py:38`).
  The signer keeps the key set its process loaded first.

Access

- Without Graph, an invalidation makes the next request read the same token's
  groups again.  A cached snapshot outlives a change of the token's account type
  or roles until its TTL.  Administrators can block each other and themselves.

Evidence

- `UploadEvidence` deletes the object after a commit that raised but may have
  taken effect, which leaves a row without its object (ADR 0006:31); a cancelled
  request is not compensated and leaves an object without a row.
- A backup compares counts only.  That is sufficient because a row never lacks
  its object, absent the above; with such a row and an orphan together a backup
  passes with an object missing, and orphans alone fail every backup.
- `IncidentService.engage_kill_switch` and `restore_kill_switch` are called by no
  router, nor are the analysis and review services, which only `dependencies.py`
  builds.  `expires_at` of an exception need not lie in the future.

## Not modelled

`components` in `PROJECT.json` lists every part and its reason.  Pure I/O,
wiring, wording, exports, the dashboard's read models, scripts, migrations and
the web client keep no state a property here is about.  Of authentication, the
verification of signatures, issuers and expiry is the library's, and local
identities, which bypass restriction and cache, are left out.  Signatures and
digests are ideal.  Damage to stored rows is modelled for the governed lineage
only, where the code promises to detect it.

## Plan

What remains is the liveness of an attempt or an upload: none is promised today,
since nothing resumes a pending record or collects an orphan; when the code
gains such a job, its promise belongs here.
