-------------------------- MODULE RuntimeAssurance --------------------------
(***************************************************************************)
(* Telemetry of one agent (IngestRuntimeTelemetry), the versioned policy   *)
(* it is held to and the evaluations of its windows                        *)
(* (RuntimeAssuranceService).                                              *)
(*                                                                         *)
(* An event is bound to the first content that came under its id.  A       *)
(* policy is replaced under the locks of the agent and of the policy, by   *)
(* callers that name its version; an evaluation takes no lock and reads    *)
(* the policy and the samples in two statements, so the policy may be      *)
(* replaced in between.  Times are in ticks, a rate is in percent, and the *)
(* digests of events and evaluations stand for the records themselves.     *)
(***************************************************************************)
EXTENDS Integers, Sequences, FiniteSets, SequencesExt

CONSTANTS
    TelemetryEvents,  \* [id, at, outcome, duration]: what runtimes may send
    Policies,         \* policy contents an owner may put
    MaxPolicies,      \* bound: versions of the policy
    MaxEvaluations,   \* bound: evaluations recorded
    MaxTime           \* bound: last tick of the clock

\* A duration, a limit or a reading that is absent.
Absent == -1

VARIABLES
    now,         \* the clock
    telemetry,   \* the telemetry table
    policies,    \* contents the policy row has had: the last is the row, its place the version
    reading,     \* version read by the evaluation under way, 0 when there is none
    evaluations  \* the evaluations table, in order of insertion

assurance == <<now, telemetry, policies, reading, evaluations>>

-----------------------------------------------------------------------------
(* Records *)

Outcomes == {"started", "success", "failure", "error"}
Terminal == {"success", "failure", "error"}
Failures == {"failure", "error"}
Severities == 1..4   \* low, medium, high, critical
BreachReasons == {"failure_rate", "p95_duration", "consecutive_failures"}

\* Ids are numbers: they are compared, as strings in the code, for the order
\* of samples of the same time.
TelemetryCommand ==
    [id: Int, at: Int, outcome: Outcomes, duration: Nat \cup {Absent}]

PolicyContent ==
    [enabled: BOOLEAN, lookback: Nat, size: Nat, minimum: Nat, failureRate: 0..100,
     p95: Nat \cup {Absent}, consecutive: Nat \cup {Absent}, severity: Severities]

\* The limits RuntimeAssurancePolicy accepts, whatever the caller sends.
ValidPolicy(p) ==
    /\ p \in PolicyContent
    /\ p.size >= 1
    /\ p.minimum \in 1..p.size
    /\ p.p95 # 0
    /\ p.consecutive = Absent \/ p.consecutive \in 1..p.size

ASSUME PoliciesAssumption ==
    /\ \A e \in TelemetryEvents : e \in TelemetryCommand
    /\ \A p \in Policies : ValidPolicy(p)

ASSUME BoundsAssumption == {MaxPolicies, MaxEvaluations, MaxTime} \subseteq Nat

EvaluationRow ==
    [policy: Nat \ {0}, at: Nat, sources: Seq(TelemetryCommand),
     outcome: {"insufficient_data", "healthy", "breached"},
     reasons: SUBSET BreachReasons, severity: Severities \cup {0}]

-----------------------------------------------------------------------------
(* The evaluator: evaluate_runtime_assurance *)

\* Samples in chronological order; the ids break ties.
Chronological(e, f) == e.at < f.at \/ (e.at = f.at /\ e.id < f.id)

Window(p, at, events) ==
    {e \in events : e.outcome \in Terminal /\ at - p.lookback <= e.at /\ e.at <= at}

\* The members of a finite set, sorted.
InOrder(S, _\prec_) ==
    CHOOSE s \in [1..Cardinality(S) -> S] :
        \A i, j \in 1..Cardinality(S) : i < j => s[i] \prec s[j]

LastOf(s, n) == SubSeq(s, IF Len(s) > n THEN Len(s) - n + 1 ELSE 1, Len(s))

\* The query keeps the newest and hands them over oldest first.
ListTerminalSamples(p, at) ==
    LastOf(InOrder(Window(p, at, telemetry), Chronological), p.size)

FailureCount(samples) == Cardinality({k \in DOMAIN samples : samples[k].outcome \in Failures})

\* Equal durations come in the order of their samples.
Durations(samples) ==
    LET Shorter(i, j) == \/ samples[i].duration < samples[j].duration
                         \/ samples[i].duration = samples[j].duration /\ i < j
        order == InOrder({k \in DOMAIN samples : samples[k].duration # Absent}, Shorter)
    IN  [k \in DOMAIN order |-> samples[order[k]].duration]

NearestRankP95(values) ==
    IF values = <<>> THEN Absent ELSE values[(95 * Len(values) + 99) \div 100]

\* The two counters of the loop, after each sample.
FailureRuns(samples) ==
    LET run[n \in 0..Len(samples)] ==
            IF n = 0 THEN [current |-> 0, maximum |-> 0]
            ELSE LET before == run[n - 1]
                     current == IF samples[n].outcome \in Failures THEN before.current + 1 ELSE 0
                 IN  [current |-> current,
                      maximum |-> IF current > before.maximum THEN current ELSE before.maximum]
    IN  run

MaxConsecutiveFailures(samples) == FailureRuns(samples)[Len(samples)].maximum

Enough(p, samples) ==
    /\ Len(samples) >= p.minimum
    /\ p.p95 = Absent \/ Len(Durations(samples)) >= p.minimum

Reasons(p, samples) ==
    {r \in BreachReasons :
        \/ /\ r = "failure_rate"
           /\ 100 * FailureCount(samples) > p.failureRate * Len(samples)
        \/ /\ r = "p95_duration" /\ p.p95 # Absent
           /\ NearestRankP95(Durations(samples)) > p.p95
        \/ /\ r = "consecutive_failures" /\ p.consecutive # Absent
           /\ MaxConsecutiveFailures(samples) >= p.consecutive}

\* An evaluation is what the policy of a version makes of some samples.
Assessed(version, p, at, samples) ==
    LET reasons == IF Enough(p, samples) THEN Reasons(p, samples) ELSE {}
    IN  [policy |-> version, at |-> at, sources |-> samples,
         outcome |-> IF ~Enough(p, samples) THEN "insufficient_data"
                     ELSE IF reasons = {} THEN "healthy" ELSE "breached",
         reasons |-> reasons,
         severity |-> IF reasons = {} THEN 0 ELSE p.severity]

\* Mutation: the newest policy is applied under the version read.
EvaluateByNewest(version, at, samples) ==
    Assessed(version, policies[Len(policies)], at, samples)

EvaluateSamples(version, at, samples) ==
    Assessed(version, policies[version], at, samples)

-----------------------------------------------------------------------------
(* Operations *)

AssuranceInit ==
    /\ now = 0
    /\ telemetry = {}
    /\ policies = <<>>
    /\ reading = 0
    /\ evaluations = <<>>

GetPolicy == policies[Len(policies)]
SaveTelemetry(e) == telemetry' = telemetry \cup {e}
SavePolicy(p) == policies' = Append(policies, p)
SaveEvaluation(row) == evaluations' = Append(evaluations, row)

\* A second content under a known id is a conflict, the same one a replay.
IngestTelemetry(e) ==
    /\ \A known \in telemetry : known.id # e.id
    /\ SaveTelemetry(e)
    /\ UNCHANGED <<now, policies, reading, evaluations>>

\* expected is the version the caller names, 0 for a policy to be created.
PutPolicy(p, expected) ==
    /\ expected = Len(policies)
    /\ Len(policies) < MaxPolicies
    /\ SavePolicy(p)
    /\ UNCHANGED <<now, telemetry, reading, evaluations>>

\* evaluate reads the policy ...
BeginEvaluation ==
    /\ reading = 0
    /\ Len(evaluations) < MaxEvaluations
    /\ policies # <<>>
    /\ GetPolicy.enabled
    /\ reading' = Len(policies)
    /\ UNCHANGED <<now, telemetry, policies, evaluations>>

\* ... and then the samples, and records what it finds.
RecordEvaluation ==
    /\ reading # 0
    /\ SaveEvaluation(EvaluateSamples(reading, now, ListTerminalSamples(policies[reading], now)))
    /\ reading' = 0
    /\ UNCHANGED <<now, telemetry, policies>>

\* The request ends before its commit.
AbandonEvaluation ==
    /\ reading # 0
    /\ reading' = 0
    /\ UNCHANGED <<now, telemetry, policies, evaluations>>

AssuranceTick ==
    /\ now < MaxTime
    /\ now' = now + 1
    /\ UNCHANGED <<telemetry, policies, reading, evaluations>>

AssuranceStep ==
    \/ \E e \in TelemetryEvents : IngestTelemetry(e)
    \/ \E p \in Policies, expected \in 0..MaxPolicies : PutPolicy(p, expected)
    \/ BeginEvaluation
    \/ RecordEvaluation
    \/ AbandonEvaluation

-----------------------------------------------------------------------------
AssuranceTypeOK ==
    /\ now \in Nat
    /\ telemetry \subseteq TelemetryEvents
    /\ policies \in Seq(Policies)
    /\ reading \in 0..Len(policies)
    /\ \A k \in DOMAIN evaluations : evaluations[k] \in EvaluationRow

(* An evaluation can be told again from the events it names, by a reader   *)
(* who counts instead of sorting, running totals and ranks                 *)
(* (evaluate_runtime_assurance, list_terminal_samples).                    *)

SomeRunOf(n, samples) ==
    \E first \in 1..(Len(samples) - n + 1) :
        \A k \in first..(first + n - 1) : samples[k].outcome \in Failures

\* No fewer than 95% of the durations are within the limit.
WithinP95(limit, samples) ==
    LET timed == {k \in DOMAIN samples : samples[k].duration # Absent}
    IN  20 * Cardinality({k \in timed : samples[k].duration <= limit}) >= 19 * Cardinality(timed)

Justified(p, samples, reason) ==
    CASE reason = "failure_rate" ->
             100 * Cardinality({k \in DOMAIN samples : samples[k].outcome \in Failures})
                 > p.failureRate * Len(samples)
      [] reason = "p95_duration" -> p.p95 # Absent /\ ~WithinP95(p.p95, samples)
      [] reason = "consecutive_failures" ->
             p.consecutive # Absent /\ SomeRunOf(p.consecutive, samples)

EvaluationsReproducible ==
    \A k \in DOMAIN evaluations :
        LET row == evaluations[k]
            p == policies[row.policy]
            sources == ToSet(row.sources)
        IN  /\ p.enabled
            /\ sources \subseteq Window(p, row.at, telemetry)
            /\ Len(row.sources) <= p.size
            /\ \A i, j \in DOMAIN row.sources : i < j => Chronological(row.sources[i], row.sources[j])
            /\ row.outcome # "insufficient_data" => Cardinality(sources) >= p.minimum
            /\ row.outcome = "breached" <=> row.reasons # {}
            /\ row.outcome # "insufficient_data" =>
                   row.reasons = {r \in BreachReasons : Justified(p, row.sources, r)}
=============================================================================
