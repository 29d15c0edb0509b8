------------------------ MODULE MCAssuranceIncidents ------------------------
(* Instances of AssuranceIncidents for TLC: three samples under two ids  *)
(* and two policies of different severities and limits.                    *)
EXTENDS AssuranceIncidents, TLC

IncidentSymmetry == Permutations(Incident)

MCEvents ==
    {[id |-> 1, at |-> 0, outcome |-> "failure", duration |-> 1],
     [id |-> 1, at |-> 1, outcome |-> "error", duration |-> Absent],
     [id |-> 2, at |-> 1, outcome |-> "success", duration |-> 3]}

MCPolicies ==
    {[enabled |-> TRUE, lookback |-> 1, size |-> 2, minimum |-> 1, failureRate |-> 50,
      p95 |-> 2, consecutive |-> Absent, severity |-> 2],
     [enabled |-> TRUE, lookback |-> 1, size |-> 2, minimum |-> 1, failureRate |-> 40,
      p95 |-> Absent, consecutive |-> 2, severity |-> 4]}

\* Exceptions, and incidents that people report, meet the rest only through
\* the status of an incident: they are explored in behaviours without
\* evaluations, which bounds the product.
Apart ==
    \/ telemetry = {} /\ policies = <<>>
    \/ /\ \A x \in Exceptions : exceptions[x] = NoException
       /\ \A i \in Incident : Reported(i) => \E n \in DOMAIN promotions : promotions[n].incident = i
=============================================================================
