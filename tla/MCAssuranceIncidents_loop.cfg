SPECIFICATION Spec
CHECK_DEADLOCK FALSE
SYMMETRY IncidentSymmetry
CONSTRAINT Apart
CONSTANTS
    TelemetryEvents <- MCEvents
    Policies <- MCPolicies
    MaxPolicies = 2
    MaxEvaluations = 2
    MaxTime = 1
    ReportedSeverities = {3}
    Incident = {i1, i2}
    MaxRevision = 4
    Exceptions = {x1}
    Requesters = {"ana", "root"}
    Administrators = {"root", "max"}
    Deadlines = {1}
INVARIANT EvaluationsReproducible
INVARIANT OneActiveIncident
INVARIANT IncidentsCoverEvidence
PROPERTY ExceptionsLapse
