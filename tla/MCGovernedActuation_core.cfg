SPECIFICATION GovernedSpec
CONSTANTS
    TheAgent = a1
    TheIncident = i1
    Agents <- OneAgent
    Incident <- OneIncident
    AgentOf <- AboutTheAgent
    IncidentOf <- AboutTheIncident
    Recommendations = {n1}
    OwnerOrAdmin = {p1}
    Security = {p1, p2}
    Commands = {c1, c2}
    Reconcilers = {r1}
    Checks = {}
    BatchLimit = 1
    MaxEpoch = 4
    MaxVersion = 2
    MaxLosses = 0
    MaxOutages = 1
    MaxWire = 0
    MaxRevision = 3
CONSTRAINT Apart
SYMMETRY Symmetry
INVARIANTS OneTransitionPerDecision EachWasApproved RestoresItsStop
CHECK_DEADLOCK FALSE
