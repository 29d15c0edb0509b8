SPECIFICATION RoutingSpec
CHECK_DEADLOCK FALSE
CONSTANTS
    Models = {m1, m2}
    Agents = {a1}
    Groups = {"fast", "deep"}
    ModelScopes <- MCModelScopes
    AgentScopes <- MCAgentScopes
    People = {"ana", "leo"}
    Architects = {"ana", "leo"}
    Security = {"ana", "leo"}
    MaxInterval = 2
    MaxTime = 1
    MaxChanges = 8
    Requests = {r1}
    Attempts = {"p", "q"}
    Command <- MCCommand
    Kids = {"k"}
    RoutingGroups = {"fast"}
    Refusals = {"agent_not_approved"}
    MaxEdits = 1
INVARIANT ApprovalsAreIndependent
INVARIANT AgentsOnApprovedModels
INVARIANT AllowedWasGranted
INVARIANT ExchangesAreRecorded
INVARIANT EvidenceIsItsOwn
