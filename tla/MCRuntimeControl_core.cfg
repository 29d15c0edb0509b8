SPECIFICATION Spec
CONSTANTS
    Agents = {a1}
    Commands = {c1}
    Reconcilers = {r1}
    Checks = {k1}
    BatchLimit = 1
    MaxEpoch = 3
    MaxVersion = 2
    MaxLosses = 0
    MaxOutages = 1
    MaxWire = 1
SYMMETRY Symmetry
INVARIANTS DurableEvidence ProjectionJustified ConfirmedStands AuthorizationsStayRevoked
PROPERTIES GateIsCurrent AppliedOnce ImplementsKillSwitch
