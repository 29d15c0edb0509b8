SPECIFICATION FairSpec
CONSTANTS
    Agents = {a1, a2}
    Commands = {c1}
    Reconcilers = {r1}
    Checks = {}
    BatchLimit = 1
    MaxEpoch = 1
    MaxVersion = 2
    MaxLosses = 1
    MaxOutages = 1
    MaxWire = 0
PROPERTIES PendingIsFinished
