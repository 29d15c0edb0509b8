SPECIFICATION EvidenceSpec
CONSTANTS
    Promotions <- MCPromotions
    OwnerOrAdmin = {"root"}
    Security = {"root", "sec"}
    Remediations <- MCRemediations
    MaxDamages = 1
    Writers = {w1, w2}
    Bodies = {a, b}
    Ahead = {0, 1}
    MaxEvents = 4
SYMMETRY Symmetry
INVARIANTS ServedAsWritten EffectsFollowApproval LinksResolve OneChain
CHECK_DEADLOCK FALSE
CONSTRAINT Apart
