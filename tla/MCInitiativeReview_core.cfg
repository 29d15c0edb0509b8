SPECIFICATION FairSpec
CONSTANTS
    Facts = {"plain", "severe", "blocked"}
    Elevated = {"severe"}
    Blocked = {"blocked"}
    Areas = {"business", "privacy"}
    RequiredAreas <- MCRequiredAreas
    Kinds = {"ripd"}
    RequiredKinds <- MCRequiredKinds
    Applicable <- MCApplicable
    Answers = {"x"}
    People = {"leo", "ana", "root", "bia"}
    Owner = "leo"
    Admins = {"root"}
    AreasOf <- MCAreasOf
    Handlers = {"h1", "h2"}
    MaxRounds = 2
    MaxVersion = 5
CONSTRAINT Apart
INVARIANTS IndependentApproval RoundsCoherent SnapshotInForce
PROPERTIES HistoryFrozen RoundIsResolved
CHECK_DEADLOCK FALSE
