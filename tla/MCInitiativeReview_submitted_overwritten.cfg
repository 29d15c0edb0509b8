SPECIFICATION Spec
CONSTANTS
    Facts = {"plain", "severe"}
    Elevated = {"severe"}
    Blocked = {}
    Areas = {"business", "privacy"}
    RequiredAreas <- MCRequiredAreas
    Kinds = {"ripd"}
    RequiredKinds <- MCRequiredKinds
    Applicable <- MCApplicable
    Answers = {"x", "y"}
    People = {"leo", "ana", "bia"}
    Owner = "leo"
    Admins = {}
    AreasOf <- MCAreasOf
    Handlers = {"h1", "h2"}
    MaxRounds = 2
    MaxVersion = 3
PROPERTY SubmittedImmutable
CHECK_DEADLOCK FALSE
