SPECIFICATION Spec
CHECK_DEADLOCK FALSE
CONSTRAINT Apart
CONSTANTS
    e1 = e1
    e2 = e2
    small = small
    large = large
    infected = infected
    a1 = a1
    a2 = a2
    Evidence = {e1, e2}
    Contents = {small, large, infected}
    Size <- MCSize
    Valid = {small, large, infected}
    Infected = {infected}
    MaxBytes = 2
    NoContent = NoContent
    People = {"ana", "eve"}
    Owner = "ana"
    Admins = {}
    MaxUnknown = 1
    MaxDamage = 1
    Analyses = {a1, a2}
    References <- MCReferences
    Candidates <- MCCandidates
    AnalysisTypes = {"coverage"}
    AllowedTypes <- MCAllowedTypes
    MaxSources = 1
    MaxSourceBytes = 2
    MaxTotalBytes = 2
    MaxFindings = 1
    Calls = {k1, k2}
    ReviewRequests = {"q"}
    Dispositions = {"accept", "reject"}
    OccupiedTargets = TRUE
INVARIANT UploadsAreWhole
INVARIANT ReleasesAreGrounded
INVARIANT ReviewsAreIdempotent
INVARIANT RestoredIsWhole
