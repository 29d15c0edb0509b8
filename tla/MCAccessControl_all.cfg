SPECIFICATION Spec
CHECK_DEADLOCK FALSE
CONSTRAINT Apart
SYMMETRY Alike
CONSTANTS
    ana = ana
    root = root
    g1 = g1
    k1 = k1
    k2 = k2
    Identities = {ana, root}
    Tenant <- MCTenant
    AllowedTenants = {"t"}
    IssuerTenant = "t"
    Tokens <- MCTokens
    GuestApprovals = FALSE
    Groups = {g1}
    Catalogs = {"c1", "c2"}
    Mappings <- MCMappings
    Clocks = {1, 2, 3, 4}
    Calls = {r1, r2}
    MaxAttempts = 2
    MaxPages = 2
    PageOf <- MCPageOf
    Replicas <- MCReplicas
    Commands = {d1, d2}
    TTL = 2
    Lag = 1
    Keys = {k1, k2}
    KeySets <- MCKeySets
    Authorizations = {a1, a2}
    Lifetime = 2
    Skew = 1
    MaxEntries = 1
    MaxAccepted = 3
INVARIANT SnapshotsFollowInvalidations
INVARIANT BlocksStand
INVARIANT SpentOnce
PROPERTY LostGroupsEnd
