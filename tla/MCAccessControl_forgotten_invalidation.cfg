SPECIFICATION Spec
CHECK_DEADLOCK FALSE
CONSTRAINT Apart
SYMMETRY Alike
CONSTANTS
    ana = ana
    root = root
    g1 = g1
    k1 = k1
    k2 = k2
    Identities = {ana, root}
    Tenant <- MCTenant
    AllowedTenants = {"t"}
    IssuerTenant = "t"
    Tokens <- MCTokens
    GuestApprovals = FALSE
    Groups = {g1}
    Catalogs = {"c1", "c2"}
    Mappings <- MCMappings
    Clocks = {1, 2, 3, 4}
    Calls = {r1}
    MaxAttempts = 1
    MaxPages = 1
    PageOf <- MCPageOf
    Lag = 0
    Replicas <- MCReplicas
    Commands = {d1, d2}
    TTL = 2
    Keys = {k1, k2}
    KeySets <- MCKeySets
    Authorizations = {}
    Lifetime = 2
    Skew = 1
    MaxEntries = 1
    MaxAccepted = 1
INVARIANT InvalidationsStand
