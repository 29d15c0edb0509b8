-------------------------- MODULE DirectoryIdentity --------------------------
(***************************************************************************)
(* Who a verified token says its bearer is (AuthenticateAccessToken and    *)
(* principal_from_claims) and what the authorization catalog makes of it   *)
(* (DirectoryAuthorizationCatalog.authorize), in a deployment whose        *)
(* identities are those of an Entra directory.  Pure: a token is the       *)
(* record of the claims the policy looks at, once its signature, issuer,   *)
(* audience and expiry are verified.  The provider is external.            *)
(***************************************************************************)
EXTENDS Integers, FiniteSets

CONSTANTS
    Identities,      \* directory objects whose tokens are presented
    Tenant,          \* the tenant of each identity
    AllowedTenants,  \* OIDC_ALLOWED_TENANT_IDS
    IssuerTenant,    \* the tenant of the configured issuer
    Tokens,          \* tokens the provider has issued
    GuestApprovals,  \* whether guests may hold approval areas
    Groups,          \* directory groups
    Catalogs,        \* digests of the catalogs the replicas have loaded
    Mappings         \* the enabled mappings of each catalog

AccountTypes == {"member", "guest", "unknown"}
ClaimStates == {"absent", "complete", "overage"}

\* DirectoryGroupClaims: an incomplete claim carries no group.
GroupClaims ==
    {c \in [state : ClaimStates, ids : SUBSET Groups] : c.state # "complete" => c.ids = {}}

\* _directory_role_values: a token with more values is refused.
IsRoleClaim(roles) == IsFiniteSet(roles) /\ Cardinality(roles) <= 128

\* The claims of a verified token, as far as the identity policy reads them.
IsToken(token) ==
    /\ DOMAIN token = {"who", "account", "admin", "roles", "groups"}
    /\ token.who \in Identities
    /\ token.account \in AccountTypes
    /\ token.admin \in BOOLEAN
    /\ IsRoleClaim(token.roles)
    /\ token.groups \in GroupClaims

\* DirectoryAuthorizationMapping: an area for an app role or for a group.
IsMapping(mapping) ==
    /\ DOMAIN mapping = {"tenant", "source", "value", "area"}
    /\ mapping.source \in {"app_role", "group"}

\* DirectoryAuthorizationCatalog: a set, for no two mappings give the same area
\* to the same source of the same tenant, and a bounded one.
IsCatalog(mappings) ==
    /\ IsFiniteSet(mappings) /\ Cardinality(mappings) <= 1000
    /\ \A mapping \in mappings : IsMapping(mapping)

ASSUME TokensAssumption == \A token \in Tokens : IsToken(token)
ASSUME MappingsAssumption == \A catalog \in Catalogs : IsCatalog(Mappings[catalog])

\* _directory_identity_from_claims: the tenant is allowed and is the issuer's.
Authenticates(token) ==
    Tenant[token.who] \in AllowedTenants /\ Tenant[token.who] = IssuerTenant

\* Only a member of the directory is an administrator.
IsAdmin(token) == token.admin /\ token.account = "member"

\* Where the groups come from when Graph is not asked.
TokenSource(token) ==
    CASE token.groups.state = "complete" -> "token"
      [] token.groups.state = "overage" -> "overage_unresolved"
      [] OTHER -> "none"

EligibleAccount(token) ==
    token.account = "member" \/ (token.account = "guest" /\ GuestApprovals)

\* _mapping_matches
Matches(mapping, token, groups) ==
    IF mapping.source = "app_role" THEN mapping.value \in token.roles
    ELSE mapping.value \in groups

\* DirectoryAuthorizationCatalog.authorize: the mappings that apply.
Matched(catalog, token, groups) ==
    {mapping \in Mappings[catalog] :
        /\ EligibleAccount(token)
        /\ mapping.tenant = Tenant[token.who]
        /\ Matches(mapping, token, groups)}
=============================================================================
