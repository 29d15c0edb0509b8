---------------------------- MODULE MicrosoftGraph ----------------------------
(***************************************************************************)
(* The delegated profile of a caller, read from Microsoft Graph by one     *)
(* request: the token exchange, the profile and the pages of the groups    *)
(* (MicrosoftGraphCorporateDirectory.resolve).  Each page is an HTTP call  *)
(* of its own, and each of them may be tried again; memberships change     *)
(* between two of them.  Graph and the directory behind it are external.   *)
(* The pages are asked for with ConsistencyLevel eventual: what a page     *)
(* shows may be a group its bearer has left meanwhile.  How long a group   *)
(* that was left may still be shown is Graph's, and Lag stands for it.     *)
(***************************************************************************)
EXTENDS DirectoryIdentity, AccessClock

CONSTANTS
    Calls,        \* requests that may ask Graph
    MaxAttempts,  \* attempts of one operation
    MaxPages,     \* pages of groups a request reads
    PageOf,       \* the page of the listing a group is on
    Lag           \* how long Graph may still show a group that was left

ASSUME GraphAssumption ==
    /\ MaxAttempts \in Nat \ {0} /\ MaxPages \in Nat \ {0}
    /\ PageOf \in [Groups -> Nat \ {0}]
    /\ Lag \in Nat

VARIABLES
    member,  \* the groups of each identity, in the directory
    left,    \* when an identity last left a group
    graph    \* what each request has asked of Graph

directory == <<member, left>>

Quiet == [operation |-> "idle"]
GraphInit ==
    /\ member \in [Identities -> SUBSET Groups]
    /\ left = [who \in Identities |-> [g \in Groups |-> Never]]
    /\ graph = [c \in Calls |-> Quiet]

-----------------------------------------------------------------------------
(* The directory *)

LeavesGroup(who, g) ==
    /\ g \in member[who]
    /\ member' = [member EXCEPT ![who] = @ \ {g}]
    /\ left' = [left EXCEPT ![who][g] = now]

LeavesAGroup == \E who \in Identities, g \in Groups : LeavesGroup(who, g)

-----------------------------------------------------------------------------
(* _request_json *)

Asks(c, operation) == graph[c].operation = operation
Retryable(operation) == operation # "obo_token"

\* The answers of one attempt: a response that can be used; a transient
\* status or a broken connection, tried again while attempts are left; one
\* that asks for more time than is allowed; any other, among them the profile
\* of someone else and a link to a page after the last one allowed.
Answers == {"usable", "transient", "deferred", "refused"}

TriesAgain(c, answer) ==
    /\ answer = "transient"
    /\ Retryable(graph[c].operation)
    /\ graph[c].attempt < MaxAttempts
Fails(c, answer) == answer # "usable" /\ ~TriesAgain(c, answer)

BeginsExchange(c) ==
    graph' = [graph EXCEPT ![c] = [operation |-> "obo_token", attempt |-> 1, page |-> 1, ids |-> {}]]
Retries(c) == graph' = [graph EXCEPT ![c].attempt = @ + 1]
Asking(c, operation) == graph' = [graph EXCEPT ![c].operation = operation, ![c].attempt = 1]
EndsConversation(c) == graph' = [graph EXCEPT ![c] = Quiet]

\* _exchange_token, then _get_profile, whose object id must be the caller's.
ExchangesToken(c) == Asks(c, "obo_token") /\ Asking(c, "profile")
ReadsProfile(c) == Asks(c, "profile") /\ Asking(c, "groups")

\* What a replica of the directory may not know yet to be left.
Shown(who) == {g \in Groups : left[who][g] # Never /\ now <= left[who][g] + Lag}

\* The groups known once the page is read, from a directory that is behind by
\* these groups.
PageAdded(c, who, behind) ==
    graph[c].ids \cup {g \in member[who] \cup behind : PageOf[g] = graph[c].page}

\* A page with a link to the next one.  The last pages may be empty.
ReadsPage(c, who, behind) ==
    /\ Asks(c, "groups")
    /\ graph[c].page < MaxPages
    /\ graph' = [graph EXCEPT ![c].ids = PageAdded(c, who, behind), ![c].page = @ + 1,
                              ![c].attempt = 1]

\* A page without a link: no group of the listing follows it.
IsLastPage(c) == Asks(c, "groups") /\ \A g \in Groups : PageOf[g] <= graph[c].page
=============================================================================
