--------------------------- MODULE DirectoryAccess ---------------------------
(***************************************************************************)
(* Admission of a request to the API: its token, the emergency restriction *)
(* of its bearer, and the approval areas the directory gives, from the     *)
(* shared cache or resolved anew (get_active_principal and                 *)
(* get_authorized_principal); and the commands of administrators that      *)
(* block, restore and invalidate an identity.                              *)
(*                                                                         *)
(* A request holds no lock while Graph answers.  An upsert locks the row   *)
(* of its identity until the commit, so that a save or a command is one    *)
(* step, at its commit; what a command is given by the clock it has read   *)
(* before.  The replicas' clocks agree.                                    *)
(***************************************************************************)
EXTENDS MicrosoftGraph

CONSTANTS
    Replicas,  \* what a replica runs: its catalog, and whether it asks Graph
    Commands,  \* commands of administrators
    TTL        \* DIRECTORY_AUTHORIZATION_CACHE_TTL_SECONDS

ASSUME AccessAssumption ==
    /\ Replicas \subseteq [catalog : Catalogs, graph : BOOLEAN]
    /\ TTL \in Nat \ {0}

VARIABLES
    request,      \* each request and how far it has come
    command,      \* each command of an administrator
    restriction,  \* the directory_access_restrictions rows
    cache,        \* the directory_authorization_cache rows
    invalidated   \* the instant given by the last invalidation committed

access == <<request, command, restriction, cache, invalidated>>
accessVars == <<now, directory, graph, access>>

\* What a command asks and for whom, and the clock it has read.
Kinds == {"block", "restore", "invalidate"}
Idle == [stage |-> "idle"]
NoSnapshot == [resolved |-> Never, catalog |-> "none", matched |-> {}, source |-> "none"]
NoState == [blocked |-> FALSE, at |-> Never]

\* The rows, with the columns that matter.
RestrictionRow == [blocked : BOOLEAN, at : Nat]
SnapshotColumns ==
    [resolved : Nat, catalog : Catalogs \cup {"none"},
     matched : SUBSET UNION {Mappings[catalog] : catalog \in Catalogs},
     source : {"microsoft_graph", "token", "none"}]
CacheRow == [snapshot : SnapshotColumns, invalidated : Nat]

AccessInit ==
    /\ GraphInit
    /\ request = [r \in Calls |-> Idle]
    /\ command = [c \in Commands |-> Idle]
    /\ restriction = [who \in Identities |-> NoState]
    /\ cache = [who \in Identities |-> [snapshot |-> NoSnapshot, invalidated |-> Never]]
    /\ invalidated = [who \in Identities |-> Never]

-----------------------------------------------------------------------------
(* A request *)

Stage(r, stage) == request[r].stage = stage
Who(r) == request[r].token.who
Ends(r, stage) == request' = [request EXCEPT ![r] = [stage |-> stage]]
Rows == <<command, restriction, cache, invalidated>>

Proceeds(r, stage, token, replica) ==
    request' = [request EXCEPT ![r] = [stage |-> stage, token |-> token, replica |-> replica]]

\* get_principal
Authenticate(r, token, replica) ==
    /\ Stage(r, "idle")
    /\ Authenticates(token)
    /\ Proceeds(r, "authenticated", token, replica)
    /\ UNCHANGED <<graph, Rows>>

\* The token is not valid, or the keys of the provider cannot be read.
RejectToken(r) ==
    /\ Stage(r, "idle")
    /\ Ends(r, "refused")
    /\ UNCHANGED <<graph, Rows>>

Blocked(who) == restriction[who].blocked

\* RequireActiveDirectoryAccess.execute, or its state cannot be read.
RequireActive(r) ==
    /\ Stage(r, "authenticated")
    /\ \/ ~Blocked(Who(r)) /\ Proceeds(r, "active", request[r].token, request[r].replica)
       \/ Blocked(Who(r)) /\ Ends(r, "refused")
       \/ Ends(r, "refused")
    /\ UNCHANGED <<graph, Rows>>

\* Mutation: a snapshot of any age is used.
AnyAge(snapshot, t) == snapshot.resolved # Never
\* A snapshot lasts for the TTL from the instant its resolution began.
InTime(snapshot, t) == snapshot.resolved # Never /\ t < snapshot.resolved + TTL

\* DirectoryAuthorizationSnapshot.is_fresh
IsFresh(row, catalog, t) ==
    /\ row.snapshot.catalog = catalog
    /\ InTime(row.snapshot, t)
    /\ row.invalidated = Never \/ row.snapshot.resolved > row.invalidated

Usable(r) == IsFresh(cache[Who(r)], request[r].replica.catalog, now)

\* ReuseDirectoryAuthorization.execute
Reuse(r) ==
    /\ Stage(r, "active")
    /\ Usable(r)
    /\ Ends(r, "reused")
    /\ UNCHANGED <<graph, Rows>>

Resolving(r, stage, started, ids, source) ==
    request' = [request EXCEPT ![r] =
        [stage |-> stage, token |-> request[r].token, replica |-> request[r].replica,
         started |-> started, ids |-> ids, source |-> source]]

\* get_authorized_principal, without Graph.
ResolveFromToken(r) ==
    /\ Stage(r, "active")
    /\ ~Usable(r) /\ ~request[r].replica.graph
    /\ LET token == request[r].token
       IN  Resolving(r, "resolved", now, token.groups.ids, TokenSource(token))
    /\ UNCHANGED <<graph, Rows>>

\* _resolve_corporate_directory_profile
ResolveFromGraph(r) ==
    /\ Stage(r, "active")
    /\ ~Usable(r) /\ request[r].replica.graph
    /\ Resolving(r, "resolving", now, {}, "microsoft_graph")
    /\ BeginsExchange(r)
    /\ UNCHANGED Rows

AskGraph(r) ==
    /\ Stage(r, "resolving")
    /\ \/ ExchangesToken(r)
       \/ ReadsProfile(r)
       \/ \E behind \in SUBSET Shown(Who(r)) : ReadsPage(r, Who(r), behind)
       \/ \E answer \in Answers : TriesAgain(r, answer) /\ Retries(r)
    /\ UNCHANGED <<request, Rows>>

GraphAnswers(r) ==
    /\ Stage(r, "resolving")
    /\ IsLastPage(r)
    /\ \E behind \in SUBSET Shown(Who(r)) :
          Resolving(r, "resolved", request[r].started, PageAdded(r, Who(r), behind),
                    "microsoft_graph")
    /\ EndsConversation(r)
    /\ UNCHANGED Rows

GraphFails(r) ==
    /\ Stage(r, "resolving")
    /\ \E answer \in Answers : Fails(r, answer)
    /\ Ends(r, "refused")
    /\ EndsConversation(r)
    /\ UNCHANGED Rows

\* Mutation: the snapshot counts from the instant it is saved.
SavedAt(r) == now
\* The instant the live resolution began.
ResolvedAt(r) == request[r].started

Snapshot(r) ==
    [resolved |-> ResolvedAt(r), catalog |-> request[r].replica.catalog,
     matched |-> Matched(request[r].replica.catalog, request[r].token, request[r].ids),
     source |-> request[r].source]

\* Mutation: an invalidation does not stop a save.
NotOlder(row, resolved) == row.snapshot.resolved <= resolved
\* The WHERE of the upsert: no newer snapshot, and no invalidation since.
Accepts(row, resolved) ==
    /\ row.snapshot.resolved <= resolved
    /\ row.invalidated = Never \/ row.invalidated < resolved

\* CacheResolvedDirectoryAuthorization.execute: no snapshot of groups that
\* were not resolved.
GrantUncached(r) ==
    /\ Stage(r, "resolved")
    /\ request[r].source = "overage_unresolved"
    /\ Ends(r, "granted")
    /\ UNCHANGED <<graph, Rows>>

\* The snapshot is saved and committed; the answer may be lost.
Save(r) ==
    /\ Stage(r, "resolved")
    /\ request[r].source # "overage_unresolved"
    /\ Accepts(cache[Who(r)], ResolvedAt(r))
    /\ cache' = [cache EXCEPT ![Who(r)] = [snapshot |-> Snapshot(r), invalidated |-> Never]]
    /\ Ends(r, "granted") \/ Ends(r, "refused")
    /\ UNCHANGED <<graph, command, restriction, invalidated>>

\* The upsert finds a newer row, or the database fails.
SaveFails(r) ==
    /\ Stage(r, "resolved")
    /\ request[r].source # "overage_unresolved"
    /\ Ends(r, "refused")
    /\ UNCHANGED <<graph, Rows>>

-----------------------------------------------------------------------------
(* A command of an administrator *)

CommandStage(c, stage) == command[c].stage = stage

\* The administrator is admitted like any other request.
Admit(c, token, kind, who) ==
    /\ CommandStage(c, "idle")
    /\ Authenticates(token) /\ IsAdmin(token) /\ ~Blocked(token.who)
    /\ Tenant[who] \in AllowedTenants
    /\ command' = [command EXCEPT ![c] = [stage |-> "admitted", kind |-> kind, who |-> who]]
    /\ UNCHANGED <<graph, request, restriction, cache, invalidated>>

Becomes(c, stage, at) ==
    command' = [command EXCEPT ![c] =
        [stage |-> stage, kind |-> command[c].kind, who |-> command[c].who, at |-> at]]

ReadClock(c) ==
    /\ CommandStage(c, "admitted")
    /\ Becomes(c, "asked", now)
    /\ UNCHANGED <<graph, request, restriction, cache, invalidated>>

\* The transaction is committed, and the command is answered or not.
Committed(c) == Becomes(c, "answered", command[c].at) \/ Becomes(c, "applied", command[c].at)

\* Nothing more is to be known of the command.
Closes(c) == command' = [command EXCEPT ![c] = [stage |-> "closed"]]

\* Mutation: the latest to commit wins.
Overwrites(row, at) == TRUE
\* The WHERE of the upsert of set_state.
Supersedes(row, at) == row.at <= at

\* SqlAlchemyDirectoryAuthorizationCache.invalidate: the row is replaced,
\* whatever it holds.
Invalidates(who, at) ==
    /\ cache' = [cache EXCEPT ![who] = [snapshot |-> NoSnapshot, invalidated |-> at]]
    /\ invalidated' = [invalidated EXCEPT ![who] = at]

\* _ChangeDirectoryAccess.execute: the state, the invalidation and the audit
\* event are one transaction, whose answer may be lost.
ChangeAccess(c) ==
    /\ CommandStage(c, "asked")
    /\ command[c].kind # "invalidate"
    /\ Supersedes(restriction[command[c].who], command[c].at)
    /\ restriction' = [restriction EXCEPT ![command[c].who] =
           [blocked |-> command[c].kind = "block", at |-> command[c].at]]
    /\ Invalidates(command[c].who, command[c].at)
    /\ Committed(c)
    /\ UNCHANGED <<graph, request>>

\* InvalidateDirectoryAuthorization.execute, answered or not.
Invalidate(c) ==
    /\ CommandStage(c, "asked")
    /\ command[c].kind = "invalidate"
    /\ Invalidates(command[c].who, command[c].at)
    /\ Closes(c)
    /\ UNCHANGED <<graph, request, restriction>>

\* A newer change is there, or the transaction fails.
CommandFails(c) ==
    /\ CommandStage(c, "asked")
    /\ Closes(c)
    /\ UNCHANGED <<graph, request, restriction, cache, invalidated>>

-----------------------------------------------------------------------------
RequestStep(r) ==
    \/ \E token \in Tokens, replica \in Replicas : Authenticate(r, token, replica)
    \/ RejectToken(r)
    \/ RequireActive(r)
    \/ Reuse(r)
    \/ ResolveFromToken(r)
    \/ ResolveFromGraph(r)
    \/ AskGraph(r)
    \/ GraphAnswers(r)
    \/ GraphFails(r)
    \/ GrantUncached(r)
    \/ Save(r)
    \/ SaveFails(r)

CommandStep(c) ==
    \/ \E token \in Tokens, kind \in Kinds, who \in Identities : Admit(c, token, kind, who)
    \/ ReadClock(c)
    \/ ChangeAccess(c)
    \/ Invalidate(c)
    \/ CommandFails(c)

AccessStep ==
    /\ (\E r \in Calls : RequestStep(r)) \/ (\E c \in Commands : CommandStep(c))
    /\ UNCHANGED directory

DirectoryStep == LeavesAGroup /\ UNCHANGED <<graph, access>>

-----------------------------------------------------------------------------
(* Properties *)

\* What is cached for an identity was resolved from after the instant of the
\* last invalidation committed, also when its resolution and the command ran
\* beside each other (save, invalidate).
SnapshotsFollowInvalidations ==
    \A who \in Identities :
        cache[who].snapshot.resolved # Never => cache[who].snapshot.resolved > invalidated[who]

\* A block that was answered is undone only by a restore that read the clock
\* no earlier, whatever the order in which the two commit (set_state).
BlocksStand ==
    \A c \in Commands :
        command[c].stage = "answered" /\ command[c].kind = "block" =>
            \/ Blocked(command[c].who)
            \/ \E d \in Commands :
                  /\ command[d].stage \in {"answered", "applied"}
                  /\ command[d].kind = "restore" /\ command[d].who = command[c].who
                  /\ command[d].at >= command[c].at

\* The snapshot in use was resolved from no earlier than the instant of any
\* block or restore committed, each of which invalidates what was resolved
\* before it.  An invalidation dated earlier that commits later takes the place of
\* theirs (invalidate).
InvalidationsStand ==
    \A c \in Commands :
        command[c].stage \in {"answered", "applied"} =>
            LET snapshot == cache[command[c].who].snapshot
            IN  snapshot.resolved # Never => snapshot.resolved >= command[c].at

\* A request served from the cache is given an area for a group, as Graph had
\* listed it, only within the TTL of the moment from which Graph no longer
\* shows the group that was left, and only while the last invalidation of the
\* identity to have been committed is dated before that moment (is_fresh,
\* save, get_authorized_principal).
ReusesGroup(r, g) ==
    /\ Stage(r, "active") /\ request'[r].stage = "reused"
    /\ cache[Who(r)].snapshot.source = "microsoft_graph"
    /\ \E mapping \in cache[Who(r)].snapshot.matched :
          mapping.source = "group" /\ mapping.value = g
LostGroupsEnd ==
    [][\A r \in Calls : \A g \in Groups :
          ReusesGroup(r, g) /\ left[Who(r)][g] # Never =>
              /\ now < left[Who(r)][g] + Lag + TTL
              /\ invalidated[Who(r)] < left[Who(r)][g] + Lag]_accessVars
=============================================================================
