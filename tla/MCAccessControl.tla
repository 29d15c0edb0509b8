--------------------------- MODULE MCAccessControl ---------------------------
(* Instances of AccessControl for TLC: an administrator and a user of one  *)
(* group, two catalogs in force beside each other during a roll-out, and   *)
(* two replicas, of which one asks Graph.                                  *)
EXTENDS AccessControl, TLC

CONSTANTS ana, root, g1, k1, k2

MCTenant == (ana :> "t") @@ (root :> "t")
Complete(ids) == [state |-> "complete", ids |-> ids]
Overage == [state |-> "overage", ids |-> {}]
Absent == [state |-> "absent", ids |-> {}]
Token(who, account, admin, groups) ==
    [who |-> who, account |-> account, admin |-> admin, roles |-> {}, groups |-> groups]
MCTokens ==
    {Token(ana, "member", FALSE, Overage), Token(ana, "member", FALSE, Complete({g1})),
     Token(root, "member", TRUE, Absent)}
Mapping(source, value, area) == [tenant |-> "t", source |-> source, value |-> value, area |-> area]
MCMappings == ("c1" :> {Mapping("group", g1, "legal")}) @@ ("c2" :> {})
MCReplicas == {[catalog |-> "c1", graph |-> TRUE], [catalog |-> "c2", graph |-> FALSE]}
MCPageOf == (g1 :> 1)

Key(status, from, until) == [status |-> status, from |-> from, until |-> until]
MCKeySets ==
    << (k1 :> Key("active", 1, 4)),
       (k1 :> Key("retiring", 1, 3)) @@ (k2 :> Key("active", 2, 5)) >>

Alike == Permutations(Calls) \cup Permutations(Commands)

\* The two components are explored in behaviours of their own.  The
\* administrator asks for nothing but commands, and what is asked for the
\* administrator is explored without other requests.  Graph matters to the
\* replica that asks it, whatever the groups of the token, and an attempt
\* after the first is explored without commands.  Two commands are explored
\* beside one request, and two requests beside one command.  The last instant
\* is there for what lasts: a snapshot that nobody invalidates, and what has
\* expired.
Apart ==
    /\ member[root] = {}
    /\ now + 1 \notin Clocks => \A c \in Commands : command[c] = Idle
    /\ Cardinality({r \in Calls : request[r] # Idle})
           + Cardinality({c \in Commands : command[c] # Idle}) <= 3
    /\ \A r \in Calls : request[r].stage = "authenticated" => Who(r) = ana
    /\ \A r \in Calls :
          /\ request[r].stage = "authenticated" /\ request[r].replica.graph =>
                 request[r].token.groups = Overage
          /\ graph[r] # Quiet /\ graph[r].attempt > 1 => \A c \in Commands : command[c] = Idle
    /\ (\E c \in Commands : command[c].stage \notin {"idle", "closed"} /\ command[c].who = root) =>
           \A r \in Calls : request[r] = Idle
    /\ \/ published = 1 /\ issued = {} /\ trusted = 1
       \/ (\A r \in Calls : request[r] = Idle) /\ (\A c \in Commands : command[c] = Idle)
          /\ \A who \in Identities, g \in Groups : left[who][g] = Never
=============================================================================
