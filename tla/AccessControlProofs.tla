------------------------- MODULE AccessControlProofs -------------------------
(***************************************************************************)
(* Proofs about AccessControl, for every value of its constants:           *)
(*   - what the cache holds for an identity was resolved from after the    *)
(*     last invalidation committed;                                        *)
(*   - an answered block is undone only by a restore that is not older;    *)
(*   - a group somebody lost ends with the TTL, or with the invalidation   *)
(*     that committed last, once Graph shows it no longer;                 *)
(*   - a consumer accepts an authorization once before it expires.         *)
(***************************************************************************)
EXTENDS AccessControl, TLAPS, FiniteSetTheorems

Instants == Nat \ {0}

\* The clock is an instant of it, and what is being resolved began at one.
ClockOK == now \in Clocks
Started ==
    \A r \in Calls : request[r].stage \in {"resolving", "resolved"} => request[r].started \in Instants

\* A command that has read the clock holds what it read.
Dated ==
    \A c \in Commands :
        command[c].stage \in {"asked", "answered", "applied"} => command[c].at \in Instants

Shapes ==
    /\ DOMAIN request = Calls /\ DOMAIN command = Commands
    /\ DOMAIN restriction = Identities /\ DOMAIN cache = Identities
    /\ DOMAIN invalidated = Identities

\* A row remembers the last invalidation until a snapshot that follows it is
\* saved over it.
RowFollows(row, marker) ==
    /\ row.snapshot.resolved \in Nat /\ row.invalidated \in Nat /\ marker \in Nat
    /\ row.snapshot.resolved # Never => row.snapshot.resolved > marker
    /\ row.snapshot.resolved = Never => row.invalidated = marker
    /\ row.invalidated # Never => row.invalidated = marker
CacheInv == \A who \in Identities : RowFollows(cache[who], invalidated[who])

Settled(c) == command[c].stage \in {"answered", "applied"}

\* No committed change is later than the row, and a row that does not block
\* is that of a restore.
NoLaterChange ==
    \A c \in Commands :
        Settled(c) /\ command[c].who \in Identities => command[c].at <= restriction[command[c].who].at
RestoredBy(who) ==
    \E d \in Commands :
        /\ Settled(d) /\ command[d].kind = "restore" /\ command[d].who = who
        /\ command[d].at = restriction[who].at
RowsOfRestores ==
    \A who \in Identities :
        /\ restriction[who].at \in Nat
        /\ restriction[who].at # Never /\ ~Blocked(who) => RestoredBy(who)
Targets ==
    \A c \in Commands :
        command[c].stage \notin {"idle", "closed"} =>
            command[c].who \in Identities /\ command[c].kind \in Kinds
RestrictionInv == Targets /\ NoLaterChange /\ RowsOfRestores

\* Acceptances are numbered, and one that has not expired is remembered.
Numbered == IsFiniteSet(accepted) /\ \A a \in accepted : a.nth \in Nat /\ a.nth <= Cardinality(accepted)
Remembers ==
    \A a \in accepted :
        now < a.expires => \E entry \in entries : entry.id = a.id /\ entry.expires = a.expires
Lifetimes ==
    /\ \A envelope \in issued : envelope.expires \in Nat
    /\ \A a \in accepted : a.expires \in Nat
GuardInv == Lifetimes /\ Numbered /\ Remembers /\ SpentOnce

AccessInv == ClockOK /\ Shapes /\ Started /\ Dated /\ CacheInv /\ RestrictionInv
AuthorizationInv == ClockOK /\ GuardInv
Inv == AccessInv /\ AuthorizationInv

LEMMA NowIsAnInstant == ClockOK => now \in Instants
BY ClocksAssumption DEF ClockOK, Instants

-----------------------------------------------------------------------------
LEMMA InitAccess == Init => AccessInv
<1> SUFFICES ASSUME Init PROVE AccessInv
  OBVIOUS
<1> USE DEF Init, AccessInit, Idle, NoSnapshot, NoState, Never
<1>1. ClockOK
  BY DEF ClockInit, ClockOK
<1>2. Shapes
  BY DEF Shapes
<1>3. Started /\ Dated
  BY DEF Started, Dated
<1>4. CacheInv
  BY DEF CacheInv, RowFollows
<1>5. RestrictionInv
  BY DEF RestrictionInv, Targets, NoLaterChange, RowsOfRestores, Settled
<1> QED
  BY <1>1, <1>2, <1>3, <1>4, <1>5 DEF AccessInv

LEMMA InitAuthorization == Init => GuardInv
<1> SUFFICES ASSUME Init PROVE GuardInv
  OBVIOUS
<1>1. accepted = {} /\ issued = {}
  BY DEF Init, AuthorizationInit
<1> QED
  BY <1>1, FS_EmptySet DEF GuardInv, Lifetimes, Numbered, Remembers, SpentOnce

-----------------------------------------------------------------------------
(* Requests *)

\* A step of a request that leaves the rows and the commands alone.
LEMMA RowsUntouched ==
    ASSUME AccessInv, UNCHANGED <<now, Rows>>, DOMAIN request' = Calls, Started'
    PROVE  AccessInv'
<1>1. ClockOK' /\ Shapes'
  BY DEF AccessInv, ClockOK, Shapes, Rows
<1>2. Dated' /\ CacheInv'
  BY DEF AccessInv, Dated, CacheInv, Rows
<1>3. RestrictionInv'
  BY DEF AccessInv, RestrictionInv, Targets, NoLaterChange, RowsOfRestores, Settled, RestoredBy,
         Blocked, Rows
<1> QED
  BY <1>1, <1>2, <1>3 DEF AccessInv

\* A request that ends, or that has not begun to resolve, holds no instant.
LEMMA StartedKept ==
    ASSUME AccessInv, NEW r \in Calls, NEW record, request' = [request EXCEPT ![r] = record],
           record.stage \in {"resolving", "resolved"} => record.started \in Instants
    PROVE  DOMAIN request' = Calls /\ Started'
BY DEF AccessInv, Shapes, Started

LEMMA EndsKeeps ==
    ASSUME AccessInv, NEW r \in Calls, NEW stage \in {"refused", "reused", "granted"}, Ends(r, stage)
    PROVE  DOMAIN request' = Calls /\ Started'
<1> DEFINE record == [stage |-> stage]
<1>1. request' = [request EXCEPT ![r] = record]
  BY DEF Ends
<1>2. record.stage \notin {"resolving", "resolved"}
  OBVIOUS
<1> QED
  BY <1>1, <1>2, StartedKept

LEMMA ResolvingKeeps ==
    ASSUME AccessInv, NEW r \in Calls, NEW stage, NEW started \in Instants, NEW ids, NEW source,
           Resolving(r, stage, started, ids, source)
    PROVE  DOMAIN request' = Calls /\ Started'
<1> DEFINE record == [stage |-> stage, token |-> request[r].token, replica |-> request[r].replica,
                      started |-> started, ids |-> ids, source |-> source]
<1>1. request' = [request EXCEPT ![r] = record]
  BY DEF Resolving
<1>2. record.started \in Instants
  OBVIOUS
<1> QED
  BY <1>1, <1>2, StartedKept

LEMMA ProceedsKeeps ==
    ASSUME AccessInv, NEW r \in Calls, NEW stage \in {"authenticated", "active"}, NEW token,
           NEW replica, Proceeds(r, stage, token, replica)
    PROVE  DOMAIN request' = Calls /\ Started'
<1> DEFINE record == [stage |-> stage, token |-> token, replica |-> replica]
<1>1. request' = [request EXCEPT ![r] = record]
  BY DEF Proceeds
<1>2. record.stage \notin {"resolving", "resolved"}
  OBVIOUS
<1> QED
  BY <1>1, <1>2, StartedKept

\* What is saved was resolved from after the last invalidation.
LEMMA SaveKeeps ==
    ASSUME AccessInv, UNCHANGED now, NEW r \in Calls, Save(r)
    PROVE  AccessInv'
<1> DEFINE who == Who(r)
           row == [snapshot |-> Snapshot(r), invalidated |-> Never]
<1>1. request[r].started \in Instants
  BY DEF AccessInv, Started, Save, Stage
<1>2. cache' = [cache EXCEPT ![who] = row]
  BY DEF Save
<1>3. who \in Identities => RowFollows(row, invalidated[who])
  <2> SUFFICES ASSUME who \in Identities PROVE RowFollows(row, invalidated[who])
    OBVIOUS
  <2>1. row.snapshot.resolved = request[r].started /\ row.invalidated = Never
    BY DEF Snapshot, ResolvedAt
  <2>2. Accepts(cache[who], request[r].started)
    BY DEF Save, ResolvedAt
  <2>3. RowFollows(cache[who], invalidated[who])
    BY DEF AccessInv, CacheInv
  <2> HIDE DEF row
  <2> QED
    BY <1>1, <2>1, <2>2, <2>3 DEF RowFollows, Accepts, Never, Instants
<1>4. CacheInv'
  <2> SUFFICES ASSUME NEW other \in Identities PROVE RowFollows(cache'[other], invalidated'[other])
    BY DEF CacheInv, RowFollows
  <2>1. invalidated' = invalidated /\ RowFollows(cache[other], invalidated[other])
    BY DEF Save, AccessInv, CacheInv
  <2>2. cache'[other] = IF other = who THEN row ELSE cache[other]
    BY <1>2 DEF AccessInv, Shapes
  <2> HIDE DEF row, who
  <2> QED
    BY <1>3, <2>1, <2>2
<1>5. DOMAIN request' = Calls /\ Started'
  BY EndsKeeps DEF Save
<1>6. Shapes'
  BY <1>2, <1>5 DEF AccessInv, Shapes, Save
<1>7. Dated' /\ RestrictionInv' /\ ClockOK'
  BY DEF Save, AccessInv, ClockOK, Dated, RestrictionInv, Targets, NoLaterChange, RowsOfRestores,
         Settled, RestoredBy, Blocked
<1> QED
  BY <1>4, <1>5, <1>6, <1>7 DEF AccessInv

LEMMA RequestKeeps ==
    ASSUME AccessInv, UNCHANGED now, NEW r \in Calls, RequestStep(r)
    PROVE  AccessInv'
<1>0. now \in Instants
  BY NowIsAnInstant DEF AccessInv
<1> DEFINE Fine == UNCHANGED Rows /\ DOMAIN request' = Calls /\ Started'
<1>1. SUFFICES ASSUME ~Save(r) PROVE Fine
  BY SaveKeeps, RowsUntouched
<1>2. ASSUME NEW token \in Tokens, NEW replica \in Replicas, Authenticate(r, token, replica)
      PROVE  Fine
  BY <1>2, ProceedsKeeps DEF Authenticate
<1>3. CASE RejectToken(r)
  BY <1>3, EndsKeeps DEF RejectToken
<1>4. CASE RequireActive(r)
  <2> DEFINE token == request[r].token
             replica == request[r].replica
  <2>1. CASE Proceeds(r, "active", token, replica)
    BY <1>4, <2>1, ProceedsKeeps DEF RequireActive
  <2>2. CASE Ends(r, "refused")
    BY <1>4, <2>2, EndsKeeps DEF RequireActive
  <2> QED
    BY <1>4, <2>1, <2>2 DEF RequireActive
<1>5. CASE Reuse(r)
  BY <1>5, EndsKeeps DEF Reuse
<1>6. CASE ResolveFromToken(r)
  <2> DEFINE token == request[r].token
  <2>1. Resolving(r, "resolved", now, token.groups.ids, TokenSource(token)) /\ UNCHANGED Rows
    BY <1>6 DEF ResolveFromToken
  <2> QED
    BY <1>0, <2>1, ResolvingKeeps
<1>7. CASE ResolveFromGraph(r)
  BY <1>0, <1>7, ResolvingKeeps DEF ResolveFromGraph
<1>8. CASE AskGraph(r)
  BY <1>8 DEF AskGraph, AccessInv, Shapes, Started
<1>9. CASE GraphAnswers(r)
  <2>1. request[r].started \in Instants
    BY <1>9 DEF GraphAnswers, Stage, AccessInv, Started
  <2> QED
    BY <1>9, <2>1, ResolvingKeeps DEF GraphAnswers
<1>10. CASE GraphFails(r)
  BY <1>10, EndsKeeps DEF GraphFails
<1>11. CASE GrantUncached(r)
  BY <1>11, EndsKeeps DEF GrantUncached
<1>12. CASE SaveFails(r)
  BY <1>12, EndsKeeps DEF SaveFails
<1> QED
  BY <1>1, <1>2, <1>3, <1>4, <1>5, <1>6, <1>7, <1>8, <1>9, <1>10, <1>11, <1>12 DEF RequestStep

-----------------------------------------------------------------------------
(* Commands *)

\* A command that has not committed leaves the rows alone.
LEMMA CommandsUntouched ==
    ASSUME AccessInv, UNCHANGED <<now, request, restriction, cache, invalidated>>,
           NEW c \in Commands, NEW record, command' = [command EXCEPT ![c] = record],
           ~Settled(c), record.stage \notin {"answered", "applied"},
           record.stage = "asked" => record.at \in Instants,
           record.stage \notin {"idle", "closed"} => record.who \in Identities /\ record.kind \in Kinds
    PROVE  AccessInv'
<1>1. ClockOK' /\ Shapes' /\ Started' /\ CacheInv' /\ Dated'
  BY DEF AccessInv, ClockOK, Shapes, Started, CacheInv, Dated
<1>2. \A d \in Commands : command'[d] = IF d = c THEN record ELSE command[d]
  BY DEF AccessInv, Shapes
<1>3. Targets' /\ NoLaterChange'
  BY <1>2 DEF AccessInv, RestrictionInv, Targets, NoLaterChange, Settled
<1>4. \A who \in Identities : RestoredBy(who) => RestoredBy(who)'
  BY <1>2 DEF RestoredBy, Settled
<1>5. RowsOfRestores'
  BY <1>4 DEF AccessInv, RestrictionInv, RowsOfRestores, Blocked
<1> QED
  BY <1>1, <1>3, <1>5 DEF AccessInv, RestrictionInv

\* The marker of the row is the last invalidation.
LEMMA InvalidatesKeeps ==
    ASSUME AccessInv, NEW who, NEW at \in Instants, Invalidates(who, at)
    PROVE  CacheInv' /\ DOMAIN cache' = Identities /\ DOMAIN invalidated' = Identities
<1> DEFINE row == [snapshot |-> NoSnapshot, invalidated |-> at]
<1>1. cache' = [cache EXCEPT ![who] = row] /\ invalidated' = [invalidated EXCEPT ![who] = at]
  BY DEF Invalidates
<1>2. RowFollows(row, at)
  BY DEF RowFollows, NoSnapshot, Instants, Never
<1>3. DOMAIN cache' = Identities /\ DOMAIN invalidated' = Identities
  BY <1>1 DEF AccessInv, Shapes
<1>4. \A other \in Identities :
        /\ cache'[other] = (IF other = who THEN row ELSE cache[other])
        /\ invalidated'[other] = (IF other = who THEN at ELSE invalidated[other])
  BY <1>1 DEF AccessInv, Shapes
<1> HIDE DEF row
<1>5. CacheInv'
  <2> SUFFICES ASSUME NEW other \in Identities PROVE RowFollows(cache'[other], invalidated'[other])
    BY DEF CacheInv, RowFollows
  <2> QED
    BY <1>2, <1>4 DEF AccessInv, CacheInv
<1> QED
  BY <1>3, <1>5

LEMMA ChangeKeeps ==
    ASSUME AccessInv, UNCHANGED now, NEW c \in Commands, ChangeAccess(c)
    PROVE  AccessInv'
<1> DEFINE who == command[c].who
           at == command[c].at
           row == [blocked |-> command[c].kind = "block", at |-> at]
<1>1. at \in Instants /\ who \in Identities /\ command[c].stage = "asked"
  BY DEF ChangeAccess, CommandStage, AccessInv, Dated, RestrictionInv, Targets
<1>2. PICK stage \in {"answered", "applied"} : Becomes(c, stage, at)
  BY DEF ChangeAccess, Committed
<1> DEFINE record == [stage |-> stage, kind |-> command[c].kind, who |-> who, at |-> at]
<1>3. \A d \in Commands : command'[d] = IF d = c THEN record ELSE command[d]
  BY <1>2 DEF Becomes, AccessInv, Shapes
<1>4. \A w \in Identities : restriction'[w] = IF w = who THEN row ELSE restriction[w]
  BY DEF ChangeAccess, AccessInv, Shapes
<1>5. restriction[who].at <= at
  BY DEF ChangeAccess, Supersedes
<1>6. CacheInv' /\ DOMAIN cache' = Identities /\ DOMAIN invalidated' = Identities
  BY <1>1, InvalidatesKeeps DEF ChangeAccess
<1>7. Shapes' /\ ClockOK' /\ Started'
  BY <1>2, <1>6 DEF ChangeAccess, Becomes, AccessInv, Shapes, ClockOK, Started
<1>8. Dated' /\ Targets'
  BY <1>1, <1>3 DEF AccessInv, Dated, RestrictionInv, Targets
<1>9. NoLaterChange'
  <2> SUFFICES ASSUME NEW d \in Commands, Settled(d)', command'[d].who \in Identities
               PROVE  command'[d].at <= restriction'[command'[d].who].at
    BY DEF NoLaterChange
  <2>1. CASE d = c
    BY <1>1, <1>3, <1>4, <2>1 DEF Instants
  <2>2. CASE d # c
    <3>1. Settled(d) /\ command[d].at <= restriction[command[d].who].at
      BY <1>3, <2>2 DEF Settled, AccessInv, RestrictionInv, NoLaterChange
    <3>2. command[d].at \in Nat /\ restriction[who].at \in Nat
      BY <1>1, <3>1 DEF AccessInv, Dated, Settled, RestrictionInv, RowsOfRestores, Instants
    <3> QED
      BY <1>1, <1>3, <1>4, <1>5, <2>2, <3>1, <3>2 DEF Instants
  <2> QED
    BY <2>1, <2>2
<1>10. RowsOfRestores'
  <2> SUFFICES ASSUME NEW w \in Identities
               PROVE  /\ restriction'[w].at \in Nat
                      /\ restriction'[w].at # Never /\ ~restriction'[w].blocked => RestoredBy(w)'
    BY DEF RowsOfRestores, Blocked
  <2>1. CASE w = who
    <3>1. restriction'[w] = row
      BY <1>4, <2>1
    <3>2. ~row.blocked => command'[c].kind = "restore"
      <4>1. command[c].kind \in Kinds /\ command[c].kind # "invalidate"
        BY <1>1 DEF ChangeAccess, AccessInv, RestrictionInv, Targets
      <4>2. row.blocked <=> command[c].kind = "block"
        OBVIOUS
      <4>3. command'[c].kind = command[c].kind
        BY <1>3
      <4> QED
        BY <4>1, <4>2, <4>3 DEF Kinds
    <3> QED
      BY <1>1, <1>3, <2>1, <3>1, <3>2 DEF RestoredBy, Settled, Instants
  <2>2. CASE w # who
    <3>1. restriction'[w] = restriction[w]
      BY <1>4, <2>2
    <3>2. RestoredBy(w) => RestoredBy(w)'
      BY <1>1, <1>3, <3>1 DEF RestoredBy, Settled
    <3> QED
      BY <3>1, <3>2 DEF AccessInv, RestrictionInv, RowsOfRestores, Blocked
  <2> QED
    BY <2>1, <2>2
<1> QED
  BY <1>6, <1>7, <1>8, <1>9, <1>10 DEF AccessInv, RestrictionInv

LEMMA CommandKeeps ==
    ASSUME AccessInv, UNCHANGED now, NEW c \in Commands, CommandStep(c), UNCHANGED request
    PROVE  AccessInv'
<1>1. ASSUME NEW token \in Tokens, NEW kind \in Kinds, NEW who \in Identities,
             Admit(c, token, kind, who)
      PROVE  AccessInv'
  <2> DEFINE record == [stage |-> "admitted", kind |-> kind, who |-> who]
  <2>1. /\ command' = [command EXCEPT ![c] = record] /\ ~Settled(c)
        /\ UNCHANGED <<restriction, cache, invalidated>>
    BY <1>1 DEF Admit, CommandStage, Settled
  <2> QED
    BY <2>1, CommandsUntouched
<1>2. CASE ReadClock(c)
  <2> DEFINE record == [stage |-> "asked", kind |-> command[c].kind, who |-> command[c].who,
                        at |-> now]
  <2>1. /\ command' = [command EXCEPT ![c] = record] /\ ~Settled(c)
        /\ UNCHANGED <<restriction, cache, invalidated>>
    BY <1>2 DEF ReadClock, Becomes, CommandStage, Settled
  <2>2. record.who \in Identities /\ record.kind \in Kinds
    BY <1>2 DEF ReadClock, CommandStage, AccessInv, RestrictionInv, Targets
  <2>3. now \in Instants
    BY NowIsAnInstant DEF AccessInv
  <2> QED
    BY <2>1, <2>2, <2>3, CommandsUntouched
<1>3. CASE ChangeAccess(c)
  BY <1>3, ChangeKeeps
<1> DEFINE closed == [stage |-> "closed"]
<1>4. CASE CommandFails(c)
  <2>1. /\ command' = [command EXCEPT ![c] = closed] /\ ~Settled(c)
        /\ UNCHANGED <<restriction, cache, invalidated>>
    BY <1>4 DEF CommandFails, Closes, CommandStage, Settled
  <2> QED
    BY <2>1, CommandsUntouched
<1>5. CASE Invalidate(c)
  <2>1. command[c].at \in Instants /\ ~Settled(c)
    BY <1>5 DEF Invalidate, CommandStage, AccessInv, Dated, Settled
  <2>2. CacheInv' /\ DOMAIN cache' = Identities /\ DOMAIN invalidated' = Identities
    BY <1>5, <2>1, InvalidatesKeeps DEF Invalidate
  <2>3. \A d \in Commands : command'[d] = IF d = c THEN closed ELSE command[d]
    BY <1>5 DEF Invalidate, Closes, AccessInv, Shapes
  <2>4. ClockOK' /\ Shapes' /\ Started' /\ Dated'
    BY <1>5, <2>2, <2>3 DEF Invalidate, Closes, AccessInv, ClockOK, Shapes, Started, Dated
  <2>5. Targets' /\ NoLaterChange'
    BY <1>5, <2>3 DEF Invalidate, AccessInv, RestrictionInv, Targets, NoLaterChange, Settled
  <2>6. \A who \in Identities : RestoredBy(who) => RestoredBy(who)'
    BY <1>5, <2>1, <2>3 DEF Invalidate, RestoredBy, Settled
  <2>7. RowsOfRestores'
    BY <1>5, <2>6 DEF Invalidate, AccessInv, RestrictionInv, RowsOfRestores, Blocked
  <2> QED
    BY <2>2, <2>4, <2>5, <2>7 DEF AccessInv, RestrictionInv
<1> QED
  BY <1>1, <1>2, <1>3, <1>4, <1>5 DEF CommandStep

-----------------------------------------------------------------------------
(* Authorizations *)

\* What is remembered outlives a pruning, and the time that passes.
LEMMA PruningKeeps ==
    ASSUME AuthorizationInv, now' = now, accepted' = accepted, NEW t \in Held, entries' = Pruned(t)
    PROVE  Remembers'
<1>1. now \in Nat /\ t \in Nat /\ t <= now
  BY NowIsAnInstant, ClocksAssumption DEF AuthorizationInv, Held, Instants
<1>2. \A a \in accepted : a.expires \in Nat
  BY DEF AuthorizationInv, GuardInv, Lifetimes
<1> QED
  BY <1>1, <1>2 DEF AuthorizationInv, GuardInv, Remembers, Pruned

LEMMA ConsumeKeeps ==
    ASSUME AuthorizationInv, UNCHANGED now, NEW envelope \in issued, NEW t \in Held,
           Consume(envelope, t)
    PROVE  GuardInv'
<1> DEFINE new == Acceptance(envelope)
           size == Cardinality(accepted)
<1>0. /\ IsFiniteSet(accepted) /\ size \in Nat /\ now \in Nat
      /\ envelope.expires \in Nat
      /\ accepted' = accepted \cup {new} /\ issued' = issued
  BY FS_CardinalityType, NowIsAnInstant DEF AuthorizationInv, GuardInv, Numbered, Lifetimes, Consume,
     Instants
<1>11. t \in Nat /\ t <= now
  BY ClocksAssumption DEF Held
<1>1. new.nth = size + 1 /\ new.id = envelope.id /\ new.expires = envelope.expires /\ new.at = now
  BY DEF Acceptance
<1>2. new \notin accepted
  BY <1>0, <1>1 DEF AuthorizationInv, GuardInv, Numbered
<1>3. IsFiniteSet(accepted') /\ Cardinality(accepted') = size + 1
  BY <1>0, <1>2, FS_AddElement
<1> HIDE DEF new, size
<1>4. Numbered'
  <2>1. \A a \in accepted : a.nth \in Nat /\ a.nth <= size
    BY DEF AuthorizationInv, GuardInv, Numbered, size
  <2>2. \A a \in accepted \cup {new} : a.nth \in Nat /\ a.nth <= size + 1
    <3>1. new.nth \in Nat /\ new.nth <= size + 1
      BY <1>0, <1>1
    <3>2. ASSUME NEW a \in accepted PROVE a.nth \in Nat /\ a.nth <= size + 1
      BY <1>0, <2>1
    <3> QED
      BY <3>1, <3>2
  <2> QED
    BY <1>0, <1>3, <2>2 DEF Numbered
<1>5. Lifetimes'
  BY <1>0, <1>1 DEF Lifetimes, AuthorizationInv, GuardInv
<1>6. Remembers'
  <2> DEFINE entry == [id |-> envelope.id, expires |-> envelope.expires]
  <2>1. entries' = Pruned(t) \cup {entry} /\ now' = now
    BY DEF Consume
  <2>2. ASSUME NEW a \in accepted, now < a.expires
        PROVE  \E e \in Pruned(t) : e.id = a.id /\ e.expires = a.expires
    <3>1. a.expires \in Nat
      BY DEF AuthorizationInv, GuardInv, Lifetimes
    <3> QED
      BY <1>0, <1>11, <2>2, <3>1 DEF AuthorizationInv, GuardInv, Remembers, Pruned
  <2>3. entry.id = new.id /\ entry.expires = new.expires
    BY <1>1
  <2> HIDE DEF entry
  <2> QED
    BY <1>0, <2>1, <2>2, <2>3 DEF Remembers
<1>7. ASSUME NEW a \in accepted, a.id = new.id
      PROVE  now >= a.expires
  <2>1. a.expires \in Nat
    BY DEF AuthorizationInv, GuardInv, Lifetimes
  <2>2. CASE now < a.expires
    <3>1. PICK entry \in entries : entry.id = a.id /\ entry.expires = a.expires
      BY <2>2 DEF AuthorizationInv, GuardInv, Remembers
    <3>2. entry \in Pruned(t)
      BY <1>0, <1>11, <2>1, <2>2, <3>1 DEF Pruned
    <3> QED
      BY <1>1, <1>7, <3>1, <3>2 DEF Consume, Remembered
  <2> QED
    BY <1>0, <2>1, <2>2
<1> DEFINE both == accepted \cup {new}
<1>8. ASSUME NEW a \in both, NEW b \in both
      PROVE  AgainWhenExpired(a, b)
  <2>1. CASE a \in accepted /\ b \in accepted
    BY <2>1 DEF AuthorizationInv, GuardInv, SpentOnce
  <2>2. CASE a \in accepted /\ b = new
    BY <1>1, <1>7, <2>2 DEF AgainWhenExpired
  <2>3. CASE a = new
    <3>1. b.nth \in Nat /\ b.nth <= size + 1
      BY <1>0, <1>1, <1>3, <1>4 DEF Numbered
    <3> QED
      BY <1>0, <1>1, <2>3, <3>1 DEF AgainWhenExpired
  <2> QED
    BY <2>1, <2>2, <2>3
<1>9. SpentOnce'
  BY <1>0, <1>8 DEF SpentOnce
<1> QED
  BY <1>4, <1>5, <1>6, <1>9 DEF GuardInv

LEMMA AuthorizationKeeps ==
    ASSUME AuthorizationInv, UNCHANGED now, AuthorizationStep
    PROVE  GuardInv'
<1>0. GuardInv
  BY DEF AuthorizationInv
<1>1. CASE UNCHANGED <<issued, entries, accepted>>  \* Publish, RestartIssuer
  BY <1>0, <1>1 DEF GuardInv, Lifetimes, Numbered, Remembers, SpentOnce
<1>2. CASE RestartConsumer
  BY <1>0, <1>2, FS_EmptySet DEF RestartConsumer, GuardInv, Lifetimes, Numbered, Remembers, SpentOnce
<1>3. ASSUME NEW id \in Authorizations, Issue(id)
      PROVE  GuardInv'
  <2>1. now + Lifetime \in Nat
    BY NowIsAnInstant, LifetimeAssumption DEF AuthorizationInv, Instants
  <2>2. Lifetimes'
    BY <1>0, <1>3, <2>1 DEF Issue, GuardInv, Lifetimes
  <2>3. Numbered' /\ Remembers' /\ SpentOnce'
    BY <1>0, <1>3 DEF Issue, GuardInv, Numbered, Remembers, SpentOnce
  <2> QED
    BY <2>2, <2>3 DEF GuardInv
<1>4. ASSUME NEW envelope \in issued, NEW t \in Held, Consume(envelope, t)
      PROVE  GuardInv'
  BY <1>4, ConsumeKeeps
<1>5. ASSUME NEW envelope \in issued, NEW t \in Held, RefuseReplay(envelope, t)
      PROVE  GuardInv'
  <2>1. issued' = issued /\ accepted' = accepted /\ entries' = Pruned(t)
    BY <1>5 DEF RefuseReplay
  <2>2. Remembers'
    BY <2>1, PruningKeeps
  <2> QED
    BY <1>0, <2>1, <2>2 DEF GuardInv, Lifetimes, Numbered, SpentOnce
<1> QED
  BY <1>1, <1>2, <1>3, <1>4, <1>5 DEF AuthorizationStep, Publish, RestartIssuer

-----------------------------------------------------------------------------
(* The composition *)

LEMMA TickKeeps ==
    ASSUME Inv, Tick, UNCHANGED <<directory, graph, access, authorization>>
    PROVE  Inv'
<1>1. now \in Nat /\ now' = now + 1 /\ ClockOK'
  BY NowIsAnInstant DEF Inv, AccessInv, Tick, ClockOK, Instants
<1>2. Shapes' /\ Started' /\ Dated' /\ CacheInv' /\ RestrictionInv'
  BY DEF Inv, AccessInv, access, Shapes, Started, Dated, CacheInv, RestrictionInv, Targets,
         NoLaterChange, RowsOfRestores, RestoredBy, Settled, Blocked
<1>3. Lifetimes' /\ Numbered' /\ SpentOnce'
  BY DEF Inv, AuthorizationInv, GuardInv, authorization, Lifetimes, Numbered, SpentOnce
<1>4. Remembers'
  BY <1>1 DEF Inv, AuthorizationInv, GuardInv, authorization, Lifetimes, Remembers
<1> QED
  BY <1>1, <1>2, <1>3, <1>4 DEF Inv, AccessInv, AuthorizationInv, GuardInv

LEMMA StepKeeps ==
    ASSUME Inv, [Next]_vars
    PROVE  Inv'
<1> USE DEF Inv
<1>1. ASSUME AccessInv' , UNCHANGED <<now, authorization>>
      PROVE  Inv'
  BY <1>1 DEF authorization, AccessInv, AuthorizationInv, GuardInv, ClockOK, Lifetimes, Numbered,
              Remembers, SpentOnce
<1>2. ASSUME UNCHANGED <<now, access>>
      PROVE  AccessInv'
  BY <1>2 DEF access, AccessInv, ClockOK, Shapes, Started, Dated, CacheInv, RestrictionInv, Targets,
              NoLaterChange, RowsOfRestores, RestoredBy, Settled, Blocked
<1>3. CASE Tick /\ UNCHANGED <<directory, graph, access, authorization>>
  BY <1>3, TickKeeps
<1>4. CASE AccessStep /\ UNCHANGED <<now, authorization>>
  <2>1. ASSUME NEW r \in Calls, RequestStep(r) PROVE AccessInv'
    BY <1>4, <2>1, RequestKeeps
  <2>2. ASSUME NEW c \in Commands, CommandStep(c) PROVE AccessInv'
    <3>1. UNCHANGED request
      BY <2>2 DEF CommandStep, Admit, ReadClock, ChangeAccess, Invalidate, CommandFails
    <3> QED
      BY <1>4, <2>2, <3>1, CommandKeeps
  <2> QED
    BY <1>1, <1>4, <2>1, <2>2 DEF AccessStep
<1>5. CASE DirectoryStep /\ UNCHANGED <<now, authorization>>
  BY <1>1, <1>2, <1>5 DEF DirectoryStep, access
<1>6. CASE AuthorizationStep /\ UNCHANGED <<now, directory, graph, access>>
  <2>1. GuardInv'
    BY <1>6, AuthorizationKeeps
  <2>2. AccessInv'
    BY <1>2, <1>6
  <2> QED
    BY <2>1, <2>2 DEF AccessInv, AuthorizationInv
<1>7. CASE UNCHANGED vars
  BY <1>1, <1>2, <1>7 DEF vars, access, authorization
<1> QED
  BY <1>3, <1>4, <1>5, <1>6, <1>7 DEF Next

LEMMA Invariance == Spec => []Inv
<1>1. Init => Inv
  BY InitAccess, InitAuthorization DEF Inv, AccessInv, AuthorizationInv
<1> QED
  BY <1>1, StepKeeps, PTL DEF Spec

-----------------------------------------------------------------------------
(* What is cached for an identity was resolved from after the instant of   *)
(* its last invalidation: a row holds either a snapshot that follows the   *)
(* marker or the marker itself, and save looks at both.                    *)
THEOREM CacheFollowsInvalidations == Spec => []SnapshotsFollowInvalidations
<1>1. Inv => SnapshotsFollowInvalidations
  BY DEF Inv, AccessInv, CacheInv, RowFollows, SnapshotsFollowInvalidations
<1> QED
  BY <1>1, Invariance, PTL

(* An answered block is undone only by a restore that is not older: the    *)
(* row is at least as late as every change committed, and a row that does  *)
(* not block is that of a restore (set_state).                             *)
THEOREM AnsweredBlocksStand == Spec => []BlocksStand
<1>1. Inv => BlocksStand
  <2> SUFFICES ASSUME Inv, NEW c \in Commands, command[c].stage = "answered",
                      command[c].kind = "block", ~Blocked(command[c].who)
               PROVE  \E d \in Commands :
                         /\ command[d].stage \in {"answered", "applied"}
                         /\ command[d].kind = "restore" /\ command[d].who = command[c].who
                         /\ command[d].at >= command[c].at
    BY DEF BlocksStand
  <2> DEFINE who == command[c].who
  <2>1. who \in Identities /\ command[c].at \in Instants
    BY DEF Inv, AccessInv, RestrictionInv, Targets, Dated
  <2>2. command[c].at <= restriction[who].at /\ restriction[who].at \in Nat
    BY <2>1 DEF Inv, AccessInv, RestrictionInv, NoLaterChange, RowsOfRestores, Settled
  <2>3. RestoredBy(who)
    BY <2>1, <2>2 DEF Inv, AccessInv, RestrictionInv, RowsOfRestores, Never, Instants
  <2>4. PICK d \in Commands :
          /\ Settled(d) /\ command[d].kind = "restore" /\ command[d].who = who
          /\ command[d].at = restriction[who].at
    BY <2>3 DEF RestoredBy
  <2> QED
    BY <2>1, <2>2, <2>4 DEF Settled, Instants
<1> QED
  BY <1>1, Invariance, PTL

(* A process of the consumer accepts an authorization once before it       *)
(* expires, because an acceptance that has not expired has an entry, which *)
(* _prune keeps and consume finds.                                         *)
THEOREM AuthorizationsSpentOnce == Spec => []SpentOnce
<1>1. Inv => SpentOnce
  BY DEF Inv, AuthorizationInv, GuardInv
<1> QED
  BY <1>1, Invariance, PTL

-----------------------------------------------------------------------------
(* Lost groups *)

GroupsIn(mappings) == {m.value : m \in {m \in mappings : m.source = "group"}}

\* No group that Graph was no longer to show at an instant is among these.
ListedBy(who, ids, t) ==
    \A g \in Groups : g \in ids /\ left[who][g] # Never => t <= left[who][g] + Lag

Conversation ==
    [operation : {"obo_token", "profile", "groups"}, attempt : Nat, page : Nat, ids : SUBSET Groups]

Bearers ==
    \A r \in Calls :
        request[r].stage \in {"authenticated", "active", "resolving", "resolved"} =>
            request[r].token.who \in Identities

\* Nobody joins a group, so who left one is not in it.
Departures ==
    /\ member \in [Identities -> SUBSET Groups]
    /\ left \in [Identities -> [Groups -> Nat]]
    /\ \A who \in Identities : \A g \in member[who] : left[who][g] = Never

\* A page is read after its resolution began: Graph could still show then, and
\* all the more at that beginning, a group it lists.
Gathers(r) ==
    /\ request[r].stage = "resolving" =>
          /\ graph[r] \in Conversation /\ request[r].started <= now
          /\ ListedBy(Who(r), graph[r].ids, request[r].started)
    /\ request[r].stage = "resolved" =>
          /\ request[r].started <= now
          /\ request[r].source = "microsoft_graph" =>
                ListedBy(Who(r), request[r].ids, request[r].started)
Gathered == \A r \in Calls : Gathers(r)

Keeps(who) ==
    /\ cache[who].snapshot.resolved <= now
    /\ cache[who].snapshot.source = "microsoft_graph" =>
          ListedBy(who, GroupsIn(cache[who].snapshot.matched), cache[who].snapshot.resolved)
Kept == \A who \in Identities : Keeps(who)

LostInv == DOMAIN graph = Calls /\ Bearers /\ Departures /\ Gathered /\ Kept

LEMMA LostInit == Init => LostInv
<1> SUFFICES ASSUME Init PROVE LostInv
  OBVIOUS
<1>1. DOMAIN graph = Calls /\ Bearers /\ Gathered
  BY DEF Init, AccessInit, GraphInit, Idle, Bearers, Gathered, Gathers
<1>2. Departures
  BY DEF Init, AccessInit, GraphInit, Departures, Never
<1>3. Kept
  <2>1. now \in Nat
    BY ClocksAssumption DEF Init, ClockInit
  <2> QED BY <2>1 DEF Init, AccessInit, NoSnapshot, Kept, Keeps, Never
<1> QED BY <1>1, <1>2, <1>3 DEF LostInv

\* An instant in the past stays one, and a departure is never earlier.
LEMMA LaterInstants ==
    ASSUME AccessInv, LostInv, Tick \/ UNCHANGED now
    PROVE  now \in Nat /\ now' \in Nat /\ now <= now'
<1>1. now \in Nat
  BY NowIsAnInstant DEF AccessInv, Instants
<1> QED BY <1>1 DEF Tick

LEMMA TimeKeeps ==
    ASSUME AccessInv, LostInv, Tick \/ UNCHANGED now, UNCHANGED <<directory, graph, request, cache>>
    PROVE  LostInv'
<1>1. now \in Nat /\ now' \in Nat /\ now <= now'
  BY LaterInstants
<1>2. UNCHANGED <<member, left, graph, request, cache>>
  BY DEF directory
<1>3. \A r \in Calls : request[r].stage \in {"resolving", "resolved"} => request[r].started \in Nat
  BY DEF AccessInv, Started, Instants
<1>4. \A who \in Identities : cache[who].snapshot.resolved \in Nat
  BY DEF AccessInv, CacheInv, RowFollows
<1>5. Bearers' /\ Departures' /\ (DOMAIN graph = Calls)'
  BY <1>2 DEF LostInv, Bearers, Departures
<1>6. Gathered'
  BY <1>1, <1>2, <1>3 DEF LostInv, Gathered, Gathers, ListedBy, Who
<1>7. Kept'
  BY <1>1, <1>2, <1>4 DEF LostInv, Kept, Keeps, ListedBy
<1> QED BY <1>5, <1>6, <1>7 DEF LostInv

LEMMA DepartureKeeps ==
    ASSUME AccessInv, LostInv, LeavesAGroup, UNCHANGED <<now, graph, request, cache>>
    PROVE  LostInv'
<1>1. PICK who \in Identities, g \in Groups : LeavesGroup(who, g)
  BY DEF LeavesAGroup
<1>2. now \in Nat
  BY LaterInstants
<1>3. member \in [Identities -> SUBSET Groups] /\ left \in [Identities -> [Groups -> Nat]]
  BY DEF LostInv, Departures
<1>4. /\ \A w \in Identities : member'[w] = IF w = who THEN member[who] \ {g} ELSE member[w]
      /\ \A w \in Identities : \A h \in Groups :
             left'[w][h] = IF w = who /\ h = g THEN now ELSE left[w][h]
  BY <1>1, <1>3 DEF LeavesGroup
<1>5. Departures'
  <2>1. member' \in [Identities -> SUBSET Groups] /\ left' \in [Identities -> [Groups -> Nat]]
    BY <1>1, <1>2, <1>3 DEF LeavesGroup
  <2> QED BY <1>3, <1>4, <2>1 DEF Departures, LostInv
<1>6. ASSUME NEW w \in Identities, NEW ids, NEW t \in Nat, t <= now, ListedBy(w, ids, t)
      PROVE  ListedBy(w, ids, t)'
  <2>1. t <= now + Lag
    BY <1>2, <1>6, GraphAssumption
  <2> QED BY <1>4, <1>6, <2>1 DEF ListedBy
<1>10. /\ \A r \in Calls :
             request[r].stage \in {"resolving", "resolved"} => request[r].started \in Nat
       /\ \A w \in Identities : cache[w].snapshot.resolved \in Nat
  BY DEF AccessInv, Started, Instants, CacheInv, RowFollows
<1>7. Bearers' /\ (DOMAIN graph = Calls)'
  BY DEF LostInv, Bearers
<1>8. Gathered'
  BY <1>6, <1>10 DEF LostInv, Bearers, Gathered, Gathers, Who
<1>9. Kept'
  BY <1>6, <1>10 DEF LostInv, Kept, Keeps
<1> QED BY <1>5, <1>7, <1>8, <1>9 DEF LostInv

\* What a step of one request leaves to the others.
LEMMA OthersKeep ==
    ASSUME LostInv, UNCHANGED <<now, directory>>, NEW r \in Calls,
           NEW record, request'[r] = record, \A q \in Calls \ {r} : request'[q] = request[q],
           DOMAIN graph' = Calls, \A q \in Calls \ {r} : graph'[q] = graph[q],
           record.stage \in {"authenticated", "active", "resolving", "resolved"} =>
               record.token.who \in Identities,
           Gathers(r)'
    PROVE  DOMAIN graph' = Calls /\ Bearers' /\ Departures' /\ Gathered'
<1>2. Bearers'
  BY DEF LostInv, Bearers
<1>3. Departures'
  BY DEF LostInv, Departures, directory
<1>4. ASSUME NEW q \in Calls \ {r} PROVE Gathers(q)'
  BY DEF LostInv, Gathered, Gathers, ListedBy, Who, directory
<1> QED BY <1>2, <1>3, <1>4 DEF Gathered

LEMMA SameCache ==
    ASSUME LostInv, UNCHANGED <<now, directory, cache>>
    PROVE  Kept'
BY DEF LostInv, Kept, Keeps, ListedBy, directory

LEMMA EndingKeeps ==
    ASSUME AccessInv, LostInv, UNCHANGED <<now, directory>>, NEW r \in Calls,
           NEW stage \in {"refused", "reused", "granted"}, Ends(r, stage),
           UNCHANGED graph \/ EndsConversation(r)
    PROVE  DOMAIN graph' = Calls /\ Bearers' /\ Departures' /\ Gathered'
<1> DEFINE record == [stage |-> stage]
<1>1. request' = [request EXCEPT ![r] = record] /\ DOMAIN request = Calls
  BY DEF Ends, AccessInv, Shapes
<1>2. request'[r] = record /\ \A q \in Calls \ {r} : request'[q] = request[q]
  BY <1>1
<1>3. Gathers(r)'
  <2>1. request'[r].stage = stage
    BY <1>2
  <2> QED BY <2>1 DEF Gathers
<1>4. DOMAIN graph' = Calls /\ \A q \in Calls \ {r} : graph'[q] = graph[q]
  BY DEF LostInv, EndsConversation
<1>5. record.stage \notin {"authenticated", "active", "resolving", "resolved"}
  OBVIOUS
<1> HIDE DEF record
<1> QED BY <1>2, <1>3, <1>4, <1>5, OthersKeep

\* A resolution that begins, or that has its groups.
LEMMA ResolutionKeeps ==
    ASSUME AccessInv, LostInv, UNCHANGED <<now, directory>>, NEW r \in Calls,
           NEW stage, NEW started, NEW ids, NEW source, Resolving(r, stage, started, ids, source),
           Who(r) \in Identities, started <= now,
           DOMAIN graph' = Calls, \A q \in Calls \ {r} : graph'[q] = graph[q],
           stage = "resolving" => graph'[r] \in Conversation /\ ListedBy(Who(r), graph'[r].ids, started),
           stage = "resolved" /\ source = "microsoft_graph" => ListedBy(Who(r), ids, started)
    PROVE  DOMAIN graph' = Calls /\ Bearers' /\ Departures' /\ Gathered'
<1> DEFINE record == [stage |-> stage, token |-> request[r].token, replica |-> request[r].replica,
                      started |-> started, ids |-> ids, source |-> source]
<1>1. request' = [request EXCEPT ![r] = record] /\ DOMAIN request = Calls
  BY DEF Resolving, AccessInv, Shapes
<1>2. request'[r] = record /\ \A q \in Calls \ {r} : request'[q] = request[q]
  BY <1>1
<1>3. /\ record.stage = stage /\ record.started = started /\ record.ids = ids
      /\ record.source = source /\ record.token = request[r].token
  OBVIOUS
<1> HIDE DEF record
<1>4. Gathers(r)'
  BY <1>2, <1>3 DEF Gathers, ListedBy, Who, directory
<1>5. record.token.who \in Identities
  BY <1>3 DEF Who
<1> QED BY <1>2, <1>4, <1>5, OthersKeep

\* Graph lists a group to a request only while it may still show it.
LEMMA PageIsListed ==
    ASSUME AccessInv, LostInv, NEW r \in Calls, Who(r) \in Identities, NEW t \in Nat, t <= now,
           ListedBy(Who(r), graph[r].ids, t), NEW behind \in SUBSET Shown(Who(r))
    PROVE  ListedBy(Who(r), PageAdded(r, Who(r), behind), t)
<1>1. now \in Nat /\ Lag \in Nat
  BY NowIsAnInstant, GraphAssumption DEF AccessInv, Instants
<1>2. left[Who(r)] \in [Groups -> Nat]
  BY DEF LostInv, Departures
<1>3. \A g \in behind : t <= left[Who(r)][g] + Lag
  BY <1>1, <1>2 DEF Shown
<1>4. \A g \in member[Who(r)] : left[Who(r)][g] = Never
  BY DEF LostInv, Departures
<1> QED BY <1>3, <1>4 DEF ListedBy, PageAdded

LEMMA AskingKeeps ==
    ASSUME AccessInv, LostInv, UNCHANGED <<now, directory>>, NEW r \in Calls, AskGraph(r)
    PROVE  DOMAIN graph' = Calls /\ Bearers' /\ Departures' /\ Gathered'
<1> DEFINE c == graph[r]
<1>1. /\ request' = request /\ DOMAIN request = Calls /\ DOMAIN graph = Calls
      /\ request[r].stage = "resolving" /\ Who(r) \in Identities
  BY DEF AskGraph, Stage, AccessInv, Shapes, LostInv, Bearers, Who
<1>2. c \in Conversation /\ request[r].started <= now /\ ListedBy(Who(r), c.ids, request[r].started)
  BY <1>1 DEF LostInv, Gathered, Gathers
<1>3. /\ member[Who(r)] \subseteq Groups /\ Shown(Who(r)) \subseteq Groups
      /\ request[r].started \in Nat
  BY <1>1 DEF LostInv, Departures, Shown, AccessInv, Started, Instants
<1>4. ASSUME NEW new, graph' = [graph EXCEPT ![r] = new], new \in Conversation,
             \/ new.ids = c.ids
             \/ \E behind \in SUBSET Shown(Who(r)) : new.ids = PageAdded(r, Who(r), behind)
      PROVE  DOMAIN graph' = Calls /\ Bearers' /\ Departures' /\ Gathered'
  <2>1. graph'[r] = new /\ request'[r] = request[r]
    BY <1>1, <1>4
  <2>2. ListedBy(Who(r), new.ids, request[r].started)
    BY <1>1, <1>2, <1>3, <1>4, PageIsListed
  <2>3. Gathers(r)'
    BY <1>1, <1>2, <1>4, <2>1, <2>2 DEF Gathers, ListedBy, Who, directory
  <2>4. DOMAIN graph' = Calls /\ \A q \in Calls \ {r} : graph'[q] = graph[q]
    BY <1>1, <1>4
  <2>5. request[r].token.who \in Identities
    BY <1>1 DEF Who
  <2> QED BY <1>1, <2>1, <2>3, <2>4, <2>5, OthersKeep
<1>5. ASSUME NEW operation \in {"profile", "groups"}, Asking(r, operation)
      PROVE  DOMAIN graph' = Calls /\ Bearers' /\ Departures' /\ Gathered'
  <2> DEFINE new == [c EXCEPT !.operation = operation, !.attempt = 1]
  <2>1. graph' = [graph EXCEPT ![r] = new]
    BY <1>5 DEF Asking
  <2>2. new \in Conversation /\ new.ids = c.ids
    BY <1>2 DEF Conversation
  <2> HIDE DEF new
  <2> QED BY <1>4, <2>1, <2>2
<1>6. ASSUME NEW behind \in SUBSET Shown(Who(r)), ReadsPage(r, Who(r), behind)
      PROVE  DOMAIN graph' = Calls /\ Bearers' /\ Departures' /\ Gathered'
  <2> DEFINE ids == PageAdded(r, Who(r), behind)
             new == [c EXCEPT !.ids = ids, !.page = @ + 1, !.attempt = 1]
  <2>1. graph' = [graph EXCEPT ![r] = new]
    BY <1>6 DEF ReadsPage
  <2>2. ids \subseteq Groups
    BY <1>2, <1>3 DEF PageAdded, Conversation
  <2>3. new \in Conversation /\ new.ids = ids
    <3> HIDE DEF ids
    <3>1. PICK operation, attempt, page, known :
              /\ c = [operation |-> operation, attempt |-> attempt, page |-> page, ids |-> known]
              /\ operation \in {"obo_token", "profile", "groups"} /\ page \in Nat
      <4> HIDE DEF c
      <4> QED BY <1>2 DEF Conversation
    <3>2. c.page = page
      <4> HIDE DEF c
      <4> QED BY <3>1
    <3>3. new = [[operation |-> operation, attempt |-> attempt, page |-> page, ids |-> known]
                    EXCEPT !.ids = ids, !.page = page + 1, !.attempt = 1]
      <4> HIDE DEF c
      <4> QED BY <3>1, <3>2
    <3>4. new = [operation |-> operation, attempt |-> 1, page |-> page + 1, ids |-> ids]
      <4> HIDE DEF new
      <4> QED BY ONLY <3>3
    <3> HIDE DEF new
    <3> QED BY <2>2, <3>1, <3>4 DEF Conversation
  <2> HIDE DEF new
  <2> QED BY <1>4, <2>1, <2>3
<1>7. ASSUME Retries(r)
      PROVE  DOMAIN graph' = Calls /\ Bearers' /\ Departures' /\ Gathered'
  <2> DEFINE new == [c EXCEPT !.attempt = @ + 1]
  <2>1. graph' = [graph EXCEPT ![r] = new]
    BY <1>7 DEF Retries
  <2>2. new \in Conversation /\ new.ids = c.ids
    BY <1>2 DEF Conversation
  <2> HIDE DEF new
  <2> QED BY <1>4, <2>1, <2>2
<1> QED BY <1>5, <1>6, <1>7 DEF AskGraph, ExchangesToken, ReadsProfile

\* What is saved gives an area for a group only where Graph has listed it.
LEMMA SavedKeeps ==
    ASSUME AccessInv, LostInv, UNCHANGED <<now, directory>>, NEW r \in Calls, Save(r)
    PROVE  Kept'
<1>0. PICK who, row : who = Who(r) /\ row = [snapshot |-> Snapshot(r), invalidated |-> Never]
  OBVIOUS
<1>1. /\ request[r].stage = "resolved" /\ who \in Identities
      /\ cache' = [cache EXCEPT ![who] = row] /\ DOMAIN cache = Identities
  BY <1>0 DEF Save, Stage, AccessInv, Shapes, LostInv, Bearers, Who
<1>2. PICK ids, started : ids = request[r].ids /\ started = request[r].started
  OBVIOUS
<1>3. /\ started <= now
      /\ request[r].source = "microsoft_graph" => ListedBy(who, ids, started)
  BY <1>0, <1>1, <1>2 DEF LostInv, Gathered, Gathers
<1>4. /\ row.snapshot.resolved = started /\ row.snapshot.source = request[r].source
      /\ GroupsIn(row.snapshot.matched) \subseteq ids
  BY <1>0, <1>2 DEF Snapshot, ResolvedAt, GroupsIn, Matched, Matches
<1>5. cache'[who] = row /\ \A other \in Identities \ {who} : cache'[other] = cache[other]
  BY <1>1
<1>6. left' = left /\ now' = now
  BY DEF directory
<1>7. Keeps(who)'
  <2>1. ListedBy(who, ids, started) =>
            \A g \in Groups : g \in GroupsIn(row.snapshot.matched) /\ left[who][g] # Never =>
                row.snapshot.resolved <= left[who][g] + Lag
    BY <1>4 DEF ListedBy
  <2>2. row.snapshot.resolved <= now /\
            (row.snapshot.source = "microsoft_graph" =>
                 \A g \in Groups : g \in GroupsIn(row.snapshot.matched) /\ left[who][g] # Never =>
                     row.snapshot.resolved <= left[who][g] + Lag)
    BY <1>3, <1>4, <2>1
  <2> QED BY ONLY <1>5, <1>6, <2>2 DEF Keeps, ListedBy, GroupsIn
<1>8. ASSUME NEW other \in Identities \ {who} PROVE Keeps(other)'
  <2>1. Keeps(other) /\ cache'[other] = cache[other]
    BY <1>5 DEF LostInv, Kept
  <2> QED BY ONLY <1>6, <2>1 DEF Keeps, ListedBy, GroupsIn
<1> QED BY <1>1, <1>7, <1>8 DEF Kept

LEMMA RequestLoses ==
    ASSUME AccessInv, LostInv, UNCHANGED <<now, directory>>, NEW r \in Calls, RequestStep(r)
    PROVE  LostInv'
<1> DEFINE Fine == DOMAIN graph' = Calls /\ Bearers' /\ Departures' /\ Gathered'
<1>0. /\ now \in Nat /\ DOMAIN graph = Calls /\ DOMAIN request = Calls
      /\ request[r].stage \in {"authenticated", "active", "resolving", "resolved"} =>
             Who(r) \in Identities
  BY LaterInstants DEF LostInv, AccessInv, Shapes, Bearers, Who
<1>1. Kept'
  <2>1. CASE Save(r)
    BY <2>1, SavedKeeps
  <2>2. CASE ~Save(r)
    <3>1. cache' = cache
      BY <2>2 DEF RequestStep, Authenticate, RejectToken, RequireActive, Reuse, ResolveFromToken,
         ResolveFromGraph, AskGraph, GraphAnswers, GraphFails, GrantUncached, SaveFails, Rows
    <3> QED BY <3>1, SameCache
  <2> QED BY <2>1, <2>2
<1>2. SUFFICES Fine
  BY <1>1 DEF LostInv
<1>3. ASSUME NEW stage \in {"authenticated", "active"}, NEW token, NEW replica,
             Proceeds(r, stage, token, replica), token.who \in Identities, graph' = graph
      PROVE  Fine
  <2> DEFINE record == [stage |-> stage, token |-> token, replica |-> replica]
  <2>1. request'[r] = record /\ \A q \in Calls \ {r} : request'[q] = request[q]
    BY <1>0, <1>3 DEF Proceeds
  <2>2. record.stage = stage /\ record.token = token
    OBVIOUS
  <2> HIDE DEF record
  <2>3. Gathers(r)'
    BY <2>1, <2>2 DEF Gathers
  <2> QED BY <1>0, <1>3, <2>1, <2>2, <2>3, OthersKeep
<1>4. ASSUME NEW stage \in {"refused", "reused", "granted"}, Ends(r, stage),
             UNCHANGED graph \/ EndsConversation(r)
      PROVE  Fine
  BY <1>4, EndingKeeps
<1>5. ASSUME NEW stage, NEW started, NEW ids, NEW source, Resolving(r, stage, started, ids, source),
             Who(r) \in Identities, started <= now,
             DOMAIN graph' = Calls, \A q \in Calls \ {r} : graph'[q] = graph[q],
             stage = "resolving" => graph'[r] \in Conversation /\ ListedBy(Who(r), graph'[r].ids, started),
             stage = "resolved" /\ source = "microsoft_graph" => ListedBy(Who(r), ids, started)
      PROVE  Fine
  BY <1>5, ResolutionKeeps
<1> HIDE DEF Fine
<1>6. ASSUME NEW token \in Tokens, NEW replica \in Replicas, Authenticate(r, token, replica)
      PROVE  Fine
  <2>1. token.who \in Identities
    BY TokensAssumption DEF IsToken
  <2>2. Proceeds(r, "authenticated", token, replica) /\ graph' = graph
    BY <1>6 DEF Authenticate
  <2> QED BY <1>3, <2>1, <2>2
<1>7. CASE RequireActive(r)
  <2>1. CASE Ends(r, "refused")
    BY <1>7, <1>4, <2>1 DEF RequireActive
  <2>2. CASE ~Ends(r, "refused")
    <3>1. PICK token, replica : token = request[r].token /\ replica = request[r].replica
      OBVIOUS
    <3>2. Proceeds(r, "active", token, replica) /\ graph' = graph
      BY <1>7, <2>2, <3>1 DEF RequireActive
    <3>3. token.who \in Identities
      BY <1>0, <1>7, <3>1 DEF RequireActive, Stage, Who
    <3> QED BY <1>3, <3>2, <3>3
  <2> QED BY <2>1, <2>2
<1>8. CASE RejectToken(r) \/ Reuse(r) \/ GraphFails(r) \/ GrantUncached(r) \/ SaveFails(r) \/ Save(r)
  BY <1>8, <1>4 DEF RejectToken, Reuse, GraphFails, GrantUncached, SaveFails, Save
<1>9. CASE ResolveFromToken(r)
  <2>1. PICK ids, source : ids = request[r].token.groups.ids /\ source = TokenSource(request[r].token)
    OBVIOUS
  <2>2. source # "microsoft_graph"
    BY <2>1 DEF TokenSource
  <2>3. Resolving(r, "resolved", now, ids, source) /\ graph' = graph /\ Who(r) \in Identities
    BY <1>0, <1>9, <2>1 DEF ResolveFromToken, Stage
  <2> QED BY <1>0, <1>5, <2>2, <2>3
<1>10. CASE ResolveFromGraph(r)
  <2>1. /\ Resolving(r, "resolving", now, {}, "microsoft_graph") /\ Who(r) \in Identities
        /\ BeginsExchange(r)
    BY <1>0, <1>10 DEF ResolveFromGraph, Stage
  <2>2. /\ DOMAIN graph' = Calls /\ \A q \in Calls \ {r} : graph'[q] = graph[q]
        /\ graph'[r] \in Conversation /\ graph'[r].ids = {}
    BY <1>0, <2>1 DEF BeginsExchange, Conversation
  <2>3. ListedBy(Who(r), graph'[r].ids, now)
    BY <2>2 DEF ListedBy
  <2> QED BY <1>0, <1>5, <2>1, <2>2, <2>3
<1>11. CASE AskGraph(r)
  BY <1>11, AskingKeeps DEF Fine
<1>12. CASE GraphAnswers(r)
  <2>0. PICK behind \in SUBSET Shown(Who(r)) :
            Resolving(r, "resolved", request[r].started, PageAdded(r, Who(r), behind),
                      "microsoft_graph")
    BY <1>12 DEF GraphAnswers
  <2>1. PICK started, ids :
            /\ started = request[r].started /\ ids = PageAdded(r, Who(r), behind)
            /\ Resolving(r, "resolved", started, ids, "microsoft_graph")
    BY <2>0
  <2>2. /\ Resolving(r, "resolved", started, ids, "microsoft_graph") /\ EndsConversation(r)
        /\ request[r].stage = "resolving" /\ Who(r) \in Identities
    BY <1>0, <1>12, <2>1 DEF GraphAnswers, Stage
  <2>3. started \in Nat /\ started <= now /\ ListedBy(Who(r), graph[r].ids, started)
    BY <2>1, <2>2 DEF LostInv, Gathered, Gathers, AccessInv, Started, Instants
  <2>4. ListedBy(Who(r), ids, started)
    BY <2>1, <2>2, <2>3, PageIsListed
  <2>5. DOMAIN graph' = Calls /\ \A q \in Calls \ {r} : graph'[q] = graph[q]
    BY <1>0, <2>2 DEF EndsConversation
  <2> QED BY <1>5, <2>2, <2>3, <2>4, <2>5
<1> QED BY <1>6, <1>7, <1>8, <1>9, <1>10, <1>11, <1>12 DEF RequestStep

LEMMA CommandLoses ==
    ASSUME AccessInv, LostInv, UNCHANGED <<now, directory, graph, request>>, NEW c \in Commands,
           CommandStep(c)
    PROVE  LostInv'
<1>0. now \in Nat /\ DOMAIN cache = Identities
  BY LaterInstants DEF AccessInv, Shapes
<1>1. \A who \in Identities : cache'[who] = cache[who] \/ cache'[who].snapshot = NoSnapshot
  BY <1>0 DEF CommandStep, Admit, ReadClock, ChangeAccess, Invalidate, Invalidates, CommandFails
<1>2. Kept'
  <2>1. NoSnapshot.resolved <= now /\ NoSnapshot.source # "microsoft_graph"
    BY <1>0 DEF NoSnapshot, Never
  <2> QED BY <1>1, <2>1 DEF LostInv, Kept, Keeps, ListedBy, directory
<1>3. DOMAIN graph' = Calls /\ Bearers' /\ Departures' /\ Gathered'
  BY DEF LostInv, Bearers, Departures, Gathered, Gathers, ListedBy, Who, directory
<1> QED BY <1>2, <1>3 DEF LostInv

LEMMA LostStep ==
    ASSUME AccessInv, LostInv, [Next]_vars
    PROVE  LostInv'
<1>1. CASE Tick /\ UNCHANGED <<directory, graph, access, authorization>>
  BY <1>1, TimeKeeps DEF access
<1>2. CASE AccessStep /\ UNCHANGED <<now, authorization>>
  <2>1. UNCHANGED <<now, directory>>
    BY <1>2 DEF AccessStep
  <2>2. ASSUME NEW c \in Commands, CommandStep(c) PROVE LostInv'
    <3>1. UNCHANGED <<graph, request>>
      BY <2>2 DEF CommandStep, Admit, ReadClock, ChangeAccess, Invalidate, CommandFails
    <3> QED BY <2>1, <2>2, <3>1, CommandLoses
  <2> QED BY <1>2, <2>1, <2>2, RequestLoses DEF AccessStep
<1>3. CASE DirectoryStep /\ UNCHANGED <<now, authorization>>
  BY <1>3, DepartureKeeps DEF DirectoryStep, access
<1>4. CASE AuthorizationStep /\ UNCHANGED <<now, directory, graph, access>>
  BY <1>4, TimeKeeps DEF access
<1>5. CASE UNCHANGED vars
  BY <1>5, TimeKeeps DEF vars, access
<1> QED BY <1>1, <1>2, <1>3, <1>4, <1>5 DEF Next

\* A request is served from the cache by Reuse only.
LEMMA ReuseOnly ==
    ASSUME AccessInv, [Next]_vars, NEW r \in Calls, request[r].stage = "active",
           request'[r].stage = "reused"
    PROVE  Reuse(r)
<1>0. DOMAIN request = Calls /\ request'[r] # request[r]
  BY DEF AccessInv, Shapes
<1>1. PICK q \in Calls : RequestStep(q)
  BY <1>0 DEF Next, AccessStep, DirectoryStep, CommandStep, Admit, ReadClock, ChangeAccess,
     Invalidate, CommandFails, vars, access
<1>2. q = r
  BY <1>0, <1>1 DEF RequestStep, Authenticate, RejectToken, RequireActive, Reuse, ResolveFromToken,
     ResolveFromGraph, AskGraph, GraphAnswers, GraphFails, GrantUncached, Save, SaveFails, Proceeds,
     Ends, Resolving
<1> QED BY <1>0, <1>1, <1>2 DEF RequestStep, Stage, Authenticate, RejectToken, RequireActive,
     ResolveFromToken, ResolveFromGraph, AskGraph, GraphAnswers, GraphFails, GrantUncached, Save,
     SaveFails, Proceeds, Ends, Resolving

LEMMA LostGroupsAreOver ==
    ASSUME AccessInv, LostInv, [Next]_vars, NEW r \in Calls, NEW g \in Groups, ReusesGroup(r, g),
           left[Who(r)][g] # Never
    PROVE  /\ now < left[Who(r)][g] + Lag + TTL
           /\ invalidated[Who(r)] < left[Who(r)][g] + Lag
<1> DEFINE snapshot == cache[Who(r)].snapshot
           lost == left[Who(r)][g]
<1>1. Reuse(r) /\ Who(r) \in Identities
  BY ReuseOnly DEF ReusesGroup, Stage, LostInv, Bearers, Who
<1>2. g \in GroupsIn(snapshot.matched) /\ snapshot.source = "microsoft_graph"
  BY DEF ReusesGroup, GroupsIn
<1>3. snapshot.resolved <= lost + Lag
  BY <1>1, <1>2 DEF LostInv, Kept, Keeps, ListedBy
<1>4. snapshot.resolved # Never /\ now < snapshot.resolved + TTL
  BY <1>1 DEF Reuse, Usable, IsFresh, InTime
<1>5. snapshot.resolved > invalidated[Who(r)]
  BY <1>1, <1>4 DEF AccessInv, CacheInv, RowFollows
<1>6. /\ now \in Nat /\ TTL \in Nat /\ lost \in Nat /\ Lag \in Nat
      /\ snapshot.resolved \in Nat /\ invalidated[Who(r)] \in Nat
  <2>1. now \in Nat /\ TTL \in Nat /\ Lag \in Nat
    BY NowIsAnInstant, AccessAssumption, GraphAssumption DEF AccessInv, Instants
  <2>2. lost \in Nat
    BY <1>1 DEF LostInv, Departures
  <2> QED BY <1>1, <2>1, <2>2 DEF AccessInv, CacheInv, RowFollows
<1> HIDE DEF snapshot
<1> QED BY <1>3, <1>4, <1>5, <1>6

(* Who has lost a group is served an area for it from the cache, as Graph  *)
(* had listed it, only within the TTL of the moment from which Graph no    *)
(* longer shows it, and only while the last invalidation to have been      *)
(* committed is dated before that moment, however the pages of a           *)
(* resolution, its save and the invalidations interleave (is_fresh, save,  *)
(* invalidate).                                                            *)
THEOREM LostGroupsEndHolds == Spec => LostGroupsEnd
<1>1. Inv /\ LostInv /\ [Next]_vars => LostInv'
  BY LostStep DEF Inv
<1>2. Inv /\ LostInv /\ [Next]_vars =>
        [\A r \in Calls : \A g \in Groups :
            ReusesGroup(r, g) /\ left[Who(r)][g] # Never =>
                /\ now < left[Who(r)][g] + Lag + TTL
                /\ invalidated[Who(r)] < left[Who(r)][g] + Lag]_accessVars
  BY LostGroupsAreOver DEF Inv
<1> QED
  BY <1>1, <1>2, LostInit, Invariance, PTL DEF Spec, LostGroupsEnd
=============================================================================
