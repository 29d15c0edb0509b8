------------------------- MODULE RuntimeAuthorization -------------------------
(***************************************************************************)
(* Signed runtime authorizations: the signer that the issuer builds once   *)
(* from its key set, the consumer that verifies with the key set it has    *)
(* loaded, and its replay guard (RuntimeAuthorizationSigner,               *)
(* RuntimeAuthorizationVerifier, InMemoryRuntimeAuthorizationReplayGuard). *)
(* A key set is replaced by a later one, and each process works with the   *)
(* one it started with.  What may be authorized is the subject of          *)
(* ModelRouting.  A signature verifies exactly when the signer made it.    *)
(***************************************************************************)
EXTENDS AccessClock, FiniteSets

CONSTANTS
    Keys,            \* key identifiers
    KeySets,         \* the key sets published, in their order
    Authorizations,  \* authorization ids
    Lifetime,        \* lifetime_seconds of the issuance policy
    Skew,            \* clock_skew_seconds of the consumer
    MaxEntries,      \* max_entries of the replay guard
    MaxAccepted      \* bound: acceptances of one process of the consumer

VARIABLES
    published,  \* how many key sets have been published
    signer,     \* the key the issuer signs with and the key set it has loaded
    trusted,    \* the key set the consumer has loaded
    issued,     \* the authorizations that were signed
    entries,    \* the entries of the replay guard: ids and their expiry
    began,      \* when this process of the consumer started
    accepted    \* what this process of the consumer accepted, and when

authorization == <<published, signer, trusted, issued, entries, began, accepted>>

\* A verification key: its status and the window of its authorizations.
KeyStatus == {"active", "retiring", "revoked"}
KeyRow == [status : KeyStatus, from : Nat, until : Nat]

\* RuntimeAuthorizationKeySet: at least one key signs.
IsKeySet(keys) ==
    /\ DOMAIN keys \subseteq Keys
    /\ \A k \in DOMAIN keys : keys[k] \in KeyRow /\ keys[k].from < keys[k].until
    /\ \E k \in DOMAIN keys : keys[k].status = "active"

ASSUME KeySetsAssumption == \A generation \in DOMAIN KeySets : IsKeySet(KeySets[generation])

ASSUME LifetimeAssumption ==
    Lifetime \in Nat \ {0} /\ Skew \in Nat /\ MaxEntries \in Nat \ {0} /\ MaxAccepted \in Nat

Envelope == [id : Authorizations, kid : Keys, from : Nat, expires : Nat]
Entry == [id : Authorizations, expires : Nat]

Resolves(generation, k) == k \in DOMAIN KeySets[generation]
InWindow(key, t) == key.from <= t /\ t < key.until

\* RuntimeAuthorizationSigner.__init__ accepts the key.
SignsWith(generation, k) ==
    Resolves(generation, k) /\ KeySets[generation][k].status = "active"

AuthorizationInit ==
    /\ published = 1
    /\ signer \in {[kid |-> k, generation |-> 1] : k \in {k \in Keys : SignsWith(1, k)}}
    /\ trusted = 1
    /\ issued = {}
    /\ entries = {}
    /\ began = now
    /\ accepted = {}

-----------------------------------------------------------------------------
(* Keys *)

Publish ==
    /\ published + 1 \in DOMAIN KeySets
    /\ published' = published + 1
    /\ UNCHANGED <<signer, trusted, issued, entries, began, accepted>>

\* The issuer restarts (build_runtime_authorization_issuer).
RestartIssuer(k) ==
    /\ SignsWith(published, k)
    /\ signer' = [kid |-> k, generation |-> published]
    /\ UNCHANGED <<published, trusted, issued, entries, began, accepted>>

\* The consumer restarts: its replay guard is empty.
RestartConsumer ==
    /\ trusted' = published
    /\ entries' = {}
    /\ began' = now
    /\ accepted' = {}
    /\ UNCHANGED <<published, signer, issued>>

-----------------------------------------------------------------------------
(* Issuance *)

\* GovernanceRuntimeAuthorizationIssuer.issue, RuntimeAuthorizationSigner.sign
Issue(id) ==
    /\ \A envelope \in issued : envelope.id # id
    /\ InWindow(KeySets[signer.generation][signer.kid], now)
    /\ issued' = issued \cup
           {[id |-> id, kid |-> signer.kid, from |-> now, expires |-> now + Lifetime]}
    /\ UNCHANGED <<published, signer, trusted, entries, began, accepted>>

-----------------------------------------------------------------------------
(* Verification *)

\* The clock is read by the caller, before anything is verified, and callers
\* are not limited in number: at any moment one of them holds any instant since
\* this process started.
Held == {t \in Clocks : began <= t /\ t <= now}

\* RuntimeAuthorizationVerifier.verify up to the replay guard.
Verifies(envelope, t) ==
    /\ envelope.from <= t + Skew
    /\ envelope.expires > t - Skew
    /\ Resolves(trusted, envelope.kid)
    /\ LET key == KeySets[trusted][envelope.kid] IN
       /\ key.status # "revoked"
       /\ InWindow(key, envelope.from)
       /\ t - Skew < key.until

\* Mutation: an entry also goes when the store is full.
PrunedWhenFull(t) ==
    IF Cardinality(entries) >= MaxEntries THEN {} ELSE {entry \in entries : entry.expires > t}
\* _prune
Pruned(t) == {entry \in entries : entry.expires > t}

Remembered(id, t) == \E entry \in Pruned(t) : entry.id = id
Full(t) == Cardinality(Pruned(t)) >= MaxEntries

Acceptance(envelope) ==
    [nth |-> Cardinality(accepted) + 1, id |-> envelope.id, expires |-> envelope.expires,
     at |-> now]

\* consume, under the lock of the guard, with the caller's instant.
Consume(envelope, t) ==
    /\ Verifies(envelope, t)
    /\ ~Remembered(envelope.id, t) /\ ~Full(t)
    /\ Cardinality(accepted) < MaxAccepted
    /\ entries' = Pruned(t) \cup {[id |-> envelope.id, expires |-> envelope.expires]}
    /\ accepted' = accepted \cup {Acceptance(envelope)}
    /\ UNCHANGED <<published, signer, trusted, issued, began>>

\* Seen before, or no room for it: what has expired is dropped all the same.
RefuseReplay(envelope, t) ==
    /\ Verifies(envelope, t)
    /\ Remembered(envelope.id, t) \/ Full(t)
    /\ entries' = Pruned(t)
    /\ UNCHANGED <<published, signer, trusted, issued, began, accepted>>

AuthorizationStep ==
    \/ Publish
    \/ \E k \in Keys : RestartIssuer(k)
    \/ RestartConsumer
    \/ \E id \in Authorizations : Issue(id)
    \/ \E envelope \in issued, t \in Held : Consume(envelope, t) \/ RefuseReplay(envelope, t)

-----------------------------------------------------------------------------
(* Properties *)

\* One process of the consumer accepts an authorization at most once before
\* it expires, however full its replay guard, whatever it has pruned and
\* whatever instants its callers hold: what counts is the clock at the
\* acceptance, and not the instant of the caller, which may be older (consume).
\* Within the clock skew after the expiry nothing is promised.
AgainWhenExpired(a, b) == a.id = b.id /\ a.nth < b.nth => b.at >= a.expires
SpentOnce == \A a \in accepted : \A b \in accepted : AgainWhenExpired(a, b)
=============================================================================
