------------------------------ MODULE AuditChain ------------------------------
(***************************************************************************)
(* The audit trail (audit.py): every service appends, within its own       *)
(* transaction, events that name the hash of the latest event visible to   *)
(* it.  Nothing orders the transactions: no lock is taken on the chain.    *)
(*                                                                         *)
(* A hash covers the body of its event and the previous hash, so it stands *)
(* for the bodies of the whole path behind it: hashes are sequences of     *)
(* bodies, and hashing a body is appending it (SHA-256 is taken to be      *)
(* injective).  occurred_at and id are not hashed.  Ids are random, so     *)
(* which of two events of the same time counts as the latest is open.      *)
(***************************************************************************)
EXTENDS Integers, Sequences, FiniteSets, SequencesExt

CONSTANTS
    Writers,     \* transactions that may be open at a time
    Bodies,      \* actor, action, entity, version and payload of an event
    Ahead,       \* by how much the clock of a process may be ahead
    MaxEvents    \* bound: events flushed

ASSUME AheadAssumption == Ahead \subseteq Nat

VARIABLES
    events,      \* the committed rows of audit_events
    session,     \* of each writer: events flushed, and the one added but not flushed
    now,         \* time; two flushes never share an instant
    offset,      \* how far ahead the clock of each writer's process is
    overlapped   \* history: two transactions were open at a time

trailVars == <<events, session, now, offset, overlapped>>
-----------------------------------------------------------------------------
Hashes == Seq(Bodies) \ {<< >>}
NoHash == << >>

Event == [hash: Hashes, at: Nat]
Previous(e) == Front(e.hash)

Flushed(w) == session[w].flushed
Empty == [flushed |-> {}, added |-> NoHash]
HashesOf(rows) == {e.hash : e \in rows}

\* Every row inserted; what a query of the writer sees under READ COMMITTED.
Rows == events \cup UNION {Flushed(w) : w \in Writers}

\* Mutation: a writer does not see its own flushed events.
CommittedOnly(w) == events
\* Mutation: a writer sees the flushed events of the others.
ReadUncommitted(w) == Rows
Visible(w) == events \cup Flushed(w)

Latest(rows) == {e \in rows : \A f \in rows : f.at <= e.at}
LatestHashes(rows) == IF rows = {} THEN {NoHash} ELSE HashesOf(Latest(rows))

\* append_audit_event, its query having flushed what was added before.
AppendEvent(w, body) ==
    /\ session[w].added = NoHash
    /\ \E previous \in LatestHashes(Visible(w)) :
          session' = [session EXCEPT ![w] =
                [flushed |-> Flushed(w), added |-> Append(previous, body)]]
    /\ overlapped' = (overlapped \/ \E v \in Writers \ {w} : session[v] # Empty)
    /\ UNCHANGED <<events, now, offset>>

Stamp(w) == now + offset[w]

\* The INSERT waits for the transaction that inserted the hash first, and fails with it
\* committed: event_hash is unique.
Taken(hash) == hash \in HashesOf(Rows)

Flush(w) ==
    /\ now < MaxEvents
    /\ session[w].added # NoHash
    /\ ~Taken(session[w].added)
    /\ session' = [session EXCEPT ![w] =
            [flushed |-> Flushed(w) \cup {[hash |-> session[w].added, at |-> Stamp(w)]},
             added |-> NoHash]]
    /\ now' = now + 1
    /\ UNCHANGED <<events, offset, overlapped>>

Commit(w) ==
    /\ session[w].added = NoHash
    /\ Flushed(w) # {}
    /\ events' = events \cup Flushed(w)
    /\ session' = [session EXCEPT ![w] = Empty]
    /\ UNCHANGED <<now, offset, overlapped>>

RollBack(w) ==
    /\ session[w] # Empty
    /\ session' = [session EXCEPT ![w] = Empty]
    /\ UNCHANGED <<events, now, offset, overlapped>>

-----------------------------------------------------------------------------
TrailInit ==
    /\ events = {}
    /\ session = [w \in Writers |-> Empty]
    /\ now = 0
    /\ offset \in [Writers -> Ahead]
    /\ overlapped = FALSE

TrailNext ==
    \E w \in Writers :
        \/ \E body \in Bodies : AppendEvent(w, body)
        \/ Flush(w)
        \/ Commit(w)
        \/ RollBack(w)

TrailSpec == TrailInit /\ [][TrailNext]_trailVars
-----------------------------------------------------------------------------
\* The type invariant; event_hash is a key of the rows committed and of those to be.
TypeOK ==
    /\ events \subseteq Event
    /\ session \in [Writers -> [flushed: SUBSET Event, added: Seq(Bodies)]]
    /\ now \in Nat
    /\ offset \in [Writers -> Nat]
    /\ overlapped \in BOOLEAN
    /\ \A e, f \in Rows : e.hash = f.hash => e = f

\* The predecessor of every recorded event is recorded, whatever transactions were
\* interleaved with its own, rolled back or run by processes with other clocks.
LinksResolve ==
    \A e \in events : Previous(e) # NoHash => Previous(e) \in HashesOf(events)

\* But for the difference between two clocks, an event is recorded as later than its
\* predecessor: the order of occurred_at, in which the trail is read, follows the links.
TimesFollowLinks ==
    \A e, f \in events : Previous(e) = f.hash =>
        \E v, w \in Writers : f.at < e.at + offset[v] - offset[w]

\* On one clock, transactions that never overlap make one chain: every event but the
\* first is linked to the one recorded just before it.
OneClock == \A v, w \in Writers : offset[v] = offset[w]

OneChain ==
    OneClock /\ ~overlapped =>
        \A e \in events : Previous(e) \in LatestHashes({f \in events : f.at < e.at})
=============================================================================
