----------------------------- MODULE KillSwitch -----------------------------
(***************************************************************************)
(* What the kill switch promises its operators, without databases, Redis,  *)
(* processes or epochs: a stop is requested, then enforced at the Router,  *)
(* then on record; enforcing it kills every authorization of the agent and *)
(* nothing afterwards brings one back.                                     *)
(***************************************************************************)
EXTENDS FiniteSets

CONSTANT Agents

VARIABLES
    state,      \* the state on record: "inactive" or "active" (stopped)
    pending,    \* the state asked for and not yet on record, or "none"
    enforced,   \* the state the Router applies, or "unknown": it denies
    live        \* the authorizations the Router accepts

vars == <<state, pending, enforced, live>>

Init ==
    /\ state \in [Agents -> {"inactive", "active"}]
    /\ pending = [a \in Agents |-> "none"]
    /\ enforced = [a \in Agents |-> "unknown"]
    /\ live = {}

Request(a, target) ==
    /\ pending[a] = "none"
    /\ target # state[a]
    /\ pending' = [pending EXCEPT ![a] = target]
    /\ UNCHANGED <<state, enforced, live>>

\* A restore enforced revives nothing; a stop enforced kills all there is.
Enforce(a) ==
    /\ pending[a] # "none"
    /\ enforced[a] # pending[a]
    /\ enforced' = [enforced EXCEPT ![a] = pending[a]]
    /\ live' = {i \in live : i.agent # a}
    /\ UNCHANGED <<state, pending>>

Complete(a) ==
    /\ pending[a] # "none"
    /\ enforced[a] = pending[a]
    /\ state' = [state EXCEPT ![a] = pending[a]]
    /\ pending' = [pending EXCEPT ![a] = "none"]
    /\ UNCHANGED <<enforced, live>>

\* The Router learns the state on record of an agent nobody asked it about.
Learn(a) ==
    /\ enforced[a] = "unknown"
    /\ enforced' = [enforced EXCEPT ![a] = state[a]]
    /\ UNCHANGED <<state, pending, live>>

Issue(a) ==
    /\ enforced[a] = "inactive"
    /\ live \subseteq live'
    /\ \A i \in live' \ live : i.agent = a
    /\ UNCHANGED <<state, pending, enforced>>

Next ==
    \E a \in Agents :
        \/ \E target \in {"inactive", "active"} : Request(a, target)
        \/ Enforce(a)
        \/ Complete(a)
        \/ Learn(a)
        \/ Issue(a)

Spec == Init /\ [][Next]_vars
=============================================================================
