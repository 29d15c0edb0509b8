----------------------- MODULE RuntimeControlRefinement -----------------------
(***************************************************************************)
(* RuntimeControl implements KillSwitch while Redis keeps its keys, with   *)
(* inventory edits of the Agent row at any moment they can happen: a lost  *)
(* key takes the revocation floor with it.                                 *)
(***************************************************************************)
EXTENDS RuntimeControl

RequestedState(a) == IF Pending(a) THEN transitions[a][Latest(a)].target ELSE "none"
EnforcedState(a) == IF redis[a] = NoSnapshot THEN "unknown" ELSE redis[a].state

Promise == INSTANCE KillSwitch WITH
    state <- [a \in Agents |-> StateOf(agent[a])],
    pending <- [a \in Agents |-> RequestedState(a)],
    enforced <- [a \in Agents |-> EnforcedState(a)],
    live <- {i \in issued : RouterAccepts(i)}

\* Every step of the service, of Redis and of the gate is a step of the abstract
\* switch or invisible to it: a stop is on record only after it is enforced,
\* enforcing it kills every authorization, and no restore, retry, late command
\* or repair of the projection revives one.
ImplementsKillSwitch == Promise!Spec
=============================================================================
