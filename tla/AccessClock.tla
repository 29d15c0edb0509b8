----------------------------- MODULE AccessClock -----------------------------
(***************************************************************************)
(* The clock that the replicas of the API and the consumers of its         *)
(* authorizations read, and which they agree on.                           *)
(***************************************************************************)
EXTENDS Integers

CONSTANTS
    Clocks   \* bound: instants of the clock

ASSUME ClocksAssumption == Clocks \subseteq Nat \ {0}

VARIABLES
    now      \* the clock

Never == 0

ClockInit == now \in Clocks /\ \A t \in Clocks : now <= t
Tick == now + 1 \in Clocks /\ now' = now + 1
=============================================================================
