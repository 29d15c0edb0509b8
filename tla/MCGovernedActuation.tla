------------------------ MODULE MCGovernedActuation ------------------------
(***************************************************************************)
(* GovernedActuation for TLC: every recommendation is about one agent and  *)
(* one incident, so that their executions compete.                         *)
(***************************************************************************)
EXTENDS GovernedActuation, TLC

CONSTANTS TheAgent, TheIncident

OneAgent == {TheAgent}
OneIncident == {TheIncident}
AboutTheAgent == [r \in Recommendations |-> TheAgent]
AboutTheIncident == [r \in Recommendations |-> TheIncident]

\* Inventory edits and the outage are explored in behaviours of their own: until
\* the outage every version was the work of a transition.
Applied == {e \in 1..Latest(TheAgent) : transitions[TheAgent][e].status = "applied"}
Apart ==
    outages > 0 =>
        /\ edit[TheAgent] = NoEdit
        /\ agent[TheAgent].enabled
        /\ agent[TheAgent].version = Cardinality(Applied) + 1

Symmetry == Permutations(Commands)
=============================================================================
