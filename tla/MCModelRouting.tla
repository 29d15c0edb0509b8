--------------------------- MODULE MCModelRouting ---------------------------
(* Instances of ModelRouting for TLC: two models, an agent of one or both of *)
(* them, an owner and a reviewer who may come to own the system or the agent.*)
EXTENDS ModelRouting, RoutingExchange

Never == MaxTime + MaxInterval + 1

MCModelScopes ==
    {[group |-> "fast", covers |-> TRUE, complete |-> TRUE, deprecated |-> Never],
     [group |-> "deep", covers |-> TRUE, complete |-> TRUE, deprecated |-> 1]}

MCAgentScopes ==
    {[allowed |-> Models, owner |-> "ana", complete |-> TRUE],
     [allowed |-> {CHOOSE m \in Models : TRUE}, owner |-> "leo", complete |-> TRUE]}

\* Two attempts of one agent at one task, as when a caller asks again.
MCCommand ==
    [a \in Attempts |-> [agent |-> "agent", workflow |-> "workflow", task |-> "task",
                         workload |-> "extraction", encodable |-> TRUE]]

\* The inventory and the exchanges share no variable: the reachable states of
\* both together are the pairs of those of each, so each is explored while the
\* other has not begun.
NoExchange == edits = 0 /\ \A a \in Attempts : attempt[a] = NotBegun
NoInventory == now = 0 /\ system = NoSystem /\ \A r \in Requests : request[r] = Idle

RoutingInit == Init /\ ExchangeInit

RoutingSpec ==
    /\ RoutingInit
    /\ [][\/ NoExchange /\ Next /\ UNCHANGED exchangeVars
          \/ NoInventory /\ ExchangeNext /\ UNCHANGED vars]_<<vars, exchangeVars>>
=============================================================================
