------------------------------ MODULE MCBroker ------------------------------
EXTENDS Broker

MCPolicies == {[flag |-> "exactly", size |-> 1], [flag |-> "at_most", size |-> 2],
               [flag |-> "at_least", size |-> 2]}

(* much traffic on one connection, or much opening and closing of ports *)
MCWorkloads == {[in |-> 2, out |-> 2, tasks |-> 1], [in |-> 0, out |-> 1, tasks |-> 2]}
==============================================================================
