SPECIFICATION Spec
CONSTANTS
  Conns = {c1}
  Ports = {p1}
  Actors = {a1, a2}
  None = none
  Policies <- MCPolicies
  Extra = 1
  Reactions = {"none", "write", "close", "quit", "ask"}
  Workloads <- MCWorkloads
  MaxFaults = 1
INVARIANTS WritesDelivered InputInOrder PublishedServed
PROPERTY StopReturns
CHECK_DEADLOCK FALSE
