CONSTANTS
  Workers = 2
  Policies = {"stealing", "sharing"}
  Actor = {a, s}
  NoActor = NoActor
  Hidden = {s}
  Mortal = {a}
  Names = 1
  Registers = {s}
  Utility = {timer}
  Thread = {d}
  MaxThroughput = 1
  MaxSends = 2
SPECIFICATION Spec
INVARIANTS
  JobsPlaced
  WorkersSignalled
  OutlivesUsers
PROPERTIES
  AwaitExact
  ShutdownCompletes
CHECK_DEADLOCK FALSE
