\* Two actors and an outside thread link, unlink, monitor and kill.
CONSTANTS
  Actor = {a, b}
  Outside = {o}
  Linker = {a, b, o}
  Killer = {a, o}
  TrapExit = {b}
  Reason = {"normal", "error", "kill"}
  None = None
  MaxCalls = 4
SPECIFICATION FairSpec
CHECK_DEADLOCK FALSE
INVARIANTS
  LinksBidirectional
  DownsAccounted
PROPERTY ErrorsPropagate
