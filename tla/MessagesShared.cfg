SPECIFICATION MCSpec
CONSTANTS
  Parts = {"messages"}
  Msgs = {m1, m2}
  MaxNodes = 5
  MaxSize = 2
  WriteShared = TRUE
  Threads = {t1}
  Storages = {s1}
  dsize = 2
  Inputs <- MCInputs
  Handlers <- MCHandlers
INVARIANTS
  ValueSemantics
CHECK_DEADLOCK FALSE
