SPECIFICATION MCSpec
CONSTANTS
  Parts = {"messages", "memory", "lists", "containers", "encodings", "types", "sends", "functors", "hooks", "receives",
           "patterns", "behaviors", "values"}
  Msgs = {m1, m2}
  MaxNodes = 5
  MaxSize = 2
  WriteShared = FALSE
  Threads = {t1, t2, t3}
  Storages = {s1, s2}
  dsize = 2
  Inputs <- MCInputs
  Handlers <- MCHandlers
INVARIANTS
  ValueSemantics
  ListsLawful
  InterfacesSound
  DispatchCorrect
  ValuesSurvive
CHECK_DEADLOCK FALSE
