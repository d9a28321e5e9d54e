SPECIFICATION Spec
CONSTANTS
  IdBits = 3
  Clients = {1, 2}
  Notes = {"job"}
  MaxMail = 2
  MaxAsks = 2
  MaxFires = 2
  Kinds = {"job", "go", "migrate", "restore"}
  Reactions = {"void", "become", "ask_twice", "ask_timed", "chain", "chain_timed", "forward"}
  Priorities = {"normal"}
  Urgencies = {"normal", "high"}
  Modes = {"plain", "aware", "stateful"}
INVARIANTS HandledOnce AnswersAccounted NoLostTimeout CacheSettled
CHECK_DEADLOCK FALSE
