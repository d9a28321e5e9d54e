CONSTANTS
  Sender = {p1, p2}
  EmptyDummy = EmptyDummy
  BlockedDummy = BlockedDummy
  NullPtr = NullPtr
  Normal = Normal
  NotExited = NotExited
  UnhandledException = UnhandledException
  Self = Self
  Free = Free
  Reason = {Normal, UnhandledException}
  MaxSends = 2
  MaxTotal = 3
SPECIFICATION Spec
SYMMETRY Symmetry
CONSTRAINT TotalSends
INVARIANTS
  NoLostWakeup
  AwaitDelivers
PROPERTY
  ImplementsContract
