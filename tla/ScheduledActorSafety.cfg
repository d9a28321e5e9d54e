CONSTANTS
  Sender = {p1, p2}
  Worker = {w1, w2}
  EmptyDummy = EmptyDummy
  BlockedDummy = BlockedDummy
  NullPtr = NullPtr
  Normal = Normal
  NotExited = NotExited
  Self = Self
  Reason = {Normal, Shutdown}
  MaxSends = 2
  MaxTotal = 3
  MaxThroughput = 2
SPECIFICATION Spec
SYMMETRY Symmetry
CONSTRAINT TotalSends
INVARIANTS
  OneOwner
  NeverAbandoned
  ArrivalOrder
PROPERTY
  ImplementsContract
