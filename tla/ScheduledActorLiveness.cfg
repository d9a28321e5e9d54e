CONSTANTS
  Sender = {p1, p2}
  Worker = {w1, w2}
  EmptyDummy = EmptyDummy
  BlockedDummy = BlockedDummy
  NullPtr = NullPtr
  Normal = Normal
  NotExited = NotExited
  Self = Self
  Reason = {Normal}
  MaxSends = 1
  MaxTotal = 2
  MaxThroughput = 1
SPECIFICATION Spec
PROPERTY
  MailSettles
