CONSTANTS
  n1 = n1
  n2 = n2
  n3 = n3
  s1 = s1
  s2 = s2
  s3 = s3
  Node = {n1, n2, n3}
  NoNode = NoNode
  Conn = {c1, c2, c3}
  Dials <- MCDialsLine
  Actor = {s1, s2, s3}
  NoActor = NoActor
  Home <- MCHome
  Published <- MCPublished
  Spawner <- MCSpawner
  Rank <- MCRank
  Mortal = {s3}
  Talkers = {s2}
  MaxSends = 1
  MaxFaults = 1
SPECIFICATION Spec
CONSTRAINT DialOnce OneFault
SYMMETRY Symmetry
INVARIANTS
  RoutesBacked
  ProxiesRouted
  ConnectAnswered
CHECK_DEADLOCK FALSE
