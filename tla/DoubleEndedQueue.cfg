CONSTANTS
  Owner = w0
  Other = {w1, w2, w3}
  Job = {j1, j2, j3}
  Node = {n1, n2, n3, n4, n5}
  Null = Null
SPECIFICATION Spec
SYMMETRY Symmetry
INVARIANT
  NodesSound
PROPERTY
  ImplementsJobDeque
