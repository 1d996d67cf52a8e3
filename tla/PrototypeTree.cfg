CONSTANTS
  a = a
  b = b
  c = c
  o1 = o1
  o2 = o2
  o3 = o3
  NoNode = NoNode
  Nodes = {a, b, c}
  Objects = {o1, o2, o3}
  MaxDepth = 1
SPECIFICATION Spec
SYMMETRY ObjectSymmetry
INVARIANTS TypeOK OwnObjects SubtreeObjects CountMatches
