CONSTANTS
  o1 = o1
  o2 = o2
  o3 = o3
  Absent = Absent
  Objects = {o1, o2, o3}
  Values = {1, 2}
  TypeOf <- MCTypeOf
  MaxDepth = 1
  RemovesInserted = TRUE
  NestedCommits = FALSE
SPECIFICATION Spec
INVARIANT RollbackRestores
