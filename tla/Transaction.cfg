CONSTANTS
  o1 = o1
  o2 = o2
  o3 = o3
  Absent = Absent
  Objects = {o1, o2, o3}
  Values = {1, 2}
  TypeOf <- MCTypeOf
  MaxDepth = 2
  RemovesInserted = FALSE
  NestedCommits = FALSE
SPECIFICATION Spec
INVARIANTS TypeOK RollbackRestores BufferMatchesActions LogHoldsLiveProxies NeverFails
