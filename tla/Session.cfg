CONSTANTS
  o1 = o1
  o2 = o2
  o3 = o3
  Absent = Absent
  Objects = {o1, o2, o3}
  Values = {1, 2}
  TypeOf <- MCTypeOf
  MaxDepth = 1
  RemovesInserted = FALSE
  NestedCommits = FALSE
  Stored = {o3}
  StoredAs = 1
  Fails = TRUE
  Copies = FALSE
  Mixes = FALSE
SPECIFICATION SessionSpec
INVARIANTS SessionTypeOK QueueIsDifference UpdatesAreIdentified FailedCommitIsClosed
CHECK_DEADLOCK FALSE
