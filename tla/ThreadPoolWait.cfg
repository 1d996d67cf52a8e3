CONSTANTS
  w1 = w1
  w2 = w2
  c1 = c1
  k1 = k1
  k2 = k2
  NoTask = NoTask
  Workers = {w1, w2}
  Initial = {w1, w2}
  Clients = {c1}
  Tasks = {k1, k2}
  Shuts = FALSE
SPECIFICATION FairSpec

PROPERTIES WaitTerminates
CHECK_DEADLOCK FALSE
