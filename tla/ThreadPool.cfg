CONSTANTS
  w1 = w1
  w2 = w2
  w3 = w3
  c1 = c1
  c2 = c2
  k1 = k1
  k2 = k2
  NoTask = NoTask
  Workers = {w1, w2, w3}
  Initial = {w1, w2}
  Clients = {c1, c2}
  Tasks = {k1, k2}
  Shuts = TRUE
SPECIFICATION FairSpec
INVARIANTS TypeOK BusyCount NoTaskLost
PROPERTIES WaitMeansDone TaskRuns ShutdownTerminates ThreadsLeave
CHECK_DEADLOCK FALSE
