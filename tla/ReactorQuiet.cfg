CONSTANTS
  t1 = t1
  t2 = t2
  s1 = s1
  h1 = h1
  NoThread = NoThread
  NoHandler = NoHandler
  Threads = {t1, t2}
  AlwaysPromotes = FALSE
  MaxMarked = 2
  Streams = {s1}
  Timers = {h1}
  Periodic = {}
  Late = {}
  Again = {}
  Rearms = FALSE
  Cancels = {}
  Closes = FALSE
  Signals = FALSE
  Shuts = TRUE
SPECIFICATION FairReactorSpec
PROPERTIES RunTerminates
CHECK_DEADLOCK FALSE
