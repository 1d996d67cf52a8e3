CONSTANTS
  t1 = t1
  t2 = t2
  s1 = s1
  h1 = h1
  NoThread = NoThread
  NoHandler = NoHandler
  Threads = {t1, t2}
  AlwaysPromotes = FALSE
  MaxMarked = 2
  Streams = {s1}
  Timers = {h1}
  Periodic = {}
  Late = {s1}
  Again = {h1}
  Rearms = FALSE
  Cancels = {h1}
  Closes = FALSE
  Signals = FALSE
  Shuts = FALSE
SPECIFICATION FairReactorSpec
INVARIANTS LeaderIsLive
PROPERTIES TimerFires ReadIsWatched
CHECK_DEADLOCK FALSE
