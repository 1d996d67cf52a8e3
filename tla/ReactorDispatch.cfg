CONSTANTS
  t1 = t1
  t2 = t2
  s1 = s1
  NoThread = NoThread
  NoHandler = NoHandler
  Threads = {t1, t2}
  AlwaysPromotes = FALSE
  MaxMarked = 2
  Streams = {s1}
  Timers = {}
  Periodic = {}
  Late = {}
  Again = {s1}
  Rearms = TRUE
  Cancels = {}
  Closes = TRUE
  Signals = TRUE
  Shuts = TRUE
SPECIFICATION ReactorSpec
INVARIANTS ReactorTypeOK ExclusiveDispatch MaskRestored
SYMMETRY ThreadSymmetry
CHECK_DEADLOCK FALSE
