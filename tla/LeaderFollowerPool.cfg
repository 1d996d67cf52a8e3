CONSTANTS
  Threads = {t1, t2, t3}
  NoThread = NoThread
  AlwaysPromotes = TRUE
SPECIFICATION FairPoolSpec
INVARIANTS PoolInv AtMostOneLeading LeaderLeads VacantLeadIsTaken
PROPERTIES NewLeaderEmerges ShutdownCompletes
CHECK_DEADLOCK FALSE
