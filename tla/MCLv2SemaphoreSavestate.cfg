CONSTANTS
  t1 = t1
  t2 = t2
  t3 = t3
  Threads = {t1, t2}
  NoThread = NoThread
  Prio <- MCPrio
  Protocol = "SYS_SYNC_PRIORITY"
  MaxVal = 2
  Counts <- MCCounts
  Savestates = TRUE
SPECIFICATION FairSpec
INVARIANTS
  QueueMatchesValue
  NoLostWakeup
  LoadedThreadsSleep
PROPERTIES
  GrantedReturns
  LoadCompletes
CHECK_DEADLOCK FALSE
