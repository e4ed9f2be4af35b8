CONSTANTS
  t1 = t1
  t2 = t2
  t3 = t3
  Threads <- MCThreads
  NoThread = NoThread
  Prio <- MCPrio
  Protocol = "SYS_SYNC_PRIORITY"
  Savestates = FALSE
  Recursive = TRUE
  MaxCount = 1
SPECIFICATION CondFairSpec
INVARIANTS
  CondOwnerMatchesHolder
  OneQueue
  WaitersHaveOwner
  NoLostWakeup
  CountRestored
PROPERTY WaitReturns
CHECK_DEADLOCK FALSE
