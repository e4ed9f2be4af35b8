CONSTANTS
  t1 = t1
  t2 = t2
  t3 = t3
  Threads <- MCThreads
  NoThread = NoThread
  Prio <- MCPrio
  Protocol = "SYS_SYNC_PRIORITY"
  MaxVal = 2
  Counts <- MCCounts
  Savestates = FALSE
SPECIFICATION Spec
SYMMETRY Symmetry
PROPERTY ImplementsSemaphore
CHECK_DEADLOCK FALSE
