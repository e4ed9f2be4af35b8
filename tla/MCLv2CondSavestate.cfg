CONSTANTS
  t1 = t1
  t2 = t2
  t3 = t3
  Threads <- SavestateThreads
  NoThread = NoThread
  Prio <- SavestatePrio
  Protocol = "SYS_SYNC_PRIORITY"
  Savestates = TRUE
  Recursive = FALSE
  MaxCount = 0
SPECIFICATION CondSpec
INVARIANTS
  LoadedMutexSleeps
CHECK_DEADLOCK FALSE
