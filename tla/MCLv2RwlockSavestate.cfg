CONSTANTS
  t1 = t1
  t2 = t2
  t3 = t3
  Threads <- MCThreads
  NoThread = NoThread
  Prio <- MCPrio
  Protocol = "SYS_SYNC_PRIORITY"
  Savestates = TRUE
SPECIFICATION Spec
SYMMETRY Symmetry
INVARIANTS
  LoadedThreadsSleep
CHECK_DEADLOCK FALSE
