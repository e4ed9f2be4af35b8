CONSTANTS
  t1 = t1
  t2 = t2
  t3 = t3
  t4 = t4
  t5 = t5
  b1 = b1
  b2 = b2
  b3 = b3
  Threads <- MCThreads
  NoThread = NoThread
  Prio <- MCPrio
  Protocol = "SYS_SYNC_PRIORITY"
  Savestates = TRUE
  Bits <- MCBits
  Type = "SYS_SYNC_WAITER_MULTIPLE"
  Timed = {TRUE}
  Requests <- MCRequests
  InitArgs <- MCInitArgs
  SetArgs <- MCSetArgs
  ClearArgs <- MCClearArgs
SPECIFICATION Spec
SYMMETRY Symmetry
CONSTRAINT TwoInSavestate
INVARIANTS
  NoReadyWaiter
  WokenHasAnswer
  LoadedThreadsSleep
PROPERTIES
  ClearedBitsStayCleared
  ConsumedBitsGo
  RetriesUseUpBits
CHECK_DEADLOCK FALSE
