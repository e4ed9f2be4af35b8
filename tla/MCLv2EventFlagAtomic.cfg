CONSTANTS
  t1 = t1
  t2 = t2
  t3 = t3
  t4 = t4
  t5 = t5
  b1 = b1
  b2 = b2
  b3 = b3
  Threads <- AtomicThreads
  NoThread = NoThread
  Prio <- AtomicPrio
  Protocol = "SYS_SYNC_FIFO"
  Savestates = FALSE
  Bits <- AtomicBits
  Type = "SYS_SYNC_WAITER_MULTIPLE"
  Timed = {FALSE}
  Requests <- AtomicRequests
  InitArgs <- AtomicInitArgs
  SetArgs <- AtomicSetArgs
  ClearArgs <- AtomicClearArgs
SPECIFICATION Spec
CONSTRAINT AtomicRoles
PROPERTY SingleAtomicOp
CHECK_DEADLOCK FALSE
