CONSTANTS
  t1 = t1
  t2 = t2
  t3 = t3
  e1 = e1
  e2 = e2
  Threads <- MCThreads
  NoThread = NoThread
  Prio <- MCPrio
  Protocol = "SYS_SYNC_PRIORITY"
  Savestates = TRUE
  QueueSize = 1
  Events <- MCEvents
  NoEvent = NoEvent
  Timed = {TRUE, FALSE}
  TrySizes = {1}
SPECIFICATION Spec
PROPERTIES
  SentOnce
