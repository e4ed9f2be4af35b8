CONSTANTS
  t1 = t1
  t2 = t2
  t3 = t3
  Threads <- MCThreads
  NoThread = NoThread
  Prio <- MCPrio
  Protocol = "SYS_SYNC_PRIORITY"
  Savestates = FALSE
SPECIFICATION FairSpec
INVARIANTS
  OwnerMatchesHolders
  WaitersAreSeen
  ReadersNotStranded
PROPERTIES
  ReadersDoNotOvertake
  WriterServed
CHECK_DEADLOCK FALSE
