SPECIFICATION FairSpec
CONSTANTS
  t1 = t1
  t2 = t2
  t3 = t3
  t4 = t4
  Threads = {t1, t2, t3, t4}
  Host = Host
  Prios <- MCPrios
  InitPrio <- MCInitPrio
  InitQueue <- MCInitQueue
  Targets = {t3}
  Impatient = {t2}
  ppu_threads = 2
INVARIANTS
  PendingCounts
  AtMostHw
  TopRuns
  CleanCall
PROPERTY PlacedRuns
