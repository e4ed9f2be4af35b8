CONSTANTS
  Threads = {t1, t2, t3}
  c_one = 3
  Slots = 4
SPECIFICATION FairSpec
INVARIANTS
  MutualExclusion
  SignalReachesWaiter
PROPERTIES
  UnlockSeen
  LockMoves
