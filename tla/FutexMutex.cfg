CONSTANTS
  Procs = {p1, p2, p3}
  MaxRaw = 6
SPECIFICATION FairSpec
INVARIANTS MutualExclusion NoLostWakeup
PROPERTIES ImplementsMutex SomebodyGetsIn
