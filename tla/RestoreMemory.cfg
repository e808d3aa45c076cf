CONSTANTS
  Trees <- MCTrees
  TaskSize = 14
  SelfPages = {13}
  BootLen = 1
SPECIFICATION FairSpec
INVARIANTS AsDumped RestorerIntact
PROPERTY AllRestored
CHECK_DEADLOCK FALSE
