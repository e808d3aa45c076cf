CONSTANTS
  Pids = {1, 2, 3, 4}
  Root = 1
  NR_ATTEMPTS = 4
  MaxEvents = 2
  NewPidNs = TRUE
  PidReuse = FALSE
  Trees <- MCTrees
  Commands = {"dump", "pre-dump"}
  FinalStates = {"alive", "dead"}
  SharedFiles = {3}
  FileLocks = FALSE
  Faults <- MCFaults
SPECIFICATION FairSpec
INVARIANTS NobodyEscapes
PROPERTIES LeftAsItWas NothingLostOnFailure
CHECK_DEADLOCK FALSE
