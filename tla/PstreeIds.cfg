CONSTANTS
  MaxPid = 5
  MaxPidGroups = 4
SPECIFICATION FairSpec
PROPERTIES AllGetForked
CHECK_DEADLOCK FALSE
