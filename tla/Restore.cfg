CONSTANTS
  root = root
  kid = kid
  hlp = hlp
  z1 = z1
  z2 = z2
  th = th
  th2 = th2
  Criu = criu
  Outside = outside
  NoSig = nosig
  Free = free
  Root = root
  Tasks = {root, kid, hlp, z1, z2}
  Threads = {th, th2}
  ParentOf <- TreeA
  Kind <- KindA
  Leader <- LeaderA
  Owner <- OwnerBoth
  NewPid = FALSE
SPECIFICATION FairSpec
INVARIANTS TypeOK NrThreadsIsCurrent NoUseAfterUnmap ResumedOnlyWithCreds RepairOffAfterUnlock
PROPERTIES StageAdvancesTogether RestoreCompletes CriuReturns FailureLeavesNothing
CHECK_DEADLOCK FALSE
