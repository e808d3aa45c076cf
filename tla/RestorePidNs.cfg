CONSTANTS
  root = root
  kid = kid
  hlp = hlp
  z1 = z1
  z2 = z2
  th = th
  th2 = th2
  Criu = criu
  Outside = outside
  NoSig = nosig
  Free = free
  Root = root
  Tasks = {root, kid, hlp, z1}
  Threads = {th}
  ParentOf <- TreeB
  Kind <- KindB
  Leader <- LeaderB
  Owner <- OwnerKid
  NewPid = TRUE
SPECIFICATION FairSpec
PROPERTIES RestoreCompletes FailureLeavesNothing
CHECK_DEADLOCK FALSE
