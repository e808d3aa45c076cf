CONSTANTS
  Starts <- MCStarts
  Paths <- MCPaths
  SubRoots <- MCSubRoots
  MaxMounts = 7
  MaxOps = 3
SPECIFICATION Spec
INVARIANTS RestoredAsDumped DumpedIsRestorable
CHECK_DEADLOCK FALSE
