CONSTANTS
  Tasks = {1, 2}
  Names = {"p", "q"}
  Options <- MCOptions
  MaxFiles = 2
  MaxOps = 5
SPECIFICATION Spec
INVARIANTS FilesRestored DirectoryAsBefore LocksKept
