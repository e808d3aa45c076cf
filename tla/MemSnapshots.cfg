CONSTANTS
  NrPages = 3
  Volatile = {2}
  Scripts <- MCScripts
  WriteFails = {"pre-dump"}
  Others = FALSE
  RetryOld = FALSE
  Rereads = FALSE
SPECIFICATION Spec
INVARIANTS DumpIsRestorable CleanPagesAreUnchanged ReportedImagesAreComplete
