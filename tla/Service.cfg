SPECIFICATION Spec
CONSTANTS
  app = app
  mgr = mgr
  a = a
  m = m
  Clients = {app, mgr}
  Root = {mgr}
  Dirs = {a, m}
  Programs <- MCPrograms
  MaxConns = 3
  MaxCrashes = 1
  Mortal = {app}
  NoPid = NoPid
INVARIANT AnswersAreRight
PROPERTIES EveryCallEnds WorkersReaped
CHECK_DEADLOCK FALSE
