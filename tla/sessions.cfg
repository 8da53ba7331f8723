SPECIFICATION FairSpec
CONSTANTS
  tv = tv
  box = box
  esp = esp
  None = None
  Blank = Blank
  All = All
  Poll = Poll
  Sockets = {s1}
  Callers = {web}
  RemoteIds = {esp}
  Macs = {tv, box}
  Devices = {tv}
  TokenRequired = TRUE
  PeriodicSync = TRUE
  Queries <- FromRemote
  Messages <- SessionMessages
  Requests <- SessionRequests
  Registries <- BoundToTv
  Budgets <- SessionBudgets
PROPERTIES EveryTaskServed ClosedForgotten ScreensCatchUp
CHECK_DEADLOCK FALSE
