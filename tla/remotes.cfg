SPECIFICATION Spec
CONSTANTS
  tv = tv
  box = box
  esp = esp
  None = None
  Blank = Blank
  All = All
  Poll = Poll
  Sockets = {s1, s2}
  Callers = {web}
  RemoteIds = {esp}
  Macs = {tv, box}
  Devices = {tv}
  TokenRequired = FALSE
  PeriodicSync = FALSE
  Queries <- WithoutName
  Messages <- SafetyMessages
  Requests <- SafetyRequests
  Registries <- BoundToTv
  Budgets <- SafetyBudgets
INVARIANTS TypeOK OpenSessionsListed
PROPERTIES BindingLostOnlyToOverlap ShownOwnDevice
CHECK_DEADLOCK FALSE
SYMMETRY SocketSymmetry
