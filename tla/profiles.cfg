SPECIFICATION FairSpec
CONSTANTS
  k1 = k1
  k2 = k2
  ann = ann
  bob = bob
  web = web
  app = app
  ssh = ssh
  None = None
  Keys = {k1, k2}
  Names = {ann, bob}
  Ips = {1, 2}
  Modes = {"auto", "direct"}
  Callers = {web, app}
  Tools = {ssh}
  Starts <- AllStarts
  Requests <- Asked
  Arguments <- Runs
  Texts <- Contents
  Lives <- Peers
INVARIANTS TypeOK UniqueProfiles NamesAsWritten PatchAnswers
PROPERTIES OthersLostOnlyToTool NamesKept ModesKept JobsEnd
CHECK_DEADLOCK FALSE
