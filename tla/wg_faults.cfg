SPECIFICATION FairSpec
CONSTANTS
  phone = phone
  laptop = laptop
  Clients = {phone, laptop}
  Protected = {laptop}
  InitialProfiles <- OnBackup
  BootDevices <- AllUp
  Budget <- Everything
INVARIANTS BackupNeverFallsThrough
PROPERTIES SavedOnlyWhenRouted JobsEnd RoutingRecovers
CHECK_DEADLOCK FALSE
