SPECIFICATION Spec
CONSTANTS
  phone = phone
  laptop = laptop
  Clients = {phone, laptop}
  Protected = {}
  InitialProfiles <- PhoneAny
  BootDevices <- AllOrNone
  Budget <- ModesBounds
INVARIANTS TypeOK OpenOnlyAfterFailure PinnedFollowProfiles
CHECK_DEADLOCK FALSE
