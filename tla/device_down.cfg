SPECIFICATION Spec
CONSTANTS
  phone = phone
  laptop = laptop
  Clients = {phone, laptop}
  Protected = {}
  InitialProfiles <- AllAuto
  BootDevices <- AllUp
  Budget <- OneDrop
INVARIANTS NoFallThroughAtRest
CHECK_DEADLOCK FALSE
