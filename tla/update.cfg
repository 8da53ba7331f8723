SPECIFICATION FairSpec
CONSTANTS
  Updaters = {first, second}
  Initial = Initial
  Down = Down
  Free = Free
  Budget <- OneOfEach
INVARIANTS TypeOK LockProtects CompleteReleases
PROPERTIES OnlyHolderSwitches SwitchUndone SwitchSettles
CHECK_DEADLOCK FALSE
