SPECIFICATION Spec
CONSTANTS
  Included = {"create-vpc", "run-instances", "create-volume", "attach-volume"}
  LaunchSlots = 2
  MaxRefusals = 1
  None = None
  MaxDeployments = 3
  MaxUpsets = 1
CHECK_DEADLOCK FALSE
INVARIANTS
  WritesAreAccepted
  ConfirmedHasNoChild
  NothingIsForgotten
  LaunchIsUnique
  VolumeHasOneHolder
