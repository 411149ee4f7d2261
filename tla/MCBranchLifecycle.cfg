CONSTANTS
  b1 = b1
  c1 = c1
  Branches <- MCOneBranch
  Capsules <- MCCapsules
  CapsuleOf <- MCOneCapsuleOf
  Keys = {k1, k2, k3}
  OpIds = {o1, o2, o3}
  Handlers = {h1}
  Ips = {i1}
  NoIp = NoIp
  NoRequest = NoRequest
  MaxBoots = 1
  MaxPasses = 1
  Overlap = TRUE
  SlowProvider = FALSE
SPECIFICATION Spec
SYMMETRY MCSymmetry
INVARIANTS
  TypeOK
  FailedIsSafe
  OwnershipIsMutual
  StopFindsNoLiveAccess
  FailedLeavesNothingPending
PROPERTIES
  TerminalIsFinal
CHECK_DEADLOCK FALSE
