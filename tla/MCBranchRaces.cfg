CONSTANTS
  b1 = b1
  c1 = c1
  Branches <- MCOneBranch
  Capsules <- MCCapsules
  CapsuleOf <- MCOneCapsuleOf
  Keys = {k1, k2}
  OpIds = {o1, o2}
  Handlers = {h1, h2}
  Ips = {i1}
  NoIp = NoIp
  NoRequest = NoRequest
  MaxBoots = 1
  MaxPasses = 0
  Overlap = FALSE
  SlowProvider = FALSE
SPECIFICATION FairSpec
INVARIANTS
  ReceiptsNameOneOperation
PROPERTIES
  EveryOperationSettles
  IdenticalRequestGetsReceipt
  ImplementsLedger
CHECK_DEADLOCK FALSE
