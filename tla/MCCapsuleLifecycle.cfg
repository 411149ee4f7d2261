CONSTANTS
  c1 = c1
  v1 = v1
  v2 = v2
  f1 = f1
  Capsules = {c1}
  OpIds = {o1, o2, o3}
  Volumes = {v1}
  Versioned = {v1}
  Files = {f1}
  Backing <- MCFileInVolume
  None = None
  MaxBoots = 1
  MaxDrift = 0
SPECIFICATION Spec
INVARIANTS
  TypeOK
  OwnershipIsMutual
  GoneLeavesNothing
  ActiveIsWhole
  SnapshotsAreBacked
PROPERTIES
  LedgerSpec
CHECK_DEADLOCK FALSE
