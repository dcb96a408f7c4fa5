SPECIFICATION FairSpec
CONSTANTS
  Record = {r1, r2, r3}
  Id = {a}
  None = None
  Shape <- BeaconShapes
  Permits <- MCPermits
  NonchatCap = 1
  MaxPending = 3
PROPERTIES HeadLeaves
CHECK_DEADLOCK FALSE
