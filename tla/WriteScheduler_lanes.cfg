SPECIFICATION Spec
CONSTANTS
  Record = {r1, r2}
  Id = {a}
  None = None
  Shape <- SafetyShapes
  Permits <- MCPermits
  NonchatCap = 1
  MaxPending = 2
INVARIANTS LanesAccounted RestsWithReason
PROPERTIES NoResurrection PromiseKept
SYMMETRY Symmetry
CHECK_DEADLOCK FALSE
