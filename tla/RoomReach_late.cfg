SPECIFICATION Spec
CONSTANTS
  Rec = {r1, r2}
  K = 2
  MaxGen = 4
  MaxDone = 2
  None = None
PROPERTIES OvertakenIsSilent CurrentIsShown UnreachableIsEarned
SYMMETRY Symmetry
CHECK_DEADLOCK FALSE
