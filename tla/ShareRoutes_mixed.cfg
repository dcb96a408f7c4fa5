SPECIFICATION Spec
CONSTANTS
  Task = {t1, t2}
  Kinds <- Both
  Adverts <- WithWithdraw
  Expires = TRUE
  MaxGen = 3
  None = None
INVARIANTS GoneIsForgotten
PROPERTIES NotReleasedUnderPreview NothingForgotten ResolvedStays
SYMMETRY Symmetry
CHECK_DEADLOCK FALSE
