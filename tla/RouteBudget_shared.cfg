SPECIFICATION Spec
CONSTANTS
  Download = {d1, d2}
  Route = {r1, r2}
  SharerOf <- OneSharer
  Floor = 1
  Ceil = 2
  DefaultCeil = 2
  Global = 3
  Breaches = 1
  BreachWindow = 1
  Retries = 1
  Total <- FourAndTwo
  MaxFetches = 1
  None = None
INVARIANTS SlotsAccounted NoSleeperMissed DeathRemembered
SYMMETRY Symmetry
CHECK_DEADLOCK FALSE
