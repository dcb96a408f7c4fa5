SPECIFICATION Spec
CONSTANTS
  Download = {d1}
  Route = {r1}
  SharerOf <- OneSharer
  Floor = 2
  Ceil = 2
  DefaultCeil = 2
  Global = 3
  Breaches = 3
  BreachWindow = 5
  Retries = 0
  Total <- Three
  MaxFetches = 2
  None = None
INVARIANTS CallsWithinWindow
CHECK_DEADLOCK FALSE
