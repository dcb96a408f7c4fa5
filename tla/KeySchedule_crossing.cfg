SPECIFICATION Spec
CONSTANTS
  Initiator = ini
  Acceptor = acc
  MaxResets = 2
  MaxResetsPerParty = 1
  MaxSeal = 4
INVARIANT EveryMessageOpens
CHECK_DEADLOCK FALSE
