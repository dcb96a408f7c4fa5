SPECIFICATION Spec
CONSTANTS
  Initiator = ini
  Acceptor = acc
  MaxResets = 1
  MaxResetsPerParty = 1
  MaxSeal = 5
INVARIANTS
  EveryMessageOpens
  NoKeyReuse
  CaughtUpAgrees
  TurnsAlternate
CHECK_DEADLOCK FALSE
