SPECIFICATION Spec
CONSTANTS
  Alice = alice
  Bob = bob
  RingSlots = 2
  MaxSend <- Sends31
  FaultKinds = {"crash", "evict", "writeFails"}
  MaxFaults = 1
  Deleters = {}
INVARIANTS
  SentIsWritten
PROPERTIES
  ImplementsFairLink
  EventuallyDelivered
  StaleEntriesGo
  EverySendAnswered
CHECK_DEADLOCK FALSE
