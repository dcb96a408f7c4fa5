SPECIFICATION Spec
CONSTANTS
  Alice = alice
  Bob = bob
  RingSlots = 2
  MaxSend <- Sends31
  FaultKinds = {"crash", "evict", "evictControl", "writeFails", "trimRefused"}
  MaxFaults = 1
  Deleters = {alice}
INVARIANTS TypeOK CursorOrder OutstandingKept OnlyCommittedLeaves RecordedIsCommitted
PROPERTIES ImplementsLink ErasedStaysErased DeleteFinishes
CHECK_DEADLOCK FALSE
