SPECIFICATION FairSpec
CONSTANTS
  Alice = alice
  Bob = bob
  Initiators = {alice}
  Deleters = {alice, bob}
  MaxOpened = 2
  MaxTroubles = 2
INVARIANTS
  HalvesAgree
  HelloLeadsToChannel
  PublishedIsRecorded
  WithdrawnIsRecognised
PROPERTIES AcceptanceArrives
CHECK_DEADLOCK FALSE
