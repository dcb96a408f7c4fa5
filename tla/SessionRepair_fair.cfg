SPECIFICATION FairSpec
CONSTANTS
  Records = 2
  K = 2
  Cap = 2
  Weathers <- Changing
  Refresh = TRUE
  Errs = FALSE
  Drops = TRUE
  Joins = FALSE
  MaxPasses = 1
INVARIANTS LatchedIsQueued
PROPERTIES RepairIsEarned DeadIsRepaired
CHECK_DEADLOCK FALSE
