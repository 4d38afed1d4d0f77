SPECIFICATION Spec
CONSTANTS
  Goal = 1
  MaxRounds = 2
  MaxFaults = 1
  MaxAsks = 0
  FaultsAt <- Anywhere
INVARIANT Restorable
CHECK_DEADLOCK FALSE
