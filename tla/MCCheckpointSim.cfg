SPECIFICATION FairSpec
CONSTANTS
    Goal = 2
    MaxRounds = 3
    MaxFaults = 2
    MaxAsks = 2
    FaultsAt <- NotAfterMove
INVARIANT SnapshotKept
INVARIANT Restorable
INVARIANT PausedKeepsWork
PROPERTY NeverBackwards
PROPERTY Recovers
PROPERTY PauseHonoured
CHECK_DEADLOCK FALSE
