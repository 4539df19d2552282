SPECIFICATION FairSpec
CONSTANTS
  MissLimit = 2
  CrashLimit = 1
  WslLimit = 1
  TimeoutLimit = 2
  WslPolicy = "auto"
  MaxSpawned = 2
  MaxEvents = 2
INVARIANTS TypeOK OwnedIsAlive QuitStopsEngine
PROPERTY Settles
CHECK_DEADLOCK FALSE
