SPECIFICATION Spec
CONSTANTS
  MissLimit = 1
  CrashLimit = 1
  WslLimit = 1
  TimeoutLimit = 2
  WslPolicy = "auto"
  MaxSpawned = 2
  MaxEvents = 1
PROPERTY OwnShutdownIsNoCrash
CHECK_DEADLOCK FALSE
