SPECIFICATION Spec
CONSTANTS
  Instances = 1
  Results = 1
  Retries = 1
  RecentLimit = 1
  PendingLimit = 2
  MaxRuns = 2
  MaxPublished = 1
  MaxFaults = 0
  MaxCopies = 1
PROPERTY CrashKeepsList
CHECK_DEADLOCK FALSE
