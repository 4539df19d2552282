SPECIFICATION Spec
CONSTANTS
  Instances = 2
  Results = 1
  Retries = 1
  RecentLimit = 1
  PendingLimit = 2
  MaxRuns = 2
  MaxPublished = 2
  MaxFaults = 2
  MaxCopies = 1
INVARIANTS TypeOK AutomaticOnce DeliveredHasLanded
PROPERTY TextKept
CHECK_DEADLOCK FALSE
