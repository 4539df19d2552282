SPECIFICATION FairSpec
CONSTANTS
  Instances = 1
  Results = 2
  Retries = 1
  RecentLimit = 1
  PendingLimit = 2
  MaxRuns = 1
  MaxPublished = 2
  MaxFaults = 1
  MaxCopies = 0
INVARIANT QueueInOrder
PROPERTY EveryResultAcknowledged
CHECK_DEADLOCK FALSE
