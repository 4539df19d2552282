SPECIFICATION FairSpec
CONSTANTS
  c1 = c1
  Clients = {c1}
  Nobody = Nobody
  Capacity = 1
  MaxEvents = 3
  MaxIds = 2
  MaxChanges = 3
PROPERTIES IsEventFeed CatchesUp PollsEnd
CHECK_DEADLOCK FALSE
