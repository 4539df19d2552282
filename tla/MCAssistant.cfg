SPECIFICATION FairSpec
CONSTANTS
  MaxLines = 2
  Pieces = 2
  MaxHolds = 2
  MaxStops = 1
  MaxFailures = 1
  d1 = d1
  c1 = c1
  c2 = c2
  Conversations = {d1}
  DigestsKept = 1
  MaxPrompts = 2
  MaxPorts = 2
  Tools = {c1, c2}
  Limit = 1
  MaxIds = 3
  MaxRuns = 2
INVARIANTS
  TypesOK
  HeardInOrder StoppedIsSilent
  WithinLimit NoneForgotten
  AnswersKept
PROPERTIES EveryLineHeard WorkerEnds QuitEndsAll EveryAnswerArrives
CHECK_DEADLOCK FALSE
