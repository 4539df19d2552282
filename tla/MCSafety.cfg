SPECIFICATION SafetySpec
CONSTANTS
  c1 = c1
  c2 = c2
  Clients = {c1, c2}
  Nobody = Nobody
  Capacity = 1
  MaxEvents = 2
  MaxIds = 3
  MaxChanges = 2
  t1 = t1
  t2 = t2
  r1 = r1
  r2 = r2
  Requests = {r1, r2}
  Turns = {t1, t2}
  NoRequest = NoRequest
SYMMETRY Interchangeable
INVARIANTS
  TypeOK ViewMatchesCursor HolderKnowsPending OneCue
  GateTypeOK FlowHasTheVoice StoppedStaysSilent NothingLeft
CHECK_DEADLOCK FALSE
