SPECIFICATION Spec
CONSTANTS
  OpIds = {o1, o2}
  Targets = {t1}
  t1 = t1
  t2 = t2
  v1 = v1
  Images = {v1}
  Absent = Absent
  None = None
  Requests <- OneOther
  Principals = {anon}
  NoAuth = anon
  Keys = {k1}
  Clients = {c1, c2}
  Workers = {w1}
  HasReceiptReader = FALSE
  MaxQueuedPerTarget = 0
  MaxLive = 1
  MaxLivePerPrincipal = 0
  ExecutorSlots = 1
  IdempotencyWindow = 1
  MaxHistoryAge = 0
  MaxOperations = 0
  MaxTime = 2
  MaxFaults = 0
  MaxCrashes = 1
SYMMETRY Symmetry
INVARIANTS
  ReplayResolves
  RecheckHolds
