SPECIFICATION Spec
CONSTANTS
  OpIds = {o1, o2}
  Targets = {t1, t2}
  t1 = t1
  t2 = t2
  v1 = v1
  Images = {v1}
  Absent = Absent
  None = None
  Requests <- OtherOnTwo
  Principals = {anon}
  NoAuth = anon
  Keys = {}
  Clients = {c1}
  Workers = {w1, w2}
  HasReceiptReader = FALSE
  MaxQueuedPerTarget = 0
  MaxLive = 0
  MaxLivePerPrincipal = 0
  ExecutorSlots = 1
  IdempotencyWindow = 0
  MaxHistoryAge = 0
  MaxOperations = 1
  MaxTime = 0
  MaxFaults = 0
  MaxCrashes = 1
SYMMETRY TargetSymmetry
INVARIANTS
  RecordsHold
