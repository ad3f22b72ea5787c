SPECIFICATION SpecUndelivered
CONSTANTS
  Rules = {r1, r2}
  OneShot = {r2}
  Incs = {i1, i2}
  Channels = {web}
  Human = {}
  None = None
  Alerts = {a1, a2, a3}
  FailAfter = 1
  RecoverAfter = 1
  Repeats = TRUE
  MaxAttempts = 1
  MaxRetained = 1
  MaxFaults = 1
  MaxCrashes = 1
SYMMETRY Symmetry
INVARIANTS
  ToldInOrder
  ClosedIsTold
