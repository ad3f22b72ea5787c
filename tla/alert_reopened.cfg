SPECIFICATION Spec
CONSTANTS
  Rules = {r1}
  OneShot = {}
  Incs = {i1}
  Channels = {web}
  Human = {}
  None = None
  Alerts = {a1, a2}
  FailAfter = 1
  RecoverAfter = 1
  Repeats = FALSE
  MaxAttempts = 2
  MaxRetained = 1
  MaxFaults = 0
  MaxCrashes = 1
SYMMETRY Symmetry
PROPERTIES
  NeverReopened
