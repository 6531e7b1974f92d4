SPECIFICATION Spec
CONSTANTS
  Apps = {a, b}
  None = none
  Durations = {1, 2}
  Life = 1
  StopCancels = FALSE
  MaxTime = 3
  MaxPasses = 2
  MaxFaults = 1
SYMMETRY Symmetry
INVARIANTS TypeOK ShieldFollows RelockAhead
