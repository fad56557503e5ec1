\* A copy that leaves out what it selected.
CONSTANTS
  k1 = k1  k2 = k2  w1 = w1  w2 = w2  name = name
  NoObject = NoObject
  Object = {k1, k2}
  Fold <- TwoCases
  Worker = {w1}
  Modes = {"Copy"}
  Faults = FALSE
  MaxRuns = 1
SPECIFICATION TransferSpec
INVARIANTS SelectedArrive
CHECK_DEADLOCK FALSE
