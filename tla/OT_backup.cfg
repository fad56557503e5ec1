\* A backup of which an object fails.
CONSTANTS
  k1 = k1  k2 = k2  w1 = w1  w2 = w2  name = name
  NoObject = NoObject
  Object = {k1}
  Fold <- OneKey
  Worker = {w1}
  Modes = {"MGet"}
  Faults = TRUE
  MaxRuns = 1
SPECIFICATION TransferSpec
INVARIANTS BackupComplete
CHECK_DEADLOCK FALSE
