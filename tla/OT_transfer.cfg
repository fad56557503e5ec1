\* Every transfer of two keys that differ in case, two workers, failing storage, run twice.
CONSTANTS
  k1 = k1  k2 = k2  w1 = w1  w2 = w2  name = name
  NoObject = NoObject
  Object = {k1, k2}
  Fold <- TwoCases
  Worker = {w1, w2}
  Modes = {"Copy", "MGet", "MPut"}
  Faults = TRUE
  MaxRuns = 2
SPECIFICATION TransferFairSpec
INVARIANTS TransferTypeOK EveryObjectReported SuccessMeansWhole CopyNeverTruncates
PROPERTIES SettledAtReturn TransferReturns
CHECK_DEADLOCK FALSE
