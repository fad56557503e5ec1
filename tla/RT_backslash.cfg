\* A migration of a row with a backslash.
CONSTANTS
  p1 = p1  p2 = p2  d1 = d1  d2 = d2  t1 = t1  t2 = t2  r1 = r1  r2 = r2  garbled = garbled
  Old = Old  None = None
  Task = {p1}
  Database = {d1}
  Table = {t1, t2}
  Row = {r1}
  ReadBack <- Backslash
  Keyed = {t1}
  Schemas <- OnlyTable
  Ops = {"migrate"}
  Writes = 1
SPECIFICATION Spec
INVARIANTS EveryRowCarried
CHECK_DEADLOCK FALSE
