\* Two tasks of every kind on one database of two tables.
CONSTANTS
  p1 = p1  p2 = p2  d1 = d1  d2 = d2  t1 = t1  t2 = t2  r1 = r1  r2 = r2  garbled = garbled
  Old = Old  None = None
  Task = {p1, p2}
  Database = {d1}
  Table = {t1, t2}
  Row = {r1, r2}
  ReadBack <- TwoPlain
  Keyed = {t1}
  Schemas <- OnlyTable
  Ops <- AllOps
  Writes = 1
SPECIFICATION Spec
INVARIANTS SuccessDelivers OthersUntouched
SYMMETRY Symmetry
CHECK_DEADLOCK FALSE
