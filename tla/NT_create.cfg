\* A table of MongoDB that exists is created once more.
CONSTANTS
  p1 = p1  p2 = p2  x = x  y = y  a = a  b = b
  Old = Old  Empty = Empty  Nobody = Nobody  NoTable = NoTable  Torn = Torn
  Task = {p1}
  Table = {x}
  Item = {a}
  Engines <- ToNcp
  Sources <- OneSource
  Ops = {"create"}
  ListLimit = 1
  Big = {}
SPECIFICATION Spec
INVARIANTS CreateIsNoOp
CHECK_DEADLOCK FALSE
