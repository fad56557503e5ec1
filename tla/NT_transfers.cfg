\* Two tasks of every kind over every engine.
CONSTANTS
  p1 = p1  p2 = p2  x = x  y = y  a = a  b = b
  Old = Old  Empty = Empty  Nobody = Nobody  NoTable = NoTable  Torn = Torn
  Task = {p1, p2}
  Table = {x, y}
  Item = {a, b}
  Engines <- Ring
  Sources <- TwoTables
  Ops <- AllOps
  ListLimit = 1
  Big = {x}
SPECIFICATION Spec
INVARIANTS SuccessDelivers UntouchedUntilReached
PROPERTIES NothingElseAfterTheEnd
SYMMETRY Symmetry
CHECK_DEADLOCK FALSE
