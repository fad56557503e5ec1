\* Two backups of one name, a restore or deletion of each kind at the same time.
CONSTANTS
  Backup = {b1, b2}
  Client = {c1, c2}
  Name = {n}
  Part = {x, y}
  Types = {"objectstorage", "rdbms", "nrdbms"}
  Nobody = Nobody
SPECIFICATION Spec
INVARIANTS TypeOK CompletedIsWhole RestoredIsWhole NoStrayDirectory StatusSettles
SYMMETRY Symmetry
CHECK_DEADLOCK FALSE
