SPECIFICATION Spec
CONSTANTS
  Requests = {r1, r2}
  Boards = {b1}
  Columns = {c1, c2}
  Cards = {k1, k2}
  Codes = {x, y}
  None = None
  DefaultColumns = 1
  SampleCards = 1
  MaxPosition = 1
SYMMETRY Symmetry
INVARIANTS
  NoOrphanCard
CHECK_DEADLOCK FALSE
