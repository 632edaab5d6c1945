SPECIFICATION Spec
CONSTANTS
  Requests = {r1}
  Boards = {b1, b2}
  Columns = {c1, c2, c3}
  Cards = {k1, k2}
  Codes = {x, y}
  None = None
  DefaultColumns = 1
  SampleCards = 1
  MaxPosition = 1
SYMMETRY Symmetry
INVARIANTS
  NextCardCodeFree
CHECK_DEADLOCK FALSE
