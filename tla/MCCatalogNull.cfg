SPECIFICATION NullSpec
CONSTANTS
  Requests = {r1}
  Boards = {b1}
  Types = {t1}
  Versions = {v1}
  Cards = {k1}
  Words = {w1}
  Cases = {lower}
  MaxDay = 2
  MaxColumn = 1
  None = None
  Unset = Unset
SYMMETRY Symmetry
INVARIANTS
  RangesOrdered
CHECK_DEADLOCK FALSE
