SPECIFICATION MCSpec
CONSTANTS
  Requests = {r1, r2}
  Boards = {b1, b2}
  Types = {t1, t2}
  Versions = {v1}
  Cards = {k1}
  Words = {w1}
  Cases = {lower, upper}
  MaxDay = 2
  MaxColumn = 3
  None = None
  Unset = Unset
SYMMETRY Symmetry
INVARIANTS
  TypeOK
  RefsOwnBoard
  IssueTypeNamesDistinct
  RangesOrdered
  ColumnsNumbered
CHECK_DEADLOCK FALSE
