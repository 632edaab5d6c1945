SPECIFICATION MCSpec
CONSTANTS
  Requests = {r1, r2}
  Boards = {b1, b2}
  Columns = {c1, c2, c3}
  Cards = {k1, k2}
  Codes = {x, y}
  None = None
  DefaultColumns = 1
  SampleCards = 1
  MaxPosition = 1
SYMMETRY Symmetry
INVARIANTS
  TypeOK
  NumbersUnique
  ReservationHolds
  NoNumberLost
  CreatedPositionsDistinct
  ColumnOfOwnBoard
  SerialNoOrphanCard
  SerialCardCodeMatchesBoard
PROPERTIES
  NumbersIssuedInOrder
CHECK_DEADLOCK FALSE
