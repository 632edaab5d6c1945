SPECIFICATION MCSpec
CONSTANTS
  Requests = {r1, r2}
  Users = {u1, u2}
  Cards = {k1}
  Comments = {c1, c2}
  Files = {f1, f2}
  Values = {v1, v2}
  MaxFiles = 2
  MaxRequests = 4
  None = None
SYMMETRY Symmetry
INVARIANTS
  TypeOK
  CommentHasBody
  NoStrayFile
  HistoryComplete
PROPERTIES
  FilesKept
  AuthorOnly
CHECK_DEADLOCK FALSE
