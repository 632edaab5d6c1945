SPECIFICATION Spec
CONSTANTS
  Requests = {r1, r2}
  Passwords = {p1, p2}
  ResetTokens = {k1, k2}
  MaxSecond = 2
  Ttl = 2
  None = None
SYMMETRY Symmetry
INVARIANTS
  TypeOK
  OneSessionPerLogin
  NoSessionSurvivesReset
  ResetTokenUsedOnce
PROPERTIES
  RevokedForGood
  EndedForGood
