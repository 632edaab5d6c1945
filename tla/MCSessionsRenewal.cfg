SPECIFICATION Spec
CONSTANTS
  Requests = {r1}
  Passwords = {p1, p2}
  ResetTokens = {k1}
  MaxSecond = 2
  Ttl = 2
  None = None
SYMMETRY Symmetry
INVARIANTS
  RenewalGetsNewToken
