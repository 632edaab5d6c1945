SPECIFICATION FairSpec
CONSTANTS
  Requests = {r1}
  None = None
INVARIANTS
  TypeOK
  WritesInRole
  ForbiddenForAReason
PROPERTY
  EveryRequestAnswered
