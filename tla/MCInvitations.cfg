SPECIFICATION MCSpec
CONSTANTS
  Requests = {r1, r2}
  Users = {u1, u2}
  Creator = u1
  Invitations = {i1, i2}
  Roles = {"ADMIN", "MEMBER"}
  None = None
  MaxOffers = 2
SYMMETRY Symmetry
INVARIANTS
  TypeOK
  AnsweredAtMostOnce
  SerialBoardHasAdmin
  SerialPendingInviteeNotMember
PROPERTIES
  JoinsByPendingInvitation
  SerialAnsweredIsFinal
