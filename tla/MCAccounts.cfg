SPECIFICATION MCSpec
CONSTANTS
  Requests = {r1, r2}
  Emails = {e1, e2}
  Users = {u1, u2}
  Tokens = {t1, t2}
  Invitations = {i1}
  MaxRequests = 5
  None = None
CHECK_DEADLOCK FALSE
INVARIANTS
  TypeOK
  MailedLinkWorks
  InvitationsReachTheirOwner
PROPERTY
  LinkIsSent
