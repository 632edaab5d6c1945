------------------------------ MODULE Accounts ------------------------------
(***************************************************************************)
(* Accounts and the invitations that wait for them: registration, the      *)
(* verification mail, verification, and the binding of invitations sent to *)
(* an address before somebody had registered with it (AuthService,         *)
(* UsersService, InvitationsService and their repositories).               *)
(*                                                                         *)
(* Every statement is a step and a request may fail before any of them.    *)
(* Invitations come from any board; roles, memberships and the pending     *)
(* invitations of one board are in Invitations, passwords in Sessions.     *)
(* Addresses are in normal form: every input is trimmed and put in lower   *)
(* case first.  No code path changes an address, deletes a user or makes   *)
(* him inactive again.                                                     *)
(***************************************************************************)
CONSTANTS
  Requests,     \* slots for requests in flight
  Emails,       \* addresses
  Users,        \* user ids
  Tokens,       \* verification tokens that may be drawn
  Invitations,  \* invitation ids
  None          \* SQL NULL, an absent row

ASSUME AccountsAssumption ==
  /\ None \notin Requests \cup Emails \cup Users \cup Tokens \cup Invitations
  /\ None \notin {"PENDING", "EXPIRED", "CLOSED"}

VARIABLES
  users,        \* table users
  invitations,  \* table board_invitations
  mailed,       \* the verification links that were sent
  invited,      \* the invitations whose token was sent
  job,          \* the local variables of the request in each slot
  answered,     \* history: who accepted or declined each invitation
  lost          \* history: addresses whose token, and invitations whose token,
                \* was written by a request that broke off before it sent it

vars == <<users, invitations, mailed, invited, job, answered, lost>>

-----------------------------------------------------------------------------
(* Rows.                                                                   *)

User == [email : Emails \cup {None}, active : BOOLEAN, token : Tokens \cup {None}]

\* CLOSED: ACCEPTED, DECLINED or REVOKED.  late: expiresAt has passed.
\* token: the slot of the request that drew it.
Invitation ==
  [email : Emails \cup {None}, invitee : Users \cup {None},
   status : {None, "PENDING", "EXPIRED", "CLOSED"}, late : BOOLEAN,
   token : Requests \cup {None}]

Registered(u) == users[u].email # None

Free(e) == \A u \in Users : users[u].email # e

Open(i) == invitations[i].status = "PENDING" /\ ~invitations[i].late

\* ensureInvitationBelongsToUser
Belongs(i, u) ==
  IF invitations[i].invitee # None
  THEN invitations[i].invitee = u
  ELSE invitations[i].email = users[u].email

\* findPendingForUser: what listMine shows.
Listed(i, u) ==
  /\ Open(i)
  /\ invitations[i].invitee = u \/ invitations[i].email = users[u].email

Places == {"idle", "createUser", "readToken", "sendMail",
           "findToken", "activate", "bind", "insert", "resend", "sendInvitation", "answer",
           "markExpired"}

Job == [at : Places, email : Emails \cup {None}, user : Users \cup {None},
        token : Tokens \cup {None}, invitation : Invitations \cup {None}]

Idle == [at |-> "idle", email |-> None, user |-> None, token |-> None,
         invitation |-> None]

TypeOK ==
  /\ users \in [Users -> User]
  /\ invitations \in [Invitations -> Invitation]
  /\ mailed \subseteq Emails \X Tokens
  /\ invited \subseteq Invitations
  /\ job \in [Requests -> Job]
  /\ answered \in [Invitations -> Users \cup {None}]
  /\ lost \subseteq Emails \cup Invitations

Init ==
  /\ users = [u \in Users |-> [email |-> None, active |-> FALSE, token |-> None]]
  /\ invitations =
       [i \in Invitations |-> [email |-> None, invitee |-> None, status |-> None,
                            late |-> FALSE, token |-> None]]
  /\ mailed = {}
  /\ invited = {}
  /\ job = [r \in Requests |-> Idle]
  /\ answered = [i \in Invitations |-> None]
  /\ lost = {}

-----------------------------------------------------------------------------
(* Requests.                                                               *)

At(r, place) == job[r].at = place

Begin(r, j) ==
  /\ At(r, "idle")
  /\ job' = [job EXCEPT ![r] = j]

Goto(r, place) == job' = [job EXCEPT ![r] = [@ EXCEPT !.at = place]]

Finish(r) == job' = [job EXCEPT ![r] = Idle]

\* The invitation the request is about, unless another one has replaced its token.
Current(r) == {i \in {job[r].invitation} : invitations[i].token = r}

\* An exception, a lost connection or a crash at an await.
Fail(r) ==
  /\ ~At(r, "idle")
  /\ Finish(r)
  /\ lost' = lost \cup CASE job[r].at \in {"readToken", "sendMail"} -> {job[r].email}
                        [] At(r, "sendInvitation") -> Current(r)
                        [] OTHER -> {}
  /\ UNCHANGED <<users, invitations, mailed, invited, answered>>

-----------------------------------------------------------------------------
(* Registration.                                                           *)

RegisterCheck(r, e) ==
  /\ Free(e)
  /\ Begin(r, [Idle EXCEPT !.at = "createUser", !.email = e])
  /\ UNCHANGED <<users, invitations, mailed, invited, answered, lost>>

\* A token is a random UUID.
Drawn(t) ==
  /\ \A u \in Users : users[u].token # t
  /\ \A link \in mailed : link[2] # t

\* Variant for mutation: a pending registration is written again.
CreateUserAgain(r, u, t) ==
  /\ At(r, "createUser")
  /\ users[u].email = job[r].email \/ (Free(job[r].email) /\ ~Registered(u))
  /\ Drawn(t)
  /\ users' = [users EXCEPT ![u] = [email |-> job[r].email, active |-> FALSE, token |-> t]]
  /\ Goto(r, "readToken")
  /\ UNCHANGED <<invitations, mailed, invited, answered, lost>>

\* The row and its user code in one transaction; the unique index on email.
CreateUser(r, u, t) ==
  /\ At(r, "createUser")
  /\ ~Registered(u)
  /\ Free(job[r].email)
  /\ Drawn(t)
  /\ users' = [users EXCEPT ![u] = [email |-> job[r].email, active |-> FALSE, token |-> t]]
  /\ Goto(r, "readToken")
  /\ UNCHANGED <<invitations, mailed, invited, answered, lost>>

\* sendVerificationEmail reads the user again.  Without a token it throws.
ReadToken(r) ==
  /\ At(r, "readToken")
  /\ \E u \in Users :
       /\ users[u].email = job[r].email
       /\ users[u].token # None
       /\ job' = [job EXCEPT ![r] = [@ EXCEPT !.at = "sendMail", !.token = users[u].token]]
  /\ UNCHANGED <<users, invitations, mailed, invited, answered, lost>>

\* Variant for mutation: the provider's error is swallowed.
SendMailAtBest(r) ==
  /\ At(r, "sendMail")
  /\ \/ mailed' = mailed \cup {<<job[r].email, job[r].token>>}
     \/ UNCHANGED mailed
  /\ Finish(r)
  /\ UNCHANGED <<users, invitations, invited, answered, lost>>

\* The provider's error makes the request fail.
SendMail(r) ==
  /\ At(r, "sendMail")
  /\ mailed' = mailed \cup {<<job[r].email, job[r].token>>}
  /\ Finish(r)
  /\ UNCHANGED <<users, invitations, invited, answered, lost>>

-----------------------------------------------------------------------------
(* Verification.  Only the mail tells a client its token.                  *)

VerifyCheck(r, e, t) ==
  /\ <<e, t>> \in mailed
  /\ \E u \in Users :
       /\ users[u].email = e
       /\ ~users[u].active
       /\ users[u].token = t
       /\ Begin(r, [Idle EXCEPT !.at = "findToken", !.user = u, !.token = t])
  /\ UNCHANGED <<users, invitations, mailed, invited, answered, lost>>

\* UsersRepository.verifyAccount looks for the id with the token ...
FindToken(r) ==
  /\ At(r, "findToken")
  /\ IF users[job[r].user].token = job[r].token THEN Goto(r, "activate") ELSE Finish(r)
  /\ UNCHANGED <<users, invitations, mailed, invited, answered, lost>>

\* ... and then updates by the id alone.
Activate(r) ==
  /\ At(r, "activate")
  /\ users' = [users EXCEPT ![job[r].user] = [@ EXCEPT !.active = TRUE, !.token = None]]
  /\ Goto(r, "bind")
  /\ UNCHANGED <<invitations, mailed, invited, answered, lost>>

\* Variant for mutation: every waiting invitation, whatever its address.
BindAll(r) ==
  /\ At(r, "bind")
  /\ invitations' = [i \in Invitations |->
       IF Open(i) /\ invitations[i].invitee = None
       THEN [invitations[i] EXCEPT !.invitee = job[r].user]
       ELSE invitations[i]]
  /\ Finish(r)
  /\ UNCHANGED <<users, mailed, invited, answered, lost>>

\* bindPendingByEmail: one updateMany.
Bind(r) ==
  /\ At(r, "bind")
  /\ invitations' = [i \in Invitations |->
       IF Open(i) /\ invitations[i].invitee = None
            /\ invitations[i].email = users[job[r].user].email
       THEN [invitations[i] EXCEPT !.invitee = job[r].user]
       ELSE invitations[i]]
  /\ Finish(r)
  /\ UNCHANGED <<users, mailed, invited, answered, lost>>

-----------------------------------------------------------------------------
(* Invitations.                                                            *)

ActiveAt(e) == {u \in Users : users[u].email = e /\ users[u].active}

\* createForBoard looks the address up ...
InviteCheck(r, e) ==
  /\ \E u \in IF ActiveAt(e) = {} THEN {None} ELSE ActiveAt(e) :
       Begin(r, [Idle EXCEPT !.at = "insert", !.email = e, !.user = u])
  /\ UNCHANGED <<users, invitations, mailed, invited, answered, lost>>

\* ... and inserts what it found.
InsertInvitation(r, i) ==
  /\ At(r, "insert")
  /\ invitations[i].status = None
  /\ invitations' = [invitations EXCEPT ![i] =
       [email |-> job[r].email, invitee |-> job[r].user, status |-> "PENDING", late |-> FALSE,
        token |-> r]]
  /\ job' = [job EXCEPT ![r] = [Idle EXCEPT !.at = "sendInvitation", !.invitation = i]]
  /\ UNCHANGED <<users, mailed, invited, answered, lost>>

\* A link whose token was replaced meanwhile finds nothing.
SendInvitationEmail(r) ==
  /\ At(r, "sendInvitation")
  /\ invited' = invited \cup Current(r)
  /\ Finish(r)
  /\ UNCHANGED <<users, invitations, mailed, answered, lost>>

\* Time passes ...
Lapse(i) ==
  /\ invitations[i].status = "PENDING"
  /\ invitations' = [invitations EXCEPT ![i] = [@ EXCEPT !.late = TRUE]]
  /\ UNCHANGED <<users, mailed, invited, job, answered, lost>>

\* ... and whoever lists invitations has the late ones marked.
Expire(i) ==
  /\ invitations[i].status = "PENDING"
  /\ invitations[i].late
  /\ invitations' = [invitations EXCEPT ![i] = [@ EXCEPT !.status = "EXPIRED"]]
  /\ UNCHANGED <<users, mailed, invited, job, answered, lost>>

\* resend reads the invitation, whatever its status ...
ResendCheck(r, i) ==
  /\ invitations[i].status # None
  /\ Begin(r, [Idle EXCEPT !.at = "resend", !.invitation = i])
  /\ UNCHANGED <<users, invitations, mailed, invited, answered, lost>>

Renew(r, status) ==
  LET i == job[r].invitation IN
  /\ invitations[i].status \in {"PENDING", "EXPIRED"}
  /\ invitations' = [invitations EXCEPT ![i] =
       [@ EXCEPT !.status = status, !.late = FALSE, !.token = r]]
  /\ invited' = invited \ {i}
  /\ lost' = lost \ {i}
  /\ Goto(r, "sendInvitation")
  /\ UNCHANGED <<users, mailed, answered>>

\* Variant for mutation: a status that the column does not have.
ResendAsNew(r) == At(r, "resend") /\ Renew(r, "RESENT")

\* ... and renews its term and its token if it was not answered.  The invitee
\* stays as he is.
Resend(r) == At(r, "resend") /\ Renew(r, "PENDING")

Revoke(i) ==
  /\ invitations[i].status = "PENDING"
  /\ invitations' = [invitations EXCEPT ![i] = [@ EXCEPT !.status = "CLOSED"]]
  /\ UNCHANGED <<users, mailed, invited, job, answered, lost>>

\* accept and decline read the invitation, check whose it is and whether it is
\* late ...
AnswerCheck(r, u, i) ==
  /\ users[u].active
  /\ invitations[i].status = "PENDING"
  /\ Belongs(i, u)
  /\ Begin(r, [Idle EXCEPT !.at = IF Open(i) THEN "answer" ELSE "markExpired",
                           !.user = u, !.invitation = i])
  /\ UNCHANGED <<users, invitations, mailed, invited, answered, lost>>

\* ... mark it, whatever has become of it since ...
MarkExpired(r) ==
  /\ At(r, "markExpired")
  /\ invitations' = [invitations EXCEPT ![job[r].invitation].status = "EXPIRED"]
  /\ Finish(r)
  /\ UNCHANGED <<users, mailed, invited, answered, lost>>

\* ... or answer it if it is still pending.
Answer(r) ==
  LET i == job[r].invitation IN
  /\ At(r, "answer")
  /\ invitations[i].status = "PENDING"
  /\ invitations' = [invitations EXCEPT ![i] = [@ EXCEPT !.status = "CLOSED"]]
  /\ answered' = [answered EXCEPT ![i] = job[r].user]
  /\ Finish(r)
  /\ UNCHANGED <<users, mailed, invited, lost>>

-----------------------------------------------------------------------------
(* What validation lets through, names and passwords left out.             *)

RegisterDto         == [email : Emails]
VerifyAccountDto    == [email : Emails, token : Tokens]
CreateInvitationDto == [email : Emails]

-----------------------------------------------------------------------------
Arrive(r) ==
  \/ \E dto \in RegisterDto : RegisterCheck(r, dto.email)
  \/ \E dto \in CreateInvitationDto : InviteCheck(r, dto.email)
  \/ \E dto \in VerifyAccountDto : VerifyCheck(r, dto.email, dto.token)
  \/ \E i \in Invitations : ResendCheck(r, i)
  \/ \E u \in Users, i \in Invitations : AnswerCheck(r, u, i)

Step(r) ==
  \/ \E u \in Users, t \in Tokens : CreateUser(r, u, t)
  \/ ReadToken(r)
  \/ SendMail(r)
  \/ FindToken(r)
  \/ Activate(r)
  \/ Bind(r)
  \/ \E i \in Invitations : InsertInvitation(r, i)
  \/ Resend(r)
  \/ SendInvitationEmail(r)
  \/ Answer(r)
  \/ MarkExpired(r)

Others ==
  \E i \in Invitations : Lapse(i) \/ Expire(i) \/ Revoke(i)

Next ==
  \/ \E r \in Requests : Arrive(r) \/ Step(r) \/ Fail(r)
  \/ Others

Spec == Init /\ [][Next]_vars

\* Every awaited call returns or throws: no request stays in flight for ever.
Fairness == \A r \in Requests : WF_vars(Step(r) \/ Fail(r))

FairSpec == Spec /\ Fairness

-----------------------------------------------------------------------------
(* Properties.                                                             *)

\* A verification link keeps working until it has been used: of two
\* registrations with one address, the one that loses does not replace the
\* token the other has mailed.  And no registration finds the token gone that
\* it has written, so VERIFICATION_TOKEN_MISSING is never thrown.
MailedLinkWorks ==
  /\ \A link \in mailed : \E u \in Users :
       /\ users[u].email = link[1]
       /\ users[u].active \/ users[u].token = link[2]
  /\ \A r \in Requests : At(r, "readToken") =>
       \E u \in Users : users[u].email = job[r].email /\ users[u].token # None

\* Whether an invitation was bound to a user or waits under his address makes
\* no difference: a verified user sees and may answer the open invitations to
\* his address and no others, though he verifies while one is being created,
\* resent or answered, or the binding is lost in a crash.
InvitationsReachTheirOwner ==
  \A u \in Users, i \in Invitations :
    /\ users[u].active /\ Open(i) =>
         LET his == invitations[i].email = users[u].email
         IN  (Listed(i, u) <=> his) /\ (Belongs(i, u) <=> his)
    /\ answered[i] = u => invitations[i].email = users[u].email

\* A token that is written is also sent, unless the request breaks off and its
\* client learns so, or another request replaces it.
LinkIsSent ==
  /\ \A u \in Users, e \in Emails :
       users[u].email = e ~> e \in lost \/ \E t \in Tokens : <<e, t>> \in mailed
  /\ \A i \in Invitations, r \in Requests :
       invitations[i].token = r ~> i \in lost \cup invited \/ invitations[i].token # r
=============================================================================
