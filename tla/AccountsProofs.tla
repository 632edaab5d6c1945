--------------------------- MODULE AccountsProofs ---------------------------
(***************************************************************************)
(* Proofs about Accounts, for any number of requests, users, addresses,    *)
(* tokens and invitations: types, and the two safety properties that the   *)
(* run accounts checks.                                                    *)
(*                                                                         *)
(* Behind both is that an address has one user and that rows which name a  *)
(* user name one with the right address (RowsInv).  A mailed link works    *)
(* because a verification token changes only when it is used, and can be   *)
(* used only after it was mailed: until a registration has mailed its      *)
(* token, nobody else has mailed or is using one for the same address      *)
(* (WriterOK).                                                             *)
(***************************************************************************)
EXTENDS Accounts, TLAPS

Writing(r) == job[r].at \in {"readToken", "sendMail"}

Answering(r) == job[r].at \in {"answer", "markExpired"}

\* The rows agree with each other.
RowsInv ==
  /\ \A u, v \in Users :
       users[u].email # None /\ users[u].email = users[v].email => u = v
  /\ \A i \in Invitations :
       /\ invitations[i].status # None => invitations[i].email # None
       /\ invitations[i].status = None =>
            invitations[i].invitee = None /\ answered[i] = None
       /\ invitations[i].invitee # None =>
            users[invitations[i].invitee].email = invitations[i].email
       /\ answered[i] # None => users[answered[i]].email = invitations[i].email

LinksInv ==
  \A e \in Emails, t \in Tokens : <<e, t>> \in mailed =>
    \E u \in Users : users[u].email = e /\ (users[u].active \/ users[u].token = t)

FieldsOK(r) ==
  /\ job[r].at \in {"createUser", "readToken", "sendMail", "insert"} =>
       job[r].email \in Emails
  /\ At(r, "sendMail") => job[r].token \in Tokens
  /\ job[r].at \in {"findToken", "activate", "bind", "answer", "markExpired"} =>
       job[r].user \in Users
  /\ job[r].at \in {"resend", "sendInvitation", "answer", "markExpired"} =>
       job[r].invitation \in Invitations

\* A registration that has not mailed its token is the only one of its address.
WriterOK(r) ==
  Writing(r) =>
    /\ \E u \in Users :
         /\ users[u].email = job[r].email
         /\ users[u].token # None
         /\ At(r, "sendMail") => users[u].token = job[r].token
    /\ \A t \in Tokens : <<job[r].email, t>> \notin mailed
    /\ \A q \in Requests : q # r /\ Writing(q) => job[q].email # job[r].email

\* Whoever verifies has the mail.
VerifierOK(r) ==
  job[r].at \in {"findToken", "activate", "bind"} =>
    /\ users[job[r].user].email \in Emails
    /\ \E t \in Tokens : <<users[job[r].user].email, t>> \in mailed

InviterOK(r) ==
  At(r, "insert") /\ job[r].user # None => users[job[r].user].email = job[r].email

AnswererOK(r) ==
  Answering(r) =>
    /\ invitations[job[r].invitation].status # None
    /\ users[job[r].user].email = invitations[job[r].invitation].email

JobOK(r) == FieldsOK(r) /\ WriterOK(r) /\ VerifierOK(r) /\ InviterOK(r) /\ AnswererOK(r)

Inv ==
  /\ TypeOK
  /\ RowsInv
  /\ LinksInv
  /\ \A r \in Requests : JobOK(r)

-----------------------------------------------------------------------------
(* Types.                                                                  *)

LEMMA InitInv == Init => Inv
BY AccountsAssumption
   DEF Init, Inv, TypeOK, User, Invitation, Idle, Job, Places, RowsInv, LinksInv, JobOK,
       FieldsOK, WriterOK, VerifierOK, InviterOK, AnswererOK, Answering, Writing, At

LEMMA IdleType == Idle \in Job
BY DEF Idle, Job, Places

LEMMA GotoType ==
  ASSUME TypeOK, NEW r \in Requests, NEW place \in Places, Goto(r, place)
  PROVE  job' \in [Requests -> Job]
BY DEF TypeOK, Goto, Job

LEMMA FinishType ==
  ASSUME TypeOK, NEW r \in Requests, Finish(r)
  PROVE  job' \in [Requests -> Job]
BY IdleType DEF TypeOK, Finish

LEMMA ArriveType ==
  ASSUME TypeOK, NEW r \in Requests, Arrive(r)
  PROVE  TypeOK'
<1> SUFFICES ASSUME NEW j \in Job, job' = [job EXCEPT ![r] = j],
                    UNCHANGED <<users, invitations, mailed, invited, answered, lost>>
             PROVE  TypeOK'
  <2>1. \A e \in Emails : [Idle EXCEPT !.at = "createUser", !.email = e] \in Job
    BY DEF Idle, Job, Places
  <2>2. \A e \in Emails, u \in Users \cup {None} :
          [Idle EXCEPT !.at = "insert", !.email = e, !.user = u] \in Job
    BY DEF Idle, Job, Places
  <2>3. \A u \in Users, t \in Tokens :
          [Idle EXCEPT !.at = "findToken", !.user = u, !.token = t] \in Job
    BY DEF Idle, Job, Places
  <2>4. \A i \in Invitations : [Idle EXCEPT !.at = "resend", !.invitation = i] \in Job
    BY DEF Idle, Job, Places
  <2>5. \A u \in Users, i \in Invitations, place \in {"answer", "markExpired"} :
          [Idle EXCEPT !.at = place, !.user = u, !.invitation = i] \in Job
    BY DEF Idle, Job, Places
  <2> QED BY <2>1, <2>2, <2>3, <2>4, <2>5
     DEF Arrive, RegisterCheck, InviteCheck, VerifyCheck, ResendCheck, AnswerCheck, Begin,
         ActiveAt, RegisterDto, CreateInvitationDto, VerifyAccountDto
<1> QED BY DEF TypeOK

LEMMA StepType ==
  ASSUME Inv, NEW r \in Requests, Step(r)
  PROVE  TypeOK'
<1> USE DEF Inv
<1>1. CASE \E u \in Users, t \in Tokens : CreateUser(r, u, t)
  <2>1. job[r].email \in Emails
    BY <1>1 DEF JobOK, FieldsOK, CreateUser, At
  <2> QED BY <1>1, <2>1, GotoType DEF TypeOK, CreateUser, User, Places
<1>2. CASE ReadToken(r)
  <2>1. PICK u \in Users :
          /\ users[u].token # None
          /\ job' = [job EXCEPT ![r] = [@ EXCEPT !.at = "sendMail", !.token = users[u].token]]
    BY <1>2 DEF ReadToken
  <2>2. users[u].token \in Tokens
    BY <2>1 DEF TypeOK, User
  <2>3. [job[r] EXCEPT !.at = "sendMail", !.token = users[u].token] \in Job
    BY <2>2 DEF TypeOK, Job, Places
  <2> QED BY <1>2, <2>1, <2>3 DEF TypeOK, ReadToken
<1>3. CASE SendMail(r)
  <2>1. job[r].email \in Emails /\ job[r].token \in Tokens
    BY <1>3 DEF JobOK, FieldsOK, SendMail, At
  <2> QED BY <1>3, <2>1, FinishType DEF TypeOK, SendMail
<1>4. CASE FindToken(r)
  BY <1>4, FinishType, GotoType DEF TypeOK, FindToken, Places
<1>5. CASE Activate(r)
  BY <1>5, GotoType DEF TypeOK, Activate, User, Places
<1>6. CASE Bind(r)
  <2>1. job[r].user \in Users
    BY <1>6 DEF JobOK, FieldsOK, Bind, At
  <2> QED BY <1>6, <2>1, FinishType DEF TypeOK, Bind, Invitation
<1>7. CASE \E i \in Invitations : InsertInvitation(r, i)
  <2>1. PICK i \in Invitations : InsertInvitation(r, i)
    BY <1>7
  <2>2. job[r].email \in Emails /\ job[r].user \in Users \cup {None}
    BY <2>1 DEF JobOK, FieldsOK, TypeOK, Job, InsertInvitation, At
  <2>3. [Idle EXCEPT !.at = "sendInvitation", !.invitation = i] \in Job
    BY DEF Idle, Job, Places
  <2> QED BY <2>1, <2>2, <2>3 DEF TypeOK, InsertInvitation, Invitation
<1>8. CASE Resend(r)
  BY <1>8, GotoType DEF TypeOK, Resend, Renew, Invitation, Places
<1>9. CASE SendInvitationEmail(r)
  <2>1. job[r].invitation \in Invitations
    BY <1>9 DEF JobOK, FieldsOK, SendInvitationEmail, At
  <2> QED BY <1>9, <2>1, FinishType DEF TypeOK, SendInvitationEmail, Current
<1>10. CASE Answer(r)
  <2>1. job[r].user \in Users
    BY <1>10 DEF JobOK, FieldsOK, Answer, At
  <2> QED BY <1>10, <2>1, FinishType DEF TypeOK, Answer, Invitation
<1>11. CASE MarkExpired(r)
  BY <1>11, FinishType DEF TypeOK, MarkExpired, Invitation
<1> QED BY <1>1, <1>2, <1>3, <1>4, <1>5, <1>6, <1>7, <1>8, <1>9, <1>10, <1>11 DEF Step

LEMMA FailType ==
  ASSUME Inv, NEW r \in Requests, Fail(r)
  PROVE  TypeOK'
<1>1. lost' \subseteq Emails \cup Invitations
  <2>1. CASE job[r].at \in {"readToken", "sendMail"}
    BY <2>1 DEF Inv, TypeOK, JobOK, FieldsOK, Fail, At
  <2>2. CASE At(r, "sendInvitation")
    BY <2>2 DEF Inv, TypeOK, JobOK, FieldsOK, Fail, At, Current
  <2>3. CASE ~(job[r].at \in {"readToken", "sendMail"}) /\ ~At(r, "sendInvitation")
    BY <2>3 DEF Inv, TypeOK, Fail
  <2> QED BY <2>1, <2>2, <2>3
<1> QED BY <1>1, FinishType DEF Inv, TypeOK, Fail

LEMMA OthersType ==
  ASSUME TypeOK, Others
  PROVE  TypeOK'
<1>1. PICK i \in Invitations : Lapse(i) \/ Expire(i) \/ Revoke(i)
  BY DEF Others
<1>2. \A x \in BOOLEAN, y \in {"EXPIRED", "CLOSED"} :
        /\ [invitations[i] EXCEPT !.late = x] \in Invitation
        /\ [invitations[i] EXCEPT !.status = y] \in Invitation
  BY DEF TypeOK, Invitation
<1>3. CASE Lapse(i)
  BY <1>2, <1>3 DEF TypeOK, Lapse
<1>4. CASE Expire(i)
  BY <1>2, <1>4 DEF TypeOK, Expire
<1>5. CASE Revoke(i)
  BY <1>2, <1>5 DEF TypeOK, Revoke
<1> QED BY <1>1, <1>3, <1>4, <1>5

-----------------------------------------------------------------------------
(* The invariant.                                                          *)

Agree == RowsInv /\ LinksInv /\ \A r \in Requests : JobOK(r)

\* A step that reads rows at most.
LEMMA JobOnly ==
  ASSUME Inv, NEW r \in Requests, NEW j \in Job,
         job' = [job EXCEPT ![r] = j],
         UNCHANGED <<users, invitations, mailed, answered>>,
         JobOK(r)',
         j.at \in {"readToken", "sendMail"} => Writing(r) /\ j.email = job[r].email
  PROVE  Agree'
<1> USE DEF Inv, TypeOK
<1>1. RowsInv' /\ LinksInv'
  BY DEF RowsInv, LinksInv
<1>2. ASSUME NEW q \in Requests, q # r
      PROVE  JobOK(q)'
  <2>1. job'[q] = job[q] /\ job'[r] = j
    BY <1>2
  <2>2. FieldsOK(q)' /\ VerifierOK(q)' /\ InviterOK(q)' /\ AnswererOK(q)'
    BY <2>1 DEF JobOK, FieldsOK, VerifierOK, InviterOK, AnswererOK, Answering, At
  <2>3. ASSUME Writing(q)', NEW p \in Requests, p # q, Writing(p)'
        PROVE  job'[p].email # job'[q].email
    BY <2>1, <2>3 DEF JobOK, WriterOK, Writing
  <2>4. WriterOK(q)'
    BY <2>1, <2>3 DEF JobOK, WriterOK, Writing, At
  <2> QED BY <2>2, <2>4 DEF JobOK
<1> QED BY <1>1, <1>2 DEF Agree

\* A step that changes at most the state, the term or the token of invitations that exist.
LEMMA StatusOnly ==
  ASSUME Inv,
         \A i \in Invitations :
           /\ invitations'[i].email = invitations[i].email
           /\ invitations'[i].invitee = invitations[i].invitee
           /\ invitations'[i].status = None <=> invitations[i].status = None,
         UNCHANGED <<users, mailed, job, answered>>
  PROVE  Agree'
<1> USE DEF Inv, TypeOK
<1>1. RowsInv' /\ LinksInv'
  BY DEF RowsInv, LinksInv
<1>2. ASSUME NEW q \in Requests
      PROVE  JobOK(q)'
  <2>1. FieldsOK(q)' /\ VerifierOK(q)' /\ InviterOK(q)'
    BY DEF JobOK, FieldsOK, VerifierOK, InviterOK, At
  <2>3. WriterOK(q)'
    BY DEF JobOK, WriterOK, At, Writing
  <2>2. AnswererOK(q)'
    BY DEF JobOK, FieldsOK, AnswererOK, Answering, At
  <2> QED BY <2>1, <2>2, <2>3 DEF JobOK
<1> QED BY <1>1, <1>2 DEF Agree

\* A step that also ends its request, or takes it to a place without obligations.
LEMMA IdleOK ==
  ASSUME NEW r \in Requests, job[r]' = Idle
  PROVE  JobOK(r)'
BY DEF Idle, JobOK, FieldsOK, WriterOK, VerifierOK, InviterOK, AnswererOK, Answering, At,
       Writing

LEMMA FinishAgrees ==
  ASSUME Inv, NEW r \in Requests, Finish(r),
         UNCHANGED <<users, invitations, mailed, answered>>
  PROVE  Agree'
<1>1. job[r]' = Idle
  BY DEF Inv, TypeOK, Finish
<1>2. Idle.at \notin {"readToken", "sendMail"}
  BY DEF Idle
<1> QED BY <1>1, <1>2, IdleType, IdleOK, JobOnly DEF Finish

LEMMA ArriveAgrees ==
  ASSUME Inv, NEW r \in Requests, Arrive(r)
  PROVE  Agree'
<1> USE DEF Inv
<1>1. CASE \E dto \in RegisterDto : RegisterCheck(r, dto.email)
  <2>1. PICK e \in Emails : RegisterCheck(r, e)
    BY <1>1 DEF RegisterDto
  <2> DEFINE j == [Idle EXCEPT !.at = "createUser", !.email = e]
  <2>2. j \in Job /\ j.at = "createUser" /\ j.email = e
    BY DEF Idle, Job, Places
  <2>3. job' = [job EXCEPT ![r] = j] /\ job[r]' = j
    BY <2>1 DEF RegisterCheck, Begin, TypeOK
  <2> HIDE DEF j
  <2>4. JobOK(r)'
    BY <2>2, <2>3
       DEF JobOK, FieldsOK, WriterOK, VerifierOK, InviterOK, AnswererOK, Answering, At, Writing
  <2> QED BY <2>1, <2>2, <2>3, <2>4, JobOnly DEF RegisterCheck
<1>2. CASE \E dto \in CreateInvitationDto : InviteCheck(r, dto.email)
  <2>1. PICK e \in Emails : InviteCheck(r, e)
    BY <1>2 DEF CreateInvitationDto
  <2>2. PICK u \in IF ActiveAt(e) = {} THEN {None} ELSE ActiveAt(e) :
          Begin(r, [Idle EXCEPT !.at = "insert", !.email = e, !.user = u])
    BY <2>1 DEF InviteCheck
  <2>3. u = None \/ (u \in Users /\ users[u].email = e)
    BY <2>2 DEF ActiveAt
  <2> DEFINE j == [Idle EXCEPT !.at = "insert", !.email = e, !.user = u]
  <2>4. j \in Job /\ j.at = "insert" /\ j.email = e /\ j.user = u
    BY <2>3 DEF Idle, Job, Places
  <2>5. job' = [job EXCEPT ![r] = j] /\ job[r]' = j
    BY <2>2 DEF Begin, TypeOK
  <2> HIDE DEF j
  <2>6. UNCHANGED <<users, invitations, mailed, answered>>
    BY <2>1 DEF InviteCheck
  <2>7. JobOK(r)'
    BY <2>3, <2>4, <2>5, <2>6
       DEF JobOK, FieldsOK, WriterOK, VerifierOK, InviterOK, AnswererOK, Answering, At, Writing
  <2> QED BY <2>4, <2>5, <2>6, <2>7, JobOnly
<1>3. CASE \E dto \in VerifyAccountDto : VerifyCheck(r, dto.email, dto.token)
  <2>1. PICK e \in Emails, t \in Tokens : VerifyCheck(r, e, t)
    BY <1>3 DEF VerifyAccountDto
  <2>2. PICK u \in Users :
          /\ users[u].email = e
          /\ Begin(r, [Idle EXCEPT !.at = "findToken", !.user = u, !.token = t])
    BY <2>1 DEF VerifyCheck
  <2> DEFINE j == [Idle EXCEPT !.at = "findToken", !.user = u, !.token = t]
  <2>3. j \in Job /\ j.at = "findToken" /\ j.user = u
    BY DEF Idle, Job, Places
  <2>4. job' = [job EXCEPT ![r] = j] /\ job[r]' = j
    BY <2>2 DEF Begin, TypeOK
  <2> HIDE DEF j
  <2>5. UNCHANGED <<users, invitations, mailed, answered>> /\ <<e, t>> \in mailed
    BY <2>1 DEF VerifyCheck
  <2>6. JobOK(r)'
    BY <2>2, <2>3, <2>4, <2>5
       DEF JobOK, FieldsOK, WriterOK, VerifierOK, InviterOK, AnswererOK, Answering, At, Writing
  <2> QED BY <2>3, <2>4, <2>5, <2>6, JobOnly
<1>4. CASE \E i \in Invitations : ResendCheck(r, i)
  <2>1. PICK i \in Invitations : ResendCheck(r, i)
    BY <1>4
  <2> DEFINE j == [Idle EXCEPT !.at = "resend", !.invitation = i]
  <2>2. j \in Job /\ j.at = "resend" /\ j.invitation = i
    BY DEF Idle, Job, Places
  <2>3. job' = [job EXCEPT ![r] = j] /\ job[r]' = j
    BY <2>1 DEF ResendCheck, Begin, TypeOK
  <2> HIDE DEF j
  <2>4. JobOK(r)'
    BY <2>2, <2>3
       DEF JobOK, FieldsOK, WriterOK, VerifierOK, InviterOK, AnswererOK, Answering, At, Writing
  <2> QED BY <2>1, <2>2, <2>3, <2>4, JobOnly DEF ResendCheck
<1>5. CASE \E u \in Users, i \in Invitations : AnswerCheck(r, u, i)
  <2>1. PICK u \in Users, i \in Invitations : AnswerCheck(r, u, i)
    BY <1>5
  <2> DEFINE j == [Idle EXCEPT !.at = IF Open(i) THEN "answer" ELSE "markExpired",
                               !.user = u, !.invitation = i]
  <2>2. j \in Job /\ j.at \in {"answer", "markExpired"} /\ j.user = u /\ j.invitation = i
    BY DEF Idle, Job, Places
  <2>3. job' = [job EXCEPT ![r] = j] /\ job[r]' = j
    BY <2>1 DEF AnswerCheck, Begin, TypeOK
  <2> HIDE DEF j
  <2>4. UNCHANGED <<users, invitations, mailed, answered>>
    BY <2>1 DEF AnswerCheck
  <2>5. invitations[i].status # None /\ users[u].email = invitations[i].email
    <3>1. invitations[i].status # None
      BY <2>1, AccountsAssumption DEF AnswerCheck
    <3>2. CASE invitations[i].invitee = None
      BY <2>1, <3>1, <3>2 DEF AnswerCheck, Belongs
    <3>3. CASE invitations[i].invitee # None
      BY <2>1, <3>1, <3>3 DEF AnswerCheck, Belongs, RowsInv
    <3> QED BY <3>1, <3>2, <3>3
  <2>6. JobOK(r)'
    BY <2>2, <2>3, <2>4, <2>5
       DEF JobOK, FieldsOK, WriterOK, VerifierOK, InviterOK, AnswererOK, Answering, At, Writing
  <2> QED BY <2>2, <2>3, <2>4, <2>6, JobOnly
<1> QED BY <1>1, <1>2, <1>3, <1>4, <1>5 DEF Arrive

\* Free(e) rules out that somebody registers with e at the moment.
LEMMA CreateUserAgrees ==
  ASSUME Inv, NEW r \in Requests, NEW u \in Users, NEW t \in Tokens, CreateUser(r, u, t)
  PROVE  Agree'
<1> USE DEF Inv, TypeOK
<1> DEFINE e == job[r].email
<1>1. e \in Emails /\ e # None /\ t # None
  BY AccountsAssumption DEF JobOK, FieldsOK, CreateUser, At
<1>2. /\ users'[u].email = e /\ ~users'[u].active /\ users'[u].token = t
      /\ \A v \in Users \ {u} : users'[v] = users[v]
      /\ users[u].email = None
      /\ \A v \in Users : users[v].email # e
      /\ UNCHANGED <<invitations, mailed, answered>>
  BY DEF CreateUser, Registered, Free
<1>3. /\ job'[r].at = "readToken" /\ job'[r].email = e
      /\ \A q \in Requests \ {r} : job'[q] = job[q]
  BY DEF CreateUser, Goto, Job
<1> HIDE DEF e
<1>4. \A v \in Users : users[v].email # None => users'[v] = users[v]
  BY <1>2
<1>5. RowsInv'
  <2>1. ASSUME NEW v \in Users, NEW w \in Users,
               users'[v].email # None, users'[v].email = users'[w].email
        PROVE  v = w
    BY <1>1, <1>2, <2>1 DEF RowsInv
  <2>2. ASSUME NEW i \in Invitations
        PROVE  /\ invitations[i].invitee # None =>
                    users'[invitations[i].invitee].email = invitations[i].email
               /\ answered[i] # None => users'[answered[i]].email = invitations[i].email
    <3>1. invitations[i].invitee \in Users \cup {None} /\ answered[i] \in Users \cup {None}
      BY DEF Invitation
    <3> QED BY <3>1, <1>4 DEF RowsInv
  <2> QED BY <1>2, <2>1, <2>2 DEF RowsInv
<1>6. LinksInv'
  <2>1. ASSUME NEW f \in Emails, NEW x \in Tokens, <<f, x>> \in mailed
        PROVE  \E v \in Users : users'[v].email = f /\ (users'[v].active \/ users'[v].token = x)
    <3>1. PICK v \in Users : users[v].email = f /\ (users[v].active \/ users[v].token = x)
      BY <2>1 DEF LinksInv
    <3>2. f # None
      BY AccountsAssumption
    <3> QED BY <3>1, <3>2, <1>4
  <2> QED BY <2>1, <1>2 DEF LinksInv
<1>7. \A x \in Tokens : <<e, x>> \notin mailed
  BY <1>1, <1>2 DEF LinksInv
<1>8. ASSUME NEW q \in Requests, q # r
      PROVE  JobOK(q)'
  <2>1. job'[q] = job[q] /\ job[q] \in Job
    BY <1>3, <1>8
  <2>2. FieldsOK(q)'
    BY <2>1 DEF JobOK, FieldsOK, At
  <2>3. WriterOK(q)'
    <3>1. CASE Writing(q)
      <4>1. PICK v \in Users :
              /\ users[v].email = job[q].email
              /\ users[v].token # None
              /\ At(q, "sendMail") => users[v].token = job[q].token
        BY <3>1 DEF JobOK, WriterOK
      <4>2. job[q].email # None
        BY <3>1, AccountsAssumption DEF JobOK, FieldsOK, Writing
      <4>3. users'[v] = users[v] /\ job[q].email # e
        BY <4>1, <4>2, <1>2, <1>4
      <4>4. \A p \in Requests : p # q /\ Writing(p)' => job'[p].email # job[q].email
        BY <3>1, <4>3, <1>3 DEF JobOK, WriterOK, Writing
      <4> QED BY <3>1, <4>1, <4>3, <4>4, <2>1, <1>2 DEF JobOK, WriterOK, Writing, At
    <3>2. CASE ~Writing(q)
      BY <3>2, <2>1 DEF WriterOK, Writing
    <3> QED BY <3>1, <3>2
  <2>4. VerifierOK(q)'
    <3>1. CASE job[q].at \in {"findToken", "activate", "bind"}
      <4>1. job[q].user \in Users /\ users[job[q].user].email # None
        BY <3>1, AccountsAssumption DEF JobOK, FieldsOK, VerifierOK
      <4> QED BY <3>1, <4>1, <2>1, <1>2, <1>4 DEF JobOK, VerifierOK
    <3>2. CASE job[q].at \notin {"findToken", "activate", "bind"}
      BY <3>2, <2>1 DEF VerifierOK
    <3> QED BY <3>1, <3>2
  <2>5. InviterOK(q)'
    <3>1. CASE At(q, "insert") /\ job[q].user # None
      <4>1. job[q].user \in Users /\ users[job[q].user].email # None
        BY <3>1, AccountsAssumption DEF JobOK, FieldsOK, InviterOK, Job, At
      <4> QED BY <3>1, <4>1, <2>1, <1>4 DEF JobOK, InviterOK
    <3>2. CASE ~(At(q, "insert") /\ job[q].user # None)
      BY <3>2, <2>1 DEF InviterOK, At
    <3> QED BY <3>1, <3>2
  <2>6. AnswererOK(q)'
    <3>1. CASE Answering(q)
      <4>1. /\ job[q].user \in Users /\ job[q].invitation \in Invitations
            /\ users[job[q].user].email = invitations[job[q].invitation].email
            /\ invitations[job[q].invitation].status # None
        BY <3>1 DEF JobOK, FieldsOK, AnswererOK, Answering, At
      <4>2. users[job[q].user].email # None
        BY <4>1 DEF RowsInv
      <4> QED BY <3>1, <4>1, <4>2, <2>1, <1>2, <1>4 DEF AnswererOK, Answering, At
    <3>2. CASE ~Answering(q)
      BY <3>2, <2>1 DEF AnswererOK, Answering, At
    <3> QED BY <3>1, <3>2
  <2> QED BY <2>2, <2>3, <2>4, <2>5, <2>6 DEF JobOK
<1>9. JobOK(r)'
  <2>1. ASSUME NEW p \in Requests, p # r, Writing(p)'
        PROVE  job'[p].email # e
    <3>1. \E v \in Users : users[v].email = job[p].email
      BY <1>3, <2>1 DEF JobOK, WriterOK, Writing
    <3> QED BY <3>1, <1>2, <1>3, <2>1
  <2>2. WriterOK(r)'
    BY <2>1, <1>1, <1>2, <1>3, <1>7 DEF WriterOK, At
  <2> QED BY <2>2, <1>1, <1>3
     DEF JobOK, FieldsOK, VerifierOK, InviterOK, AnswererOK, Answering, At
<1> QED BY <1>5, <1>6, <1>8, <1>9 DEF Agree

LEMMA ReadTokenAgrees ==
  ASSUME Inv, NEW r \in Requests, ReadToken(r)
  PROVE  Agree'
<1> USE DEF Inv, TypeOK
<1>1. PICK u \in Users :
        /\ users[u].email = job[r].email
        /\ users[u].token # None
        /\ job' = [job EXCEPT ![r] = [@ EXCEPT !.at = "sendMail", !.token = users[u].token]]
  BY DEF ReadToken
<1>2. users[u].token \in Tokens
  BY <1>1 DEF User
<1> DEFINE j == [job[r] EXCEPT !.at = "sendMail", !.token = users[u].token]
<1>3. /\ j \in Job /\ j.at = "sendMail" /\ j.email = job[r].email
      /\ j.token = users[u].token
  BY <1>2 DEF Job, Places
<1>4. job' = [job EXCEPT ![r] = j] /\ job[r]' = j
  BY <1>1
<1> HIDE DEF j
<1>5. /\ UNCHANGED <<users, invitations, mailed, answered>>
      /\ job[r].at = "readToken" /\ Writing(r)
  BY DEF ReadToken, At, Writing
<1>6. WriterOK(r)'
  BY <1>1, <1>3, <1>4, <1>5 DEF JobOK, WriterOK, At, Writing
<1>7. JobOK(r)'
  BY <1>2, <1>3, <1>4, <1>5, <1>6
     DEF JobOK, FieldsOK, VerifierOK, InviterOK, AnswererOK, Answering, At
<1> QED BY <1>3, <1>4, <1>5, <1>7, JobOnly

LEMMA SendMailAgrees ==
  ASSUME Inv, NEW r \in Requests, SendMail(r)
  PROVE  Agree'
<1> USE DEF Inv, TypeOK
<1>1. /\ UNCHANGED <<users, invitations, answered>>
      /\ mailed' = mailed \cup {<<job[r].email, job[r].token>>}
      /\ job[r].at = "sendMail" /\ Writing(r)
      /\ job'[r] = Idle
      /\ \A q \in Requests \ {r} : job'[q] = job[q]
  BY DEF SendMail, At, Writing, Finish
<1>2. RowsInv'
  BY <1>1 DEF RowsInv
<1>3. LinksInv'
  BY <1>1 DEF LinksInv, JobOK, WriterOK, At
<1>4. ASSUME NEW q \in Requests, q # r
      PROVE  JobOK(q)'
  <2>1. job'[q] = job[q]
    BY <1>1, <1>4
  <2>2. FieldsOK(q)' /\ InviterOK(q)' /\ AnswererOK(q)'
    BY <2>1, <1>1 DEF JobOK, FieldsOK, InviterOK, AnswererOK, Answering, At
  <2>3. VerifierOK(q)'
    BY <2>1, <1>1 DEF JobOK, VerifierOK
  <2>4. WriterOK(q)'
    <3>1. Writing(q) => job[q].email # job[r].email
      BY <1>1, <1>4 DEF JobOK, WriterOK
    <3>2. \A p \in Requests : Writing(p)' => Writing(p) /\ job'[p] = job[p]
      BY <1>1 DEF Writing, Idle
    <3> QED BY <3>1, <3>2, <2>1, <1>1 DEF JobOK, WriterOK, Writing, At
  <2> QED BY <2>2, <2>3, <2>4 DEF JobOK
<1> QED BY <1>1, <1>2, <1>3, <1>4, IdleOK DEF Agree

LEMMA FindTokenAgrees ==
  ASSUME Inv, NEW r \in Requests, FindToken(r)
  PROVE  Agree'
<1> USE DEF Inv, TypeOK
<1>1. UNCHANGED <<users, invitations, mailed, answered>> /\ job[r].at = "findToken"
  BY DEF FindToken, At
<1>2. CASE Finish(r)
  BY <1>1, <1>2, FinishAgrees
<1>3. CASE Goto(r, "activate")
  <2> DEFINE j == [job[r] EXCEPT !.at = "activate"]
  <2>1. j \in Job /\ j.at = "activate" /\ j.user = job[r].user
    BY DEF Job, Places
  <2>2. job' = [job EXCEPT ![r] = j] /\ job[r]' = j
    BY <1>3 DEF Goto
  <2> HIDE DEF j
  <2>3. job[r].user \in Users /\ VerifierOK(r)
    BY <1>1 DEF JobOK, FieldsOK
  <2>4. FieldsOK(r)' /\ WriterOK(r)' /\ InviterOK(r)' /\ AnswererOK(r)'
    BY <2>1, <2>2, <2>3 DEF FieldsOK, WriterOK, InviterOK, AnswererOK, Answering, At, Writing
  <2>5. VerifierOK(r)'
    BY <1>1, <2>1, <2>2, <2>3 DEF VerifierOK
  <2>6. JobOK(r)'
    BY <2>4, <2>5 DEF JobOK
  <2> QED BY <1>1, <2>1, <2>2, <2>6, JobOnly
<1> QED BY <1>2, <1>3 DEF FindToken

\* Only the active flag and the token of a user change, and no registration of
\* his address is under way, for his link has been mailed.
LEMMA ActivateAgrees ==
  ASSUME Inv, NEW r \in Requests, Activate(r)
  PROVE  Agree'
<1> USE DEF Inv, TypeOK
<1> DEFINE u == job[r].user
<1>1. /\ UNCHANGED <<invitations, mailed, answered>>
      /\ job[r].at = "activate" /\ u \in Users
      /\ job'[r].at = "bind" /\ job'[r].user = u
      /\ \A q \in Requests \ {r} : job'[q] = job[q]
  BY DEF Activate, At, Goto, Job, JobOK, FieldsOK
<1>2. /\ users'[u].active /\ users'[u].email = users[u].email
      /\ \A v \in Users \ {u} : users'[v] = users[v]
  BY <1>1 DEF Activate, User
<1>3. users[u].email \in Emails /\ \E t \in Tokens : <<users[u].email, t>> \in mailed
  BY <1>1 DEF JobOK, VerifierOK
<1> HIDE DEF u
<1>4. \A v \in Users : users'[v].email = users[v].email
  BY <1>2
<1>5. RowsInv'
  <2>1. \A v, w \in Users : users'[v].email # None /\ users'[v].email = users'[w].email => v = w
    BY <1>4 DEF RowsInv
  <2>2. ASSUME NEW i \in Invitations
        PROVE  /\ invitations[i].invitee # None =>
                    users'[invitations[i].invitee].email = invitations[i].email
               /\ answered[i] # None => users'[answered[i]].email = invitations[i].email
    <3>1. invitations[i].invitee \in Users \cup {None} /\ answered[i] \in Users \cup {None}
      BY DEF Invitation
    <3> QED BY <3>1, <1>4 DEF RowsInv
  <2> QED BY <1>1, <2>1, <2>2 DEF RowsInv
<1>6. LinksInv'
  <2>1. ASSUME NEW f \in Emails, NEW x \in Tokens, <<f, x>> \in mailed
        PROVE  \E v \in Users : users'[v].email = f /\ (users'[v].active \/ users'[v].token = x)
    <3>1. PICK v \in Users : users[v].email = f /\ (users[v].active \/ users[v].token = x)
      BY <2>1 DEF LinksInv
    <3>2. CASE v = u
      BY <3>1, <3>2, <1>2
    <3>3. CASE v # u
      BY <3>1, <3>3, <1>2
    <3> QED BY <3>2, <3>3
  <2> QED BY <2>1, <1>1 DEF LinksInv
<1>7. ASSUME NEW q \in Requests, q # r
      PROVE  JobOK(q)'
  <2>1. job'[q] = job[q] /\ job[q] \in Job
    BY <1>1, <1>7
  <2>2. FieldsOK(q)'
    BY <2>1 DEF JobOK, FieldsOK, At
  <2>3. WriterOK(q)'
    <3>1. CASE Writing(q)
      <4>1. PICK v \in Users :
              /\ users[v].email = job[q].email
              /\ users[v].token # None
              /\ At(q, "sendMail") => users[v].token = job[q].token
        BY <3>1 DEF JobOK, WriterOK
      <4>2. v # u
        BY <3>1, <4>1, <1>3 DEF JobOK, WriterOK
      <4>3. \A p \in Requests : Writing(p)' => Writing(p) /\ job'[p] = job[p]
        BY <1>1 DEF Writing
      <4> QED BY <3>1, <4>1, <4>2, <4>3, <2>1, <1>1, <1>2 DEF JobOK, WriterOK, Writing, At
    <3>2. CASE ~Writing(q)
      BY <3>2, <2>1 DEF WriterOK, Writing
    <3> QED BY <3>1, <3>2
  <2>4. VerifierOK(q)'
    BY <2>1, <1>1, <1>4 DEF JobOK, FieldsOK, VerifierOK
  <2>5. InviterOK(q)'
    BY <2>1, <1>4 DEF JobOK, InviterOK, At, Job
  <2>6. AnswererOK(q)'
    BY <2>1, <1>1, <1>4 DEF JobOK, FieldsOK, AnswererOK, Answering, At
  <2> QED BY <2>2, <2>3, <2>4, <2>5, <2>6 DEF JobOK
<1>8. JobOK(r)'
  BY <1>1, <1>2, <1>3
     DEF JobOK, FieldsOK, WriterOK, VerifierOK, InviterOK, AnswererOK, Answering, At, Writing
<1> QED BY <1>5, <1>6, <1>7, <1>8 DEF Agree

\* A step that writes invitations and keeps the address of those that exist.
LEMMA InvitationStep ==
  ASSUME Inv, NEW r \in Requests, NEW j \in Job,
         job' = [job EXCEPT ![r] = j],
         j.at \notin {"readToken", "sendMail"},
         JobOK(r)',
         RowsInv',
         \A i \in Invitations :
           invitations[i].status # None =>
             /\ invitations'[i].status # None
             /\ invitations'[i].email = invitations[i].email,
         UNCHANGED <<users, mailed>>
  PROVE  Agree'
<1> USE DEF Inv, TypeOK
<1>1. LinksInv'
  BY DEF LinksInv
<1>2. ASSUME NEW q \in Requests, q # r
      PROVE  JobOK(q)'
  <2>1. job'[q] = job[q]
    BY <1>2
  <2>2. FieldsOK(q)' /\ VerifierOK(q)' /\ InviterOK(q)'
    BY <2>1 DEF JobOK, FieldsOK, VerifierOK, InviterOK, At
  <2>3. \A p \in Requests : Writing(p)' => Writing(p) /\ job'[p] = job[p]
    BY DEF Writing
  <2>4. WriterOK(q)'
    BY <2>1, <2>3 DEF JobOK, WriterOK, Writing, At
  <2>5. AnswererOK(q)'
    <3>1. CASE Answering(q)
      <4>1. /\ job[q].invitation \in Invitations
            /\ invitations[job[q].invitation].status # None
            /\ users[job[q].user].email = invitations[job[q].invitation].email
        BY <3>1 DEF JobOK, FieldsOK, AnswererOK, Answering, At
      <4> QED BY <4>1, <2>1 DEF AnswererOK, Answering
    <3>2. CASE ~Answering(q)
      BY <3>2, <2>1 DEF AnswererOK, Answering, At
    <3> QED BY <3>1, <3>2
  <2> QED BY <2>2, <2>4, <2>5 DEF JobOK
<1> QED BY <1>1, <1>2 DEF Agree

LEMMA BindAgrees ==
  ASSUME Inv, NEW r \in Requests, Bind(r)
  PROVE  Agree'
<1> USE DEF Inv, TypeOK
<1>1. /\ UNCHANGED <<users, mailed, answered>>
      /\ job[r].user \in Users
      /\ job' = [job EXCEPT ![r] = Idle] /\ job[r]' = Idle
  BY DEF Bind, At, Finish, JobOK, FieldsOK
<1>2. \A i \in Invitations :
        /\ invitations'[i].status = invitations[i].status
        /\ invitations'[i].email = invitations[i].email
        /\ \/ invitations'[i].invitee = invitations[i].invitee
           \/ /\ invitations'[i].invitee = job[r].user
              /\ invitations[i].status = "PENDING"
              /\ invitations[i].email = users[job[r].user].email
  <2>1. ASSUME NEW i \in Invitations
        PROVE  invitations'[i] =
                 IF Open(i) /\ invitations[i].invitee = None
                      /\ invitations[i].email = users[job[r].user].email
                 THEN [invitations[i] EXCEPT !.invitee = job[r].user]
                 ELSE invitations[i]
    BY DEF Bind
  <2> QED BY <2>1 DEF Open, Invitation
<1>3. RowsInv'
  <2>1. ASSUME NEW i \in Invitations
        PROVE  /\ invitations'[i].status # None => invitations'[i].email # None
               /\ invitations'[i].status = None =>
                    invitations'[i].invitee = None /\ answered[i] = None
               /\ invitations'[i].invitee # None =>
                    users[invitations'[i].invitee].email = invitations'[i].email
               /\ answered[i] # None => users[answered[i]].email = invitations'[i].email
    <3>1. CASE invitations'[i].invitee = invitations[i].invitee
      BY <1>2, <3>1 DEF RowsInv
    <3>2. CASE /\ invitations'[i].invitee = job[r].user
               /\ invitations[i].status = "PENDING"
               /\ invitations[i].email = users[job[r].user].email
      BY <1>2, <3>2, AccountsAssumption DEF RowsInv
    <3> QED BY <1>2, <3>1, <3>2
  <2>2. \A v, w \in Users : users[v].email # None /\ users[v].email = users[w].email => v = w
    BY DEF RowsInv
  <2> QED BY <1>1, <2>1, <2>2 DEF RowsInv
<1>4. Idle.at \notin {"readToken", "sendMail"}
  BY DEF Idle
<1> QED BY <1>1, <1>2, <1>3, <1>4, IdleType, IdleOK, InvitationStep

LEMMA InsertAgrees ==
  ASSUME Inv, NEW r \in Requests, NEW i \in Invitations, InsertInvitation(r, i)
  PROVE  Agree'
<1> USE DEF Inv, TypeOK
<1> DEFINE j == [Idle EXCEPT !.at = "sendInvitation", !.invitation = i]
<1>1. j \in Job /\ j.at = "sendInvitation" /\ j.invitation = i
  BY DEF Idle, Job, Places
<1>2. /\ UNCHANGED <<users, mailed, answered>>
      /\ job' = [job EXCEPT ![r] = j] /\ job[r]' = j
      /\ invitations[i].status = None
      /\ job[r].at = "insert"
  BY DEF InsertInvitation, At
<1>3. /\ invitations'[i].email = job[r].email
      /\ invitations'[i].invitee = job[r].user
      /\ invitations'[i].status = "PENDING"
      /\ \A k \in Invitations \ {i} : invitations'[k] = invitations[k]
  BY DEF InsertInvitation
<1> HIDE DEF j
<1>4. job[r].email # None /\ (job[r].user # None => users[job[r].user].email = job[r].email)
  BY <1>2, AccountsAssumption DEF JobOK, FieldsOK, InviterOK, At
<1>5. answered[i] = None
  BY <1>2 DEF RowsInv
<1>6. RowsInv'
  <2>1. ASSUME NEW k \in Invitations
        PROVE  /\ invitations'[k].status # None => invitations'[k].email # None
               /\ invitations'[k].status = None =>
                    invitations'[k].invitee = None /\ answered[k] = None
               /\ invitations'[k].invitee # None =>
                    users[invitations'[k].invitee].email = invitations'[k].email
               /\ answered[k] # None => users[answered[k]].email = invitations'[k].email
    <3>1. CASE k = i
      BY <1>3, <1>4, <1>5, <3>1, AccountsAssumption
    <3>2. CASE k # i
      BY <1>3, <3>2 DEF RowsInv
    <3> QED BY <3>1, <3>2
  <2>2. \A v, w \in Users : users[v].email # None /\ users[v].email = users[w].email => v = w
    BY DEF RowsInv
  <2> QED BY <1>2, <2>1, <2>2 DEF RowsInv
<1>7. JobOK(r)'
  BY <1>1, <1>2
     DEF JobOK, FieldsOK, WriterOK, VerifierOK, InviterOK, AnswererOK, Answering, At, Writing
<1> QED BY <1>1, <1>2, <1>3, <1>6, <1>7, InvitationStep

LEMMA ResendAgrees ==
  ASSUME Inv, NEW r \in Requests, Resend(r)
  PROVE  Agree'
<1> USE DEF Inv, TypeOK
<1> DEFINE i == job[r].invitation
<1> DEFINE j == [job[r] EXCEPT !.at = "sendInvitation"]
<1>1. j \in Job /\ j.at = "sendInvitation" /\ j.invitation = i
  BY DEF Job, Places
<1>2. /\ UNCHANGED <<users, mailed, answered>>
      /\ job' = [job EXCEPT ![r] = j] /\ job[r]' = j
      /\ i \in Invitations
      /\ invitations[i].status \in {"PENDING", "EXPIRED"}
  BY DEF Resend, Renew, At, Goto, JobOK, FieldsOK
<1>3. /\ invitations'[i].email = invitations[i].email
      /\ invitations'[i].invitee = invitations[i].invitee
      /\ invitations'[i].status = "PENDING"
      /\ \A k \in Invitations \ {i} : invitations'[k] = invitations[k]
  BY <1>2 DEF Resend, Renew, Invitation
<1> HIDE DEF i, j
<1>4. \A k \in Invitations :
        /\ invitations'[k].email = invitations[k].email
        /\ invitations'[k].invitee = invitations[k].invitee
        /\ (invitations'[k].status = None) <=> (invitations[k].status = None)
  BY <1>2, <1>3, AccountsAssumption
<1>5. RowsInv'
  BY <1>2, <1>4 DEF RowsInv
<1>6. JobOK(r)'
  BY <1>1, <1>2
     DEF JobOK, FieldsOK, WriterOK, VerifierOK, InviterOK, AnswererOK, Answering, At, Writing
<1> QED BY <1>1, <1>2, <1>4, <1>5, <1>6, InvitationStep

LEMMA AnswerAgrees ==
  ASSUME Inv, NEW r \in Requests, Answer(r)
  PROVE  Agree'
<1> USE DEF Inv, TypeOK
<1> DEFINE i == job[r].invitation
<1> DEFINE u == job[r].user
<1>1. /\ UNCHANGED <<users, mailed>>
      /\ job' = [job EXCEPT ![r] = Idle] /\ job[r]' = Idle
      /\ i \in Invitations /\ u \in Users
      /\ invitations[i].status = "PENDING"
      /\ users[u].email = invitations[i].email
  BY DEF Answer, At, Finish, JobOK, FieldsOK, AnswererOK, Answering
<1>2. /\ invitations'[i].email = invitations[i].email
      /\ invitations'[i].invitee = invitations[i].invitee
      /\ invitations'[i].status = "CLOSED"
      /\ \A k \in Invitations \ {i} : invitations'[k] = invitations[k]
      /\ answered'[i] = u
      /\ \A k \in Invitations \ {i} : answered'[k] = answered[k]
  BY <1>1 DEF Answer, Invitation
<1> HIDE DEF i, u
<1>3. \A k \in Invitations :
        /\ invitations'[k].email = invitations[k].email
        /\ invitations'[k].invitee = invitations[k].invitee
        /\ (invitations'[k].status = None) <=> (invitations[k].status = None)
  BY <1>1, <1>2, AccountsAssumption
<1>4. RowsInv'
  <2>1. ASSUME NEW k \in Invitations
        PROVE  /\ invitations'[k].status = None => answered'[k] = None
               /\ answered'[k] # None => users[answered'[k]].email = invitations'[k].email
    <3>1. CASE k = i
      BY <1>1, <1>2, <3>1, AccountsAssumption
    <3>2. CASE k # i
      BY <1>2, <3>2 DEF RowsInv
    <3> QED BY <3>1, <3>2
  <2> QED BY <1>1, <1>3, <2>1 DEF RowsInv
<1>5. Idle.at \notin {"readToken", "sendMail"}
  BY DEF Idle
<1> QED BY <1>1, <1>3, <1>4, <1>5, IdleType, IdleOK, InvitationStep

LEMMA MarkExpiredAgrees ==
  ASSUME Inv, NEW r \in Requests, MarkExpired(r)
  PROVE  Agree'
<1> USE DEF Inv, TypeOK
<1> DEFINE i == job[r].invitation
<1>1. /\ UNCHANGED <<users, mailed, answered>>
      /\ job' = [job EXCEPT ![r] = Idle] /\ job[r]' = Idle
      /\ i \in Invitations
      /\ invitations[i].status # None
  BY DEF MarkExpired, At, Finish, JobOK, FieldsOK, AnswererOK, Answering
<1>2. /\ invitations'[i].email = invitations[i].email
      /\ invitations'[i].invitee = invitations[i].invitee
      /\ invitations'[i].status = "EXPIRED"
      /\ \A k \in Invitations \ {i} : invitations'[k] = invitations[k]
  BY <1>1 DEF MarkExpired, Invitation
<1> HIDE DEF i
<1>3. \A k \in Invitations :
        /\ invitations'[k].email = invitations[k].email
        /\ invitations'[k].invitee = invitations[k].invitee
        /\ (invitations'[k].status = None) <=> (invitations[k].status = None)
  BY <1>1, <1>2, AccountsAssumption
<1>4. RowsInv'
  BY <1>1, <1>3 DEF RowsInv
<1>5. Idle.at \notin {"readToken", "sendMail"}
  BY DEF Idle
<1> QED BY <1>1, <1>3, <1>4, <1>5, IdleType, IdleOK, InvitationStep

LEMMA OthersAgree ==
  ASSUME Inv, Others
  PROVE  Agree'
<1>1. PICK i \in Invitations : Lapse(i) \/ Expire(i) \/ Revoke(i)
  BY DEF Others
<1>2. \A k \in Invitations :
        /\ invitations'[k].email = invitations[k].email
        /\ invitations'[k].invitee = invitations[k].invitee
        /\ (invitations'[k].status = None) <=> (invitations[k].status = None)
  BY <1>1, AccountsAssumption DEF Lapse, Expire, Revoke, Inv, TypeOK, Invitation
<1>3. UNCHANGED <<users, mailed, job, answered>>
  BY <1>1 DEF Lapse, Expire, Revoke
<1> QED BY <1>2, <1>3, StatusOnly

\* The invariant is inductive.
LEMMA NextInv ==
  ASSUME Inv, [Next]_vars
  PROVE  Inv'
<1>1. ASSUME NEW r \in Requests, Arrive(r)
      PROVE  Inv'
  BY <1>1, ArriveType, ArriveAgrees DEF Inv, Agree
<1>2. ASSUME NEW r \in Requests, Step(r)
      PROVE  Inv'
  <2>1. SendInvitationEmail(r) => Agree'
    BY FinishAgrees DEF SendInvitationEmail
  <2>2. Agree'
    BY <1>2, <2>1, CreateUserAgrees, ReadTokenAgrees, SendMailAgrees, FindTokenAgrees,
       ActivateAgrees, BindAgrees, InsertAgrees, ResendAgrees, AnswerAgrees,
       MarkExpiredAgrees DEF Step
  <2> QED BY <1>2, <2>2, StepType DEF Inv, Agree
<1>3. ASSUME NEW r \in Requests, Fail(r)
      PROVE  Inv'
  <2>1. Agree'
    BY <1>3, FinishAgrees DEF Fail
  <2> QED BY <1>3, <2>1, FailType DEF Inv, Agree
<1>4. CASE Others
  BY <1>4, OthersType, OthersAgree DEF Inv, Agree
<1>5. CASE UNCHANGED vars
  <2>1. TypeOK'
    BY <1>5 DEF Inv, TypeOK, vars
  <2>2. Agree'
    BY <1>5, StatusOnly DEF vars
  <2> QED BY <2>1, <2>2 DEF Inv, Agree
<1> QED BY <1>1, <1>2, <1>3, <1>4, <1>5 DEF Next

LEMMA Invariance == Spec => []Inv
BY InitInv, NextInv, PTL DEF Spec

-----------------------------------------------------------------------------
(* The theorems.                                                           *)

\* Every variable has its type: in particular the user, address or invitation
\* a request remembers is there when a later statement of it needs it.
THEOREM TypeCorrect == Spec => []TypeOK
BY Invariance, PTL DEF Inv

LEMMA LinksFollow ==
  ASSUME Inv
  PROVE  MailedLinkWorks
<1>1. ASSUME NEW link \in mailed
      PROVE  \E u \in Users :
               users[u].email = link[1] /\ (users[u].active \/ users[u].token = link[2])
  BY DEF Inv, TypeOK, LinksInv
<1>2. ASSUME NEW r \in Requests, At(r, "readToken")
      PROVE  \E u \in Users : users[u].email = job[r].email /\ users[u].token # None
  BY <1>2 DEF Inv, JobOK, WriterOK, Writing, At
<1> QED BY <1>1, <1>2 DEF MailedLinkWorks

\* A verification link keeps working until it has been used, however many
\* registrations, verifications and failures happen at once (AuthService.register,
\* verifyAccount).
THEOREM MailedLinksWork == Spec => []MailedLinkWorks
BY Invariance, LinksFollow, PTL

LEMMA OwnersFollow ==
  ASSUME Inv
  PROVE  InvitationsReachTheirOwner
<1> USE DEF Inv
<1>1. ASSUME NEW u \in Users, NEW i \in Invitations, users[u].active, Open(i)
      PROVE  LET his == invitations[i].email = users[u].email
             IN  (Listed(i, u) <=> his) /\ (Belongs(i, u) <=> his)
  <2>1. invitations[i].email # None
    BY <1>1, AccountsAssumption DEF RowsInv, Open
  <2>2. CASE invitations[i].invitee = None
    BY <1>1, <2>2, AccountsAssumption DEF Listed, Belongs
  <2>3. CASE invitations[i].invitee # None
    <3>1. /\ invitations[i].invitee \in Users
          /\ users[invitations[i].invitee].email = invitations[i].email
      BY <2>3 DEF TypeOK, Invitation, RowsInv
    <3>2. (invitations[i].invitee = u) <=> (invitations[i].email = users[u].email)
      BY <2>1, <3>1 DEF RowsInv
    <3> QED BY <1>1, <2>3, <3>2 DEF Listed, Belongs
  <2> QED BY <2>2, <2>3
<1>2. ASSUME NEW u \in Users, NEW i \in Invitations, answered[i] = u
      PROVE  invitations[i].email = users[u].email
  BY <1>2, AccountsAssumption DEF RowsInv
<1> QED BY <1>1, <1>2 DEF InvitationsReachTheirOwner

\* A verified user sees and may answer exactly the open invitations to his
\* address, bound to him or not (InvitationsService.listMine, accept, decline,
\* AuthService.verifyAccount).
THEOREM InvitationsFindTheirOwner == Spec => []InvitationsReachTheirOwner
BY Invariance, OwnersFollow, PTL
=============================================================================
