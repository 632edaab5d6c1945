------------------------- MODULE InvitationsProofs -------------------------
(* Proofs about Invitations, for any requests, users and invitations.      *)
EXTENDS MCInvitations, FiniteSetTheorems, TLAPS

-----------------------------------------------------------------------------
(* The inductive invariant.  A pending invitation has an offer that nobody *)
(* answered yet; a request remembers its invitation as it still is.        *)

OfferInv ==
  \A i \in Invitations :
    /\ answers[i] <= offers[i]
    /\ Pending(i) => answers[i] < offers[i]

RowInv ==
  \A i \in Used : invitations[i].user \in Users /\ invitations[i].role \in Roles

Sound(j) ==
  /\ j.at \in {"write", "countAdmins", "insert"} => j.user \in Users
  /\ j.at = "insert" => j.role \in Roles
  /\ j.at \in {"accept", "decline", "markExpired"} =>
       /\ j.invitation \in Used
       /\ invitations[j.invitation].user = j.user
       /\ invitations[j.invitation].role = j.role

JobOK(r) == Sound(job[r])

JobInv == \A r \in Requests : JobOK(r)

Inv == TypeOK /\ OfferInv /\ RowInv /\ JobInv

LEMMA IdleType == Idle \in Job
BY DEF Idle, Job, Places

LEMMA FinishJobs ==
  ASSUME TypeOK, NEW r \in Requests, Finish(r)
  PROVE  /\ job' \in [Requests -> Job]
         /\ \A q \in Requests : job'[q] = job[q] \/ job'[q] = Idle
BY IdleType DEF TypeOK, MembersTypeOK, Finish

LEMMA BeginJobs ==
  ASSUME TypeOK, NEW r \in Requests, NEW j \in Job, Begin(r, j)
  PROVE  /\ job' \in [Requests -> Job]
         /\ \A q \in Requests : job'[q] = job[q] \/ job'[q] = j
BY DEF TypeOK, MembersTypeOK, Begin

\* No step changes whom an invitation in use is for, nor its role.
RowsKept ==
  \A i \in Used : /\ i \in Used'
                  /\ invitations'[i].user = invitations[i].user
                  /\ invitations'[i].role = invitations[i].role

LEMMA UsedType == Used \subseteq Invitations
BY DEF Used

LEMMA JobsKept ==
  ASSUME Inv, RowsKept,
         \A q \in Requests : job'[q] = job[q] \/ JobOK(q)'
  PROVE  JobInv'
<1> SUFFICES ASSUME NEW q \in Requests, job'[q] = job[q] PROVE JobOK(q)'
  BY DEF JobInv
<1>1. JobOK(q)
  BY DEF Inv, JobInv
<1> QED BY <1>1 DEF JobOK, Sound, RowsKept

\* The step of a request that only finishes, or that leaves the slots alone.
LEMMA QuietJobs ==
  ASSUME Inv, RowsKept,
         UNCHANGED job \/ \E r \in Requests : Finish(r)
  PROVE  JobInv'
<1>1. \A q \in Requests : job'[q] = job[q] \/ job'[q] = Idle
  BY FinishJobs DEF Inv
<1>2. \A q \in Requests : job'[q] = Idle => JobOK(q)'
  BY DEF JobOK, Sound, Idle
<1> QED BY <1>1, <1>2, JobsKept

\* The step of a request that begins, on unchanged invitations.
LEMMA BeginJobInv ==
  ASSUME Inv, NEW r \in Requests, NEW j \in Job, Begin(r, j), UNCHANGED invitations,
         Sound(j)
  PROVE  JobInv'
<1>1. RowsKept
  BY DEF RowsKept, Used
<1>2. \A q \in Requests : job'[q] = job[q] \/ job'[q] = j
  BY BeginJobs DEF Inv
<1>3. \A q \in Requests : job'[q] = j => JobOK(q)'
  BY DEF JobOK, Sound, Used
<1> QED BY <1>1, <1>2, <1>3, JobsKept

LEMMA UnchangedInvitations ==
  ASSUME Inv, UNCHANGED <<invitations, offers, answers>>
  PROVE  RowInv' /\ OfferInv' /\ RowsKept
BY DEF Inv, RowInv, OfferInv, Pending, Used, RowsKept

LEMMA SetStatusRows ==
  ASSUME Inv, NEW i \in Used, NEW status \in Statuses, SetStatus(i, status)
  PROVE  /\ invitations' \in [Invitations -> Invitation]
         /\ RowInv' /\ RowsKept
         /\ \A k \in Invitations \ {i} : invitations'[k] = invitations[k]
         /\ invitations'[i] = [invitations[i] EXCEPT !.status = status]
<1>1. [invitations[i] EXCEPT !.status = status] \in Invitation
  BY UsedType DEF Inv, TypeOK, Invitation
<1>2. /\ invitations' \in [Invitations -> Invitation]
      /\ \A k \in Invitations \ {i} : invitations'[k] = invitations[k]
      /\ invitations'[i] = [invitations[i] EXCEPT !.status = status]
  BY <1>1, UsedType DEF Inv, TypeOK, SetStatus
<1>3. /\ invitations'[i].user = invitations[i].user
      /\ invitations'[i].role = invitations[i].role
      /\ invitations'[i].status = status
  BY <1>2, UsedType DEF Inv, TypeOK, Invitation
<1>4. status # None
  BY InvitationsAssumption
<1> QED BY <1>2, <1>3, <1>4 DEF RowsKept, RowInv, Used, Inv

LEMMA CountAnswerType ==
  ASSUME Inv, NEW i \in Invitations, CountAnswer(i)
  PROVE  /\ answers' \in [Invitations -> Nat]
         /\ \A k \in Invitations \ {i} : answers'[k] = answers[k]
         /\ answers'[i] = answers[i] + 1
BY DEF Inv, TypeOK, CountAnswer

\* Answering a pending invitation uses up its offer.
LEMMA AnswerOffers ==
  ASSUME Inv, NEW i \in Used, NEW status \in Answered, Pending(i),
         SetStatus(i, status), CountAnswer(i), UNCHANGED offers
  PROVE  OfferInv'
<1>1. /\ \A k \in Invitations \ {i} : invitations'[k] = invitations[k]
      /\ invitations'[i] = [invitations[i] EXCEPT !.status = status]
  BY SetStatusRows DEF Answered, Statuses
<1>2. /\ \A k \in Invitations \ {i} : answers'[k] = answers[k]
      /\ answers'[i] = answers[i] + 1
  BY UsedType, CountAnswerType
<1>3. invitations'[i].status = status
  BY <1>1, UsedType DEF Inv, TypeOK, Invitation
<1>4. ~Pending(i)'
  BY <1>3 DEF Pending, Answered
<1>5. answers[i] \in Nat /\ offers[i] \in Nat /\ answers[i] < offers[i]
  BY UsedType DEF Inv, TypeOK, OfferInv
<1>6. answers'[i] <= offers'[i]
  BY <1>2, <1>5
<1>7. \A k \in Invitations \ {i} :
        /\ answers'[k] <= offers'[k]
        /\ Pending(k)' => answers'[k] < offers'[k]
  BY <1>1, <1>2 DEF Inv, OfferInv, Pending
<1> QED BY <1>4, <1>6, <1>7 DEF OfferInv

\* Expiring what is late, and the clock, touch neither invitee nor role.
LEMMA ExpireInv ==
  ASSUME Inv, NEW mine, ExpireAll(mine), UNCHANGED <<members, job, offers, answers>>
  PROVE  Inv'
<1>1. \A i \in Invitations : [invitations[i] EXCEPT !.status = "EXPIRED"] \in Invitation
  BY DEF Inv, TypeOK, Invitation, Statuses
<1>2. invitations' \in [Invitations -> Invitation]
  BY <1>1 DEF Inv, TypeOK, ExpireAll
<1>3. \A i \in Invitations :
        /\ invitations'[i].user = invitations[i].user
        /\ invitations'[i].role = invitations[i].role
        /\ \/ invitations'[i].status = invitations[i].status
           \/ invitations'[i].status = "EXPIRED" /\ i \in Used
  BY InvitationsAssumption DEF Inv, TypeOK, Invitation, ExpireAll, Pending, Used, Statuses
<1>4. Used' = Used
  BY <1>3, InvitationsAssumption DEF Used, Statuses
<1>5. RowsKept /\ RowInv'
  BY <1>3, <1>4, UsedType DEF RowsKept, RowInv, Inv
<1>6. OfferInv'
  BY <1>3 DEF Inv, OfferInv, Pending
<1>7. JobInv'
  BY <1>5, QuietJobs
<1> QED BY <1>2, <1>5, <1>6, <1>7 DEF Inv, TypeOK, MembersTypeOK

LEMMA LateInv ==
  ASSUME Inv, NEW i \in Invitations, BecomeLate(i)
  PROVE  Inv'
<1>1. [invitations[i] EXCEPT !.late = TRUE] \in Invitation
  BY DEF Inv, TypeOK, Invitation
<1>2. invitations' \in [Invitations -> Invitation]
  BY <1>1 DEF Inv, TypeOK, BecomeLate
<1>3. \A k \in Invitations :
        /\ invitations'[k].user = invitations[k].user
        /\ invitations'[k].role = invitations[k].role
        /\ invitations'[k].status = invitations[k].status
  BY DEF Inv, TypeOK, Invitation, BecomeLate
<1>4. UNCHANGED <<members, job, offers, answers>>
  BY DEF BecomeLate
<1>5. Used' = Used
  BY <1>3 DEF Used
<1>6. RowsKept /\ RowInv' /\ OfferInv'
  BY <1>3, <1>4, <1>5, UsedType DEF RowsKept, RowInv, Inv, OfferInv, Pending
<1>7. JobInv'
  BY <1>4, <1>6, QuietJobs
<1> QED BY <1>2, <1>4, <1>6, <1>7 DEF Inv, TypeOK, MembersTypeOK

LEMMA MembersNextInv ==
  ASSUME Inv, NEW r \in Requests, MembersNext(r) \/ Fail(r),
         UNCHANGED <<invitations, offers, answers>>
  PROVE  Inv'
<1>1. RowInv' /\ OfferInv' /\ RowsKept
  BY UnchangedInvitations
<1>2. ASSUME MembersTypeOK', JobInv' PROVE Inv'
  BY <1>1, <1>2 DEF Inv, TypeOK
<1>3. ASSUME NEW actor \in Users, NEW user \in Users, NEW role \in Roles \cup {None},
             ReadMember(r, actor, user, role)
      PROVE  Inv'
  <2> DEFINE j == [Idle EXCEPT !.user = user, !.role = role,
                     !.at = IF members[user] = "ADMIN" THEN "countAdmins" ELSE "write"]
  <2>1. j \in Job /\ j.at \in {"countAdmins", "write"} /\ j.user = user
    BY DEF Idle, Job, Places
  <2>2. Begin(r, j) /\ UNCHANGED members
    BY <1>3 DEF ReadMember
  <2> HIDE DEF j
  <2>3. Sound(j)
    BY <2>1 DEF Sound
  <2>4. JobInv'
    BY <2>1, <2>2, <2>3, BeginJobInv
  <2> QED BY <1>2, <2>1, <2>2, <2>4, BeginJobs DEF Inv, TypeOK, MembersTypeOK
<1>4. ASSUME CountAdmins(r) PROVE Inv'
  <2>1. job[r] \in Job /\ job[r].user \in Users /\ UNCHANGED members
    BY <1>4 DEF Inv, TypeOK, MembersTypeOK, JobInv, JobOK, Sound, CountAdmins, At
  <2>2. [job[r] EXCEPT !.at = "write"] \in Job
    BY <2>1 DEF Job, Places
  <2>3. job' = [job EXCEPT ![r] = [job[r] EXCEPT !.at = "write"]]
    BY <1>4 DEF CountAdmins, Goto
  <2>4. job' \in [Requests -> Job]
    BY <2>2, <2>3 DEF Inv, TypeOK, MembersTypeOK
  <2>5. job'[r].at = "write" /\ job'[r].user = job[r].user
    BY <2>1, <2>3 DEF Inv, TypeOK, MembersTypeOK, Job
  <2>6. JobOK(r)'
    BY <2>1, <2>5 DEF JobOK, Sound
  <2>7. JobInv'
    BY <2>3, <2>6, <1>1, JobsKept DEF Inv, TypeOK, MembersTypeOK
  <2> QED BY <1>2, <2>1, <2>4, <2>7 DEF Inv, TypeOK, MembersTypeOK
<1>5. ASSUME WriteMember(r) PROVE Inv'
  <2>1. JobInv'
    BY <1>1, <1>5, QuietJobs DEF WriteMember
  <2>2. job[r].role \in Roles \cup {None}
    BY DEF Inv, TypeOK, MembersTypeOK, Job
  <2> QED BY <1>2, <1>5, <2>1, <2>2, FinishJobs DEF Inv, TypeOK, MembersTypeOK, WriteMember
<1>6. ASSUME Fail(r) PROVE Inv'
  <2>1. JobInv'
    BY <1>1, <1>6, QuietJobs DEF Fail
  <2> QED BY <1>2, <1>6, <2>1, FinishJobs DEF Inv, TypeOK, MembersTypeOK, Fail
<1> QED BY <1>3, <1>4, <1>5, <1>6 DEF MembersNext

LEMMA BoardSideInv ==
  ASSUME Inv, NEW r \in Requests, BoardSideNext(r) \/ ResendNext(r)
  PROVE  Inv'
<1>1. ASSUME NEW actor \in Users, NEW user \in Users, NEW role \in Roles,
             InviteCheck(r, actor, user, role)
      PROVE  Inv'
  <2> DEFINE j == [Idle EXCEPT !.at = "insert", !.user = user, !.role = role]
  <2>1. j \in Job /\ j.at = "insert" /\ j.user = user /\ j.role = role
    BY DEF Idle, Job, Places
  <2>2. Begin(r, j) /\ UNCHANGED <<members, invitations, offers, answers>>
    BY <1>1 DEF InviteCheck
  <2> HIDE DEF j
  <2>3. Sound(j)
    BY <2>1 DEF Sound
  <2>4. JobInv'
    BY <2>1, <2>2, <2>3, BeginJobInv
  <2> QED BY <2>1, <2>2, <2>4, BeginJobs, UnchangedInvitations DEF Inv, TypeOK, MembersTypeOK
<1>2. ASSUME NEW i \in Invitations, InviteInsert(r, i) PROVE Inv'
  <2>1. job[r].user \in Users /\ job[r].role \in Roles
    BY <1>2 DEF Inv, JobInv, JobOK, Sound, InviteInsert, At
  <2> DEFINE row == [user |-> job[r].user, role |-> job[r].role,
                     status |-> "PENDING", late |-> FALSE]
  <2>2. row \in Invitation
    BY <2>1 DEF Invitation, Statuses
  <2>3. /\ invitations' = [invitations EXCEPT ![i] = row]
        /\ i \notin Used
        /\ offers' = [offers EXCEPT ![i] = @ + 1]
        /\ UNCHANGED <<members, answers>>
    BY <1>2 DEF InviteInsert
  <2>4. row.user \in Users /\ row.role \in Roles
    BY <2>1
  <2> HIDE DEF row
  <2>5. /\ invitations' \in [Invitations -> Invitation]
        /\ invitations'[i] = row
        /\ \A k \in Invitations \ {i} : invitations'[k] = invitations[k]
    BY <2>2, <2>3 DEF Inv, TypeOK
  <2>6. RowsKept
    BY <2>3, <2>5, UsedType DEF RowsKept, Used
  <2>7. RowInv'
    BY <2>4, <2>5 DEF Inv, RowInv, Used
  <2>8. OfferInv'
    <3>1. \A k \in Invitations : offers[k] \in Nat /\ answers[k] \in Nat
      BY DEF Inv, TypeOK
    <3>2. \A k \in Invitations \ {i} : offers'[k] = offers[k] /\ Pending(k)' = Pending(k)
      BY <2>3, <2>5 DEF Inv, TypeOK, Pending
    <3>3. offers'[i] = offers[i] + 1
      BY <2>3 DEF Inv, TypeOK
    <3> QED BY <2>3, <3>1, <3>2, <3>3 DEF Inv, OfferInv
  <2>9. JobInv'
    BY <1>2, <2>6, QuietJobs DEF InviteInsert
  <2>10. offers' \in [Invitations -> Nat]
    BY <2>3 DEF Inv, TypeOK
  <2>11. job' \in [Requests -> Job]
    BY <1>2, FinishJobs DEF Inv, InviteInsert
  <2> QED BY <2>3, <2>5, <2>7, <2>8, <2>9, <2>10, <2>11 DEF Inv, TypeOK, MembersTypeOK
<1>3. ASSUME NEW i \in Invitations, Revoke(r, i) PROVE Inv'
  <2>1. Pending(i) /\ SetStatus(i, "REVOKED") /\ CountAnswer(i)
    BY <1>3 DEF Revoke
  <2>2. i \in Used
    BY <2>1, InvitationsAssumption DEF Pending, Used, Statuses
  <2>3. UNCHANGED <<members, job, offers>>
    BY <1>3 DEF Revoke
  <2>4. invitations' \in [Invitations -> Invitation] /\ RowInv' /\ RowsKept
    BY <2>1, <2>2, SetStatusRows DEF Statuses
  <2>5. OfferInv'
    BY <2>1, <2>2, <2>3, AnswerOffers DEF Answered
  <2>6. JobInv'
    BY <2>3, <2>4, QuietJobs
  <2> QED BY <2>1, <2>3, <2>4, <2>5, <2>6, CountAnswerType DEF Inv, TypeOK, MembersTypeOK
<1>4. ASSUME NEW actor \in Users, ListForBoard(r, actor) PROVE Inv'
  BY <1>4, ExpireInv DEF ListForBoard
<1>5. ASSUME NEW actor \in Users, NEW i \in Invitations, Resend(r, actor, i) PROVE Inv'
  <2> DEFINE row == [invitations[i] EXCEPT !.status = "PENDING", !.late = FALSE]
  <2>1. /\ invitations' = [invitations EXCEPT ![i] = row]
        /\ offers' = [offers EXCEPT ![i] = @ + 1]
        /\ UNCHANGED <<members, job, answers>>
        /\ invitations[i].status \in {"PENDING", "EXPIRED"}
    BY <1>5 DEF Resend
  <2>2. i \in Used
    BY <2>1, InvitationsAssumption DEF Used, Statuses
  <2>3. /\ row \in Invitation
        /\ row.user = invitations[i].user
        /\ row.role = invitations[i].role
        /\ row.status = "PENDING"
    BY DEF Inv, TypeOK, Invitation, Statuses
  <2> HIDE DEF row
  <2>4. /\ invitations' \in [Invitations -> Invitation]
        /\ invitations'[i] = row
        /\ \A k \in Invitations \ {i} : invitations'[k] = invitations[k]
    BY <2>1, <2>3 DEF Inv, TypeOK
  <2>5. RowsKept
    BY <2>3, <2>4, InvitationsAssumption, UsedType DEF RowsKept, Used, Statuses
  <2>6. RowInv'
    BY <2>2, <2>3, <2>4 DEF Inv, RowInv, Used
  <2>7. OfferInv'
    <3>1. \A k \in Invitations : offers[k] \in Nat /\ answers[k] \in Nat
      BY DEF Inv, TypeOK
    <3>2. \A k \in Invitations \ {i} : offers'[k] = offers[k] /\ Pending(k)' = Pending(k)
      BY <2>1, <2>4 DEF Inv, TypeOK, Pending
    <3>3. offers'[i] = offers[i] + 1
      BY <2>1 DEF Inv, TypeOK
    <3> QED BY <2>1, <3>1, <3>2, <3>3 DEF Inv, OfferInv
  <2>8. JobInv'
    BY <2>1, <2>5, QuietJobs
  <2>9. offers' \in [Invitations -> Nat]
    BY <2>1 DEF Inv, TypeOK
  <2> QED BY <2>1, <2>4, <2>6, <2>7, <2>8, <2>9 DEF Inv, TypeOK, MembersTypeOK
<1> QED BY <1>1, <1>2, <1>3, <1>4, <1>5 DEF BoardSideNext, ResendNext

\* Whatever the status was, an expired invitation awaits no answer.
LEMMA MarkExpiredInv ==
  ASSUME Inv, NEW r \in Requests, NEW i \in Used, SetStatus(i, "EXPIRED"), Finish(r),
         UNCHANGED <<members, offers, answers>>
  PROVE  Inv'
<1>1. /\ invitations' \in [Invitations -> Invitation] /\ RowInv' /\ RowsKept
      /\ \A k \in Invitations \ {i} : invitations'[k] = invitations[k]
      /\ invitations'[i] = [invitations[i] EXCEPT !.status = "EXPIRED"]
  BY SetStatusRows DEF Statuses
<1>2. invitations'[i].status = "EXPIRED"
  BY <1>1, UsedType DEF Inv, TypeOK, Invitation
<1>3. OfferInv'
  BY <1>1, <1>2 DEF Inv, OfferInv, Pending
<1>4. JobInv'
  BY <1>1, QuietJobs
<1> QED BY <1>1, <1>3, <1>4, FinishJobs DEF Inv, TypeOK, MembersTypeOK

LEMMA InviteeInv ==
  ASSUME Inv, NEW r \in Requests, InviteeNext(r)
  PROVE  Inv'
<1> DEFINE i == job[r].invitation
<1>1. ASSUME NEW user \in Users, ListMine(r, user) PROVE Inv'
  BY <1>1, ExpireInv DEF ListMine
<1>2. ASSUME NEW user \in Users, NEW k \in Invitations, NEW answer \in {"accept", "decline"},
             AnswerCheck(r, user, k, answer)
      PROVE  Inv'
  <2> DEFINE j == [Idle EXCEPT !.user = user, !.role = invitations[k].role, !.invitation = k,
                     !.at = IF invitations[k].late THEN "markExpired" ELSE answer]
  <2>1. k \in Used /\ invitations[k].user = user /\ invitations[k].role \in Roles
    BY <1>2, InvitationsAssumption DEF AnswerCheck, Pending, Used, Statuses, Inv, RowInv
  <2>2. /\ j \in Job
        /\ j.at \in {"accept", "decline", "markExpired"}
        /\ j.user = user /\ j.role = invitations[k].role /\ j.invitation = k
    BY <2>1 DEF Idle, Job, Places
  <2>3. Begin(r, j) /\ UNCHANGED <<members, invitations, offers, answers>>
    BY <1>2 DEF AnswerCheck
  <2> HIDE DEF j
  <2>4. Sound(j)
    BY <2>1, <2>2 DEF Sound
  <2>5. JobInv'
    BY <2>2, <2>3, <2>4, BeginJobInv
  <2> QED BY <2>2, <2>3, <2>5, BeginJobs, UnchangedInvitations DEF Inv, TypeOK, MembersTypeOK
<1>3. ASSUME At(r, "accept") \/ At(r, "decline") \/ At(r, "markExpired")
      PROVE  i \in Used /\ i \in Invitations
  BY <1>3, UsedType DEF Inv, JobInv, JobOK, Sound, At
<1>4. ASSUME NEW status \in Answered, i \in Used, i \in Invitations, Pending(i),
             SetStatus(i, status), CountAnswer(i), Finish(r), UNCHANGED offers,
             members' \in [Users -> Roles \cup {None}]
      PROVE  Inv'
  <2> HIDE DEF i
  <2>1. invitations' \in [Invitations -> Invitation] /\ RowInv' /\ RowsKept
    BY <1>4, SetStatusRows DEF Answered, Statuses
  <2>2. OfferInv'
    BY <1>4, AnswerOffers
  <2>3. JobInv'
    BY <1>4, <2>1, QuietJobs
  <2> QED BY <1>4, <2>1, <2>2, <2>3, FinishJobs, CountAnswerType DEF Inv, TypeOK, MembersTypeOK
<1>5. ASSUME Accept(r) PROVE Inv'
  <2>1. job[r].role \in Roles \cup {None}
    BY DEF Inv, TypeOK, MembersTypeOK, Job
  <2>2. members' \in [Users -> Roles \cup {None}]
    BY <1>5, <2>1 DEF Inv, TypeOK, MembersTypeOK, Accept
  <2> QED BY <1>3, <1>4, <1>5, <2>2 DEF Accept, Answered
<1>6. ASSUME Decline(r) PROVE Inv'
  BY <1>3, <1>4, <1>6 DEF Decline, Answered, Inv, TypeOK, MembersTypeOK
<1>7. ASSUME MarkExpired(r) PROVE Inv'
  <2>1. /\ i \in Used
        /\ SetStatus(i, "EXPIRED")
        /\ Finish(r)
        /\ UNCHANGED <<members, offers, answers>>
    BY <1>3, <1>7 DEF MarkExpired
  <2> QED BY <2>1, MarkExpiredInv
<1> HIDE DEF i
<1> QED BY <1>1, <1>2, <1>5, <1>6, <1>7 DEF InviteeNext

LEMMA InitInv == Init => Inv
<1> SUFFICES ASSUME Init PROVE Inv
  OBVIOUS
<1>1. TypeOK
  BY IdleType, UsersAssumption, RolesAssumption
     DEF Init, MembersInit, TypeOK, MembersTypeOK, Invitation
<1>2. Used = {}
  BY DEF Init, Used
<1>3. OfferInv
  BY InvitationsAssumption DEF Init, OfferInv, Pending, Statuses
<1>4. JobInv
  BY DEF Init, MembersInit, JobInv, JobOK, Sound, Idle
<1> QED BY <1>1, <1>2, <1>3, <1>4 DEF Inv, RowInv

LEMMA NextInv == Inv /\ [Next]_vars => Inv'
<1> SUFFICES ASSUME Inv, [Next]_vars PROVE Inv'
  OBVIOUS
<1>1. CASE UNCHANGED vars
  <2>1. RowInv' /\ OfferInv' /\ RowsKept
    BY <1>1, UnchangedInvitations DEF vars
  <2>2. JobInv'
    BY <1>1, <2>1, QuietJobs DEF vars
  <2> QED BY <1>1, <2>1, <2>2 DEF vars, Inv, TypeOK, MembersTypeOK
<1>2. CASE Next
  BY <1>2, MembersNextInv, BoardSideInv, InviteeInv, LateInv DEF Next, FirstOfferNext
<1> QED BY <1>1, <1>2

LEMMA InvAlways == Spec => []Inv
BY InitInv, NextInv, PTL DEF Spec

-----------------------------------------------------------------------------
(* The theorems.                                                           *)

\* Rows, histories and local variables keep their types.
THEOREM InvitationsTypeCorrect == Spec => []TypeOK
<1>1. Inv => TypeOK
  BY DEF Inv
<1> QED BY <1>1, InvAlways, PTL

\* However accept, decline, revoke, resend and expiry race, an offer is
\* answered at most once.
THEOREM OneAnswerPerOffer == Spec => []AnsweredAtMostOnce
<1>1. Inv => AnsweredAtMostOnce
  BY DEF Inv, OfferInv, AnsweredAtMostOnce
<1> QED BY <1>1, InvAlways, PTL

\* Only two writes touch the members.
LEMMA MembersWritten ==
  ASSUME Next, ~UNCHANGED members
  PROVE  \E r \in Requests : WriteMember(r) \/ Accept(r)
BY DEF Next, FirstOfferNext, MembersNext, Fail, ReadMember, CountAdmins, BoardSideNext,
       InviteCheck, InviteInsert, Revoke, ListForBoard, ResendNext, Resend, InviteeNext,
       ListMine, AnswerCheck, Decline, MarkExpired, BecomeLate

LEMMA JoinStep ==
  ASSUME Inv, Next, NEW u \in Users, members[u] = None, members'[u] # None
  PROVE  \E i \in Invitations : JoinsBy(u, i)
<1>1. PICK r \in Requests : WriteMember(r) \/ Accept(r)
  BY MembersWritten
<1>2. members \in [Users -> Roles \cup {None}]
  BY DEF Inv, TypeOK, MembersTypeOK
<1>3. ~WriteMember(r)
  BY <1>2 DEF WriteMember
<1>4. Accept(r)
  BY <1>1, <1>3
<1>5. /\ job[r].invitation \in Used
      /\ invitations[job[r].invitation].user = job[r].user
      /\ invitations[job[r].invitation].role = job[r].role
  BY <1>4 DEF Accept, At, Inv, JobInv, JobOK, Sound
<1>6. PICK i \in Used : i = job[r].invitation
  BY <1>5
<1>7. /\ Pending(i)
      /\ SetStatus(i, "ACCEPTED")
      /\ members' = [members EXCEPT ![job[r].user] = job[r].role]
  BY <1>4, <1>6 DEF Accept
<1>8. u = job[r].user /\ members'[u] = job[r].role
  BY <1>2, <1>7
<1>9. invitations'[i].status = "ACCEPTED"
  BY <1>7, UsedType DEF Inv, TypeOK, Invitation, SetStatus
<1>10. invitations[i] \in Invitation
  BY UsedType DEF Inv, TypeOK
<1>11. invitations[i] = [user |-> u, role |-> members'[u], status |-> "PENDING",
                         late |-> invitations[i].late]
  BY <1>5, <1>6, <1>7, <1>8, <1>10 DEF Invitation, Pending
<1> QED BY <1>9, <1>11, UsedType DEF JoinsBy

\* Whoever becomes a member does so by accepting an invitation of his own that
\* is pending at that moment, and with its role.
THEOREM JoinersWereInvited == Spec => JoinsByPendingInvitation
<1>1. ASSUME Inv, [Next]_vars
      PROVE  [\A u \in Users : (members[u] = None /\ members'[u] # None) =>
                \E i \in Invitations : JoinsBy(u, i)]_vars
  BY <1>1, JoinStep
<1> QED BY <1>1, InvAlways, PTL DEF Spec, JoinsByPendingInvitation

-----------------------------------------------------------------------------
(* One request at a time, and nothing is resent (SerialSpec).  What the    *)
(* request has checked is then still so when it writes.                    *)

OnePending ==
  \A i, k \in Invitations :
    Pending(i) /\ Pending(k) /\ invitations[i].user = invitations[k].user => i = k

StillSo(j) ==
  /\ j.at = "write" /\ members[j.user] = "ADMIN" => \E a \in Admins : a # j.user
  /\ j.at = "insert" => members[j.user] = None
  /\ j.at \in {"accept", "decline", "markExpired"} => Pending(j.invitation)

Sole == \A q, r \in Requests : At(q, "idle") \/ At(r, "idle") \/ q = r

RestInv == BoardHasAdmin /\ PendingInviteeNotMember /\ OnePending

SerialInv == Inv /\ Sole /\ RestInv /\ \A r \in Requests : StillSo(job[r])

LEMMA SerialNextIsNext == SerialNext => Next
BY DEF SerialNext, Next, FirstOfferNext

\* The others are idle, and remember nothing.
LEMMA SerialJobs ==
  ASSUME SerialInv, NEW r \in Requests, Alone(r),
         \A q \in Requests \ {r} : job'[q] = job[q],
         StillSo(job[r])'
  PROVE  Sole' /\ \A q \in Requests : StillSo(job[q])'
<1>1. \A q \in Requests \ {r} : job'[q].at = "idle"
  BY DEF Alone, At
<1> QED BY <1>1 DEF Sole, At, StillSo

LEMMA SerialFinish ==
  ASSUME SerialInv, NEW r \in Requests, Alone(r), Finish(r)
  PROVE  Sole' /\ \A q \in Requests : StillSo(job[q])'
<1>1. /\ \A q \in Requests \ {r} : job'[q] = job[q]
      /\ job'[r] = Idle
  BY DEF Finish, SerialInv, Inv, TypeOK, MembersTypeOK
<1>2. StillSo(job[r])'
  BY <1>1 DEF StillSo, Idle
<1> QED BY <1>1, <1>2, SerialJobs

LEMMA SerialBegin ==
  ASSUME SerialInv, NEW r \in Requests, Alone(r), NEW j \in Job, Begin(r, j),
         UNCHANGED <<members, invitations>>, StillSo(j)
  PROVE  (Sole /\ RestInv)' /\ \A q \in Requests : StillSo(job[q])'
<1>1. /\ \A q \in Requests \ {r} : job'[q] = job[q]
      /\ job'[r] = j
  BY DEF Begin, SerialInv, Inv, TypeOK, MembersTypeOK
<1>2. StillSo(job[r])'
  BY <1>1 DEF StillSo, Admins, Pending
<1>3. RestInv'
  BY DEF SerialInv, RestInv, BoardHasAdmin, Admins, PendingInviteeNotMember, OnePending, Pending
<1> QED BY <1>1, <1>2, <1>3, SerialJobs

\* Members stay as they are, and no invitation becomes pending.
LEMMA RestKept ==
  ASSUME RestInv, UNCHANGED members,
         \A i \in Invitations : /\ Pending(i)' => Pending(i)
                                /\ invitations'[i].user = invitations[i].user
  PROVE  RestInv'
BY DEF RestInv, BoardHasAdmin, Admins, PendingInviteeNotMember, OnePending

LEMMA SetStatusRest ==
  ASSUME SerialInv, NEW i \in Used, NEW status \in Statuses \ {"PENDING"},
         SetStatus(i, status)
  PROVE  \A k \in Invitations : /\ Pending(k)' => Pending(k) /\ k # i
                                /\ invitations'[k].user = invitations[k].user
<1>1. /\ \A k \in Invitations \ {i} : invitations'[k] = invitations[k]
      /\ invitations'[i] = [invitations[i] EXCEPT !.status = status]
  BY SetStatusRows DEF SerialInv
<1>2. invitations'[i].status = status /\ invitations'[i].user = invitations[i].user
  BY <1>1, UsedType DEF SerialInv, Inv, TypeOK, Invitation
<1> QED BY <1>1, <1>2 DEF Pending

\* Listing and the clock.
LEMMA ExpireRest ==
  ASSUME SerialInv, NEW mine, ExpireAll(mine), UNCHANGED members
  PROVE  RestInv'
<1>1. \A i \in Invitations : /\ Pending(i)' => Pending(i)
                             /\ invitations'[i].user = invitations[i].user
  BY DEF ExpireAll, Pending, SerialInv, Inv, TypeOK, Invitation
<1> QED BY <1>1, RestKept DEF SerialInv

\* An idle request stays idle.
LEMMA SerialIdle ==
  ASSUME SerialInv, NEW r \in Requests, Alone(r), At(r, "idle"), UNCHANGED job
  PROVE  Sole' /\ \A q \in Requests : StillSo(job[q])'
<1>1. StillSo(job[r])'
  BY DEF StillSo, At
<1> QED BY <1>1, SerialJobs

LEMMA CountFindsAnother ==
  ASSUME NEW u \in Users, Cardinality(Admins) > 1
  PROVE  \E a \in Admins : a # u
<1> SUFFICES ASSUME Admins \subseteq {u} PROVE FALSE
  OBVIOUS
<1>1. IsFiniteSet({u}) /\ Cardinality({u}) = 1
  BY FS_Singleton
<1>2. Cardinality(Admins) <= 1 /\ IsFiniteSet(Admins)
  BY <1>1, FS_Subset
<1>3. Cardinality(Admins) \in Nat
  BY <1>2, FS_CardinalityType
<1> QED BY <1>2, <1>3

LEMMA SerialMembersNext ==
  ASSUME SerialInv, NEW r \in Requests, Alone(r), MembersNext(r) \/ Fail(r),
         UNCHANGED invitations
  PROVE  (Sole /\ RestInv)' /\ \A q \in Requests : StillSo(job[q])'
<1>1. ASSUME NEW actor \in Users, NEW user \in Users, NEW role \in Roles \cup {None},
             ReadMember(r, actor, user, role)
      PROVE  (Sole /\ RestInv)' /\ \A q \in Requests : StillSo(job[q])'
  <2> DEFINE j == [Idle EXCEPT !.user = user, !.role = role,
                     !.at = IF members[user] = "ADMIN" THEN "countAdmins" ELSE "write"]
  <2>1. /\ j \in Job /\ j.user = user
        /\ j.at = IF members[user] = "ADMIN" THEN "countAdmins" ELSE "write"
    BY DEF Idle, Job, Places
  <2>2. Begin(r, j) /\ UNCHANGED members
    BY <1>1 DEF ReadMember
  <2> HIDE DEF j
  <2>3. StillSo(j)
    BY <2>1 DEF StillSo
  <2> QED BY <2>1, <2>2, <2>3, SerialBegin
<1>2. ASSUME CountAdmins(r)
      PROVE  (Sole /\ RestInv)' /\ \A q \in Requests : StillSo(job[q])'
  <2>1. /\ job[r] \in Job /\ job[r].user \in Users /\ UNCHANGED members
        /\ Cardinality(Admins) > 1
        /\ job' = [job EXCEPT ![r] = [job[r] EXCEPT !.at = "write"]]
    BY <1>2 DEF SerialInv, Inv, TypeOK, MembersTypeOK, JobInv, JobOK, Sound, CountAdmins, At, Goto
  <2>2. /\ job'[r].at = "write" /\ job'[r].user = job[r].user
        /\ \A q \in Requests \ {r} : job'[q] = job[q]
    BY <2>1 DEF SerialInv, Inv, TypeOK, MembersTypeOK, Job
  <2>3. \E a \in Admins : a # job[r].user
    BY <2>1, CountFindsAnother
  <2>4. StillSo(job[r])'
    BY <2>1, <2>2, <2>3 DEF StillSo, Admins
  <2>5. RestInv'
    BY <2>1, RestKept DEF SerialInv, Pending
  <2> QED BY <2>2, <2>4, <2>5, SerialJobs
<1>3. ASSUME WriteMember(r)
      PROVE  (Sole /\ RestInv)' /\ \A q \in Requests : StillSo(job[q])'
  <2>1. /\ job[r].user \in Users
        /\ members[job[r].user] = "ADMIN" => \E a \in Admins : a # job[r].user
    BY <1>3 DEF SerialInv, Inv, JobInv, JobOK, Sound, StillSo, WriteMember, At
  <2>2. members' = [members EXCEPT ![job[r].user] =
                      IF members[job[r].user] = None THEN None ELSE job[r].role]
    BY <1>3 DEF WriteMember
  <2>3. /\ \A u \in Users \ {job[r].user} : members'[u] = members[u]
        /\ \A u \in Users : members[u] = None => members'[u] = None
    BY <2>1, <2>2 DEF SerialInv, Inv, TypeOK, MembersTypeOK
  <2>4. PICK a \in Admins : a # job[r].user
    BY <2>1 DEF SerialInv, RestInv, BoardHasAdmin, Admins
  <2>5. BoardHasAdmin'
    BY <2>3, <2>4 DEF BoardHasAdmin, Admins
  <2>6. \A i \in Invitations : Pending(i) => invitations[i].user \in Users
    BY InvitationsAssumption DEF SerialInv, Inv, RowInv, Used, Pending, Statuses
  <2>7. (PendingInviteeNotMember /\ OnePending)'
    BY <2>3, <2>6 DEF SerialInv, RestInv, PendingInviteeNotMember, OnePending, Pending
  <2> QED BY <1>3, <2>5, <2>7, SerialFinish DEF WriteMember, RestInv
<1>4. ASSUME Fail(r)
      PROVE  (Sole /\ RestInv)' /\ \A q \in Requests : StillSo(job[q])'
  BY <1>4, SerialFinish, RestKept DEF Fail, SerialInv, Pending
<1> QED BY <1>1, <1>2, <1>3, <1>4 DEF MembersNext

LEMMA SerialBoardSideNext ==
  ASSUME SerialInv, NEW r \in Requests, Alone(r), BoardSideNext(r)
  PROVE  (Sole /\ RestInv)' /\ \A q \in Requests : StillSo(job[q])'
<1>1. ASSUME NEW actor \in Users, NEW user \in Users, NEW role \in Roles,
             InviteCheck(r, actor, user, role)
      PROVE  (Sole /\ RestInv)' /\ \A q \in Requests : StillSo(job[q])'
  <2> DEFINE j == [Idle EXCEPT !.at = "insert", !.user = user, !.role = role]
  <2>1. j \in Job /\ j.at = "insert" /\ j.user = user
    BY DEF Idle, Job, Places
  <2>2. Begin(r, j) /\ UNCHANGED <<members, invitations>> /\ members[user] = None
    BY <1>1 DEF InviteCheck
  <2> HIDE DEF j
  <2>3. StillSo(j)
    BY <2>1, <2>2 DEF StillSo
  <2> QED BY <2>1, <2>2, <2>3, SerialBegin
<1>2. ASSUME NEW i \in Invitations, InviteInsert(r, i)
      PROVE  (Sole /\ RestInv)' /\ \A q \in Requests : StillSo(job[q])'
  <2>1. /\ members[job[r].user] = None
        /\ NoOtherPending(i, job[r].user)
        /\ UNCHANGED members
    BY <1>2 DEF SerialInv, StillSo, InviteInsert, At
  <2>2. /\ invitations'[i].user = job[r].user
        /\ \A k \in Invitations \ {i} : invitations'[k] = invitations[k]
    BY <1>2 DEF InviteInsert, SerialInv, Inv, TypeOK
  <2>3. RestInv'
    BY <2>1, <2>2 DEF SerialInv, RestInv, BoardHasAdmin, Admins, PendingInviteeNotMember,
                      OnePending, NoOtherPending, Pending
  <2> QED BY <1>2, <2>3, SerialFinish DEF InviteInsert
<1>3. ASSUME NEW i \in Invitations, Revoke(r, i)
      PROVE  (Sole /\ RestInv)' /\ \A q \in Requests : StillSo(job[q])'
  <2>1. /\ SetStatus(i, "REVOKED") /\ Pending(i)
        /\ UNCHANGED <<members, job>> /\ At(r, "idle")
    BY <1>3 DEF Revoke
  <2>2. i \in Used
    BY <2>1, InvitationsAssumption DEF Pending, Used, Statuses
  <2>3. RestInv'
    BY <2>1, <2>2, SetStatusRest, RestKept DEF SerialInv, Statuses
  <2> QED BY <2>1, <2>3, SerialIdle
<1>4. ASSUME NEW actor \in Users, ListForBoard(r, actor)
      PROVE  (Sole /\ RestInv)' /\ \A q \in Requests : StillSo(job[q])'
  BY <1>4, ExpireRest, SerialIdle DEF ListForBoard
<1> QED BY <1>1, <1>2, <1>3, <1>4 DEF BoardSideNext

LEMMA SerialInviteeNext ==
  ASSUME SerialInv, NEW r \in Requests, Alone(r), InviteeNext(r)
  PROVE  (Sole /\ RestInv)' /\ \A q \in Requests : StillSo(job[q])'
<1>1. ASSUME NEW user \in Users, ListMine(r, user)
      PROVE  (Sole /\ RestInv)' /\ \A q \in Requests : StillSo(job[q])'
  BY <1>1, ExpireRest, SerialIdle DEF ListMine
<1>2. ASSUME NEW user \in Users, NEW k \in Invitations, NEW answer \in {"accept", "decline"},
             AnswerCheck(r, user, k, answer)
      PROVE  (Sole /\ RestInv)' /\ \A q \in Requests : StillSo(job[q])'
  <2> DEFINE j == [Idle EXCEPT !.user = user, !.role = invitations[k].role, !.invitation = k,
                     !.at = IF invitations[k].late THEN "markExpired" ELSE answer]
  <2>1. /\ Begin(r, j) /\ UNCHANGED <<members, invitations>> /\ Pending(k)
        /\ invitations[k].role \in Roles \cup {None}
    BY <1>2 DEF AnswerCheck, SerialInv, Inv, TypeOK, Invitation
  <2>2. j \in Job /\ j.invitation = k /\ j.at \in {"accept", "decline", "markExpired"}
    BY <2>1 DEF Idle, Job, Places
  <2> HIDE DEF j
  <2>3. StillSo(j)
    BY <2>1, <2>2 DEF StillSo
  <2> QED BY <2>1, <2>2, <2>3, SerialBegin
<1>3. ASSUME At(r, "accept") \/ At(r, "decline") \/ At(r, "markExpired")
      PROVE  /\ job[r].invitation \in Used /\ Pending(job[r].invitation)
             /\ invitations[job[r].invitation].user = job[r].user
  BY <1>3 DEF SerialInv, Inv, JobInv, JobOK, Sound, StillSo, At
<1>4. ASSUME Accept(r)
      PROVE  (Sole /\ RestInv)' /\ \A q \in Requests : StillSo(job[q])'
  <2>1. PICK i \in Used : i = job[r].invitation
    BY <1>3, <1>4 DEF Accept
  <2>2. /\ Pending(i) /\ invitations[i].user = job[r].user
        /\ SetStatus(i, "ACCEPTED")
        /\ members' = [members EXCEPT ![job[r].user] = job[r].role]
    BY <1>3, <1>4, <2>1 DEF Accept
  <2>3. i \in Invitations /\ members[job[r].user] = None
    BY <2>2, UsedType DEF SerialInv, RestInv, PendingInviteeNotMember
  <2>4. \A k \in Invitations : /\ Pending(k)' => Pending(k) /\ k # i
                               /\ invitations'[k].user = invitations[k].user
    BY <2>2, SetStatusRest DEF Statuses
  <2>5. \A u \in Users : u # job[r].user => members'[u] = members[u]
    BY <2>2 DEF SerialInv, Inv, TypeOK, MembersTypeOK
  <2>6. BoardHasAdmin'
    <3>1. PICK a \in Admins : a \in Users /\ members[a] = "ADMIN"
      BY DEF SerialInv, RestInv, BoardHasAdmin, Admins
    <3>2. a # job[r].user
      BY <2>3, <3>1, RolesAssumption
    <3> QED BY <2>5, <3>1, <3>2 DEF BoardHasAdmin, Admins
  <2>7. \A k \in Invitations : Pending(k) => invitations[k].user \in Users
    BY InvitationsAssumption DEF SerialInv, Inv, RowInv, Used, Pending, Statuses
  <2>8. OnePending' /\ PendingInviteeNotMember'
    BY <2>2, <2>3, <2>4, <2>5, <2>7 DEF SerialInv, RestInv, OnePending, PendingInviteeNotMember
  <2> QED BY <1>4, <2>6, <2>8, SerialFinish DEF Accept, RestInv
<1>5. ASSUME Decline(r)
      PROVE  (Sole /\ RestInv)' /\ \A q \in Requests : StillSo(job[q])'
  BY <1>3, <1>5, SetStatusRest, RestKept, SerialFinish DEF Decline, SerialInv, Statuses
<1>6. ASSUME MarkExpired(r)
      PROVE  (Sole /\ RestInv)' /\ \A q \in Requests : StillSo(job[q])'
  BY <1>3, <1>6, SetStatusRest, RestKept, SerialFinish DEF MarkExpired, SerialInv, Statuses
<1> QED BY <1>1, <1>2, <1>4, <1>5, <1>6 DEF InviteeNext

LEMMA SerialInit == Init => SerialInv
<1> SUFFICES ASSUME Init PROVE SerialInv
  OBVIOUS
<1>1. BoardHasAdmin
  BY UsersAssumption DEF Init, MembersInit, BoardHasAdmin, Admins
<1>2. \A i \in Invitations : ~Pending(i)
  BY InvitationsAssumption DEF Init, Pending, Statuses
<1>3. \A r \in Requests : job[r].at = "idle"
  BY DEF Init, MembersInit, Idle
<1> QED BY <1>1, <1>2, <1>3, InitInv
        DEF SerialInv, Sole, At, RestInv, PendingInviteeNotMember, OnePending, StillSo

LEMMA SerialStep == SerialInv /\ [SerialNext]_vars => SerialInv'
<1> SUFFICES ASSUME SerialInv, [SerialNext]_vars PROVE SerialInv'
  OBVIOUS
<1>1. Inv'
  BY NextInv, SerialNextIsNext DEF SerialInv
<1>2. CASE UNCHANGED vars
  <2>1. Sole' /\ \A q \in Requests : StillSo(job[q])'
    BY <1>2 DEF vars, SerialInv, Sole, At, StillSo, Admins, Pending
  <2>2. RestInv'
    BY <1>2, RestKept DEF vars, SerialInv, Pending
  <2> QED BY <1>1, <2>1, <2>2 DEF SerialInv
<1>3. ASSUME NEW i \in Invitations, BecomeLate(i) PROVE SerialInv'
  <2>1. \A k \in Invitations : /\ invitations'[k].status = invitations[k].status
                               /\ invitations'[k].user = invitations[k].user
    BY <1>3 DEF BecomeLate, SerialInv, Inv, TypeOK, Invitation
  <2>2. UNCHANGED <<members, job>>
    BY <1>3 DEF BecomeLate
  <2>3. RestInv'
    BY <2>1, <2>2, RestKept DEF SerialInv, Pending
  <2>4. \A r \in Requests : job[r].at \in {"accept", "decline", "markExpired"}
                              => job[r].invitation \in Invitations
    BY UsedType DEF SerialInv, Inv, JobInv, JobOK, Sound
  <2>5. Sole' /\ \A q \in Requests : StillSo(job[q])'
    BY <2>1, <2>2, <2>4 DEF SerialInv, Sole, At, StillSo, Admins, Pending
  <2> QED BY <1>1, <2>3, <2>5 DEF SerialInv
<1>4. ASSUME NEW r \in Requests, Alone(r),
             \/ (MembersNext(r) \/ Fail(r)) /\ UNCHANGED <<invitations, offers, answers>>
             \/ BoardSideNext(r)
             \/ InviteeNext(r)
      PROVE  SerialInv'
  BY <1>1, <1>4, SerialMembersNext, SerialBoardSideNext, SerialInviteeNext DEF SerialInv
<1> QED BY <1>2, <1>3, <1>4 DEF SerialNext

LEMMA SerialInvAlways == SerialSpec => []SerialInv
BY SerialInit, SerialStep, PTL DEF SerialSpec

\* One request at a time and while nothing is resent, the board keeps an admin:
\* ensureNotLastAdmin counts before an admin is demoted or removed, and an
\* acceptance overwrites nobody's role.
THEOREM SerialBoardKeepsAdmin == SerialSpec => []BoardHasAdmin
<1>1. SerialInv => BoardHasAdmin
  BY DEF SerialInv, RestInv
<1> QED BY <1>1, SerialInvAlways, PTL

\* One request at a time and while nothing is resent, nobody has a pending
\* invitation to a board he is a member of (createForBoard, accept).
THEOREM SerialInviteesAreNoMembers == SerialSpec => []PendingInviteeNotMember
<1>1. SerialInv => PendingInviteeNotMember
  BY DEF SerialInv, RestInv
<1> QED BY <1>1, SerialInvAlways, PTL

LEMMA AnswerStays ==
  ASSUME SerialInv, SerialNext, NEW i \in Invitations, invitations[i].status \in Answered
  PROVE  invitations'[i].status = invitations[i].status
<1>1. ~Pending(i) /\ i \in Used /\ invitations[i].status # "EXPIRED"
  BY InvitationsAssumption DEF Pending, Answered, Used, Statuses
<1>2. ASSUME NEW k \in Invitations, Pending(k), NEW status, SetStatus(k, status)
      PROVE  invitations'[i].status = invitations[i].status
  BY <1>1, <1>2 DEF SetStatus, SerialInv, Inv, TypeOK
<1>3. ASSUME NEW mine, ExpireAll(mine) PROVE invitations'[i].status = invitations[i].status
  BY <1>1, <1>3 DEF ExpireAll
<1>4. ASSUME NEW r \in Requests, Accept(r) \/ Decline(r) \/ MarkExpired(r)
      PROVE  invitations'[i].status = invitations[i].status
  <2>1. job[r].invitation \in Invitations /\ Pending(job[r].invitation)
    BY <1>4, UsedType DEF Accept, Decline, MarkExpired, At, SerialInv, Inv, JobInv, JobOK,
                          Sound, StillSo
  <2> QED BY <1>2, <1>4, <2>1 DEF Accept, Decline, MarkExpired
<1>5. ASSUME NEW r \in Requests, NEW k \in Invitations, InviteInsert(r, k)
      PROVE  invitations'[i].status = invitations[i].status
  BY <1>1, <1>5 DEF InviteInsert, SerialInv, Inv, TypeOK
<1>6. ASSUME NEW k \in Invitations, BecomeLate(k)
      PROVE  invitations'[i].status = invitations[i].status
  BY <1>6 DEF BecomeLate, SerialInv, Inv, TypeOK, Invitation
<1>7. ASSUME NEW r \in Requests, BoardSideNext(r)
      PROVE  invitations'[i].status = invitations[i].status
  BY <1>2, <1>3, <1>5, <1>7 DEF BoardSideNext, InviteCheck, Revoke, ListForBoard
<1>8. ASSUME NEW r \in Requests, InviteeNext(r)
      PROVE  invitations'[i].status = invitations[i].status
  BY <1>3, <1>4, <1>8 DEF InviteeNext, ListMine, AnswerCheck
<1> QED BY <1>6, <1>7, <1>8 DEF SerialNext

\* One request at a time and while nothing is resent, an answered invitation
\* keeps its answer: every statement that changes the status looks at it first,
\* and markExpired comes right after its check.
THEOREM SerialAnswersAreFinal == SerialSpec => AnsweredIsFinal
<1>1. ASSUME SerialInv, [SerialNext]_vars
      PROVE  [\A i \in Invitations : invitations[i].status \in Answered
                => invitations'[i].status = invitations[i].status]_vars
  BY <1>1, AnswerStays
<1> QED BY <1>1, SerialInvAlways, PTL DEF SerialSpec, AnsweredIsFinal

-----------------------------------------------------------------------------
(* The two subjects of the run: each of its steps is a step of Invitations, *)
(* those of the second one request at a time and with nothing resent.      *)

LEMMA MCNextIsNext == MCNext => Next
BY SerialNextIsNext DEF MCNext

SubjectInv == Inv /\ (subject = "serial" => SerialInv)

LEMMA SubjectStep == SubjectInv /\ [MCNext]_<<vars, subject>> => SubjectInv'
<1> SUFFICES ASSUME SubjectInv, [MCNext]_<<vars, subject>> PROVE SubjectInv'
  OBVIOUS
<1>1. Inv' /\ subject' = subject
  BY NextInv, MCNextIsNext DEF SubjectInv, MCNext
<1>2. CASE subject = "serial"
  <2>1. [SerialNext]_vars
    BY <1>2 DEF MCNext
  <2> QED BY <1>1, <1>2, <2>1, SerialStep DEF SubjectInv
<1> QED BY <1>1, <1>2 DEF SubjectInv

LEMMA SubjectInvAlways == MCSpec => []SubjectInv
<1>1. MCInit => SubjectInv
  BY SerialInit DEF MCInit, SubjectInv, SerialInv
<1> QED BY <1>1, SubjectStep, PTL DEF MCSpec

\* The run's claim about the last admin: where requests come one at a time,
\* ensureNotLastAdmin keeps an admin on the board.
THEOREM SerialRunKeepsAdmin == MCSpec => []SerialBoardHasAdmin
<1>1. SubjectInv => SerialBoardHasAdmin
  BY DEF SubjectInv, SerialInv, RestInv, SerialBoardHasAdmin
<1> QED BY <1>1, SubjectInvAlways, PTL

\* ... about the invited: nobody with a pending invitation is a member, when
\* requests come one at a time and BoardInvitationsService resends nothing.
THEOREM SerialRunInvitesNoMember == MCSpec => []SerialPendingInviteeNotMember
<1>1. SubjectInv => SerialPendingInviteeNotMember
  BY DEF SubjectInv, SerialInv, RestInv, SerialPendingInviteeNotMember
<1> QED BY <1>1, SubjectInvAlways, PTL

\* ... and about answers: accept, decline, revoke and the expiry look at the
\* status first, and an answered invitation keeps its answer.
THEOREM SerialRunAnswersAreFinal == MCSpec => SerialAnsweredIsFinal
<1>1. ASSUME SubjectInv, [MCNext]_<<vars, subject>>
      PROVE  [\A i \in Invitations :
                subject = "serial" /\ invitations[i].status \in Answered
                  => invitations'[i].status = invitations[i].status]_vars
  BY <1>1, AnswerStays DEF SubjectInv, MCNext
<1> QED BY <1>1, SubjectInvAlways, PTL DEF MCSpec, SerialAnsweredIsFinal
=============================================================================
