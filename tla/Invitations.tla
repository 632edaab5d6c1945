---------------------------- MODULE Invitations ----------------------------
(***************************************************************************)
(* Invitations to a board, composed with its members: accepting one makes  *)
(* the invitee a member, or restores a former one, with the invited role.  *)
(*                                                                         *)
(* Statements that check the status in their WHERE clause (revoke, resend, *)
(* decline, accept, the expiry of a whole list) are one step.  Creation    *)
(* and the answers read first and write later; marking one invitation as   *)
(* expired does not look at the status again.  An invitation is looked up  *)
(* by the token it has now, so a token is no more than its invitation.     *)
(***************************************************************************)
EXTENDS Members

CONSTANT MaxOffers   \* bound: how often one invitation is created or resent

Statuses == {"PENDING", "ACCEPTED", "DECLINED", "REVOKED", "EXPIRED"}

Answered == {"ACCEPTED", "DECLINED", "REVOKED"}

ASSUME InvitationsAssumption == MaxOffers \in Nat /\ None \notin Statuses

VARIABLES
  invitations,  \* table board_invitations
  offers,       \* history: how often each was created or resent
  answers       \* history: how often each was accepted, declined or revoked

vars == <<members, job, invitations, offers, answers>>

\* late: expiresAt has passed.
Invitation ==
  [user : Users \cup {None}, role : Roles \cup {None}, status : Statuses \cup {None},
   late : BOOLEAN]

Used == {i \in Invitations : invitations[i].status # None}

Pending(i) == invitations[i].status = "PENDING"

TypeOK ==
  /\ MembersTypeOK
  /\ invitations \in [Invitations -> Invitation]
  /\ offers \in [Invitations -> Nat]
  /\ answers \in [Invitations -> Nat]

Init ==
  /\ MembersInit
  /\ invitations =
       [i \in Invitations |-> [user |-> None, role |-> None, status |-> None, late |-> FALSE]]
  /\ offers  = [i \in Invitations |-> 0]
  /\ answers = [i \in Invitations |-> 0]

SetStatus(i, status) ==
  invitations' = [invitations EXCEPT ![i] = [@ EXCEPT !.status = status]]

CountAnswer(i) == answers' = [answers EXCEPT ![i] = @ + 1]

\* The unique index on (board_id, email) WHERE status = 'PENDING'.
NoOtherPending(i, user) ==
  \A k \in Invitations \ {i} : ~(Pending(k) /\ invitations[k].user = user)

-----------------------------------------------------------------------------
(* The board's managers.                                                   *)

\* Variants for mutation: a role outside the enum is let through, and whoever
\* is a member already may be invited.
InviteAnyRole(r, actor, user, role) ==
  /\ IsManager(actor)
  /\ members[user] = None
  /\ Begin(r, [Idle EXCEPT !.at = "insert", !.user = user, !.role = "OWNER"])
  /\ UNCHANGED <<members, invitations, offers, answers>>

InviteAnybody(r, actor, user, role) ==
  /\ IsManager(actor)
  /\ Begin(r, [Idle EXCEPT !.at = "insert", !.user = user, !.role = role])
  /\ UNCHANGED <<members, invitations, offers, answers>>

\* createForBoard: the invitee is not an active member ...
InviteCheck(r, actor, user, role) ==
  /\ IsManager(actor)
  /\ members[user] = None
  /\ Begin(r, [Idle EXCEPT !.at = "insert", !.user = user, !.role = role])
  /\ UNCHANGED <<members, invitations, offers, answers>>

\* ... and has no pending invitation, which the unique index decides.
InviteInsert(r, i) ==
  /\ At(r, "insert")
  /\ i \notin Used
  /\ offers[i] < MaxOffers
  /\ NoOtherPending(i, job[r].user)
  /\ invitations' = [invitations EXCEPT ![i] =
       [user |-> job[r].user, role |-> job[r].role, status |-> "PENDING", late |-> FALSE]]
  /\ offers' = [offers EXCEPT ![i] = @ + 1]
  /\ Finish(r)
  /\ UNCHANGED <<members, answers>>

\* Variant for mutation: any invitation can be revoked.
RevokeAny(r, i) ==
  /\ At(r, "idle")
  /\ i \in Used
  /\ SetStatus(i, "REVOKED")
  /\ CountAnswer(i)
  /\ UNCHANGED <<members, job, offers>>

\* The invitation is looked up by its id alone, so a manager of any board may
\* revoke it, whoever is a manager of this one.
Revoke(r, i) ==
  /\ At(r, "idle")
  /\ Pending(i)
  /\ SetStatus(i, "REVOKED")
  /\ CountAnswer(i)
  /\ UNCHANGED <<members, job, offers>>

\* resend looks at the status only: the invitee may be a member by now.
Resend(r, actor, i) ==
  /\ At(r, "idle")
  /\ IsManager(actor)
  /\ invitations[i].status \in {"PENDING", "EXPIRED"}
  /\ offers[i] < MaxOffers
  /\ NoOtherPending(i, invitations[i].user)
  /\ invitations' = [invitations EXCEPT ![i] = [@ EXCEPT !.status = "PENDING", !.late = FALSE]]
  /\ offers' = [offers EXCEPT ![i] = @ + 1]
  /\ UNCHANGED <<members, job, answers>>

\* expirePendingForBoard and expirePendingForUser: listing expires what is late.
ExpireAll(mine) ==
  invitations' = [i \in Invitations |->
                    IF i \in mine /\ Pending(i) /\ invitations[i].late
                    THEN [invitations[i] EXCEPT !.status = "EXPIRED"]
                    ELSE invitations[i]]

ListForBoard(r, actor) ==
  /\ At(r, "idle")
  /\ IsManager(actor)
  /\ ExpireAll(Invitations)
  /\ UNCHANGED <<members, job, offers, answers>>

-----------------------------------------------------------------------------
(* The invitee.                                                            *)

ListMine(r, user) ==
  /\ At(r, "idle")
  /\ ExpireAll({i \in Invitations : invitations[i].user = user})
  /\ UNCHANGED <<members, job, offers, answers>>

\* accept and decline read the invitation and check status and expiry.
AnswerCheck(r, user, i, answer) ==
  /\ invitations[i].user = user
  /\ Pending(i)
  /\ Begin(r, [Idle EXCEPT !.user = user, !.role = invitations[i].role, !.invitation = i,
                 !.at = IF invitations[i].late THEN "markExpired" ELSE answer])
  /\ UNCHANGED <<members, invitations, offers, answers>>

\* Variant for mutation: the transaction trusts the check.
AcceptUnchecked(r) ==
  /\ At(r, "accept")
  /\ SetStatus(job[r].invitation, "ACCEPTED")
  /\ CountAnswer(job[r].invitation)
  /\ members' = [members EXCEPT ![job[r].user] = job[r].role]
  /\ Finish(r)
  /\ UNCHANGED offers

\* The transaction: if the invitation is still pending (and be it late by now)
\* the membership is written with the role that was read.
Accept(r) ==
  /\ At(r, "accept")
  /\ Pending(job[r].invitation)
  /\ SetStatus(job[r].invitation, "ACCEPTED")
  /\ CountAnswer(job[r].invitation)
  /\ members' = [members EXCEPT ![job[r].user] = job[r].role]
  /\ Finish(r)
  /\ UNCHANGED offers

Decline(r) ==
  /\ At(r, "decline")
  /\ Pending(job[r].invitation)
  /\ SetStatus(job[r].invitation, "DECLINED")
  /\ CountAnswer(job[r].invitation)
  /\ Finish(r)
  /\ UNCHANGED <<members, offers>>

\* markExpired writes whatever the status has become.
MarkExpired(r) ==
  /\ At(r, "markExpired")
  /\ SetStatus(job[r].invitation, "EXPIRED")
  /\ Finish(r)
  /\ UNCHANGED <<members, offers, answers>>

\* The clock passes expiresAt.
BecomeLate(i) ==
  /\ i \in Used
  /\ ~invitations[i].late
  /\ invitations' = [invitations EXCEPT ![i] = [@ EXCEPT !.late = TRUE]]
  /\ UNCHANGED <<members, job, offers, answers>>

-----------------------------------------------------------------------------
BoardSideNext(r) ==
  \/ \E actor \in Users, user \in Users, role \in Roles : InviteCheck(r, actor, user, role)
  \/ \E i \in Invitations : InviteInsert(r, i)
  \/ \E i \in Invitations : Revoke(r, i)
  \/ \E actor \in Users : ListForBoard(r, actor)

ResendNext(r) == \E actor \in Users, i \in Invitations : Resend(r, actor, i)

InviteeNext(r) ==
  \/ \E user \in Users : ListMine(r, user)
  \/ \E user \in Users, i \in Invitations, answer \in {"accept", "decline"} :
       AnswerCheck(r, user, i, answer)
  \/ Accept(r)
  \/ Decline(r)
  \/ MarkExpired(r)

\* Everything but resending.
FirstOfferNext ==
  \/ \E r \in Requests :
       \/ (MembersNext(r) \/ Fail(r)) /\ UNCHANGED <<invitations, offers, answers>>
       \/ BoardSideNext(r)
       \/ InviteeNext(r)
  \/ \E i \in Invitations : BecomeLate(i)

Next == FirstOfferNext \/ \E r \in Requests : ResendNext(r)

Spec == Init /\ [][Next]_vars

\* Each request ends before the next begins, and nothing is resent.
Alone(r) == \A s \in Requests \ {r} : At(s, "idle")

SerialNext ==
  \/ \E r \in Requests :
       /\ Alone(r)
       /\ \/ (MembersNext(r) \/ Fail(r)) /\ UNCHANGED <<invitations, offers, answers>>
          \/ BoardSideNext(r)
          \/ InviteeNext(r)
  \/ \E i \in Invitations : BecomeLate(i)

SerialSpec == Init /\ [][SerialNext]_vars

-----------------------------------------------------------------------------
(* Properties.                                                             *)

\* Every creation or resending of an invitation is answered (accepted,
\* declined, revoked) at most once, however its answers race each other.
AnsweredAtMostOnce ==
  \A i \in Invitations : answers[i] <= offers[i]

\* u joins by accepting invitation i, his own and pending at that moment, with
\* the role it carries.
JoinsBy(u, i) ==
  /\ invitations[i] = [user |-> u, role |-> members'[u], status |-> "PENDING",
                       late |-> invitations[i].late]
  /\ invitations'[i].status = "ACCEPTED"

\* Nobody becomes a member, again or for the first time, in any other way: no
\* role change decided before a removal, no answer that comes too late.
JoinsByPendingInvitation ==
  [][\A u \in Users : (members[u] = None /\ members'[u] # None) =>
       \E i \in Invitations : JoinsBy(u, i)]_vars

\* An invitation that was accepted, declined or revoked stays so.  Holds one
\* request at a time; a late markExpired can overwrite an answer.
AnsweredIsFinal ==
  [][\A i \in Invitations : invitations[i].status \in Answered
       => invitations'[i].status = invitations[i].status]_vars

\* Nobody has a pending invitation to a board he is a member of.  Holds one
\* request at a time while nothing is resent.
PendingInviteeNotMember ==
  \A i \in Invitations : Pending(i) => members[invitations[i].user] = None
=============================================================================
