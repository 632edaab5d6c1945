------------------------------ MODULE Members ------------------------------
(***************************************************************************)
(* The members of one board: changing a role and removing a member.        *)
(*                                                                         *)
(* BoardRolesGuard reads the actor's role, BoardsService reads the target  *)
(* and, when an admin would be lost, counts the admins; only then it       *)
(* writes, by the id of the row it read.  Nothing is locked meanwhile, so  *)
(* each read and the write are separate steps of a request, and a request  *)
(* may fail between them.  Boards do not share members, so one board       *)
(* stands for all.                                                         *)
(***************************************************************************)
EXTENDS Naturals, FiniteSets

CONSTANTS
  Requests,     \* slots for requests in flight
  Users,        \* users, each with one email address
  Creator,      \* the user who created the board, its first admin
  Invitations,  \* invitation ids, for the module that composes this one
  Roles,        \* the roles in use, of the enum BoardMemberRole
  None          \* no row, a removed member, an empty field

ASSUME UsersAssumption == Creator \in Users /\ IsFiniteSet(Users)

ASSUME MembersNoneAssumption == None \notin Users \cup Invitations

ASSUME RolesAssumption ==
  /\ "ADMIN" \in Roles
  /\ Roles \subseteq {"ADMIN", "PM", "MEMBER", "GUEST"}
  /\ None \notin Roles

BOARD_MANAGER_ROLES == {"ADMIN", "PM"}

VARIABLES
  members,  \* the role of every active member, None for anybody else
  job       \* the local variables of the request in each slot

Admins == {u \in Users : members[u] = "ADMIN"}

Places == {"idle", "countAdmins", "write", "insert", "accept", "decline", "markExpired"}

\* role None is a removal.  The last three places belong to Invitations.
Job == [at : Places, user : Users \cup {None}, role : Roles \cup {None},
        invitation : Invitations \cup {None}]

Idle == [at |-> "idle", user |-> None, role |-> None, invitation |-> None]

MembersTypeOK ==
  /\ members \in [Users -> Roles \cup {None}]
  /\ job \in [Requests -> Job]

MembersInit ==
  /\ members = [u \in Users |-> IF u = Creator THEN "ADMIN" ELSE None]
  /\ job = [r \in Requests |-> Idle]

At(r, place) == job[r].at = place
Begin(r, j) == At(r, "idle") /\ job' = [job EXCEPT ![r] = j]
Goto(r, place) == job' = [job EXCEPT ![r] = [@ EXCEPT !.at = place]]
Finish(r) == job' = [job EXCEPT ![r] = Idle]

\* BoardRolesGuard: the role the actor has when the request arrives.
IsManager(u) == members[u] \in BOARD_MANAGER_ROLES

\* A refusal, an error or a crash between two awaits.
Fail(r) ==
  /\ ~At(r, "idle")
  /\ Finish(r)
  /\ UNCHANGED members

\* updateMemberRole and removeMember, up to the member they read.  Only the
\* loss of an admin is checked further.
ReadMember(r, actor, user, role) ==
  /\ IsManager(actor)
  /\ members[user] # None
  /\ members[user] # role
  /\ Begin(r, [Idle EXCEPT !.user = user, !.role = role,
                 !.at = IF members[user] = "ADMIN" THEN "countAdmins" ELSE "write"])
  /\ UNCHANGED members

\* Variant for mutation: the last admin may go.
CountAdminsZero(r) ==
  /\ At(r, "countAdmins")
  /\ Admins # {}
  /\ Goto(r, "write")
  /\ UNCHANGED members

\* ensureNotLastAdmin.
CountAdmins(r) ==
  /\ At(r, "countAdmins")
  /\ Cardinality(Admins) > 1
  /\ Goto(r, "write")
  /\ UNCHANGED members

\* Variant for mutation: the write restores a member removed meanwhile.
WriteMemberRestoring(r) ==
  /\ At(r, "write")
  /\ members' = [members EXCEPT ![job[r].user] = job[r].role]
  /\ Finish(r)

\* The write goes to the row by its id: on a row removed meanwhile it changes
\* a role that counts for nothing until the row is restored with another one.
WriteMember(r) ==
  /\ At(r, "write")
  /\ members' = [members EXCEPT ![job[r].user] = IF @ = None THEN None ELSE job[r].role]
  /\ Finish(r)

MembersNext(r) ==
  \/ \E actor \in Users, user \in Users, role \in Roles \cup {None} :
       ReadMember(r, actor, user, role)
  \/ CountAdmins(r)
  \/ WriteMember(r)

-----------------------------------------------------------------------------
\* A board always has an admin: "Cannot remove or demote the last admin of the
\* board".  Holds one request at a time; two requests that each count two
\* admins can remove both.
BoardHasAdmin == Admins # {}
=============================================================================
