-------------------------------- MODULE Http --------------------------------
(***************************************************************************)
(* The way of a request through the server: the guards, the interceptors,  *)
(* the validation of its input, the service's own check of the caller, the *)
(* work, and the answer (common/, the controllers, BoardRolesGuard,        *)
(* BoardAccessService).  A table says for each route which of these apply. *)
(*                                                                         *)
(* The caller's membership of the board in question is read from the data- *)
(* base by one await and used after others; meanwhile it changes.  A row   *)
(* that a path names beside its board may be a row of another board.       *)
(*                                                                         *)
(* The timeout starts behind the guards.  When it fires the client gets a  *)
(* 408; files that are still coming in are dropped with the request, but a *)
(* handler that was called goes on.                                        *)
(***************************************************************************)
EXTENDS Naturals

CONSTANTS
  Requests,  \* requests
  None       \* not a member, no answer yet

Roles == {"ADMIN", "PM", "MEMBER", "GUEST"}

BOARD_MANAGER_ROLES     == {"ADMIN", "PM"}
BOARD_CONTRIBUTOR_ROLES == {"ADMIN", "PM", "MEMBER"}

-----------------------------------------------------------------------------
(* Routes.  public: @Public().  guard: the roles that BoardRolesGuard asks  *)
(* for, service: those the service asks for; an empty set asks for nothing. *)
(* author: the service compares the row's user.  files: multipart.  row: a  *)
(* row named in the path beside its board is looked up on that board, or by *)
(* its id alone, on whatever board it is.                                   *)

Plain(n) == [name |-> n, public |-> FALSE, guard |-> {}, service |-> {},
             author |-> FALSE, files |-> FALSE, row |-> "none"]

Public(n)           == [Plain(n) EXCEPT !.public = TRUE]
BoardRoles(n, R)    == [Plain(n) EXCEPT !.guard = R]
BoardMember(n)      == BoardRoles(n, Roles)
Managers(n)         == BoardRoles(n, BOARD_MANAGER_ROLES)
ServiceRoles(n, R)  == [Plain(n) EXCEPT !.service = R]
Author(n)           == [Plain(n) EXCEPT !.author = TRUE]
WithFiles(route)    == [route EXCEPT !.files = TRUE]
RowOfBoard(route)   == [route EXCEPT !.row = "ofBoard"]
RowById(route)      == [route EXCEPT !.row = "byId"]

AppController == {Public("GET /"), Public("GET status")}

HealthController == {Public("GET health")}

AuthController ==
  {Public("POST auth/register"), Public("POST auth/login"),
   Public("POST auth/verify-account"), Public("POST auth/forgot-password"),
   Public("POST auth/reset-password"), Public("DELETE auth/logout"),
   Public("GET auth/refresh_token"), Plain("GET auth/me")}

MeController ==
  {Plain("GET me"), Plain("PATCH me"), Plain("PUT me/password"),
   WithFiles(Plain("POST me/avatar"))}

BoardsController ==
  {Plain("GET boards"), Plain("POST boards"), Plain("POST boards/sample"),
   BoardMember("GET boards/:id"), Managers("PUT boards/:id"),
   BoardMember("POST boards/:id/duplicate"), BoardMember("GET boards/:id/usersBoard"),
   RowOfBoard(Managers("PATCH boards/:id/members/:userId")),
   RowOfBoard(Managers("DELETE boards/:id/members/:userId"))}

ColumnsController ==
  {BoardMember("GET boards/:id/columns"), Managers("POST boards/:id/columns"),
   RowOfBoard(Managers("PUT boards/:id/columns/:columnId")),
   RowOfBoard(Managers("DELETE boards/:id/columns/:columnId"))}

IssueTypesController ==
  {BoardMember("GET boards/:id/issue-types"), Managers("POST boards/:id/issue-types"),
   RowOfBoard(Managers("PUT boards/:id/issue-types/:issueTypeId")),
   RowOfBoard(Managers("DELETE boards/:id/issue-types/:issueTypeId"))}

VersionsController ==
  {BoardMember("GET boards/:id/versions"), Managers("POST boards/:id/versions"),
   RowOfBoard(BoardMember("GET boards/:id/versions/:versionId")),
   RowOfBoard(Managers("PUT boards/:id/versions/:versionId")),
   RowOfBoard(Managers("DELETE boards/:id/versions/:versionId"))}

InvitationsController ==
  {Managers("POST boards/:id/invitations"), Managers("GET boards/:id/invitations"),
   RowById(Managers("DELETE boards/:id/invitations/:invitationId")),
   RowOfBoard(Managers("POST boards/:id/invitations/:invitationId/resend")),
   Public("GET invitations/:token"), Plain("POST invitations/:token/accept"),
   Plain("POST invitations/:token/decline"), Plain("GET me/invitations")}

CardsController ==
  {WithFiles(ServiceRoles("POST cards", BOARD_CONTRIBUTOR_ROLES)),
   ServiceRoles("GET cards/:id", Roles),
   WithFiles(ServiceRoles("PUT cards/:id", BOARD_CONTRIBUTOR_ROLES)),
   ServiceRoles("GET boards/:id/cards", Roles),
   ServiceRoles("PUT boards/supports/moving_card", BOARD_CONTRIBUTOR_ROLES)}

CommentsController ==
  {WithFiles(ServiceRoles("POST cards/:cardId/comments", BOARD_CONTRIBUTOR_ROLES)),
   ServiceRoles("GET cards/:cardId/comments", Roles),
   WithFiles(Author("PUT comments/:id")), Author("DELETE comments/:id")}

AttachmentsController == {ServiceRoles("GET attachments/:id/download", Roles)}

Routes ==
  AppController \cup HealthController \cup AuthController \cup MeController
    \cup BoardsController \cup ColumnsController \cup IssueTypesController
    \cup VersionsController \cup InvitationsController \cup CardsController
    \cup CommentsController \cup AttachmentsController

-----------------------------------------------------------------------------
VARIABLES
  role,  \* each caller's role on the board that is asked about: the one in
         \* the path, or else the one of the card or the new card
  job    \* how far each request has come

vars == <<role, job>>

Places == {"new", "throttle", "authenticate", "findBoard", "findMember",
           "files", "pipes", "authorize", "work", "done", "over"}

\* Behind the guards.
Timed == {"files", "pipes", "authorize", "work", "done"}

\* Answers, by what the client is told.  "forbidden": not a member, or not in
\* the role, or not the author.  "refused": any other exception of a service,
\* whatever its status (an invitation that has expired is a 403 too).  "late"
\* is 408, "error" what is not an HttpException.
Answers == {"throttled", "unauthorized", "expired", "forbidden", "badRequest",
            "refused", "ok", "late", "error"}

ASSUME HttpAssumption == None \notin Roles \cup Answers

Tokens == {"none", "expired", "valid"}

\* own: the row is the caller's.  foreign: the row in the path is one of another
\* board than the path's.  held: history, the roles he has had since the request
\* arrived.  wrote: history, something was written.
Job == [at : Places, route : Routes \cup {None}, token : Tokens, own : BOOLEAN,
        foreign : BOOLEAN, answer : Answers \cup {None},
        held : SUBSET (Roles \cup {None}), wrote : BOOLEAN]

NewJob == [at |-> "new", route |-> None, token |-> "none", own |-> FALSE,
           foreign |-> FALSE, answer |-> None, held |-> {}, wrote |-> FALSE]

TypeOK ==
  /\ role \in [Requests -> Roles \cup {None}]
  /\ job \in [Requests -> Job]

Init ==
  /\ role \in [Requests -> Roles \cup {None}]
  /\ job = [r \in Requests |-> NewJob]

At(r, place) == job[r].at = place

InFlight(r) == ~At(r, "new") /\ ~At(r, "over")

Goto(r, place) ==
  /\ job' = [job EXCEPT ![r] = [@ EXCEPT !.at = place]]
  /\ UNCHANGED role

\* The first of the handler's result, its exception and the timeout.
Reply(j, answer) ==
  IF j.answer = None THEN [j EXCEPT !.answer = answer] ELSE j

\* HttpExceptionFilter, or the handler's result.
End(r, answer) ==
  /\ job' = [job EXCEPT ![r] = [Reply(@, answer) EXCEPT !.at = "over"]]
  /\ UNCHANGED role

-----------------------------------------------------------------------------
(* The guards, in this order.                                              *)

Arrive(r) ==
  /\ At(r, "new")
  /\ \E route \in Routes, token \in Tokens, own \in BOOLEAN, foreign \in BOOLEAN :
       job' = [job EXCEPT ![r] =
         [NewJob EXCEPT !.at = "throttle", !.route = route, !.token = token,
                        !.own = route.author /\ own,
                        !.foreign = route.row # "none" /\ foreign, !.held = {role[r]}]]
  /\ UNCHANGED role

\* Variant for mutation: an answer that clients do not know.
ThrottleOtherwise(r) ==
  /\ At(r, "throttle")
  /\ Goto(r, "authenticate") \/ End(r, "slowDown")

\* ThrottlerGuard counts in its own storage.
Throttle(r) ==
  /\ At(r, "throttle")
  /\ Goto(r, "authenticate") \/ End(r, "throttled")

\* JwtAuthGuard and JwtStrategy.
Authenticate(r) ==
  /\ At(r, "authenticate")
  /\ CASE job[r].route.public      -> Goto(r, "findBoard")
       [] ~job[r].route.public /\ job[r].token = "expired" -> End(r, "expired")
       [] ~job[r].route.public /\ job[r].token = "none"    -> End(r, "unauthorized")
       [] ~job[r].route.public /\ job[r].token = "valid"   -> Goto(r, "findBoard")

PastGuards(r) == Goto(r, IF job[r].route.files THEN "files" ELSE "pipes")

\* BoardRolesGuard: nothing to enforce, or the board in the path exists ...
FindBoard(r) ==
  /\ At(r, "findBoard")
  /\ IF job[r].route.guard = {} THEN PastGuards(r)
     ELSE Goto(r, "findMember") \/ End(r, "refused")

\* Variant for mutation: what is for all members takes a contributor.
FindContributor(r) ==
  /\ At(r, "findMember")
  /\ IF role[r] \in job[r].route.guard \cap BOARD_CONTRIBUTOR_ROLES
     THEN PastGuards(r)
     ELSE End(r, "forbidden")

\* ... and the caller is a member, in one of the roles.
FindMember(r) ==
  /\ At(r, "findMember")
  /\ IF role[r] \in job[r].route.guard THEN PastGuards(r) ELSE End(r, "forbidden")

-----------------------------------------------------------------------------
(* Behind the guards.                                                      *)

\* Multer takes the files in and stops at a wrong type, size or number.
ReceiveFiles(r) ==
  /\ At(r, "files")
  /\ Goto(r, "pipes") \/ End(r, "badRequest")

\* ValidationPipe, ParseIntPipe and the file pipes.
Validate(r) ==
  /\ At(r, "pipes")
  /\ Goto(r, "authorize") \/ End(r, "badRequest")

\* The service's check of the caller.
May(r) ==
  /\ job[r].route.service # {} => role[r] \in job[r].route.service
  /\ job[r].route.author => job[r].own

\* Variant for mutation: every row is looked up by its id alone.
OnAnyBoard(r) == TRUE

\* Its lookup of the row in the path.
OnBoard(r) == job[r].foreign => job[r].route.row = "byId"

\* Both checks; the row, or the card whose board is asked about, may be missing.
Authorize(r) ==
  /\ At(r, "authorize")
  /\ \/ May(r) /\ OnBoard(r) /\ Goto(r, "work")
     \/ ~May(r) /\ End(r, "forbidden")
     \/ /\ job[r].route.service # {} \/ job[r].route.author \/ job[r].route.row # "none"
        /\ End(r, "refused")

\* The writes of the service, not all of them if it throws afterwards.
Work(r) ==
  /\ At(r, "work")
  /\ job' = [job EXCEPT ![r] = [@ EXCEPT !.at = "done", !.wrote = TRUE]]
  /\ UNCHANGED role

\* An exception by the rules of the other modules, before anything is written
\* or after: who answers a late invitation has it marked as expired first.
Refuse(r) ==
  /\ At(r, "work") \/ At(r, "done")
  /\ End(r, "refused")

\* ResponseInterceptor wraps the result.
Return(r) ==
  /\ At(r, "done")
  /\ End(r, "ok")

\* An error of the database, the storage or the mail provider.
Fail(r) ==
  /\ InFlight(r)
  /\ End(r, "error")

-----------------------------------------------------------------------------
(* Time and other requests.                                                *)

\* Variant for mutation: the timeout starts with the handler.
TimeoutOfHandler(r) ==
  /\ job[r].at \in {"authorize", "work", "done"}
  /\ job[r].answer = None
  /\ job' = [job EXCEPT ![r] = Reply(@, "late")]
  /\ UNCHANGED role

\* TimeoutInterceptor.  Nobody waits for the files any more.
Timeout(r) ==
  /\ job[r].at \in Timed
  /\ job[r].answer = None
  /\ IF At(r, "files") THEN End(r, "late")
     ELSE /\ job' = [job EXCEPT ![r] = Reply(@, "late")]
          /\ UNCHANGED role

\* The caller joins or leaves the board, or his role is changed.
ChangeRole(r, new) ==
  /\ new # role[r]
  /\ role' = [role EXCEPT ![r] = new]
  /\ job' = [job EXCEPT ![r].held = IF InFlight(r) THEN @ \cup {new} ELSE @]

-----------------------------------------------------------------------------
Guards(r) == Throttle(r) \/ Authenticate(r) \/ FindBoard(r) \/ FindMember(r)

Handler(r) ==
  ReceiveFiles(r) \/ Validate(r) \/ Authorize(r) \/ Work(r) \/ Refuse(r) \/ Return(r)

Step(r) ==
  \/ Arrive(r) \/ Guards(r) \/ Handler(r) \/ Fail(r) \/ Timeout(r)
  \/ \E new \in Roles \cup {None} : ChangeRole(r, new)

Next == \E r \in Requests : Step(r)

Spec == Init /\ [][Next]_vars

\* The guards' reads come back, with a row or an error, and the timer fires.
\* The handler may hang.
Fairness ==
  \A r \in Requests :
    /\ WF_vars(Guards(r) \/ (job[r].at \notin Timed /\ Fail(r)))
    /\ WF_vars(Timeout(r))

FairSpec == Spec /\ Fairness

-----------------------------------------------------------------------------
(* Properties.                                                             *)

\* What the permission matrix of the project asks for; a comment belongs to
\* its author.
ManagersWork ==
  {"PUT boards/:id", "PATCH boards/:id/members/:userId",
   "DELETE boards/:id/members/:userId", "POST boards/:id/columns",
   "PUT boards/:id/columns/:columnId", "DELETE boards/:id/columns/:columnId",
   "POST boards/:id/issue-types", "PUT boards/:id/issue-types/:issueTypeId",
   "DELETE boards/:id/issue-types/:issueTypeId", "POST boards/:id/versions",
   "PUT boards/:id/versions/:versionId", "DELETE boards/:id/versions/:versionId",
   "POST boards/:id/invitations", "DELETE boards/:id/invitations/:invitationId",
   "POST boards/:id/invitations/:invitationId/resend"}

ContributorsWork ==
  {"POST cards", "PUT cards/:id", "PUT boards/supports/moving_card",
   "POST cards/:cardId/comments"}

AuthorsWork == {"PUT comments/:id", "DELETE comments/:id"}

\* A manager of any board may revoke an invitation to any other.
RevokesById == "DELETE boards/:id/invitations/:invitationId"

\* Nobody changes what he was not allowed to at some moment since his request
\* arrived: of the guard, the pipes, the service's check and the changes of
\* roles in between, none lets a request through that never had the right, by
\* whatever route.  (That he still has it at the write is not promised.)  And
\* what he changes is on the board on which he has the right, but for the one
\* route that does not compare the two.
WritesInRole ==
  \A r \in Requests : job[r].wrote =>
    /\ job[r].route.name \in ManagersWork => job[r].held \cap BOARD_MANAGER_ROLES # {}
    /\ job[r].route.name \in ContributorsWork =>
         job[r].held \cap BOARD_CONTRIBUTOR_ROLES # {}
    /\ job[r].route.name \in AuthorsWork => job[r].own
    /\ ~job[r].route.public => job[r].token = "valid"
    /\ job[r].foreign => job[r].route.name = RevokesById

\* The roles that may do what the matrix does not name, too: all members, but
\* for the list of a board's invitations.
RolesFor(name) ==
  CASE name \in ManagersWork \cup {"GET boards/:id/invitations"} -> BOARD_MANAGER_ROLES
    [] name \in ContributorsWork -> BOARD_CONTRIBUTOR_ROLES
    [] OTHER -> Roles

\* Nobody is kept from what he may do, however his role changes while guard and
\* service look at it: whoever is told that something is forbidden to him lacked
\* the right at some moment since his request arrived (a comment is its
\* author's, though he has left the board), and a valid token is accepted.
ForbiddenForAReason ==
  \A r \in Requests :
    /\ job[r].answer = "forbidden" =>
         IF job[r].route.name \in AuthorsWork THEN ~job[r].own
         ELSE job[r].held \ RolesFor(job[r].route.name) # {}
    /\ job[r].answer \in {"unauthorized", "expired"} =>
         ~job[r].route.public /\ job[r].token # "valid"

\* Every request is answered, though its handler hangs: the guards end, and
\* from then on the timer runs.
EveryRequestAnswered ==
  \A r \in Requests : InFlight(r) ~> job[r].answer # None
=============================================================================
