----------------------------- MODULE HttpProofs -----------------------------
(***************************************************************************)
(* Proofs about Http, for any number of requests: types, and the two       *)
(* safety properties that the run http checks.                             *)
(*                                                                         *)
(* The requests do not touch each other, so the invariant is one predicate *)
(* of a request and its caller's role (Fits): what each place implies      *)
(* about the checks that lie behind it.  The table of routes is looked at  *)
(* once, in RouteTable.                                                    *)
(***************************************************************************)
EXTENDS Http, TLAPS

-----------------------------------------------------------------------------
(* The table of routes.                                                    *)

\* What the route asks for is what its documented permission is: no less for
\* the routes that write, no more for any.
Documented(route) ==
  /\ route.name \in ManagersWork => route.guard = BOARD_MANAGER_ROLES
  /\ route.name \in ContributorsWork => route.service = BOARD_CONTRIBUTOR_ROLES
  /\ route.author <=> route.name \in AuthorsWork
  /\ route.author => route.guard = {} /\ route.service = {}
  /\ route.guard # {} => route.guard = RolesFor(route.name)
  /\ route.service # {} => route.service = RolesFor(route.name)
  /\ route.row = "byId" => route.name = RevokesById

Asks(route, n, guard, service, author) ==
  /\ route.name = n
  /\ route.guard = guard
  /\ route.service = service
  /\ route.author <=> author

LEMMA Constructors ==
  ASSUME NEW n, NEW R
  PROVE  /\ Asks(Plain(n), n, {}, {}, FALSE) /\ Plain(n).row = "none"
         /\ Asks(Public(n), n, {}, {}, FALSE) /\ Public(n).row = "none"
         /\ Asks(BoardRoles(n, R), n, R, {}, FALSE) /\ BoardRoles(n, R).row = "none"
         /\ Asks(ServiceRoles(n, R), n, {}, R, FALSE) /\ ServiceRoles(n, R).row = "none"
         /\ Asks(Author(n), n, {}, {}, TRUE) /\ Author(n).row = "none"
         /\ Asks(WithFiles(Plain(n)), n, {}, {}, FALSE)
         /\ WithFiles(Plain(n)).row = "none"
         /\ Asks(WithFiles(ServiceRoles(n, R)), n, {}, R, FALSE)
         /\ WithFiles(ServiceRoles(n, R)).row = "none"
         /\ Asks(WithFiles(Author(n)), n, {}, {}, TRUE)
         /\ WithFiles(Author(n)).row = "none"
         /\ Asks(RowOfBoard(BoardRoles(n, R)), n, R, {}, FALSE)
         /\ RowOfBoard(BoardRoles(n, R)).row = "ofBoard"
         /\ Asks(RowById(BoardRoles(n, R)), n, R, {}, FALSE)
BY DEF Asks, Plain, Public, WithFiles, BoardRoles, ServiceRoles, Author, RowOfBoard, RowById

Writes == ManagersWork \cup ContributorsWork \cup AuthorsWork

Managing == ManagersWork \cup {"GET boards/:id/invitations"}

\* Which of the four kinds of routes a name is for decides its permission.
LEMMA ManagersDocumented ==
  ASSUME NEW n \in Managing, n \notin ContributorsWork \cup AuthorsWork
  PROVE  /\ Documented(Managers(n)) /\ Documented(RowOfBoard(Managers(n)))
         /\ n = RevokesById => Documented(RowById(Managers(n)))
<1>1. RolesFor(n) = BOARD_MANAGER_ROLES
  BY DEF RolesFor, Managing
<1>2. ASSUME NEW route, Asks(route, n, BOARD_MANAGER_ROLES, {}, FALSE),
             route.row = "byId" => n = RevokesById
      PROVE  Documented(route)
  BY <1>1, <1>2 DEF Documented, Asks
<1> QED BY <1>2, Constructors DEF Managers

LEMMA ContributorsDocumented ==
  ASSUME NEW n \in ContributorsWork, n \notin Managing \cup AuthorsWork
  PROVE  /\ Documented(ServiceRoles(n, BOARD_CONTRIBUTOR_ROLES))
         /\ Documented(WithFiles(ServiceRoles(n, BOARD_CONTRIBUTOR_ROLES)))
<1>1. RolesFor(n) = BOARD_CONTRIBUTOR_ROLES /\ n \notin ManagersWork
  BY DEF RolesFor, Managing
<1>2. ASSUME NEW route, Asks(route, n, {}, BOARD_CONTRIBUTOR_ROLES, FALSE), route.row = "none"
      PROVE  Documented(route)
  BY <1>1, <1>2 DEF Documented, Asks
<1> QED BY <1>2, Constructors

LEMMA AuthorsDocumented ==
  ASSUME NEW n \in AuthorsWork, n \notin Managing \cup ContributorsWork
  PROVE  Documented(Author(n)) /\ Documented(WithFiles(Author(n)))
<1>1. ASSUME NEW route, Asks(route, n, {}, {}, TRUE), route.row = "none"
      PROVE  Documented(route)
  BY <1>1 DEF Documented, Asks, Managing
<1> QED BY <1>1, Constructors

LEMMA OthersDocumented ==
  ASSUME NEW n, n \notin Writes \cup Managing
  PROVE  /\ Documented(Plain(n)) /\ Documented(Public(n)) /\ Documented(WithFiles(Plain(n)))
         /\ Documented(BoardMember(n)) /\ Documented(RowOfBoard(BoardMember(n)))
         /\ Documented(ServiceRoles(n, Roles))
<1>1. RolesFor(n) = Roles
  BY DEF RolesFor, Writes, Managing
<1>2. ASSUME NEW route, NEW guard \in {{}, Roles}, NEW service \in {{}, Roles},
             Asks(route, n, guard, service, FALSE), route.row # "byId"
      PROVE  Documented(route)
  BY <1>1, <1>2 DEF Documented, Asks, Writes
<1> QED BY <1>2, Constructors DEF BoardMember

LEMMA RouteTable == \A route \in Routes : Documented(route)
<1> USE DEF Writes, Managing, RevokesById, ManagersWork, ContributorsWork, AuthorsWork
<1>1. \A route \in AppController \cup HealthController : Documented(route)
  BY OthersDocumented DEF AppController, HealthController
<1>2. \A route \in AuthController \cup MeController : Documented(route)
  BY OthersDocumented DEF AuthController, MeController
<1>3. \A route \in BoardsController : Documented(route)
  BY OthersDocumented, ManagersDocumented DEF BoardsController
<1>4. \A route \in ColumnsController : Documented(route)
  BY OthersDocumented, ManagersDocumented DEF ColumnsController
<1>5. \A route \in IssueTypesController : Documented(route)
  BY OthersDocumented, ManagersDocumented DEF IssueTypesController
<1>6. \A route \in VersionsController : Documented(route)
  BY OthersDocumented, ManagersDocumented DEF VersionsController
<1>7. \A route \in InvitationsController : Documented(route)
  BY OthersDocumented, ManagersDocumented DEF InvitationsController
<1>8. \A route \in CardsController : Documented(route)
  BY OthersDocumented, ContributorsDocumented DEF CardsController
<1>9. \A route \in CommentsController \cup AttachmentsController : Documented(route)
  BY OthersDocumented, ContributorsDocumented, AuthorsDocumented
     DEF CommentsController, AttachmentsController
<1> QED BY <1>1, <1>2, <1>3, <1>4, <1>5, <1>6, <1>7, <1>8, <1>9 DEF Routes

-----------------------------------------------------------------------------
(* The invariant.                                                          *)

Authentic(j) == ~j.route.public => j.token = "valid"

Admitted(j) == j.route.guard # {} => j.held \cap j.route.guard # {}

Authorized(j) ==
  /\ j.route.service # {} => j.held \cap j.route.service # {}
  /\ j.route.author => j.own
  /\ j.foreign => j.route.row = "byId"

Lacks(j) ==
  IF j.route.name \in AuthorsWork THEN ~j.own ELSE j.held \ RolesFor(j.route.name) # {}

\* What the answer of j says is so.
Answered(j) ==
  /\ j.answer = "forbidden" => Lacks(j)
  /\ j.answer \in {"unauthorized", "expired"} => ~Authentic(j)

\* What a request j holds to whose caller has role x.
Fits(j, x) ==
  /\ j.at # "new" => j.route \in Routes
  /\ j.at \notin {"new", "over"} => x \in j.held
  /\ j.at \notin {"new", "over"} => j.answer \in {None, "late"}
  /\ j.at \in {"findBoard", "findMember"} \cup Timed => Authentic(j)
  /\ j.at = "findMember" => j.route.guard # {}
  /\ j.at \in Timed => Admitted(j)
  /\ j.at \in {"work", "done"} => Authorized(j)
  /\ j.wrote => j.at \in {"done", "over"} /\ Authentic(j) /\ Admitted(j) /\ Authorized(j)
  /\ Answered(j)

Inv ==
  /\ TypeOK
  /\ \A r \in Requests : Fits(job[r], role[r])

-----------------------------------------------------------------------------
LEMMA InitInv == Init => Inv
<1> SUFFICES ASSUME Init PROVE Inv
  OBVIOUS
<1>1. NewJob \in Job
  BY DEF NewJob, Job, Places, Tokens
<1>2. \A x : Fits(NewJob, x)
  BY HttpAssumption DEF Fits, NewJob, Timed, Answers, Answered
<1> QED BY <1>1, <1>2 DEF Init, Inv, TypeOK

\* A step of one request.
LEMMA OneJob ==
  ASSUME Inv, NEW r \in Requests, NEW j \in Job,
         job' = [job EXCEPT ![r] = j], UNCHANGED role, Fits(j, role[r])
  PROVE  Inv'
BY DEF Inv, TypeOK

\* Every way to end a request.  Whom the timeout has answered hears no more.
LEMMA EndInv ==
  ASSUME Inv, NEW r \in Requests, NEW answer \in Answers, End(r, answer),
         ~At(r, "new"), ~At(r, "over"),
         answer = "forbidden" => Lacks(job[r]),
         answer \in {"unauthorized", "expired"} => ~Authentic(job[r])
  PROVE  Inv'
<1> DEFINE i == job[r]
<1> DEFINE j == [Reply(i, answer) EXCEPT !.at = "over"]
<1>1. i \in Job /\ Fits(i, role[r]) /\ i.at # "new" /\ i.at # "over"
  BY DEF Inv, TypeOK, At
<1>2. job' = [job EXCEPT ![r] = j] /\ UNCHANGED role
  BY DEF End
<1>3. /\ answer = "forbidden" => Lacks(i)
      /\ answer \in {"unauthorized", "expired"} => ~Authentic(i)
  OBVIOUS
<1> HIDE DEF i
<1>4. /\ j \in Job /\ j.at = "over" /\ j.route = i.route /\ j.token = i.token
      /\ j.own = i.own /\ j.foreign = i.foreign /\ j.held = i.held /\ j.wrote = i.wrote
      /\ j.answer = (IF i.answer = None THEN answer ELSE i.answer)
  BY <1>1 DEF Reply, Job, Places
<1> HIDE DEF j
<1>5. Answered(j)
  <2>1. (Lacks(i) => Lacks(j)) /\ (Authentic(j) => Authentic(i))
    BY <1>4 DEF Lacks, Authentic
  <2>2. j.answer \in {answer, "late"}
    BY <1>1, <1>4 DEF Fits
  <2> QED BY <1>3, <2>1, <2>2 DEF Answered
<1>6. j.wrote => Authentic(j) /\ Admitted(j) /\ Authorized(j)
  BY <1>1, <1>4 DEF Fits, Authentic, Admitted, Authorized
<1>7. Fits(j, role[r])
  BY <1>1, <1>4, <1>5, <1>6 DEF Fits, Timed
<1> QED BY <1>2, <1>4, <1>7, OneJob

\* A request goes on.
LEMMA GotoInv ==
  ASSUME Inv, NEW r \in Requests, NEW place \in Places, Goto(r, place),
         \A j \in Job : j = [job[r] EXCEPT !.at = place] => Fits(j, role[r])
  PROVE  Inv'
<1>1. [job[r] EXCEPT !.at = place] \in Job
  BY DEF Inv, TypeOK, Job
<1> QED BY <1>1, OneJob DEF Goto

\* What a request keeps when it goes on.
Same(j, i) ==
  /\ j.route = i.route /\ j.token = i.token /\ j.own = i.own /\ j.foreign = i.foreign
  /\ j.answer = i.answer /\ j.held = i.held /\ j.wrote = i.wrote

LEMMA SameFits ==
  ASSUME NEW i, NEW j, Same(j, i)
  PROVE  /\ Authentic(j) <=> Authentic(i)
         /\ Admitted(j) <=> Admitted(i)
         /\ Authorized(j) <=> Authorized(i)
         /\ Answered(j) <=> Answered(i)
BY DEF Same, Authentic, Admitted, Authorized, Answered, Lacks

LEMMA ArriveInv ==
  ASSUME Inv, NEW r \in Requests, Arrive(r)
  PROVE  Inv'
<1>1. PICK route \in Routes, token \in Tokens, own \in BOOLEAN, foreign \in BOOLEAN :
        job' = [job EXCEPT ![r] =
          [NewJob EXCEPT !.at = "throttle", !.route = route, !.token = token,
                         !.own = route.author /\ own,
                         !.foreign = route.row # "none" /\ foreign, !.held = {role[r]}]]
  BY DEF Arrive
<1> DEFINE mine == route.author /\ own
           other == route.row # "none" /\ foreign
<1> DEFINE j == [NewJob EXCEPT !.at = "throttle", !.route = route, !.token = token,
                               !.own = mine, !.foreign = other, !.held = {role[r]}]
<1>2. mine \in BOOLEAN /\ other \in BOOLEAN
  OBVIOUS
<1> HIDE DEF mine, other
<1>3. /\ j \in Job /\ j.at = "throttle" /\ j.route = route /\ j.held = {role[r]}
      /\ j.answer = None /\ j.wrote = FALSE
  BY <1>2 DEF Inv, TypeOK, NewJob, Job, Places
<1> HIDE DEF j
<1>4. Fits(j, role[r])
  BY <1>3, HttpAssumption DEF Fits, Timed, Answers, Answered
<1>5. job' = [job EXCEPT ![r] = j] /\ UNCHANGED role
  BY <1>1 DEF Arrive, j, mine, other
<1> QED BY <1>3, <1>4, <1>5, OneJob

\* Past the guards a request is authentic and admitted.
LEMMA PastGuardsInv ==
  ASSUME Inv, NEW r \in Requests, PastGuards(r),
         job[r].at \in {"findBoard", "findMember"},
         Admitted(job[r])
  PROVE  Inv'
<1>1. Fits(job[r], role[r])
  BY DEF Inv
<1>2. ASSUME NEW place \in {"files", "pipes"}, Goto(r, place)
      PROVE  Inv'
  <2>1. ASSUME NEW j \in Job, j = [job[r] EXCEPT !.at = place]
        PROVE  Fits(j, role[r])
    <3>1. j.at = place /\ Same(j, job[r])
      BY <2>1 DEF Inv, TypeOK, Job, Same
    <3> QED BY <1>1, <3>1, SameFits DEF Fits, Timed, Same
  <2> QED BY <1>2, <2>1, GotoInv DEF Places
<1> QED BY <1>2 DEF PastGuards

LEMMA GuardsInv ==
  ASSUME Inv, NEW r \in Requests, Guards(r)
  PROVE  Inv'
<1>1. Fits(job[r], role[r]) /\ job[r] \in Job
  BY DEF Inv, TypeOK
<1>2. /\ job[r].at \in {"throttle", "authenticate", "findBoard", "findMember"}
      /\ ~job[r].wrote /\ ~At(r, "new") /\ ~At(r, "over")
  BY <1>1 DEF Guards, Throttle, Authenticate, FindBoard, FindMember, At, Fits
<1>3. ASSUME NEW answer \in {"throttled", "unauthorized", "expired", "forbidden", "refused"},
             End(r, answer),
             answer = "forbidden" => Lacks(job[r]),
             answer \in {"unauthorized", "expired"} => ~Authentic(job[r])
      PROVE  Inv'
  BY <1>2, <1>3, EndInv DEF Answers
<1>4. ASSUME NEW place \in {"authenticate", "findBoard", "findMember"}, Goto(r, place),
             place # "authenticate" => Authentic(job[r]),
             place = "findMember" => job[r].route.guard # {}
      PROVE  Inv'
  <2>1. ASSUME NEW j \in Job, j = [job[r] EXCEPT !.at = place]
        PROVE  Fits(j, role[r])
    <3>1. j.at = place /\ Same(j, job[r])
      BY <2>1 DEF Inv, TypeOK, Job, Same
    <3> QED BY <1>1, <1>2, <1>4, <3>1, SameFits DEF Fits, Timed, Same
  <2> QED BY <1>4, <2>1, GotoInv DEF Places
<1>5. CASE Throttle(r)
  BY <1>3, <1>4, <1>5 DEF Throttle
<1>6. CASE Authenticate(r)
  <2>1. job[r].token \in {"none", "expired", "valid"}
    BY <1>1 DEF Job, Tokens
  <2>2. CASE job[r].route.public \/ job[r].token = "valid"
    <3>1. Goto(r, "findBoard")
      BY <1>6, <2>1, <2>2 DEF Authenticate
    <3> QED BY <1>4, <2>2, <3>1 DEF Authentic
  <2>3. CASE ~job[r].route.public /\ job[r].token = "none"
    <3>1. End(r, "unauthorized")
      BY <1>6, <2>3 DEF Authenticate
    <3> QED BY <1>3, <2>3, <3>1 DEF Authentic
  <2>4. CASE ~job[r].route.public /\ job[r].token = "expired"
    <3>1. End(r, "expired")
      BY <1>6, <2>4 DEF Authenticate
    <3> QED BY <1>3, <2>4, <3>1 DEF Authentic
  <2> QED BY <2>1, <2>2, <2>3, <2>4
<1>7. CASE FindBoard(r)
  <2>1. job[r].at = "findBoard" /\ Authentic(job[r])
    BY <1>1, <1>7 DEF FindBoard, At, Fits
  <2>2. CASE job[r].route.guard = {}
    BY <1>7, <2>1, <2>2, PastGuardsInv DEF FindBoard, Admitted
  <2>3. CASE job[r].route.guard # {}
    BY <1>3, <1>4, <1>7, <2>1, <2>3 DEF FindBoard
  <2> QED BY <2>2, <2>3
<1>8. CASE FindMember(r)
  <2>1. job[r].at = "findMember" /\ role[r] \in job[r].held
    BY <1>1, <1>8 DEF FindMember, At, Fits
  <2>2. CASE role[r] \in job[r].route.guard
    BY <1>8, <2>1, <2>2, PastGuardsInv DEF FindMember, Admitted
  <2>3. CASE role[r] \notin job[r].route.guard
    <3>1. job[r].route.guard = {} \/ job[r].route.guard = RolesFor(job[r].route.name)
      BY <1>1, <2>1, RouteTable DEF Fits, Documented
    <3>2. job[r].route.guard # {} /\ job[r].route.name \notin AuthorsWork
      BY <1>1, <2>1, RouteTable DEF Fits, Documented
    <3> QED BY <1>3, <1>8, <2>1, <2>3, <3>1, <3>2 DEF FindMember, Lacks
  <2> QED BY <2>2, <2>3
<1> QED BY <1>5, <1>6, <1>7, <1>8 DEF Guards

LEMMA HandlerInv ==
  ASSUME Inv, NEW r \in Requests, Handler(r)
  PROVE  Inv'
<1>1. Fits(job[r], role[r]) /\ job[r] \in Job
  BY DEF Inv, TypeOK
<1>2. job[r].at \in Timed /\ ~At(r, "new") /\ ~At(r, "over")
  BY DEF Handler, ReceiveFiles, Validate, Authorize, Work, Refuse, Return, At, Timed
<1>3. ASSUME NEW answer \in {"badRequest", "refused", "ok"}, End(r, answer)
      PROVE  Inv'
  BY <1>2, <1>3, EndInv DEF Answers
<1>4. ASSUME End(r, "forbidden"), Lacks(job[r])
      PROVE  Inv'
  BY <1>2, <1>4, EndInv DEF Answers
<1>5. ASSUME NEW place \in {"pipes", "authorize", "work"}, Goto(r, place),
             job[r].at \in {"files", "pipes", "authorize"},
             place = "work" => Authorized(job[r])
      PROVE  Inv'
  <2>1. ASSUME NEW j \in Job, j = [job[r] EXCEPT !.at = place]
        PROVE  Fits(j, role[r])
    <3>1. j.at = place /\ Same(j, job[r])
      BY <2>1 DEF Inv, TypeOK, Job, Same
    <3> QED BY <1>1, <1>2, <1>5, <3>1, SameFits DEF Fits, Timed, Same
  <2> QED BY <1>5, <2>1, GotoInv DEF Places
<1>6. CASE ReceiveFiles(r)
  BY <1>3, <1>5, <1>6 DEF ReceiveFiles, At
<1>7. CASE Validate(r)
  BY <1>3, <1>5, <1>7 DEF Validate, At
<1>8. CASE Authorize(r)
  <2>1. job[r].at = "authorize" /\ role[r] \in job[r].held
    BY <1>1, <1>8 DEF Authorize, At, Fits
  <2>2. CASE May(r) /\ OnBoard(r) /\ Goto(r, "work")
    BY <1>5, <2>1, <2>2 DEF Authorized, May, OnBoard
  <2>3. CASE ~May(r) /\ End(r, "forbidden")
    <3>1. Documented(job[r].route)
      BY <1>1, <1>2, RouteTable DEF Fits, At
    <3>2. Lacks(job[r])
      <4>1. CASE job[r].route.author
        <5>1. job[r].route.name \in AuthorsWork
          BY <3>1, <4>1 DEF Documented
        <5>2. job[r].route.service = {}
          BY <3>1, <4>1 DEF Documented
        <5> QED BY <2>3, <5>1, <5>2 DEF May, Lacks
      <4>2. CASE ~job[r].route.author
        <5>1. job[r].route.name \notin AuthorsWork
          BY <3>1, <4>2 DEF Documented
        <5>2. /\ job[r].route.service # {}
              /\ role[r] \notin job[r].route.service
          BY <2>3, <4>2 DEF May
        <5>3. job[r].route.service = RolesFor(job[r].route.name)
          BY <3>1, <5>2 DEF Documented
        <5> QED BY <2>1, <5>1, <5>2, <5>3 DEF Lacks
      <4> QED BY <4>1, <4>2
    <3> QED BY <1>4, <2>3, <3>2
  <2>4. CASE End(r, "refused")
    BY <1>3, <2>4
  <2> QED BY <1>8, <2>2, <2>3, <2>4 DEF Authorize
<1>9. CASE Work(r)
  <2> DEFINE j == [job[r] EXCEPT !.at = "done", !.wrote = TRUE]
  <2>1. /\ j \in Job /\ j.at = "done" /\ j.wrote
        /\ j.route = job[r].route /\ j.token = job[r].token /\ j.own = job[r].own
        /\ j.foreign = job[r].foreign /\ j.answer = job[r].answer /\ j.held = job[r].held
    BY <1>1 DEF Job, Places
  <2>2. job' = [job EXCEPT ![r] = j] /\ UNCHANGED role /\ job[r].at = "work"
    BY <1>9 DEF Work, At
  <2> HIDE DEF j
  <2>3. /\ Authentic(j) <=> Authentic(job[r])
        /\ Admitted(j) <=> Admitted(job[r])
        /\ Authorized(j) <=> Authorized(job[r])
        /\ Answered(j) <=> Answered(job[r])
    BY <2>1 DEF Authentic, Admitted, Authorized, Answered, Lacks
  <2>4. Fits(j, role[r])
    BY <1>1, <2>1, <2>2, <2>3 DEF Fits, Timed
  <2> QED BY <2>1, <2>2, <2>4, OneJob
<1>10. CASE Refuse(r)
  BY <1>3, <1>10 DEF Refuse
<1>11. CASE Return(r)
  BY <1>3, <1>11 DEF Return
<1> QED BY <1>6, <1>7, <1>8, <1>9, <1>10, <1>11 DEF Handler

LEMMA FailInv ==
  ASSUME Inv, NEW r \in Requests, Fail(r)
  PROVE  Inv'
BY EndInv DEF Fail, InFlight, Answers

LEMMA TimeoutInv ==
  ASSUME Inv, NEW r \in Requests, Timeout(r)
  PROVE  Inv'
<1>1. Fits(job[r], role[r]) /\ job[r] \in Job
  BY DEF Inv, TypeOK
<1>2. job[r].at \in Timed /\ job[r].answer = None /\ ~At(r, "new") /\ ~At(r, "over")
  BY DEF Timeout, At, Timed
<1>3. CASE At(r, "files")
  BY <1>2, <1>3, EndInv DEF Timeout, Answers
<1>4. CASE ~At(r, "files")
  <2> DEFINE j == [job[r] EXCEPT !.answer = "late"]
  <2>1. job' = [job EXCEPT ![r] = j] /\ UNCHANGED role
    BY <1>2, <1>4 DEF Timeout, Reply
  <2>2. /\ j \in Job /\ j.at = job[r].at /\ j.wrote = job[r].wrote
        /\ j.route = job[r].route /\ j.token = job[r].token /\ j.own = job[r].own
        /\ j.foreign = job[r].foreign /\ j.answer = "late" /\ j.held = job[r].held
    BY <1>1 DEF Job, Answers
  <2> HIDE DEF j
  <2>3. /\ Authentic(j) <=> Authentic(job[r])
        /\ Admitted(j) <=> Admitted(job[r])
        /\ Authorized(j) <=> Authorized(job[r])
    BY <2>2 DEF Authentic, Admitted, Authorized
  <2>4. Answered(j)
    BY <2>2 DEF Answered
  <2>5. Fits(j, role[r])
    BY <1>1, <1>2, <2>2, <2>3, <2>4 DEF Fits, Timed
  <2> QED BY <2>1, <2>2, <2>5, OneJob
<1> QED BY <1>3, <1>4

\* The roles a caller has held only grow: what was allowed stays allowed, and
\* a reason to forbid stays one.
LEMMA ChangeRoleInv ==
  ASSUME Inv, NEW r \in Requests, NEW new \in Roles \cup {None}, ChangeRole(r, new)
  PROVE  Inv'
<1> DEFINE i == job[r]
<1> DEFINE H == IF InFlight(r) THEN i.held \cup {new} ELSE i.held
<1> DEFINE j == [i EXCEPT !.held = H]
<1>1. Fits(i, role[r]) /\ i \in Job
  BY DEF Inv, TypeOK
<1>2. i.held \subseteq H /\ H \subseteq Roles \cup {None}
  BY <1>1 DEF Job
<1>3. i.at \notin {"new", "over"} => new \in H
  BY DEF InFlight, At
<1>4. job' = [job EXCEPT ![r] = j] /\ role' = [role EXCEPT ![r] = new]
  BY DEF ChangeRole
<1> HIDE DEF i, H
<1>5. /\ j \in Job /\ j.at = i.at /\ j.wrote = i.wrote
      /\ j.route = i.route /\ j.token = i.token /\ j.own = i.own
      /\ j.foreign = i.foreign /\ j.answer = i.answer /\ j.held = H
  BY <1>1, <1>2 DEF Job
<1> HIDE DEF j
<1>6. (Authentic(j) <=> Authentic(i)) /\ (Admitted(i) => Admitted(j))
  BY <1>2, <1>5 DEF Authentic, Admitted
<1>7. (Authorized(i) => Authorized(j)) /\ (Lacks(i) => Lacks(j))
  BY <1>2, <1>5 DEF Authorized, Lacks
<1>8. Answered(i) => Answered(j)
  BY <1>5, <1>6, <1>7 DEF Answered
<1>9. Fits(j, new)
  BY <1>1, <1>3, <1>5, <1>6, <1>7, <1>8 DEF Fits
<1> QED BY <1>4, <1>5, <1>9 DEF Inv, TypeOK

\* The invariant is inductive.
LEMMA NextInv ==
  ASSUME Inv, [Next]_vars
  PROVE  Inv'
<1>1. CASE UNCHANGED vars
  BY <1>1 DEF Inv, TypeOK, vars
<1>2. CASE Next
  BY <1>2, ArriveInv, GuardsInv, HandlerInv, FailInv, TimeoutInv, ChangeRoleInv
     DEF Next, Step
<1> QED BY <1>1, <1>2

LEMMA Invariance == Spec => []Inv
BY InitInv, NextInv, PTL DEF Spec

-----------------------------------------------------------------------------
(* The theorems.                                                           *)

\* What is known of a request keeps its type at every place.
THEOREM TypeCorrect == Spec => []TypeOK
BY Invariance, PTL DEF Inv

LEMMA RolesFollow ==
  ASSUME Inv
  PROVE  WritesInRole
<1> SUFFICES ASSUME NEW r \in Requests, job[r].wrote
             PROVE  /\ job[r].route.name \in ManagersWork =>
                         job[r].held \cap BOARD_MANAGER_ROLES # {}
                    /\ job[r].route.name \in ContributorsWork =>
                         job[r].held \cap BOARD_CONTRIBUTOR_ROLES # {}
                    /\ job[r].route.name \in AuthorsWork => job[r].own
                    /\ ~job[r].route.public => job[r].token = "valid"
                    /\ job[r].foreign => job[r].route.name = RevokesById
  BY DEF WritesInRole
<1>1. /\ job[r].route \in Routes
      /\ Authentic(job[r]) /\ Admitted(job[r]) /\ Authorized(job[r])
  BY DEF Inv, Fits
<1>2. Documented(job[r].route)
  BY <1>1, RouteTable
<1> QED BY <1>1, <1>2
     DEF Documented, Authentic, Admitted, Authorized, BOARD_MANAGER_ROLES,
         BOARD_CONTRIBUTOR_ROLES

\* By whatever route, whatever the guards and the services read and when:
\* nobody writes who did not hold the documented right at some moment since his
\* request arrived, nor on another board than that of this right, unless he
\* revokes an invitation (BoardRolesGuard, BoardAccessService, the controllers,
\* the lookups by board and id).
THEOREM OnlyWritesInRole == Spec => []WritesInRole
BY Invariance, RolesFollow, PTL

LEMMA ReasonsFollow ==
  ASSUME Inv
  PROVE  ForbiddenForAReason
BY DEF Inv, Fits, Answered, Lacks, Authentic, ForbiddenForAReason

\* Whoever is told that something is forbidden to him lacked the documented
\* right at some moment since his request arrived, and who is sent away for his
\* token needed one and had none that is valid (JwtAuthGuard, BoardRolesGuard,
\* BoardAccessService, CommentsService).
THEOREM ForbidsForAReason == Spec => []ForbiddenForAReason
BY Invariance, ReasonsFollow, PTL
=============================================================================
