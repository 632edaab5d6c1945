# Backlog backend: a TLA+ model

This directory models the backlog backend (`src/src`, NestJS, Prisma,
PostgreSQL): boards with columns and numbered cards, comments and files,
issue types and versions, membership and invitations, accounts, sessions and
passwords, and the path of a request through guards, upload and timeout. TLC
checks small instances, TLAPS proves every safety property the runs check for
every size. Paths below are relative to the repository; `boards.service` and the like
are files under `src/src/modules`.

```
tlc -workers 2 -config MCBoards.cfg MCBoards    # every run: PROJECT.json, "runs"
tlapm CardsProofs.tla                           # and the seven other *Proofs modules
```

## 1. The system

The service is stateless: all state is in PostgreSQL (and files in an object
store). A request passes the guards, runs one controller method and one service
method, which awaits the database several times. Between two awaits any other
request may run, in the same process or in another instance, and a request may
end at any await: a refusal, a database error, a lost connection, a crash.
Statements inside `$transaction` appear together at commit; the database runs
at its default level, READ COMMITTED, so reads inside a transaction see what
others have committed by then. No job queue, no event bus and no cache keeps
state between requests.

| Component | State | Operations that change it | Talks to | Hard part |
|---|---|---|---|---|
| Boards (`boards.service`, `boards.repository`) | `boards` (code, `nextCardNumber`), `board_members` | create, createSample, duplicate, update, updateMemberRole, removeMember | Columns, Cards (creates their rows in one transaction) | duplicate reads with separate queries; a new code is checked, then written; last admin is counted, then removed |
| Columns (`columns.*`) | `columns` | create, update (title, order of cards), remove with its cards | Cards | cards enter a column while it is removed; two columns read the same last position |
| Cards (`cards.*`) | `cards`, soft deleted | create, update, move | Columns, Attachments, Issue types, Versions, Card history | numbering under concurrency; column, references and dates are checked and written apart |
| Card history (`card-history.service`) | comments of type SYSTEM | recordCardUpdate | Cards, Comments | compares a card read long before with the one read after |
| Comments (`comments.*`) | `comments`, soft deleted | create, update, remove | Attachments | text is written in one step, files go and come in two others |
| Attachments, Storage (`attachments.*`, `storage.service`) | `attachments`, objects | upload, attach, detach | Cards, Comments, Me | files and rows have no common transaction |
| Issue types, Versions | `issue_types`, `versions` | create, update, remove | Cards | name and date range are checked apart from the write |
| Board access (`board-access.service`, `board-roles.guard`) | none | none | Board members | a role read once per request |
| Board members (`board-members.*`) | `board_members` | its own writes have no caller | Boards, Invitations | - |
| Invitations (`invitations.*`) | `board_invitations`, and members on acceptance | create, revoke, resend, list (expires), accept, decline, bindPendingByEmail | Board members, Users, Email | answers race each other, resending, expiry and the invitee's registration |
| Auth (`auth.service`, `token.service`, `refresh-token.repository`) | `refresh_token_sessions` | register, verifyAccount, login, refresh, logout, forgotPassword, resetPassword | Users, Invitations, Email | registration, mail, verification and binding are separate steps; renewal against revocation |
| Users, Me (`users.*`, `me.*`) | `users` | changePassword, verification and reset fields, profile, avatar; `create`, `update`, `remove` of `users.service` have no caller | Auth, Storage | password checked, then written |
| HTTP shell (`common/`) | none | none | every controller | the timeout answers while the handler goes on |
| Email, Redis, Queue, Health, Configuration, Utilities | none that another component reads | - | - | Redis is only pinged by the health check; the queue is a stub |

What makes each correct, and where it is stated:

* **Numbering** (`Cards`, `Tickets`). No two cards of a board share a number, numbers
  come in order and without holes although a creation is several statements long
  and may fail in the middle (`NumbersUnique`, `ReservationHolds`, `NoNumberLost`,
  `NumbersIssuedInOrder`). A card's code can always be inserted
  (`NextCardCodeFree`: it cannot, see section 6).
* **Placement** (`Cards`). A card sits in a column of its own board
  (`ColumnOfOwnBoard`), in a live one (`NoOrphanCard`: not under concurrency), under
  a code that starts with its board's (`CardCodeMatchesBoard`); new cards of a
  column have different positions (`CreatedPositionsDistinct`).
* **Membership and invitations** (`Members`, `Invitations`). Nobody joins without an
  invitation that is pending when he joins (`JoinsByPendingInvitation`); a board
  keeps an admin (`BoardHasAdmin`); an offer is answered once (`AnsweredAtMostOnce`),
  an answer is final (`AnsweredIsFinal`), members have no pending invitation
  (`PendingInviteeNotMember`).
* **Accounts** (`Accounts`). A mailed link works until it is used (`MailedLinkWorks`),
  who verifies an address finds what was sent to it (`InvitationsReachTheirOwner`),
  and a token is mailed or its client learns that it was not (`LinkIsSent`).
* **Sessions** (`Sessions`). A revoked token stays revoked (`RevokedForGood`), a login
  has one live session (`OneSessionPerLogin`), what ended stays ended
  (`EndedForGood`), a reset ends older sessions (`NoSessionSurvivesReset`), a reset
  token works once (`ResetTokenUsedOnce`), a renewal gets a new token
  (`RenewalGetsNewToken`: not within a second).
* **Content** (`Content`, `FileStore`). A row never names a file that is not stored, nor
  moves to another owner (`FilesKept`); files without a row belong to somebody
  (`NoStrayFile`); only authors change comments (`AuthorOnly`); a comment has text or
  a file (`CommentHasBody`); a card's history leads to what the card is
  (`HistoryComplete`).
* **Catalog** (`Catalog`). Cards refer to issue types and versions of their own board
  (`RefsOwnBoard`), names of issue types differ (`IssueTypeNamesDistinct`), nothing
  ends before it starts (`RangesOrdered`: not with a null date), columns are numbered
  without gaps (`ColumnsNumbered`).
* **Http** (`Http`). Nobody writes without a documented role, nor, but for one route,
  on another board than the one he has it on (`WritesInRole`); nobody is kept from
  what he may do (`ForbiddenForAReason`); every request gets an answer
  (`EveryRequestAnswered`).

`PROJECT.json` lists the components one by one and, under "hazards", every place
where an order of steps, a failure or a stale read can hurt.

## 2. The modules

```
Tickets     what numbering promises
   ^ refined by
Cards       boards, columns, cards            MCCards, MCBoards  CardsProofs,
                                                                 PlacementProofs
Catalog     issue types, versions, dates,     MCCatalog          CatalogProofs
            order of columns
FileStore   what attachments promise
   ^ refined by
Content     comments, files, history          MCContent          ContentProofs
Members     members of a board
   ^ EXTENDS
Invitations invitations composed with Members MCInvitations      InvitationsProofs
Accounts    registration, links, binding      MCAccounts         AccountsProofs
Sessions    sessions and password of a user   MCSessions         SessionsProofs
Http        routes, guards, timeout, answers  (none needed)      HttpProofs
```

A card is spread over three modules, by the columns of its row that belong
together: numbers, column and position in `Cards`, references and dates in
`Catalog`, all other fields with files and history in `Content`. An update of a card
appears in each with the steps that touch its part. Invitations are two: one
board with its members in `Invitations`, addresses and users in `Accounts`.

Common conventions. `Requests` are slots for requests in flight; `job[r]` holds
the local variables of the request in slot `r` and `at`, the await it has
reached. A handler with n steps that matter is n actions; `Fail(r)` ends a request
at any of them. Soft-deleted rows stay in the tables, as in the code. A row that
does not exist yet has `None` in its key column. Fields marked "history" exist in
the model only, to state properties.

Steps were merged only where nothing is lost:

* Adjacent reads are one step when a later write of the same request is a step of
  its own: the write then already meets a state that differs from the one read.
* A check that repeats a unique index (board code before the insert, pending
  invitation before the insert) is one step with the insert: index and check
  refuse with the same answer. Names of issue types are not merged, as the check
  and the index compare differently.
* A transaction that waits for no row and whose reads do not decide its writes is
  one step, its commit. `CardsRepository.create` is not one: it takes the board's
  row lock with the increment and holds it over the read of the position until
  the insert commits, so it is three steps and `lock` is a variable.
* The foreign key check of an insert takes a KEY SHARE lock on the parent, which
  does not wait for an update of other columns; so a soft delete of a column
  does not wait for a card that is being inserted in it.
* A request that is refused changes nothing; refusals are the absence of a step
  (at the first await) or `Fail` (later).
* The timeout interceptor answers after 30 seconds while the handler goes on. A
  client that retries then has two requests in flight, which two slots cover.

### Cards and Tickets

| Model | Code |
|---|---|
| `boards`, `columns`, `cards` | tables; `next` is `next_card_number`, a card's code is the pair of `code` and `number` |
| `lock` | the row lock of an open `CardsRepository.create` |
| `CreateBoard` | `createBoardWithDefaults` and `createSampleBoard`, one transaction each |
| `DuplicateReadColumns`, `DuplicateWrite` | `duplicateBoard`: Prisma loads the relations with one query each, so columns and cards may be of different moments |
| `RenameCheck`, `RenameWrite` | `BoardsService.update` with a new code: count of live cards, later the write, which waits for the row lock |
| `AddColumn`, `RemoveColumnCheck`, `SoftDeleteWithCards` | `ColumnsService.create` and `remove` |
| `ReorderCheck`, `ReorderWrite` | `ColumnsService.update` with a list of cards |
| `CreateCardCheck`, `ReserveNumber`, `ReadLastPosition`, `InsertCard` | `CardsService.create`: checks, then the transaction of three statements |
| `UpdateCheck`, `UpdateCard` | `CardsService.update` with a column |
| `MoveCheck`, `MoveWrite` | `CardsService.move`: checks of both lists, then the transaction |

`boards[b].gaps` records the numbers `duplicateBoard` gave to cards it then
skipped; `cards[k].placed` says that the card still has the column and position
of its creation. Positions the client chooses (reorder, move) range over
`0..MaxPosition`. Boards and cards have no delete operation: cards are deleted with
their column. Two moves that lock the same cards in opposite orders make the
database refuse one of them; that is the `Fail` of its request.

`Tickets` is the abstract specification: every board has a dispenser, and a card
takes the number it shows and advances it in one step. `Cards` implements it under
`next <- NextShown`, `issued <- NumbersIssued`; the three statements of a creation
map to one step, at the commit.

### Catalog

| Model | Code |
|---|---|
| `TypeCreateCheck`, `InsertType`; `TypeUpdateCheck`, `WriteType`; `TypeRemoveCheck`, `DeleteType` | `IssueTypesService.create`, `update`, `remove`; the check of a name ignores case, the unique index does not |
| `CreateVersion`; `VersionUpdateCheck`, `WriteVersion`; `VersionRemoveCheck`, `DeleteVersion` | the same of `VersionsService`; a date is written with `toDate` |
| `CardCreateCheck`, `InsertCard`; `CardUpdateCheck`, `WriteCard` | references and dates in `CardsService.create` and `update` |
| `ColumnCreateRead`, `InsertColumn`; `ColumnRemoveCheck`, `RemoveColumn` | `ColumnsService.create` and `remove`, the positions |
| `ReorderCheck`, `ReorderWrite` | `columns` of `BoardsService.update`: any places the client likes, by column id |

A field of a request is `Unset` (absent) or `None` (JSON null), which the code treats
differently: `@IsOptional()` lets both pass, `??` takes both as not given, and
`toDate` writes a null as the first day of 1970. Issue types and versions are
deleted for good, and the foreign keys of cards are set to null in the same
statement. `tidy` records whether clients asked for columns in places 0, 1, 2 ...

### Content and FileStore

| Model | Code |
|---|---|
| `CommentCreateCheck`, `Upload`, `InsertComment` | `CommentsService.create`: checks, files one by one, then comment and rows in one transaction |
| `CommentUpdateCheck`, `EditComment`, `DropFromComment`, `Upload`, `AddToComment` | `CommentsService.update` |
| `CommentRemoveCheck`, `RemoveComment` | `CommentsService.remove`; its files stay, and can still be downloaded by id |
| `CardCreateCheck`, `InsertCard`; `CardUpdateCheck`, `EditCard`, `DropFromCard`, `AddToCard` | the same of cards |
| `RereadCard`, `RecordCardUpdate` | `CardHistoryService`: the card as read at the start against the card as read at the end. A failure there is swallowed, and the update stays |
| `UploadAvatar`, `WriteAvatar`, `UpdateProfile` | `MeService` |
| `RemoveCard` | a column removed with its cards |

A storage key is a fresh UUID, so a file stands for its key and its row.
`FileStore` is the abstract specification: store a file, attach stored files to one
owner, remove files of one owner. `Content` implements it under `owner <- OwnerOf`,
`shown <- Downloadable`; uploads map to `Store`, inserts of rows to `Attach`, soft
deletes of rows to `Remove`. History entries are comments, and their actor can edit
and delete them with the comments API; `HistoryComplete` asks that nobody did.
`move` writes no entry and changes no field that entries show.

### Members and Invitations

One board is modelled, as boards share no members, with one email address per
user. `members[u]` is the role of an active member and `None` for others, removed
members included: their row still exists, but a role written on it counts for
nothing until the row is restored together with a new role. `ReadMember`,
`CountAdmins` and `WriteMember` are the steps of `updateMemberRole` and
`removeMember`: the admins are counted only if an admin is lost. Role `None` means
removal.

| Model | Code |
|---|---|
| `InviteCheck`, `InviteInsert` | `createForBoard`; the partial unique index decides about a second pending one |
| `Revoke` | one UPDATE with the status in its WHERE clause. The invitation is found by its id alone, so the caller need not manage this board, only some board (section 6) |
| `Resend` | one UPDATE with the status in its WHERE clause, of an invitation to this board; a manager's role is read first |
| `ExpireAll` in `ListForBoard`, `ListMine` | listing first marks late invitations expired |
| `AnswerCheck`, then `Accept`, `Decline` or `MarkExpired` | the invitee's answer: found by its token, checked, then written; `Accept` is a transaction that ends unless the invitation is still pending; `MarkExpired` writes by id alone |
| `BecomeLate` | the clock passes `expiresAt` |

`offers` and `answers` count how often an invitation was offered (created, resent)
and answered. Tokens are hashed and looked up exactly; a token stands for the
invitation that has it.

### Accounts

| Model | Code |
|---|---|
| `RegisterCheck`, `CreateUser`, `ReadToken`, `SendMail` | `AuthService.register`: the address is free, the user is written, the token is read back, the mail is sent |
| `VerifyCheck`, `FindToken`, `Activate`, `Bind` | `verifyAccount`: the repository finds the token again before it writes; then pending invitations to the address are bound |
| `InviteCheck`, `InsertInvitation`, `SendInvitationEmail` | `createForBoard`: the invitee's account is read before the insert |
| `ResendCheck`, `Resend`, `SendInvitationEmail` | `resend` |
| `AnswerCheck`, then `Answer` or `MarkExpired` | accept and decline, as far as the address is concerned; `MarkExpired` writes by id alone, as in `Invitations` |
| `Lapse`, `Expire`, `Revoke` | the clock, expiry by a listing, revocation |

`mailed` and `invited` are the links that were sent, `lost` those whose request broke
off before the mail: the client then has an error, and for a registration nothing
ever sends the link again. Every statement is a step.

### Sessions

One verified user is modelled; sessions of different users never touch. A token
is the second it was signed in, as nothing else goes into the JWT besides user
and email. `sessions[t]` is the row with that token hash. Login and refresh are
three steps each (check, sign, insert), resetPassword three (check, write the
password, revoke all), changePassword two, logout and forgotPassword one (their
read decides nothing that may change: the user stays verified). `replacedByTokenHash` is written
and never read, so it is left out. The clock advances by `Tick` at any moment.

History: `login` of a session is the login it goes back to, `version` of the
password given there; `closed` is the last version whose reset was completed;
`alone` is true until two requests overlap for the first time.

### Http

`Routes` is the table of all routes, controller by controller: public or not, the
roles the guard asks for, the roles the service asks for, author only, multipart, and
for a row that the path names beside its board (a column, a version, a member, an
invitation) whether the service looks it up on that board (`RowOfBoard`) or by its id
alone (`RowById`, which is `revoke`). A request arrives with a route, a token, files and
a row of the path's board or of another (`foreign`); the actions are the stations it
passes: `Throttle`, `Authenticate`, `FindBoard` and `FindMember` (`BoardRolesGuard`,
two reads of the board in the path), `ReceiveFiles`, `Validate`, `Authorize` (the
service's own checks, where there are any: of the caller, `May`, and of the row,
`OnBoard`), `Work`, `Return`. `Refuse` is an exception the service throws by its other
rules, before or after it has written.

Answers are told apart by what they say, not by their status: `forbidden` is "you are
not a member, not in the role, not the author"; `refused` is every other exception of
a service. So the 403 for an invitation that has expired, which is sent after the
invitation was marked, is a `refused`. `Timeout` fires at any moment behind the guards, which are
outside the interceptor; `ChangeRole` changes the caller's role at any moment. `held`
are the roles he has had since the request arrived. One slot is one request; the
slots share nothing, so one is enough for TLC and the proof is about any number.

## 3. The runs

Sizes are distinct states.

| Run | Instance | Checks | States |
|---|---|---|---|
| `cards` | 2 requests, 2 boards, 3 columns, 2 cards, 2 codes, positions 0..1; three subjects: one board with every operation, several boards with duplication, one request at a time with everything | types, numbering, refinement of `Tickets`, columns and positions; live columns and codes one request at a time | 248 thousand |
| `cards_orphan` | 2 requests, 1 board | `NoOrphanCard` is violated | - |
| `cards_stuck` | 1 request, 2 boards | `NextCardCodeFree` is violated | - |
| `catalog` | 2 requests, 2 boards, 2 types, 1 version, 1 card, 1 word in 2 cases, days 0..2, 3 columns; four subjects: names, references, dates, order | types, references; names, ranges and numbering of columns until requests overlap | 829 thousand |
| `catalog_null` | 1 request | `RangesOrdered` is violated when clients send null | - |
| `content` | 2 requests, 2 users, 1 card, 2 comments, 2 files, 2 values; 4 requests arrive | types, refinement of `FileStore`, authors, stray files; bodies and history while requests do not overlap | 1.0 million |
| `invitations` | 2 requests, 2 users, 2 invitations, 2 offers each, ADMIN and MEMBER; two subjects: racing, and one request at a time without resending | types, answers, joining; last admin, final answers, no invited member one at a time | 1.4 million |
| `invitations_resent` | 1 request, with resending | `BoardHasAdmin` is violated | - |
| `accounts` | 2 requests, 2 addresses, 2 users, 2 tokens, 1 invitation; 5 requests arrive | types, links, owners of invitations, and that links are sent (liveness) | 400 thousand |
| `sessions` | 2 requests, 2 passwords, 2 reset tokens, 3 seconds, tokens live 2 | types and the session properties | 1.6 million |
| `sessions_renewal` | 1 request | `RenewalGetsNewToken` is violated | - |
| `http` | 1 request, every route | types; roles, and the board of the row, of those who write; refusals; that every request is answered (liveness) | 266 thousand |

Why these bounds are enough for what the runs claim. The hazards are races of a
check with a write, or of two writes: two slots give every such order, and a slot
is reused, so a third and fourth request follow. Two cards are needed to collide
in a number or a position, two columns to move between, a second board to take a
code or to refer across. One column of a new board (`DefaultColumns = 1`, four in
the code) and one sample card leave ids for later steps. Two comments show that
files do not move between them, two files that one is kept while the other goes.
Two types collide in a name, one word in two cases is what the check and the index
judge differently; three columns leave a gap when the middle one goes. Two users
allow the creator and an invitee to exchange roles until the creator is gone, and
two users with two addresses let two registrations race for one address while an
invitation waits for it. Three seconds with a life time of two allow a token that is
renewed, expires, or coincides with another; two reset tokens allow one to replace
the other. Ids run out in the finite instance: a request that would need another one
can only fail. Where a request-free state may have no step left (ids used up, no
request left to arrive), the configuration does not check for deadlock.

The subjects of `MCBoards`, `MCCatalog` and `MCInvitations` divide behaviours, not
states: each behaviour picks one and may use all the operations that subject names.
The subjects of `MCCatalog` share only the references of cards, which "references"
covers with types, versions and cards together.

The bounds by name: `MaxPosition` (positions), `MaxOffers` (offers per invitation),
`MaxSecond` (clock), `MaxRequests` (requests that arrive), `MaxFiles` (files of one
request), `MaxDay` (dates), `MaxColumn` (column ids), and the sizes of the sets.
Symmetry is declared on sets whose elements no definition compares with `<` or
fixes, and only in runs without liveness, where it is sound.

Properties that hold only one request at a time are still worth stating, as they
tie several operations together; each says so in its comment. What two requests
can do to them is listed under "hazards": two admins can remove each other; a
member can get a pending invitation while he accepts another; a late expiry can
overwrite an answer; a renewal in flight survives logout and reset; a login that
has compared the old password survives the reset; two resets with one token both
pass; two updates of a version each keep the end the other moved; two updates of a
comment take its text and its last file. `Sessions` and `Catalog` state these
properties with `alone`, `Content` with `calm`, so that the concurrent run checks
them on all histories up to the first overlap.

## 4. Fairness and liveness

Requests come from clients, who need not send any; the code has no retries, no
background jobs and no queue, so nothing must happen by itself. Liveness is
therefore about requests that have arrived, in two modules.

* `Accounts`: `WF_vars(Step(r) \/ Fail(r))` for every request. Every call a handler awaits
  returns or throws (drivers and the mail provider have timeouts), and the runtime
  resumes it. It may fail at every step; `LinkIsSent` says that a token that was
  written is mailed, or that its client got an error, or that another took its
  place. No fairness is assumed for arrivals, the clock or other users.
* `Http`: `WF_vars(Guards(r) \/ ...)`, as the reads of the guards come back with a row or an
  error, and `WF_vars(Timeout(r))`, as the timer fires. Nothing is assumed of the
  handler: `EveryRequestAnswered` holds though it hangs, because the interceptor answers
  for it.

The other modules state no fairness; their properties are safety.

## 5. The proofs

Every invariant and every action property of a passing run is a theorem; only the
two liveness properties are not. All constants are arbitrary sets; the assumptions
are the ones the modules state: `None` differs from every id and from every text, the
bounds are natural numbers, the set of card ids is finite (`FiniteAssumption`, for the
cardinalities in positions and duplication), so is the set of users, the creator is a
user (`UsersAssumption`), the roles in use belong to the enum. A theorem
`TypeCorrect` (`InvitationsTypeCorrect`, `SessionsTypeCorrect`) is in each proof module.
`PlacementProofs` and `InvitationsProofs` also extend the MC module of their run, as
two of its invariants are about the behaviours with subject "serial".

A property that fails in general is proved under the restriction that makes it true,
so that the runs which violate it and the theorem together name the cause:

| Violated | Holds if | Theorem |
|---|---|---|
| `NoOrphanCard` | each request ends before the next begins (`Cards!SerialSpec`) | `CardsHaveAColumn` |
| `NextCardCodeFree` | no board changes its code (`KeepsCodes`) | `NextCodeIsFree` |
| `BoardHasAdmin` | requests come one at a time and nothing is resent (`Invitations!SerialSpec`) | `SerialBoardKeepsAdmin` |
| `RenewalGetsNewToken` | nobody renews in the second his token was signed in (`RenewsLater`) | `LaterRenewalGetsNewToken` |
| `RangesOrdered` | dates are not JSON null (`Catalog!DatedSpec`) | `RangesStayOrdered` |

**CardsProofs.** `NumbersUnique` alone is not inductive: the step that inserts a card
uses a number read earlier. The invariant `NumberInv` adds what that number is
worth: a request between increment and insert holds the row lock of its board,
and its number is the board's counter (`JobInv`), a board's counter is never 0, and cards
belong to existing boards. A rename waits for the lock and keeps the counter; a
duplicate writes new rows only. From it: `NumbersAlwaysUnique`,
`ReservationAlwaysHolds`, and `IssuesInOrder`, the refinement of `Tickets`: `InsertCard`
maps to `Issue`, the creation of a board to `Open`, every other step to a stutter.

**PlacementProofs** (extends `CardsProofs`). A card never changes its board and a column
neither, so what `create`, `update` and `move` have checked about the two stays true until
they write (`Placing`), which gives `CardsStayOnTheirBoard`. A creation that has read the
last position is ahead of every created card of its column (`Ahead`) and stays so:
another creation in that column works on the same board, so it would hold the same
row lock, and updates and moves give up the place of a card's creation. From this
`CreatedPositionsStayDistinct`, with a count of the cards ranked before in a new board.
`NoNumberIsLost` follows from `NumberInv`: the insert adds just the number the
counter passes, and a new board is numbered by a bijection with `1..n`.

One request at a time, `SerialInv` adds to these that only one slot is busy and that what
its request has read is still current (`Current`): its columns are live, its code is its
board's, and the board it is about to rename has no live card. `CardsHaveAColumn` and
`CardsHaveTheirBoardsCode` follow, and from them the two invariants of the run.
`NextCodeIsFree` is about requests in any order: while `KeepsCodes` holds, board codes are
distinct and a card's code is its board's for good (`NamesInv`), so a number that is
free on the board is free with the code. A rename breaks just that, as deleted cards
keep the code they had.

**InvitationsProofs.** `OneAnswerPerOffer` needs that a pending invitation has an offer
left over, `answers < offers`: every answer takes a pending invitation, every offer
makes one. `JoinersWereInvited` needs in addition that a request which has read an
invitation remembers the invitee and the role the row still has (nobody changes
them after the insert), and that used rows have both; and that a role change never
turns `None` into a role. Three theorems are about `SerialSpec`, one request at a time and
nothing resent. `SerialInv` says that the other slots are idle and that what the one
request has checked is still so (`StillSo`): another admin is left, the invitee is no member,
the invitation is pending. `SerialInviteesAreNoMembers` needs besides that a user has one
pending invitation, as accepting one would make him a member while the other is
pending. It also gives `SerialBoardKeepsAdmin` its case `Accept`: whoever accepts was
no member, so no admin is demoted. `SerialAnswersAreFinal` follows from `StillSo`.
`SerialRunKeepsAdmin`, `SerialRunInvitesNoMember` and `SerialRunAnswersAreFinal` say the same
of the run, whose behaviours with subject "serial" take these steps.

**SessionsProofs.** `RevocationIsFinal` rests on the unique index: only a token without
a row is inserted. The other theorems hold until requests overlap; `EndedLoginsStayEnded` adds that a
renewal takes the login of a session that is live until then. Their invariant
has three parts beside the types: as long as `alone` holds at most one request is
active (`Sole`); live sessions of one login are one, and none is of an older
version than `closed` (`SessionInv`); the stored reset token has not been used
(`ResetInv`); and what a request remembers is still so (`JobInv`), for instance
that the session it renews is the only live one of its login. Two more are about the
token of a renewal: one that succeeds has a new token whatever overlaps
(`RenewalNeverReusesToken`: the row of the old one is still there, and the insert wants
none), and it always has one if clients renew a second later (`LaterRenewalGetsNewToken`:
the clock never goes back between check and signature).

**AccountsProofs.** `MailedLinksWork` could fail if a verification token were used
before it is mailed, or replaced after. The invariant says that a registration which has not
mailed its token is the only one of its address and its user is still inactive with
that token (`WriterOK`), that whoever verifies presents a link that was mailed
(`VerifierOK`), and that a mailed link belongs to an active user or to one who still
has its token (`LinksInv`). `InvitationsFindTheirOwner` follows from `RowsInv`: an
address has one user, and an invitation that names a user names one with its own
address; `InviterOK` carries that through the request that read the user before it
inserted the invitation.

**ContentProofs.** Files that a request has prepared are stored, have no row, and no
other request has them (`FilesInv`); what a request has checked about its comment is
still so when it writes (`Fits`): comments keep their user and are never created
anew. For every step the proof shows what it does to files (`FilesStep`), to prepared
ones (`Keeps`) and to comments (`Authored`), and the theorems follow from these:
`FilesAreKept` (the refinement of `FileStore`), `NoFileStrays`, `OnlyAuthorsChange`.
`CommentsKeepABody` and `HistoriesAreComplete` are claims about moments at which no request
is in flight, so `CalmInv` says what the one request still has to do: an update of a
comment that is about to drop its last file will add another or has written a text,
and the history plus the entry the request will write leads to the value the card
has now. It is an invariant as long as `calm` holds.

**CatalogProofs.** What a check of references has found stays true as far as it
matters: rows do not move to another board and their ids are not used again
(`RowsKeep`, `Refers`), and that a row still exists is asked again by the foreign
key, which gives `ReferencesStayOnTheBoard` for any interleaving. `TypeNamesStayDistinct`
needs `AloneInv`: until requests overlap one is in flight, and the name it has
checked is still free when it writes. `ColumnsStayNumbered` needs `OrderInv`: the places
are `0 .. n - 1` without doubles (`Numbered`), and an insert in flight has read `n`. The step
that is not arithmetic is the removal, after which the code numbers the columns left by
rank: the ranks of a finite set of distinct places are `0 .. n - 1`, which `Ranks` proves by
counting the places below. `RangesStayOrdered` needs `DatesInv`: an update in flight has
compared the dates it will leave, the ones it keeps included; it is about `DatedSpec`, as a
null passes the comparison (section 6).

**HttpProofs.** Requests share nothing, so the invariant is a predicate of one request
(`Fits`): at each place, the checks that lie behind it have been passed, with a role
the caller held at some moment, and nothing is written before `Work`. `RouteTable`
compares the table of routes with the documented permissions once, in both directions:
a route that writes asks for no less (and for the board of its row, with the one
exception), and no route asks for more. `OnlyWritesInRole` follows from the first,
`ForbidsForAReason` from the second.

Each strengthening was given to TLC as an invariant of an instance before it was proved.

Only model-checked: the two liveness properties, `LinkIsSent` and `EveryRequestAnswered`.
They rest on weak fairness, and the prover can neither unfold ENABLED nor count
down the steps a request has left.

## 6. Where code and documentation disagree

Shown by a run:

* **A live card in a removed column** (`cards_orphan`). `CardsService.create`, `update`
  and `move` check the column first and write later without looking again; the
  removal of the column deletes the cards it sees. A comment in
  `boards.repository` says such a card should not occur; `duplicateBoard` skips it
  and leaves a hole in the copy's numbers.
* **A board that can get no more cards** (`cards_stuck`). A board code may change when no
  live card is left, but deleted cards keep their codes and the unique index covers
  them. Another board that takes the code over fails at the first number a deleted
  card has, and each attempt rolls the counter back to it.
* **The last admin demoted by an invitation** (`invitations_resent`). An expired invitation
  can be resent to somebody who is a member by now; accepting it overwrites his
  role, and no admin is counted.
* **A renewal that gets its own token** (`sessions_renewal`). Two refresh tokens signed in one
  second are equal; the second insert trips the unique index and the renewal
  fails with an internal error.
* **An end before its start** (`catalog_null`). A date that is JSON null passes
  validation and the comparison, and is written as 1970-01-01, for versions and cards.

Met while reading, and not part of a run, as no document says otherwise or only the
wording is at stake:

* `docs/plan/phase-07-hardening-cleanup.md` gives "Manage members" to ADMIN; the code
  lets ADMIN and PM. `docs/api/cards.md` asks for a "board member"; the code refuses
  a GUEST. `WritesInRole` takes the code's managers for the first and the stricter
  reading for the second.
* `revoke` looks an invitation up by its id (`invitations.service`, 126 and 134), while the
  guard has asked for a manager of the board in the path: a manager of any board
  can revoke an invitation to any other. `resend`, beside it, and every other route
  with a row in its path compare the two. No document speaks of it, apart from the
  comment in `board-access.service` that managers are for "mutations on board
  sub-resources". `WritesInRole` names the route as its only exception.
* `docs/api/versions.md` (234) and `docs/api/issue-types.md` (185) speak of a soft delete;
  the code deletes the row, and so does `Catalog`. The column `deleted_at` of both
  tables is never written.
* `docs/api/auth.md` says 500 when the mail of a registration cannot be sent; the code
  answers 503.
* `main.ts` serves `/uploads/` statically, while a comment in `attachments.service`
  says that this route no longer exists.
* `move` puts a card in another column without a history entry, although entries
  of `update` show the column.

## 7. The plan

1. `Cards` with `Tickets`: done.
2. `Members`, `Invitations`: done.
3. `Sessions`: done.
4. `Accounts`, with the first liveness property: done.
5. `Content` with `FileStore`: done.
6. `Catalog`: done.
7. `Http`: done.
8. Proofs of every safety property of the runs: done. Next: what a session of an older
   password needs to survive a reset, stated without `alone`.
9. Models, next: the copies of references `duplicateBoard` makes (they map through ids
   created in the same transaction, so nothing can change in between);
   `Invitations` with the timeout, when a client retries an acceptance.

### Not modelled

* Redis, Queue, the probes of Health: no state any component depends on.
* Configuration, Seed: before the service starts. Ports, CORS and API documents of
  Bootstrap, and all decorators for Swagger: no behaviour.
* Writes without a caller: `UsersService.create`, `update`, `remove` and the writes of
  `BoardMembersService`.
* Utilities other than `generateRandomToken`, search and listing queries, pagination:
  they change nothing; the contents of titles, descriptions, colours and names beyond
  what a property tells apart.
* Unique indexes on titles of columns and names of versions: they only refuse. (The
  one of columns covers deleted ones.)
* Response formats and log files; presigned links and the choice between local disk
  and S3 in Storage, which differ in failures only.
* Expiry of access tokens: they open no session and end by themselves.
* The assignee of a card: he is checked to be a member when he is assigned, and his
  removal from the board does not touch his cards, one request at a time or not; no
  document promises otherwise.
* What the history says of a card's column, and of names it shows that others
  change (assignees, issue types, versions): the value of a card in `Content` stands
  for the fields an update writes into the card.
