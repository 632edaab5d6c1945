------------------------------ MODULE Catalog ------------------------------
(***************************************************************************)
(* What a board keeps beside its cards' numbers: issue types, versions,    *)
(* the order of its columns, and the cards' references and dates           *)
(* (IssueTypesService, VersionsService, ColumnsService, CardsService and   *)
(* their repositories).                                                    *)
(*                                                                         *)
(* A request checks its input against rows it reads and writes in a later  *)
(* step; anything may happen in between.  A request that is complete after *)
(* one statement is one step.  Boards are never removed.                   *)
(*                                                                         *)
(* Left out: names of versions and titles of columns (their unique indexes *)
(* only refuse), colours, and all that Cards and Content model.            *)
(***************************************************************************)
EXTENDS Naturals, FiniteSets

CONSTANTS
  Requests,   \* slots for requests in flight
  Boards,     \* the boards
  Types,      \* issue type ids
  Versions,   \* version ids
  Cards,      \* card ids
  Words,      \* names of issue types up to upper and lower case
  Cases,      \* ways to write a word
  MaxDay,     \* bound: the last day a client names
  MaxColumn,  \* bound: the last column id
  None,       \* SQL NULL, JSON null, an absent row
  Unset       \* a field the request does not have

ASSUME CatalogAssumption ==
  /\ MaxDay \in Nat
  /\ MaxColumn \in Nat
  /\ None # Unset
  /\ {None, Unset} \cap (Boards \cup Types \cup Versions \cup Cards \cup Nat) = {}

Names == [word : Words, case : Cases]

\* Days since 1970-01-01.
Days == 0 .. MaxDay

ColumnIds == 1 .. MaxColumn

VARIABLES
  types,     \* table issue_types
  versions,  \* table versions
  cards,     \* table cards, its references and dates
  columns,   \* table columns, without the cards in them
  job,       \* the local variables of the request in each slot
  alone,     \* history: no request has arrived while another was in flight
  tidy       \* history: the places clients asked for were 0, 1, 2 ... with those
             \* of the board's other columns

vars == <<types, versions, cards, columns, job, alone, tidy>>

-----------------------------------------------------------------------------
(* Rows.  Issue types and versions are deleted for good, and ids are not   *)
(* used again.  Columns are deleted by a mark.                             *)

Type == [status : {"none", "live", "gone"}, board : Boards \cup {None},
         name : Names \cup {None}]

Version == [status : {"none", "live", "gone"}, board : Boards \cup {None},
            start : Days \cup {None}, end : Days \cup {None}]

Card == [board : Boards \cup {None}, type : Types \cup {None},
         version : Versions \cup {None}, start : Days \cup {None},
         due : Days \cup {None}]

Column == [board : Boards \cup {None}, live : BOOLEAN, position : Nat]

Places == {"idle", "insertType", "writeType", "deleteType", "writeVersion",
           "deleteVersion", "insertCard", "writeCard", "insertColumn",
           "removeColumn", "reorderColumns"}

Job == [at : Places, board : Boards \cup {None}, type : Types \cup {None, Unset},
        version : Versions \cup {None, Unset}, card : Cards \cup {None},
        name : Names \cup {None}, start : Days \cup {None, Unset},
        end : Days \cup {None, Unset}, column : ColumnIds \cup {None}, position : Nat,
        places : [ColumnIds -> Nat \cup {Unset}]]

NoPlaces == [c \in ColumnIds |-> Unset]

Idle == [at |-> "idle", board |-> None, type |-> None, version |-> None,
         card |-> None, name |-> None, start |-> Unset, end |-> Unset,
         column |-> None, position |-> 0, places |-> NoPlaces]

TypeOK ==
  /\ types \in [Types -> Type]
  /\ versions \in [Versions -> Version]
  /\ cards \in [Cards -> Card]
  /\ columns \in [ColumnIds -> Column]
  /\ job \in [Requests -> Job]
  /\ alone \in BOOLEAN
  /\ tidy \in BOOLEAN

Init ==
  /\ types = [t \in Types |-> [status |-> "none", board |-> None, name |-> None]]
  /\ versions = [v \in Versions |->
                   [status |-> "none", board |-> None, start |-> None, end |-> None]]
  /\ cards = [k \in Cards |-> [board |-> None, type |-> None, version |-> None,
                               start |-> None, due |-> None]]
  /\ columns = [c \in ColumnIds |-> [board |-> None, live |-> FALSE, position |-> 0]]
  /\ job = [r \in Requests |-> Idle]
  /\ alone = TRUE
  /\ tidy = TRUE

TypeOf(t, b) == types[t].status = "live" /\ types[t].board = b

VersionOf(v, b) == versions[v].status = "live" /\ versions[v].board = b

At(r, place) == job[r].at = place

AllIdle == \A r \in Requests : At(r, "idle")

Open(r, j) ==
  /\ At(r, "idle")
  /\ job' = [job EXCEPT ![r] = j]
  /\ alone' = (alone /\ AllIdle)

Begin(r, j) == Open(r, j) /\ UNCHANGED tidy

Finish(r) ==
  /\ job' = [job EXCEPT ![r] = Idle]
  /\ UNCHANGED <<alone, tidy>>

\* A request of one statement.
Instant ==
  /\ alone' = (alone /\ AllIdle)
  /\ UNCHANGED <<job, tidy>>

\* A refusal by the database, an error or a crash.
Fail(r) ==
  /\ ~At(r, "idle")
  /\ Finish(r)
  /\ UNCHANGED <<types, versions, cards, columns>>

-----------------------------------------------------------------------------
(* What validation lets through, of issue types (T), versions (V) and      *)
(* dates (D).  @IsOptional() lets JSON null pass: None.  Creating a card,  *)
(* a reference that is missing and one that is null are the same.          *)

CreateIssueTypeDto == Names

CreateVersionDto(D) == [start : D, end : D]

CreateCardDto(T, V, D) ==
  [type : T \ {Unset}, version : V \ {Unset}, start : D, due : D]

UpdateCardDto(T, V, D) == [type : T, version : V, start : D, due : D]

-----------------------------------------------------------------------------
(* Issue types.                                                            *)

\* Variant for mutation: the check compares as the index does.
NameFreeExact(b, n, t) ==
  \A u \in Types \ {t} : ~(TypeOf(u, b) /\ types[u].name = n)

\* ensureNameAvailable compares without regard to case.
NameFree(b, n, t) ==
  \A u \in Types \ {t} : ~(TypeOf(u, b) /\ types[u].name.word = n.word)

\* The unique index compares exactly.
NotTaken(b, n, t) ==
  \A u \in Types \ {t} : ~(TypeOf(u, b) /\ types[u].name = n)

TypeCreateCheck(r, b, n) ==
  /\ NameFree(b, n, None)
  /\ Begin(r, [Idle EXCEPT !.at = "insertType", !.board = b, !.name = n])
  /\ UNCHANGED <<types, versions, cards, columns>>

InsertType(r, t) ==
  /\ At(r, "insertType")
  /\ types[t].status = "none"
  /\ NotTaken(job[r].board, job[r].name, None)
  /\ types' = [types EXCEPT ![t] = [status |-> "live", board |-> job[r].board,
                                    name |-> job[r].name]]
  /\ Finish(r)
  /\ UNCHANGED <<versions, cards, columns>>

\* The name it already has is not checked.
TypeUpdateCheck(r, b, t, n) ==
  /\ TypeOf(t, b)
  /\ n # types[t].name => NameFree(b, n, t)
  /\ Begin(r, [Idle EXCEPT !.at = "writeType", !.type = t, !.name = n])
  /\ UNCHANGED <<types, versions, cards, columns>>

WriteType(r) ==
  LET t == job[r].type IN
  /\ At(r, "writeType")
  /\ types[t].status = "live"
  /\ NotTaken(types[t].board, job[r].name, t)
  /\ types' = [types EXCEPT ![t] = [@ EXCEPT !.name = job[r].name]]
  /\ Finish(r)
  /\ UNCHANGED <<versions, cards, columns>>

TypeRemoveCheck(r, b, t) ==
  /\ TypeOf(t, b)
  /\ Begin(r, [Idle EXCEPT !.at = "deleteType", !.type = t])
  /\ UNCHANGED <<types, versions, cards, columns>>

\* The foreign key of cards is ON DELETE SET NULL.
DeleteType(r) ==
  LET t == job[r].type IN
  /\ At(r, "deleteType")
  /\ types[t].status = "live"
  /\ types' = [types EXCEPT ![t] = [@ EXCEPT !.status = "gone"]]
  /\ cards' = [k \in Cards |->
                 IF cards[k].type = t THEN [cards[k] EXCEPT !.type = None] ELSE cards[k]]
  /\ Finish(r)
  /\ UNCHANGED <<versions, columns>>

-----------------------------------------------------------------------------
(* Versions, and dates in general.                                         *)

\* dto.x ?? stored: null counts as not sent.
Given(x, stored) == IF x \in {None, Unset} THEN stored ELSE x

\* Variant for mutation: a date that was not sent is converted like any other.
WrittenUnguarded(x, stored) == IF x = None THEN 0 ELSE x

\* toDate: new Date(null) is the first day of 1970.
Written(x, stored) == IF x = Unset THEN stored ELSE IF x = None THEN 0 ELSE x

\* ensureDateRangeValid
RangeValid(start, end) == start # None /\ end # None => start <= end

CreateVersion(b, v, s, e) ==
  /\ RangeValid(Given(s, None), Given(e, None))
  /\ versions[v].status = "none"
  /\ versions' = [versions EXCEPT ![v] = [status |-> "live", board |-> b,
                    start |-> Written(s, None), end |-> Written(e, None)]]
  /\ Instant
  /\ UNCHANGED <<types, cards, columns>>

\* Variant for mutation: only the dates of the request are compared.
VersionUpdateCheckSent(r, b, v, s, e) ==
  /\ VersionOf(v, b)
  /\ RangeValid(Given(s, None), Given(e, None))
  /\ Begin(r, [Idle EXCEPT !.at = "writeVersion", !.version = v, !.start = s, !.end = e])
  /\ UNCHANGED <<types, versions, cards, columns>>

VersionUpdateCheck(r, b, v, s, e) ==
  /\ VersionOf(v, b)
  /\ RangeValid(Given(s, versions[v].start), Given(e, versions[v].end))
  /\ Begin(r, [Idle EXCEPT !.at = "writeVersion", !.version = v, !.start = s, !.end = e])
  /\ UNCHANGED <<types, versions, cards, columns>>

WriteVersion(r) ==
  LET v == job[r].version IN
  /\ At(r, "writeVersion")
  /\ versions[v].status = "live"
  /\ versions' = [versions EXCEPT ![v] =
                    [@ EXCEPT !.start = Written(job[r].start, versions[v].start),
                              !.end = Written(job[r].end, versions[v].end)]]
  /\ Finish(r)
  /\ UNCHANGED <<types, cards, columns>>

VersionRemoveCheck(r, b, v) ==
  /\ VersionOf(v, b)
  /\ Begin(r, [Idle EXCEPT !.at = "deleteVersion", !.version = v])
  /\ UNCHANGED <<types, versions, cards, columns>>

\* ON DELETE SET NULL, too.
DeleteVersion(r) ==
  LET v == job[r].version IN
  /\ At(r, "deleteVersion")
  /\ versions[v].status = "live"
  /\ versions' = [versions EXCEPT ![v] = [@ EXCEPT !.status = "gone"]]
  /\ cards' = [k \in Cards |->
                 IF cards[k].version = v
                 THEN [cards[k] EXCEPT !.version = None] ELSE cards[k]]
  /\ Finish(r)
  /\ UNCHANGED <<types, columns>>

-----------------------------------------------------------------------------
(* References and dates of cards.                                          *)

\* The checks of create and update: a reference that is given belongs to the
\* board of the card.
RefsBelong(b, t, v) ==
  /\ t \in Types => TypeOf(t, b)
  /\ v \in Versions => VersionOf(v, b)

\* The foreign keys: a reference that is written exists.
RefsExist(t, v) ==
  /\ t \in Types => types[t].status = "live"
  /\ v \in Versions => versions[v].status = "live"

CardCreateCheck(r, b, t, v, s, d) ==
  /\ RangeValid(Given(s, None), Given(d, None))
  /\ RefsBelong(b, t, v)
  /\ Begin(r, [Idle EXCEPT !.at = "insertCard", !.board = b, !.type = t, !.version = v,
                           !.start = s, !.end = d])
  /\ UNCHANGED <<types, versions, cards, columns>>

InsertCard(r, k) ==
  /\ At(r, "insertCard")
  /\ cards[k].board = None
  /\ RefsExist(job[r].type, job[r].version)
  /\ cards' = [cards EXCEPT ![k] =
                 [board |-> job[r].board, type |-> job[r].type, version |-> job[r].version,
                  start |-> Written(job[r].start, None), due |-> Written(job[r].end, None)]]
  /\ Finish(r)
  /\ UNCHANGED <<types, versions, columns>>

\* Variant for mutation: the references need not belong to the card's board.
CardUpdateCheckAnyBoard(r, k, t, v, s, d) ==
  /\ cards[k].board # None
  /\ RangeValid(Given(s, cards[k].start), Given(d, cards[k].due))
  /\ RefsExist(t, v)
  /\ Begin(r, [Idle EXCEPT !.at = "writeCard", !.card = k, !.type = t, !.version = v,
                           !.start = s, !.end = d])
  /\ UNCHANGED <<types, versions, cards, columns>>

CardUpdateCheck(r, k, t, v, s, d) ==
  /\ cards[k].board # None
  /\ RangeValid(Given(s, cards[k].start), Given(d, cards[k].due))
  /\ RefsBelong(cards[k].board, t, v)
  /\ Begin(r, [Idle EXCEPT !.at = "writeCard", !.card = k, !.type = t, !.version = v,
                           !.start = s, !.end = d])
  /\ UNCHANGED <<types, versions, cards, columns>>

WriteCard(r) ==
  LET j == job[r] IN
  /\ At(r, "writeCard")
  /\ RefsExist(j.type, j.version)
  /\ cards' = [cards EXCEPT ![j.card] =
                 [board |-> @.board,
                  type |-> IF j.type = Unset THEN @.type ELSE j.type,
                  version |-> IF j.version = Unset THEN @.version ELSE j.version,
                  start |-> Written(j.start, @.start),
                  due |-> Written(j.end, @.due)]]
  /\ Finish(r)
  /\ UNCHANGED <<types, versions, columns>>

-----------------------------------------------------------------------------
(* Columns.                                                                *)

LiveColumns(b) == {c \in ColumnIds : columns[c].board = b /\ columns[c].live}

\* Variant for mutation: the number of columns, deleted ones included.
IsNextPositionByCount(b, p) ==
  p = Cardinality({c \in ColumnIds : columns[c].board = b})

\* One past the last live column.
IsNextPosition(b, p) ==
  IF LiveColumns(b) = {}
  THEN p = 0
  ELSE /\ \A c \in LiveColumns(b) : columns[c].position < p
       /\ \E c \in LiveColumns(b) : columns[c].position + 1 = p

ColumnCreateRead(r, b, p) ==
  /\ IsNextPosition(b, p)
  /\ Begin(r, [Idle EXCEPT !.at = "insertColumn", !.board = b, !.position = p])
  /\ UNCHANGED <<types, versions, cards, columns>>

\* Ids are given out in ascending order.
InsertColumn(r, c) ==
  /\ At(r, "insertColumn")
  /\ \A d \in ColumnIds : columns[d].board = None <=> c <= d
  /\ columns' = [columns EXCEPT ![c] = [board |-> job[r].board, live |-> TRUE,
                                        position |-> job[r].position]]
  /\ Finish(r)
  /\ UNCHANGED <<types, versions, cards>>

ColumnRemoveCheck(r, b, c) ==
  /\ c \in LiveColumns(b)
  /\ Begin(r, [Idle EXCEPT !.at = "removeColumn", !.board = b, !.column = c])
  /\ UNCHANGED <<types, versions, cards, columns>>

Before(c, d) ==
  \/ columns[c].position < columns[d].position
  \/ columns[c].position = columns[d].position /\ c < d

\* softDeleteWithCards: what remains is numbered from 0, in the order it had.
RemoveColumn(r) ==
  LET rest == LiveColumns(job[r].board) \ {job[r].column} IN
  /\ At(r, "removeColumn")
  /\ columns' = [c \in ColumnIds |->
       IF c = job[r].column THEN [columns[c] EXCEPT !.live = FALSE]
       ELSE IF c \in rest
       THEN [columns[c] EXCEPT !.position = Cardinality({d \in rest : Before(d, c)})]
       ELSE columns[c]]
  /\ Finish(r)
  /\ UNCHANGED <<types, versions, cards>>

\* New places for some columns; UpdateBoardDto asks for no more than numbers.
ReorderColumnDto == [ColumnIds -> 0 .. MaxColumn \cup {Unset}]

\* ensureColumnsBelongToBoard; the places themselves are the client's.
ReorderCheck(r, b, places) ==
  LET named == {c \in ColumnIds : places[c] # Unset} IN
  /\ named \subseteq LiveColumns(b)
  /\ Open(r, [Idle EXCEPT !.at = "reorderColumns", !.places = places])
  /\ tidy' = (tidy /\ {IF c \in named THEN places[c] ELSE columns[c].position :
                         c \in LiveColumns(b)} = 0 .. (Cardinality(LiveColumns(b)) - 1))
  /\ UNCHANGED <<types, versions, cards, columns>>

\* updateBoard: by id, removed meanwhile or not.
ReorderWrite(r) ==
  /\ At(r, "reorderColumns")
  /\ columns' = [c \in ColumnIds |->
       IF job[r].places[c] = Unset THEN columns[c]
       ELSE [columns[c] EXCEPT !.position = job[r].places[c]]]
  /\ Finish(r)
  /\ UNCHANGED <<types, versions, cards>>

-----------------------------------------------------------------------------
TypeNext(r) ==
  \/ \E b \in Boards, n \in CreateIssueTypeDto : TypeCreateCheck(r, b, n)
  \/ \E t \in Types : InsertType(r, t)
  \/ \E b \in Boards, t \in Types, n \in CreateIssueTypeDto : TypeUpdateCheck(r, b, t, n)
  \/ WriteType(r)
  \/ \E b \in Boards, t \in Types : TypeRemoveCheck(r, b, t)
  \/ DeleteType(r)

\* D: the dates a request may have.
VersionNext(r, D) ==
  \/ \E b \in Boards, v \in Versions, dto \in CreateVersionDto(D) :
       VersionUpdateCheck(r, b, v, dto.start, dto.end)
  \/ WriteVersion(r)
  \/ \E b \in Boards, v \in Versions : VersionRemoveCheck(r, b, v)
  \/ DeleteVersion(r)

NewVersion(D) ==
  \E b \in Boards, v \in Versions, dto \in CreateVersionDto(D) :
    CreateVersion(b, v, dto.start, dto.end)

\* T, V: the issue types and versions a request may name.
CardNext(r, T, V, D) ==
  \/ \E b \in Boards, dto \in CreateCardDto(T, V, D) :
       CardCreateCheck(r, b, dto.type, dto.version, dto.start, dto.due)
  \/ \E k \in Cards : InsertCard(r, k)
  \/ \E k \in Cards, dto \in UpdateCardDto(T, V, D) :
       CardUpdateCheck(r, k, dto.type, dto.version, dto.start, dto.due)
  \/ WriteCard(r)

ColumnNext(r) ==
  \/ \E b \in Boards, p \in 0 .. MaxColumn : ColumnCreateRead(r, b, p)
  \/ \E c \in ColumnIds : InsertColumn(r, c)
  \/ \E b \in Boards, c \in ColumnIds : ColumnRemoveCheck(r, b, c)
  \/ RemoveColumn(r)
  \/ \E b \in Boards, places \in ReorderColumnDto : ReorderCheck(r, b, places)
  \/ ReorderWrite(r)

AnyDate == Days \cup {None, Unset}

NextWith(D) ==
  \/ \E r \in Requests :
       \/ TypeNext(r) \/ VersionNext(r, D) \/ ColumnNext(r) \/ Fail(r)
       \/ CardNext(r, Types \cup {None, Unset}, Versions \cup {None, Unset}, D)
  \/ NewVersion(D)

Next == NextWith(AnyDate)

Spec == Init /\ [][Next]_vars

\* No client sends null for a date.
DatedNext == NextWith(AnyDate \ {None})

DatedSpec == Init /\ [][DatedNext]_vars

-----------------------------------------------------------------------------
(* Properties.                                                             *)

\* A card's issue type and version exist and belong to its board, although they
\* are checked before the card is written and may be deleted in between
\* (ensureBelongsToBoard, the foreign keys).
RefsOwnBoard ==
  \A k \in Cards :
    /\ cards[k].type # None => TypeOf(cards[k].type, cards[k].board)
    /\ cards[k].version # None => VersionOf(cards[k].version, cards[k].board)

\* Issue types of a board differ in more than case, until two requests overlap:
\* the index behind the check compares exactly (ensureNameAvailable).
IssueTypeNamesDistinct ==
  alone =>
    \A b \in Boards, t, u \in Types :
      TypeOf(t, b) /\ TypeOf(u, b) /\ t # u => types[t].name.word # types[u].name.word

\* No version and no card ends before it starts, however its dates were changed
\* one by one, until two requests overlap (ensureDateRangeValid).
RangesOrdered ==
  alone =>
    /\ \A v \in Versions : RangeValid(versions[v].start, versions[v].end)
    /\ \A k \in Cards : RangeValid(cards[k].start, cards[k].due)

\* The columns of a board are numbered 0, 1, 2 ... without gaps, whichever are
\* added, removed and reordered, until two requests overlap or a client sends
\* other numbers (ColumnsRepository.create, softDeleteWithCards, updateBoard).
ColumnsNumbered ==
  alone /\ tidy =>
    \A b \in Boards :
      {columns[c].position : c \in LiveColumns(b)} = 0 .. (Cardinality(LiveColumns(b)) - 1)
=============================================================================
