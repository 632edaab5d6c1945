------------------------------- MODULE Cards -------------------------------
(***************************************************************************)
(* Boards, columns and cards: who gets which ticket number, and in which   *)
(* column a card ends up, when HTTP requests interleave.                   *)
(*                                                                         *)
(* Every request runs one service method (boards, columns, cards).  A      *)
(* method awaits the database several times; between two awaits any other  *)
(* request may run, so each action below is one statement, one transaction *)
(* or a group of adjacent reads.  Transactions run at PostgreSQL's default *)
(* READ COMMITTED level: writes appear at commit and the row lock taken by *)
(* an UPDATE is held until then.  A request may fail at any await (an      *)
(* error, a lost connection, a crash): its open transaction rolls back and *)
(* what it committed stays.                                                *)
(*                                                                         *)
(* Left out: titles, dates, assignees, issue types, versions, attachments, *)
(* positions of columns and the role checks (they only refuse requests).   *)
(***************************************************************************)
EXTENDS Naturals, FiniteSets, Functions

CONSTANTS
  Requests,        \* slots for requests in flight
  Boards,          \* board ids the database may hand out
  Columns,         \* column ids
  Cards,           \* card ids
  Codes,           \* board codes, the prefix of every card code
  None,            \* SQL NULL, an absent row, a free lock
  DefaultColumns,  \* how many columns a new board gets (4 in the code)
  SampleCards,     \* how many cards a sample board gets
  MaxPosition      \* bound: largest position a client or a request uses

ASSUME NoneAssumption ==
  None \notin Requests \cup Boards \cup Columns \cup Cards \cup Codes

ASSUME FiniteAssumption == IsFiniteSet(Cards)

ASSUME SizeAssumption ==
  /\ DefaultColumns \in Nat
  /\ SampleCards \in Nat
  /\ MaxPosition \in Nat

VARIABLES
  boards,   \* table boards: code, next card number; gaps is a history field
  columns,  \* table columns
  cards,    \* table cards; placed is a history field
  lock,     \* row lock on a board, held by an open transaction
  job       \* the local variables of the request in each slot

vars == <<boards, columns, cards, lock, job>>

-----------------------------------------------------------------------------
(* Rows.  A card's code is its board's code at creation and its number.    *)

Board == [code : Codes \cup {None}, next : Nat, gaps : SUBSET Nat]

Column == [board : Boards \cup {None}, live : BOOLEAN]

Card == [board : Boards \cup {None}, number : Nat, code : Codes \cup {None},
         column : Columns \cup {None}, position : Nat, live : BOOLEAN,
         placed : BOOLEAN]

NoCard == [board |-> None, number |-> 0, code |-> None, column |-> None,
           position |-> 0, live |-> FALSE, placed |-> FALSE]

BoardIds  == {b \in Boards : boards[b].code # None}
ColumnIds == {c \in Columns : columns[c].board # None}
CardIds   == {k \in Cards : cards[k].board # None}

LiveColumns(b) == {c \in Columns : columns[c].board = b /\ columns[c].live}
LiveCards(b)   == {k \in Cards : cards[k].board = b /\ cards[k].live}
CardsIn(c)     == {k \in Cards : cards[k].column = c /\ cards[k].live}

CodeFree(code) == \A b \in Boards : boards[b].code # code

\* The unique index on cards.card_code covers soft-deleted cards too.
CardCodeFree(code, n) ==
  \A k \in CardIds : ~(cards[k].code = code /\ cards[k].number = n)

\* getNextPosition: one past the last live card of the column.
IsNextPosition(c, p) ==
  IF CardsIn(c) = {}
  THEN p = 0
  ELSE /\ \A k \in CardsIn(c) : cards[k].position < p
       /\ \E k \in CardsIn(c) : cards[k].position + 1 = p

-----------------------------------------------------------------------------
(* Requests.                                                               *)

Places == {"idle", "rename", "duplicate", "reserve", "position", "insert",
           "updatePosition", "updateWrite", "move", "removeColumn", "reorder"}

Job == [at : Places, board : Boards \cup {None}, column : Columns \cup {None},
        card : Cards \cup {None}, code : Codes \cup {None}, number : Nat,
        position : Nat, columns : SUBSET Columns, prevCards : SUBSET Cards,
        nextCards : SUBSET Cards, prevColumn : Columns \cup {None}]

Idle == [at |-> "idle", board |-> None, column |-> None, card |-> None,
         code |-> None, number |-> 0, position |-> 0, columns |-> {},
         prevCards |-> {}, nextCards |-> {}, prevColumn |-> None]

TypeOK ==
  /\ boards  \in [Boards -> Board]
  /\ columns \in [Columns -> Column]
  /\ cards   \in [Cards -> Card]
  /\ lock    \in [Boards -> Requests \cup {None}]
  /\ job     \in [Requests -> Job]

Init ==
  /\ boards  = [b \in Boards |-> [code |-> None, next |-> 1, gaps |-> {}]]
  /\ columns = [c \in Columns |-> [board |-> None, live |-> FALSE]]
  /\ cards   = [k \in Cards |-> NoCard]
  /\ lock    = [b \in Boards |-> None]
  /\ job     = [r \in Requests |-> Idle]

Begin(r, j) == job[r].at = "idle" /\ job' = [job EXCEPT ![r] = j]
At(r, place) == job[r].at = place
Finish(r) == job' = [job EXCEPT ![r] = Idle]

\* Variant for mutation: the entry disappears instead of becoming free.
UnlockDropsEntry(r) == lock' = [b \in {d \in Boards : lock[d] # r} |-> lock[b]]

\* The end of a transaction, by commit or rollback, frees its row locks.
Unlock(r) == lock' = [b \in Boards |-> IF lock[b] = r THEN None ELSE lock[b]]

\* An exception, a lost connection or a crash at an await.
Fail(r) ==
  /\ ~At(r, "idle")
  /\ Finish(r)
  /\ Unlock(r)
  /\ UNCHANGED <<boards, columns, cards>>

-----------------------------------------------------------------------------
(* Boards.  A new board, its columns and its cards are one transaction.    *)
(* The availability check that precedes it repeats the unique index on     *)
(* board_code: whichever of the two refuses, the answer is the same 409.   *)

\* Variant for mutation: the board keeps the schema's default counter.
InsertBoardDefaultNext(b, code, next, gaps) ==
  /\ b \notin BoardIds
  /\ CodeFree(code)
  /\ boards' = [boards EXCEPT ![b] = [code |-> code, next |-> 1, gaps |-> gaps]]

InsertBoard(b, code, next, gaps) ==
  /\ b \notin BoardIds
  /\ CodeFree(code)
  /\ boards' = [boards EXCEPT ![b] = [code |-> code, next |-> next, gaps |-> gaps]]

InsertColumns(b, new) ==
  columns' = [c \in Columns |->
                IF c \in new THEN [board |-> b, live |-> TRUE] ELSE columns[c]]

\* createMany: row[k] is the new row k; a taken card code aborts everything.
InsertCards(row) ==
  /\ \A k \in DOMAIN row : CardCodeFree(row[k].code, row[k].number)
  /\ cards' = [k \in Cards |-> IF k \in DOMAIN row THEN row[k] ELSE cards[k]]

\* createBoardWithDefaults and createSampleBoard with n cards: the i-th card
\* gets number i and the next position in its column.
CreateBoard(r, b, code, n) ==
  /\ At(r, "idle")
  /\ InsertBoard(b, code, n + 1, {})
  /\ \E new \in SUBSET (Columns \ ColumnIds), ids \in SUBSET (Cards \ CardIds) :
       /\ Cardinality(new) = DefaultColumns
       /\ InsertColumns(b, new)
       /\ \E rank \in Bijection(ids, 1..n), col \in [ids -> new] :
            InsertCards([k \in ids |->
              [board |-> b, number |-> rank[k], code |-> code, column |-> col[k],
               position |-> Cardinality({i \in ids : col[i] = col[k] /\ rank[i] < rank[k]}),
               live |-> TRUE, placed |-> TRUE]])
  /\ UNCHANGED <<lock, job>>

Create(r, b, code)       == CreateBoard(r, b, code, 0)
CreateSample(r, b, code) == CreateBoard(r, b, code, SampleCards)

\* duplicateBoard reads the source's relations one query after the other:
\* first the live columns ...
DuplicateReadColumns(r, src, code) ==
  /\ src \in BoardIds
  /\ Begin(r, [Idle EXCEPT !.at = "duplicate", !.board = src, !.code = code,
                           !.columns = LiveColumns(src)])
  /\ UNCHANGED <<boards, columns, cards, lock>>

Duplicate(r, src, code) == CodeFree(code) /\ DuplicateReadColumns(r, src, code)

\* ... then the live cards, which it numbers 1..n in the order of the query.
\* A card outside the columns just read keeps its number but is not copied.
\* The inserts touch new rows only, so they are one step with this read.
DuplicateWrite(r, b) ==
  LET source == LiveCards(job[r].board)
      kept   == {k \in source : cards[k].column \in job[r].columns}
      n      == Cardinality(source)
  IN
  /\ At(r, "duplicate")
  /\ \E rank \in Bijection(source, 1..n),
        col \in Injection(job[r].columns, Columns \ ColumnIds),
        copy \in Injection(kept, Cards \ CardIds) :
       /\ InsertBoard(b, job[r].code, n + 1, {rank[k] : k \in source \ kept})
       /\ InsertColumns(b, {col[c] : c \in job[r].columns})
       /\ InsertCards([id \in {copy[k] : k \in kept} |->
            LET k == CHOOSE k \in kept : copy[k] = id
            IN  [board |-> b, number |-> rank[k], code |-> job[r].code,
                 column |-> col[cards[k].column], position |-> cards[k].position,
                 live |-> TRUE, placed |-> cards[k].placed]])
  /\ Finish(r)
  /\ UNCHANGED lock

\* Variant for mutation: nobody counts the board's cards.
RenameCheckUncounted(r, b, code) ==
  /\ b \in BoardIds
  /\ code # boards[b].code
  /\ Begin(r, [Idle EXCEPT !.at = "rename", !.board = b, !.code = code])
  /\ UNCHANGED <<boards, columns, cards, lock>>

\* BoardsService.update with a new code: allowed while no live card exists ...
RenameCheck(r, b, code) ==
  /\ b \in BoardIds
  /\ code # boards[b].code
  /\ LiveCards(b) = {}
  /\ Begin(r, [Idle EXCEPT !.at = "rename", !.board = b, !.code = code])
  /\ UNCHANGED <<boards, columns, cards, lock>>

\* ... and written later, once no transaction holds the board's row.
RenameWrite(r) ==
  LET b == job[r].board IN
  /\ At(r, "rename")
  /\ lock[b] = None
  /\ \A d \in Boards \ {b} : boards[d].code # job[r].code
  /\ boards' = [boards EXCEPT ![b] = [@ EXCEPT !.code = job[r].code]]
  /\ Finish(r)
  /\ UNCHANGED <<columns, cards, lock>>

-----------------------------------------------------------------------------
(* Columns.                                                                *)

AddColumn(r, b) ==
  /\ At(r, "idle")
  /\ b \in BoardIds
  /\ \E c \in Columns \ ColumnIds : InsertColumns(b, {c})
  /\ UNCHANGED <<boards, cards, lock, job>>

RemoveColumnCheck(r, c) ==
  /\ c \in ColumnIds
  /\ columns[c].live
  /\ Begin(r, [Idle EXCEPT !.at = "removeColumn", !.column = c])
  /\ UNCHANGED <<boards, columns, cards, lock>>

\* Variant for mutation: the cards stay.
SoftDeleteColumnOnly(r) ==
  /\ At(r, "removeColumn")
  /\ columns' = [columns EXCEPT ![job[r].column] = [@ EXCEPT !.live = FALSE]]
  /\ Finish(r)
  /\ UNCHANGED <<boards, cards, lock>>

\* softDeleteWithCards: the cards it sees in the column, then the column.
SoftDeleteWithCards(r) ==
  LET c == job[r].column IN
  /\ At(r, "removeColumn")
  /\ cards'   = [k \in Cards |-> IF k \in CardsIn(c)
                                 THEN [cards[k] EXCEPT !.live = FALSE]
                                 ELSE cards[k]]
  /\ columns' = [columns EXCEPT ![c] = [@ EXCEPT !.live = FALSE]]
  /\ Finish(r)
  /\ UNCHANGED <<boards, lock>>

\* ColumnsService.update with cards: new positions for cards of the column.
ReorderCheck(r, c, ks) ==
  /\ c \in ColumnIds
  /\ columns[c].live
  /\ ks \subseteq CardsIn(c)
  /\ ks # {}
  /\ Begin(r, [Idle EXCEPT !.at = "reorder", !.column = c, !.nextCards = ks])
  /\ UNCHANGED <<boards, columns, cards, lock>>

ReorderWrite(r) ==
  /\ At(r, "reorder")
  /\ \E pos \in [job[r].nextCards -> 0..MaxPosition] :
       cards' = [k \in Cards |->
                   IF k \in job[r].nextCards
                   THEN [cards[k] EXCEPT !.position = pos[k], !.placed = FALSE]
                   ELSE cards[k]]
  /\ Finish(r)
  /\ UNCHANGED <<boards, columns, lock>>

-----------------------------------------------------------------------------
(* Cards.  create: the column check runs before the transaction, which     *)
(* increments nextCardNumber (taking the board's row lock), reads the last *)
(* position of the column and inserts the card.                            *)

CreateCardCheck(r, b, c) ==
  /\ b \in BoardIds
  /\ c \in LiveColumns(b)
  /\ Begin(r, [Idle EXCEPT !.at = "reserve", !.board = b, !.column = c])
  /\ UNCHANGED <<boards, columns, cards, lock>>

\* Variants for mutation: the counter is read without taking its row lock ...
ReserveNumberUnlocked(r) ==
  LET b == job[r].board IN
  /\ At(r, "reserve")
  /\ job' = [job EXCEPT ![r] = [@ EXCEPT !.at = "position", !.code = boards[b].code,
                                         !.number = boards[b].next]]
  /\ UNCHANGED <<boards, columns, cards, lock>>

\* ... and the increment commits on its own, before the card exists.
ReserveNumberCommitted(r) ==
  LET b == job[r].board IN
  /\ At(r, "reserve")
  /\ job' = [job EXCEPT ![r] = [@ EXCEPT !.at = "position", !.code = boards[b].code,
                                         !.number = boards[b].next]]
  /\ boards' = [boards EXCEPT ![b] = [@ EXCEPT !.next = @ + 1]]
  /\ UNCHANGED <<columns, cards, lock>>

ReserveNumber(r) ==
  LET b == job[r].board IN
  /\ At(r, "reserve")
  /\ lock[b] = None
  /\ lock' = [lock EXCEPT ![b] = r]
  /\ job'  = [job EXCEPT ![r] = [@ EXCEPT !.at = "position", !.code = boards[b].code,
                                          !.number = boards[b].next]]
  /\ UNCHANGED <<boards, columns, cards>>

ReadLastPosition(r) ==
  /\ At(r, "position")
  /\ \E p \in 0..MaxPosition :
       /\ IsNextPosition(job[r].column, p)
       /\ job' = [job EXCEPT ![r] = [@ EXCEPT !.at = "insert", !.position = p]]
  /\ UNCHANGED <<boards, columns, cards, lock>>

\* The insert commits the increment and the card together.
InsertCard(r) ==
  LET j == job[r] IN
  /\ At(r, "insert")
  /\ \E k \in Cards \ CardIds :
       InsertCards([id \in {k} |->
         [board |-> j.board, number |-> j.number, code |-> j.code,
          column |-> j.column, position |-> j.position, live |-> TRUE,
          placed |-> TRUE]])
  /\ boards' = [boards EXCEPT ![j.board] = [@ EXCEPT !.next = j.number + 1]]
  /\ Finish(r)
  /\ Unlock(r)
  /\ UNCHANGED columns

\* Variant for mutation: the column's board is not compared with the card's.
UpdateCheckAnyColumn(r, k, c) ==
  /\ k \in CardIds
  /\ cards[k].live
  /\ columns[c].live
  /\ Begin(r, [Idle EXCEPT !.card = k, !.column = c, !.at = "updatePosition"])
  /\ UNCHANGED <<boards, columns, cards, lock>>

\* update with a column: the decision whether the column changes is taken on
\* the card as it was read before the checks.
UpdateCheck(r, k, c) ==
  /\ k \in CardIds
  /\ cards[k].live
  /\ c \in LiveColumns(cards[k].board)
  /\ Begin(r, [Idle EXCEPT !.card = k, !.column = c,
                 !.at = IF c # cards[k].column THEN "updatePosition"
                                               ELSE "updateWrite"])
  /\ UNCHANGED <<boards, columns, cards, lock>>

\* A card that changes column goes to the end; one that does not keeps the
\* position it has when the write runs, which may be another column's.
UpdateCard(r) ==
  LET k == job[r].card IN
  /\ \/ /\ At(r, "updatePosition")
        /\ \E p \in 0..MaxPosition :
             /\ IsNextPosition(job[r].column, p)
             /\ cards' = [cards EXCEPT ![k] = [@ EXCEPT !.column = job[r].column,
                                                 !.position = p, !.placed = FALSE]]
     \/ /\ At(r, "updateWrite")
        /\ cards' = [cards EXCEPT ![k] = [@ EXCEPT
                       !.column = job[r].column,
                       !.placed = cards[k].placed /\ cards[k].column = job[r].column]]
  /\ Finish(r)
  /\ UNCHANGED <<boards, columns, lock>>

\* move: the client sends the two columns' cards as it wants them.
MoveCheck(r, k, from, to, prev, next) ==
  /\ k \in CardIds
  /\ cards[k].live
  /\ {from, to} \subseteq LiveColumns(cards[k].board)
  /\ cards[k].column = from
  /\ k \in next
  /\ k \notin prev
  /\ prev \subseteq CardsIn(from)
  /\ next \subseteq {i \in LiveCards(cards[k].board) : cards[i].column = to \/ i = k}
  /\ Begin(r, [Idle EXCEPT !.at = "move", !.card = k, !.prevColumn = from,
                           !.column = to, !.prevCards = prev, !.nextCards = next])
  /\ UNCHANGED <<boards, columns, cards, lock>>

\* The transaction writes column and position of every listed card, whatever
\* happened to it since the checks; the next column's list is written last.
MoveWrite(r) ==
  LET j == job[r] IN
  /\ At(r, "move")
  /\ \E pos \in [j.prevCards \cup j.nextCards -> 0..MaxPosition] :
       cards' = [k \in Cards |->
                   IF k \in j.prevCards \cup j.nextCards
                   THEN [cards[k] EXCEPT
                          !.column = IF k \in j.nextCards THEN j.column
                                                          ELSE j.prevColumn,
                          !.position = pos[k], !.placed = FALSE]
                   ELSE cards[k]]
  /\ Finish(r)
  /\ UNCHANGED <<boards, columns, lock>>

\* What validation lets through; the positions are chosen in MoveWrite.
MoveCardDto ==
  [currentCardId : Cards, prevColumnId : Columns, prevCards : SUBSET Cards,
   nextColumnId : Columns, nextCards : SUBSET Cards]

-----------------------------------------------------------------------------
BoardNext(r) ==
  \/ \E b \in Boards, code \in Codes : Create(r, b, code) \/ CreateSample(r, b, code)
  \/ \E b \in Boards, code \in Codes : Duplicate(r, b, code)
  \/ \E b \in Boards : DuplicateWrite(r, b)
  \/ \E b \in Boards, code \in Codes : RenameCheck(r, b, code)
  \/ RenameWrite(r)

ColumnNext(r) ==
  \/ \E b \in Boards : AddColumn(r, b)
  \/ \E c \in Columns : RemoveColumnCheck(r, c)
  \/ SoftDeleteWithCards(r)
  \/ \E c \in Columns, ks \in SUBSET Cards : ReorderCheck(r, c, ks)
  \/ ReorderWrite(r)

CardNext(r) ==
  \/ \E b \in Boards, c \in Columns : CreateCardCheck(r, b, c)
  \/ ReserveNumber(r)
  \/ ReadLastPosition(r)
  \/ InsertCard(r)
  \/ \E k \in Cards, c \in Columns : UpdateCheck(r, k, c)
  \/ UpdateCard(r)
  \/ \E dto \in MoveCardDto :
       MoveCheck(r, dto.currentCardId, dto.prevColumnId, dto.nextColumnId,
                 dto.prevCards, dto.nextCards)
  \/ MoveWrite(r)

Next == \E r \in Requests : BoardNext(r) \/ ColumnNext(r) \/ CardNext(r) \/ Fail(r)

Spec == Init /\ [][Next]_vars

\* Each request ends before the next begins.
Alone(r) == \A s \in Requests \ {r} : At(s, "idle")

SerialNext ==
  \E r \in Requests :
    Alone(r) /\ (BoardNext(r) \/ ColumnNext(r) \/ CardNext(r) \/ Fail(r))

SerialSpec == Init /\ [][SerialNext]_vars

-----------------------------------------------------------------------------
(* Properties.                                                             *)

\* No two cards of a board, deleted ones included, carry the same number, and
\* the board's counter is ahead of all of them: the numbering of
\* CardsRepository.create and of duplicateBoard never trips the unique index
\* on (board_id, card_number).
NumbersUnique ==
  \A k \in CardIds :
    /\ cards[k].number < boards[cards[k].board].next
    /\ \A m \in CardIds \ {k} :
         cards[m].board = cards[k].board => cards[m].number # cards[k].number

\* A number that CardsRepository.create has reserved and not yet used is the
\* next one of its board, whatever other requests did since it was read: the
\* row lock lasts until the card is in.
ReservationHolds ==
  \A r \in Requests :
    (At(r, "position") \/ At(r, "insert")) =>
      /\ job[r].number = boards[job[r].board].next
      /\ \A k \in CardIds : cards[k].board = job[r].board
                              => cards[k].number # job[r].number

\* A failed creation gives its number back: the numbers of a board's cards
\* are 1 .. nextCardNumber - 1 without holes, except those that
\* duplicateBoard counted for cards it did not copy.
NoNumberLost ==
  \A b \in BoardIds :
    {cards[k].number : k \in {i \in CardIds : cards[i].board = b}}
      \cup boards[b].gaps = 1..(boards[b].next - 1)

\* A card's column is always a column of the card's own board, although move
\* and update write columns they checked earlier for a card they read earlier.
ColumnOfOwnBoard ==
  \A k \in CardIds : columns[cards[k].column].board = cards[k].board

\* Two live cards that were put in their column by a creation and never moved
\* or reordered have different positions there: concurrent creations in one
\* column are serialised by the lock on the board's row.
CreatedPositionsDistinct ==
  \A k, m \in CardIds :
    (/\ k # m
     /\ cards[k].live /\ cards[k].placed
     /\ cards[m].live /\ cards[m].placed
     /\ cards[k].column = cards[m].column)
      => cards[k].position # cards[m].position

\* A live card sits in a live column.  duplicateBoard relies on it: a card
\* whose column is deleted "should not happen with valid data".
NoOrphanCard ==
  \A k \in CardIds : cards[k].live => columns[cards[k].column].live

\* A live card's code is its board's current code and its number, because
\* BoardsService.update refuses a new code once the board has cards.
CardCodeMatchesBoard ==
  \A k \in CardIds : cards[k].live => cards[k].code = boards[cards[k].board].code

\* The next card of a board will get a code nobody has: a creation with valid
\* input is never refused by the unique index on card_code.
NextCardCodeFree ==
  \A b \in BoardIds : CardCodeFree(boards[b].code, boards[b].next)

\* What the dispenser of a board shows, and the numbers it has given out.
NextShown == [b \in Boards |-> IF b \in BoardIds THEN boards[b].next ELSE 0]

NumbersIssued ==
  [b \in Boards |-> {cards[k].number : k \in {i \in CardIds : cards[i].board = b}}]

Numbers == INSTANCE Tickets WITH next <- NextShown, issued <- NumbersIssued

\* The numbering implements the dispenser: the counter moves only together
\* with the card that carries the number it showed.
NumbersIssuedInOrder == Numbers!Spec

=============================================================================
