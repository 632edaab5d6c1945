---------------------------- MODULE CardsProofs ----------------------------
(* Proofs about Cards, for any set of requests, boards, columns and any    *)
(* finite set of cards.                                                    *)
EXTENDS Cards, FiniteSetTheorems, TLAPS

-----------------------------------------------------------------------------
(* Typing.                                                                 *)

\* What a request knows for sure about the board it works on.
JobOK(r) ==
  /\ job[r].at \in {"rename", "duplicate", "reserve", "position", "insert"}
       => job[r].board \in BoardIds
  /\ job[r].at \in {"rename", "duplicate"} => job[r].code \in Codes
  /\ job[r].at \in {"position", "insert"} =>
       /\ lock[job[r].board] = r
       /\ job[r].number = boards[job[r].board].next

JobInv == \A r \in Requests : JobOK(r)

LEMMA BoardIdsType == BoardIds \subseteq Boards
BY DEF BoardIds

LEMMA IdleType == Idle \in Job
BY DEF Idle, Job, Places

LEMMA FinishType ==
  ASSUME TypeOK, NEW r \in Requests, Finish(r)
  PROVE  job' \in [Requests -> Job]
BY IdleType DEF TypeOK, Finish

LEMMA BeginType ==
  ASSUME TypeOK, NEW r \in Requests, NEW j \in Job, Begin(r, j)
  PROVE  job' \in [Requests -> Job]
BY DEF TypeOK, Begin

LEMMA UnlockType ==
  ASSUME TypeOK, NEW r \in Requests, Unlock(r)
  PROVE  lock' \in [Boards -> Requests \cup {None}]
BY DEF TypeOK, Unlock

LEMMA InsertColumnsType ==
  ASSUME TypeOK, NEW b \in Boards, NEW new, InsertColumns(b, new)
  PROVE  columns' \in [Columns -> Column]
BY DEF TypeOK, InsertColumns, Column

LEMMA InsertCardsType ==
  ASSUME TypeOK, NEW row, \A k \in DOMAIN row : row[k] \in Card, InsertCards(row)
  PROVE  cards' \in [Cards -> Card]
BY DEF TypeOK, InsertCards

LEMMA PositionType == \A p \in 0..MaxPosition : p \in Nat
BY SizeAssumption

LEMMA CardinalityType ==
  ASSUME NEW S \in SUBSET Cards
  PROVE  Cardinality(S) \in Nat
BY FiniteAssumption, FS_Subset, FS_CardinalityType

LEMMA CreateBoardType ==
  ASSUME TypeOK, NEW r \in Requests, NEW b \in Boards, NEW code \in Codes,
         NEW n \in {0, SampleCards}, CreateBoard(r, b, code, n)
  PROVE  TypeOK'
<1>1. boards' \in [Boards -> Board]
  BY SizeAssumption DEF TypeOK, CreateBoard, InsertBoard, Board
<1>2. columns' \in [Columns -> Column]
  BY InsertColumnsType DEF CreateBoard
<1>3. cards' \in [Cards -> Card]
  <2>1. PICK new \in SUBSET (Columns \ ColumnIds), ids \in SUBSET (Cards \ CardIds) :
          \E rank \in Bijection(ids, 1..n), col \in [ids -> new] :
            InsertCards([k \in ids |->
              [board |-> b, number |-> rank[k], code |-> code, column |-> col[k],
               position |-> Cardinality({i \in ids : col[i] = col[k] /\ rank[i] < rank[k]}),
               live |-> TRUE, placed |-> TRUE]])
    BY DEF CreateBoard
  <2>2. PICK rank \in Bijection(ids, 1..n), col \in [ids -> new] :
          InsertCards([k \in ids |->
            [board |-> b, number |-> rank[k], code |-> code, column |-> col[k],
             position |-> Cardinality({i \in ids : col[i] = col[k] /\ rank[i] < rank[k]}),
             live |-> TRUE, placed |-> TRUE]])
    BY <2>1
  <2>3. \A k \in ids : rank[k] \in Nat /\ col[k] \in Columns
    BY DEF Bijection, Injection, Surjection
  <2>4. \A k \in ids :
          Cardinality({i \in ids : col[i] = col[k] /\ rank[i] < rank[k]}) \in Nat
    BY CardinalityType
  <2> DEFINE row == [k \in ids |->
            [board |-> b, number |-> rank[k], code |-> code, column |-> col[k],
             position |-> Cardinality({i \in ids : col[i] = col[k] /\ rank[i] < rank[k]}),
             live |-> TRUE, placed |-> TRUE]]
  <2>5. \A k \in DOMAIN row : row[k] \in Card
    BY <2>3, <2>4 DEF Card
  <2>6. InsertCards(row)
    BY <2>2
  <2> HIDE DEF row
  <2> QED BY <2>5, <2>6, InsertCardsType
<1> QED BY <1>1, <1>2, <1>3 DEF TypeOK, CreateBoard

LEMMA DuplicateWriteType ==
  ASSUME TypeOK, NEW r \in Requests, NEW b \in Boards, DuplicateWrite(r, b)
  PROVE  TypeOK'
<1> DEFINE source == LiveCards(job[r].board)
           kept   == {k \in source : cards[k].column \in job[r].columns}
           n      == Cardinality(source)
           row(rank, col, copy) ==
             [id \in {copy[k] : k \in kept} |->
                LET k == CHOOSE k \in kept : copy[k] = id
                IN  [board |-> b, number |-> rank[k], code |-> job[r].code,
                     column |-> col[cards[k].column], position |-> cards[k].position,
                     live |-> TRUE, placed |-> cards[k].placed]]
<1>1. n \in Nat
  BY CardinalityType DEF LiveCards
<1>2. PICK rank \in Bijection(source, 1..n),
           col \in Injection(job[r].columns, Columns \ ColumnIds),
           copy \in Injection(kept, Cards \ CardIds) :
        /\ InsertBoard(b, job[r].code, n + 1, {rank[k] : k \in source \ kept})
        /\ InsertColumns(b, {col[c] : c \in job[r].columns})
        /\ InsertCards(row(rank, col, copy))
  BY DEF DuplicateWrite
<1>3. \A k \in source : rank[k] \in Nat
  BY <1>1 DEF Bijection, Injection, Surjection
<1>4. \A k \in kept : col[cards[k].column] \in Columns
  BY DEF Injection
<1>5. job[r].code \in Codes \cup {None}
  BY DEF TypeOK, Job
<1> DEFINE gaps == {rank[k] : k \in source \ kept}
<1>6. boards' \in [Boards -> Board]
  <2>1. gaps \in SUBSET Nat /\ n + 1 \in Nat
    BY <1>1, <1>3
  <2>2. boards' = [boards EXCEPT ![b] = [code |-> job[r].code, next |-> n + 1,
                                         gaps |-> gaps]]
    BY <1>2 DEF InsertBoard
  <2> HIDE DEF gaps, n
  <2>3. [code |-> job[r].code, next |-> n + 1, gaps |-> gaps] \in Board
    BY <1>5, <2>1 DEF Board
  <2> QED BY <2>2, <2>3 DEF TypeOK
<1>7. columns' \in [Columns -> Column]
  BY <1>2, InsertColumnsType
<1> HIDE DEF gaps
<1>8. \A id \in DOMAIN row(rank, col, copy) : row(rank, col, copy)[id] \in Card
  <2> TAKE id \in DOMAIN row(rank, col, copy)
  <2> DEFINE k == CHOOSE k \in kept : copy[k] = id
  <2>1. k \in kept
    OBVIOUS
  <2>2. k \in Cards /\ k \in source
    BY <2>1 DEF LiveCards
  <2>3. /\ cards[k].position \in Nat
        /\ cards[k].placed \in BOOLEAN
    BY <2>2 DEF TypeOK, Card
  <2>4. row(rank, col, copy)[id] =
          [board |-> b, number |-> rank[k], code |-> job[r].code,
           column |-> col[cards[k].column], position |-> cards[k].position,
           live |-> TRUE, placed |-> cards[k].placed]
    OBVIOUS
  <2> HIDE DEF k, row
  <2> QED BY <1>3, <1>4, <1>5, <2>1, <2>2, <2>3, <2>4 DEF Card
<1> HIDE DEF row
<1>9. cards' \in [Cards -> Card]
  BY <1>2, <1>8, InsertCardsType
<1> QED BY <1>6, <1>7, <1>9, FinishType DEF TypeOK, DuplicateWrite

LEMMA BoardNextType ==
  ASSUME TypeOK, NEW r \in Requests, BoardNext(r)
  PROVE  TypeOK'
<1>1. ASSUME NEW b \in Boards, NEW code \in Codes, DuplicateReadColumns(r, b, code)
      PROVE  TypeOK'
  <2>1. [Idle EXCEPT !.at = "duplicate", !.board = b, !.code = code,
                     !.columns = LiveColumns(b)] \in Job
    BY DEF Idle, Job, Places, LiveColumns
  <2> QED BY <1>1, <2>1, BeginType DEF TypeOK, DuplicateReadColumns
<1>2. ASSUME NEW b \in Boards, NEW code \in Codes, RenameCheck(r, b, code)
      PROVE  TypeOK'
  <2>1. [Idle EXCEPT !.at = "rename", !.board = b, !.code = code] \in Job
    BY DEF Idle, Job, Places
  <2> QED BY <1>2, <2>1, BeginType DEF TypeOK, RenameCheck
<1>3. ASSUME RenameWrite(r) PROVE TypeOK'
  <2>1. job[r].code \in Codes \cup {None}
    BY DEF TypeOK, Job
  <2>2. \A b \in Boards : [boards[b] EXCEPT !.code = job[r].code] \in Board
    BY <2>1 DEF TypeOK, Board
  <2> QED BY <1>3, <2>2, FinishType DEF TypeOK, RenameWrite
<1> QED BY <1>1, <1>2, <1>3, CreateBoardType, DuplicateWriteType DEF BoardNext, Create, CreateSample, Duplicate

LEMMA ColumnNextType ==
  ASSUME TypeOK, NEW r \in Requests, ColumnNext(r)
  PROVE  TypeOK'
<1>1. ASSUME NEW b \in Boards, AddColumn(r, b) PROVE TypeOK'
  BY <1>1, InsertColumnsType DEF TypeOK, AddColumn
<1>2. ASSUME NEW c \in Columns, RemoveColumnCheck(r, c) PROVE TypeOK'
  <2>1. [Idle EXCEPT !.at = "removeColumn", !.column = c] \in Job
    BY DEF Idle, Job, Places
  <2> QED BY <1>2, <2>1, BeginType DEF TypeOK, RemoveColumnCheck
<1>3. ASSUME SoftDeleteWithCards(r) PROVE TypeOK'
  <2>1. \A c \in Columns : [columns[c] EXCEPT !.live = FALSE] \in Column
    BY DEF TypeOK, Column
  <2>2. \A k \in Cards : [cards[k] EXCEPT !.live = FALSE] \in Card
    BY DEF TypeOK, Card
  <2> QED BY <1>3, <2>1, <2>2, FinishType DEF TypeOK, SoftDeleteWithCards
<1>4. ASSUME NEW c \in Columns, NEW ks \in SUBSET Cards, ReorderCheck(r, c, ks)
      PROVE  TypeOK'
  <2>1. [Idle EXCEPT !.at = "reorder", !.column = c, !.nextCards = ks] \in Job
    BY DEF Idle, Job, Places
  <2> QED BY <1>4, <2>1, BeginType DEF TypeOK, ReorderCheck
<1>5. ASSUME ReorderWrite(r) PROVE TypeOK'
  <2>1. \A k \in Cards, p \in Nat :
          [cards[k] EXCEPT !.position = p, !.placed = FALSE] \in Card
    BY DEF TypeOK, Card
  <2>2. PICK pos \in [job[r].nextCards -> 0..MaxPosition] :
          cards' = [k \in Cards |->
                     IF k \in job[r].nextCards
                     THEN [cards[k] EXCEPT !.position = pos[k], !.placed = FALSE]
                     ELSE cards[k]]
    BY <1>5 DEF ReorderWrite
  <2>3. \A k \in job[r].nextCards : pos[k] \in Nat
    BY PositionType
  <2>4. \A k \in Cards : cards'[k] \in Card
    BY <2>1, <2>2, <2>3 DEF TypeOK
  <2>5. cards' \in [Cards -> Card]
    BY <2>2, <2>4
  <2> QED BY <1>5, <2>5, FinishType DEF TypeOK, ReorderWrite
<1> QED BY <1>1, <1>2, <1>3, <1>4, <1>5 DEF ColumnNext

LEMMA CardNextType ==
  ASSUME TypeOK, JobInv, NEW r \in Requests, CardNext(r)
  PROVE  TypeOK'
<1>1. ASSUME NEW b \in Boards, NEW c \in Columns, CreateCardCheck(r, b, c)
      PROVE  TypeOK'
  <2>1. [Idle EXCEPT !.at = "reserve", !.board = b, !.column = c] \in Job
    BY DEF Idle, Job, Places
  <2> QED BY <1>1, <2>1, BeginType DEF TypeOK, CreateCardCheck
<1>2. ASSUME ReserveNumber(r) PROVE TypeOK'
  <2>1. job[r].board \in Boards
    BY <1>2, BoardIdsType DEF JobInv, JobOK, ReserveNumber, At
  <2>2. boards[job[r].board] \in Board
    BY <2>1 DEF TypeOK
  <2>3. \A code \in Codes \cup {None}, n \in Nat :
          [job[r] EXCEPT !.at = "position", !.code = code, !.number = n] \in Job
    BY DEF TypeOK, Job, Places
  <2>4. /\ boards[job[r].board].code \in Codes \cup {None}
        /\ boards[job[r].board].next \in Nat
    BY <2>2 DEF Board
  <2>5. [job[r] EXCEPT !.at = "position", !.code = boards[job[r].board].code,
                       !.number = boards[job[r].board].next] \in Job
    BY <2>3, <2>4
  <2> QED BY <1>2, <2>1, <2>5 DEF TypeOK, ReserveNumber
<1>3. ASSUME ReadLastPosition(r) PROVE TypeOK'
  <2>1. \A p \in Nat : [job[r] EXCEPT !.at = "insert", !.position = p] \in Job
    BY DEF TypeOK, Job, Places
  <2> QED BY <1>3, <2>1, PositionType DEF TypeOK, ReadLastPosition
<1>4. ASSUME InsertCard(r) PROVE TypeOK'
  <2>1. \A b \in Boards : [boards[b] EXCEPT !.next = job[r].number + 1] \in Board
    BY DEF TypeOK, Board, Job
  <2>2. boards' \in [Boards -> Board]
    BY <1>4, <2>1 DEF TypeOK, InsertCard
  <2>3. [board |-> job[r].board, number |-> job[r].number, code |-> job[r].code,
         column |-> job[r].column, position |-> job[r].position, live |-> TRUE,
         placed |-> TRUE] \in Card
    BY DEF TypeOK, Card, Job
  <2>4. cards' \in [Cards -> Card]
    BY <1>4, <2>3 DEF TypeOK, InsertCard, InsertCards
  <2> QED BY <1>4, <2>2, <2>4, FinishType, UnlockType DEF TypeOK, InsertCard
<1>5. ASSUME NEW k \in Cards, NEW c \in Columns, UpdateCheck(r, k, c)
      PROVE  TypeOK'
  <2>1. [Idle EXCEPT !.card = k, !.column = c,
           !.at = IF c # cards[k].column THEN "updatePosition" ELSE "updateWrite"] \in Job
    BY DEF Idle, Job, Places
  <2> QED BY <1>5, <2>1, BeginType DEF TypeOK, UpdateCheck
<1>6. ASSUME UpdateCard(r) PROVE TypeOK'
  <2> DEFINE k == job[r].card
  <2>1. job[r].column \in Columns \cup {None}
    BY DEF TypeOK, Job
  <2>2. \A i \in Cards, p \in Nat, w \in BOOLEAN :
          /\ [cards[i] EXCEPT !.column = job[r].column, !.position = p,
                              !.placed = w] \in Card
          /\ [cards[i] EXCEPT !.column = job[r].column, !.placed = w] \in Card
    BY <2>1 DEF TypeOK, Card
  <2>3. PICK row : /\ cards' = [cards EXCEPT ![k] = row]
                   /\ k \in Cards => row \in Card
    <3>1. CASE At(r, "updatePosition")
      <4>1. PICK p \in 0..MaxPosition :
              cards' = [cards EXCEPT ![k] = [@ EXCEPT !.column = job[r].column,
                                               !.position = p, !.placed = FALSE]]
        BY <1>6, <3>1 DEF UpdateCard, At
      <4> QED BY <4>1, <2>2, PositionType
    <3>2. CASE At(r, "updateWrite")
      <4>1. cards' = [cards EXCEPT ![k] = [@ EXCEPT !.column = job[r].column,
                        !.placed = cards[k].placed /\ cards[k].column = job[r].column]]
        BY <1>6, <3>2 DEF UpdateCard, At
      <4>2. k \in Cards => (cards[k].placed /\ cards[k].column = job[r].column) \in BOOLEAN
        OBVIOUS
      <4> QED BY <4>1, <4>2, <2>2
    <3> QED BY <1>6, <3>1, <3>2 DEF UpdateCard
  <2>4. cards' \in [Cards -> Card]
    BY <2>3 DEF TypeOK
  <2> QED BY <1>6, <2>4, FinishType DEF TypeOK, UpdateCard
<1>7. ASSUME NEW k \in Cards, NEW from \in Columns, NEW to \in Columns,
             NEW prev \in SUBSET Cards, NEW next \in SUBSET Cards,
             MoveCheck(r, k, from, to, prev, next)
      PROVE  TypeOK'
  <2>1. [Idle EXCEPT !.at = "move", !.card = k, !.prevColumn = from, !.column = to,
                     !.prevCards = prev, !.nextCards = next] \in Job
    BY DEF Idle, Job, Places
  <2> QED BY <1>7, <2>1, BeginType DEF TypeOK, MoveCheck
<1>8. ASSUME MoveWrite(r) PROVE TypeOK'
  <2>1. /\ job[r].column \in Columns \cup {None}
        /\ job[r].prevColumn \in Columns \cup {None}
    BY DEF TypeOK, Job
  <2>2. \A k \in Cards, p \in Nat, c \in Columns \cup {None} :
          [cards[k] EXCEPT !.column = c, !.position = p, !.placed = FALSE] \in Card
    BY DEF TypeOK, Card
  <2>3. PICK pos \in [job[r].prevCards \cup job[r].nextCards -> 0..MaxPosition] :
          cards' = [k \in Cards |->
                     IF k \in job[r].prevCards \cup job[r].nextCards
                     THEN [cards[k] EXCEPT
                            !.column = IF k \in job[r].nextCards
                                       THEN job[r].column ELSE job[r].prevColumn,
                            !.position = pos[k], !.placed = FALSE]
                     ELSE cards[k]]
    BY <1>8 DEF MoveWrite
  <2>4. \A k \in job[r].prevCards \cup job[r].nextCards : pos[k] \in Nat
    BY PositionType
  <2>5. \A k \in Cards : cards'[k] \in Card
    BY <2>1, <2>2, <2>3, <2>4 DEF TypeOK
  <2>6. cards' \in [Cards -> Card]
    BY <2>3, <2>5
  <2> QED BY <1>8, <2>6, FinishType DEF TypeOK, MoveWrite
<1> QED BY <1>1, <1>2, <1>3, <1>4, <1>5, <1>6, <1>7, <1>8 DEF CardNext, MoveCardDto

LEMMA TypeStep == TypeOK /\ JobInv /\ [Next]_vars => TypeOK'
<1>1. ASSUME TypeOK, NEW r \in Requests, Fail(r) PROVE TypeOK'
  BY <1>1, FinishType, UnlockType DEF TypeOK, Fail
<1>2. TypeOK /\ UNCHANGED vars => TypeOK'
  BY DEF TypeOK, vars
<1> QED BY <1>1, <1>2, BoardNextType, ColumnNextType, CardNextType DEF Next

-----------------------------------------------------------------------------
(* Every step is one of three, as far as the numbering is concerned: it    *)
(* leaves numbers and counters alone, opens a board or inserts one card.   *)

SameTickets ==
  /\ \A b \in Boards : /\ boards'[b].next = boards[b].next
                       /\ b \in BoardIds' <=> b \in BoardIds
  /\ \A k \in Cards : /\ cards'[k].board = cards[k].board
                      /\ cards'[k].number = cards[k].number

OpensBoard(b) ==
  /\ b \in Boards \ BoardIds
  /\ b \in BoardIds'
  /\ boards'[b].next \in Nat \ {0}
  /\ \A d \in Boards \ {b} : boards'[d] = boards[d]
  /\ \A k \in CardIds : cards'[k] = cards[k]
  /\ \A k \in Cards \ CardIds :
       \/ cards'[k] = cards[k]
       \/ cards'[k].board = b /\ cards'[k].number \in 1..(boards'[b].next - 1)
  /\ \A k, m \in Cards \ CardIds :
       (k # m /\ cards'[k].board = b /\ cards'[m].board = b)
         => cards'[k].number # cards'[m].number

LEMMA CreateBoardOpens ==
  ASSUME TypeOK, NEW r \in Requests, NEW b \in Boards, NEW code \in Codes,
         NEW n \in {0, SampleCards}, CreateBoard(r, b, code, n)
  PROVE  OpensBoard(b)
<1> DEFINE row(ids, rank, col) ==
      [k \in ids |->
        [board |-> b, number |-> rank[k], code |-> code, column |-> col[k],
         position |-> Cardinality({i \in ids : col[i] = col[k] /\ rank[i] < rank[k]}),
         live |-> TRUE, placed |-> TRUE]]
<1>a. PICK new \in SUBSET (Columns \ ColumnIds), ids \in SUBSET (Cards \ CardIds) :
        \E rank \in Bijection(ids, 1..n), col \in [ids -> new] :
          InsertCards(row(ids, rank, col))
  BY DEF CreateBoard
<1>1. PICK rank \in Bijection(ids, 1..n), col \in [ids -> new] :
        InsertCards(row(ids, rank, col))
  BY <1>a
<1>2. /\ b \in Boards \ BoardIds
      /\ b \in BoardIds'
      /\ boards'[b].next = n + 1
      /\ n \in Nat
      /\ \A d \in Boards \ {b} : boards'[d] = boards[d]
  BY NoneAssumption, SizeAssumption DEF TypeOK, CreateBoard, InsertBoard, BoardIds
<1>3. \A k \in Cards :
        IF k \in ids THEN cards'[k].board = b /\ cards'[k].number = rank[k]
                     ELSE cards'[k] = cards[k]
  BY <1>1 DEF InsertCards
<1>4. /\ \A k \in ids : rank[k] \in 1..n
      /\ \A k, m \in ids : k # m => rank[k] # rank[m]
  BY DEF Bijection, Injection, IsInjective
<1>5. \A k \in Cards \ CardIds : cards[k].board # b
  BY NoneAssumption DEF CardIds
<1>6. boards'[b].next \in Nat \ {0} /\ boards'[b].next - 1 = n
  BY <1>2
<1>7. \A k \in CardIds : cards'[k] = cards[k]
  BY <1>3 DEF CardIds
<1>8. \A k \in Cards \ CardIds :
        \/ cards'[k] = cards[k]
        \/ cards'[k].board = b /\ cards'[k].number \in 1..(boards'[b].next - 1)
  BY <1>3, <1>4, <1>6
<1>9. \A k, m \in Cards \ CardIds :
        (k # m /\ cards'[k].board = b /\ cards'[m].board = b)
          => cards'[k].number # cards'[m].number
  BY <1>3, <1>4, <1>5
<1> HIDE DEF row
<1> QED BY <1>2, <1>6, <1>7, <1>8, <1>9 DEF OpensBoard

LEMMA DuplicateWriteOpens ==
  ASSUME TypeOK, NEW r \in Requests, JobOK(r), NEW b \in Boards, DuplicateWrite(r, b)
  PROVE  OpensBoard(b)
<1> DEFINE source == LiveCards(job[r].board)
           kept   == {k \in source : cards[k].column \in job[r].columns}
           n      == Cardinality(source)
           row(rank, col, copy) ==
             [id \in {copy[k] : k \in kept} |->
                LET k == CHOOSE k \in kept : copy[k] = id
                IN  [board |-> b, number |-> rank[k], code |-> job[r].code,
                     column |-> col[cards[k].column], position |-> cards[k].position,
                     live |-> TRUE, placed |-> cards[k].placed]]
<1>1. n \in Nat
  BY CardinalityType DEF LiveCards
<1>2. PICK rank \in Bijection(source, 1..n),
           col \in Injection(job[r].columns, Columns \ ColumnIds),
           copy \in Injection(kept, Cards \ CardIds) :
        /\ InsertBoard(b, job[r].code, n + 1, {rank[k] : k \in source \ kept})
        /\ InsertCards(row(rank, col, copy))
  BY DEF DuplicateWrite
<1>3. /\ b \in Boards \ BoardIds
      /\ b \in BoardIds'
      /\ boards'[b].next = n + 1
      /\ \A d \in Boards \ {b} : boards'[d] = boards[d]
  <2>1. job[r].code # None
    BY NoneAssumption DEF JobOK, DuplicateWrite, At
  <2> QED BY <1>2, <2>1 DEF TypeOK, InsertBoard, BoardIds
<1>4. /\ \A k \in source : rank[k] \in 1..n
      /\ \A k, m \in source : k # m => rank[k] # rank[m]
  BY DEF Bijection, Injection, IsInjective
<1> DEFINE from(id) == CHOOSE k \in kept : copy[k] = id
           ids == {copy[k] : k \in kept}
<1>5. \A id \in ids : from(id) \in kept /\ copy[from(id)] = id
  OBVIOUS
<1>6. \A id \in Cards :
        IF id \in ids THEN cards'[id].board = b /\ cards'[id].number = rank[from(id)]
                      ELSE cards'[id] = cards[id]
  BY <1>2 DEF InsertCards
<1>7. ids \subseteq Cards \ CardIds
  BY DEF Injection
<1>8. /\ \A id \in ids : rank[from(id)] \in 1..n
      /\ \A i, j \in ids : i # j => rank[from(i)] # rank[from(j)]
  <2> HIDE DEF from, ids
  <2>1. \A id \in ids : from(id) \in source
    BY <1>5
  <2>2. \A i, j \in ids : i # j => from(i) # from(j)
    BY <1>5
  <2> QED BY <1>4, <2>1, <2>2
<1>9. \A k \in Cards \ CardIds : cards[k].board # b
  BY NoneAssumption DEF CardIds
<1> HIDE DEF from, ids
<1>10. boards'[b].next \in Nat \ {0} /\ boards'[b].next - 1 = n
  BY <1>1, <1>3
<1>11. \A k \in CardIds : cards'[k] = cards[k]
  BY <1>6, <1>7 DEF CardIds
<1>12. \A k \in Cards \ CardIds :
         \/ cards'[k] = cards[k]
         \/ cards'[k].board = b /\ cards'[k].number \in 1..(boards'[b].next - 1)
  BY <1>6, <1>8, <1>10
<1>13. \A k, m \in Cards \ CardIds :
         (k # m /\ cards'[k].board = b /\ cards'[m].board = b)
           => cards'[k].number # cards'[m].number
  BY <1>6, <1>8, <1>9
<1> QED BY <1>3, <1>10, <1>11, <1>12, <1>13 DEF OpensBoard

LEMMA RenameWriteTickets ==
  ASSUME TypeOK, NEW r \in Requests, JobOK(r), RenameWrite(r)
  PROVE  SameTickets
<1>1. job[r].board \in BoardIds /\ job[r].code # None
  BY NoneAssumption DEF JobOK, RenameWrite, At
<1>2. \A b \in Boards : /\ boards'[b].next = boards[b].next
                        /\ b # job[r].board => boards'[b] = boards[b]
  BY DEF TypeOK, RenameWrite, Board
<1>3. boards'[job[r].board].code = job[r].code
  BY <1>1, BoardIdsType DEF TypeOK, RenameWrite, Board
<1>4. UNCHANGED cards
  BY DEF RenameWrite
<1> QED BY <1>1, <1>2, <1>3, <1>4 DEF SameTickets, BoardIds

LEMMA CardWriteTickets ==
  ASSUME TypeOK, NEW r \in Requests,
         SoftDeleteWithCards(r) \/ ReorderWrite(r) \/ UpdateCard(r) \/ MoveWrite(r)
  PROVE  SameTickets
<1>1. UNCHANGED boards
  BY DEF SoftDeleteWithCards, ReorderWrite, UpdateCard, MoveWrite
<1>2. \A k \in Cards : /\ cards'[k].board = cards[k].board
                       /\ cards'[k].number = cards[k].number
  <2>1. CASE SoftDeleteWithCards(r)
    BY <2>1 DEF TypeOK, Card, SoftDeleteWithCards
  <2>2. \A k \in Cards : cards[k] \in Card
    BY DEF TypeOK
  <2>5. CASE ReorderWrite(r)
    <3> TAKE k \in Cards
    <3>1. PICK p : \/ cards'[k] = cards[k]
                   \/ cards'[k] = [cards[k] EXCEPT !.position = p, !.placed = FALSE]
      BY <2>5 DEF ReorderWrite
    <3> QED BY <3>1, <2>2 DEF Card
  <2>6. CASE UpdateCard(r)
    <3> DEFINE i == job[r].card
    <3>1. CASE At(r, "updatePosition")
      <4>1. PICK p \in 0..MaxPosition :
              cards' = [cards EXCEPT ![i] = [@ EXCEPT !.column = job[r].column,
                                               !.position = p, !.placed = FALSE]]
        BY <2>6, <3>1 DEF UpdateCard, At
      <4> QED BY <4>1, <2>2 DEF TypeOK, Card
    <3>2. CASE At(r, "updateWrite")
      <4>1. cards' = [cards EXCEPT ![i] = [@ EXCEPT !.column = job[r].column,
                        !.placed = cards[i].placed /\ cards[i].column = job[r].column]]
        BY <2>6, <3>2 DEF UpdateCard, At
      <4> QED BY <4>1, <2>2 DEF TypeOK, Card
    <3> QED BY <2>6, <3>1, <3>2 DEF UpdateCard
  <2>7. CASE MoveWrite(r)
    <3> TAKE k \in Cards
    <3>1. PICK c, p : \/ cards'[k] = cards[k]
                      \/ cards'[k] = [cards[k] EXCEPT !.column = c, !.position = p,
                                                      !.placed = FALSE]
      BY <2>7 DEF MoveWrite
    <3> QED BY <3>1, <2>2 DEF Card
  <2> QED BY <2>1, <2>5, <2>6, <2>7
<1> QED BY <1>1, <1>2 DEF SameTickets, BoardIds

LEMMA StepKinds ==
  ASSUME TypeOK, JobInv, NEW r \in Requests,
         BoardNext(r) \/ ColumnNext(r) \/ CardNext(r) \/ Fail(r)
  PROVE  SameTickets \/ (\E b \in Boards : OpensBoard(b)) \/ InsertCard(r)
<1>1. UNCHANGED <<boards, cards>> => SameTickets
  BY DEF SameTickets, BoardIds
<1>2. CASE BoardNext(r)
  BY <1>1, <1>2, CreateBoardOpens, DuplicateWriteOpens, RenameWriteTickets
     DEF BoardNext, Create, CreateSample, Duplicate, DuplicateReadColumns, RenameCheck, JobInv
<1>3. CASE ColumnNext(r)
  BY <1>1, <1>3, CardWriteTickets
     DEF ColumnNext, AddColumn, RemoveColumnCheck, ReorderCheck
<1>4. CASE CardNext(r)
  BY <1>1, <1>4, CardWriteTickets
     DEF CardNext, MoveCardDto, CreateCardCheck, ReserveNumber, ReadLastPosition, UpdateCheck, MoveCheck
<1>5. CASE Fail(r)
  BY <1>1, <1>5 DEF Fail
<1> QED BY <1>2, <1>3, <1>4, <1>5

\* What InsertCard does to the tables, given that the reservation is intact.
Inserts(b) ==
  /\ b \in BoardIds
  /\ \A d \in Boards : /\ boards'[d].next = boards[d].next + (IF d = b THEN 1 ELSE 0)
                       /\ boards'[d].code = boards[d].code
  /\ \E k \in Cards \ CardIds :
       /\ cards'[k].board = b
       /\ cards'[k].number = boards[b].next
       /\ \A m \in Cards \ {k} : cards'[m] = cards[m]

LEMMA InsertCardInserts ==
  ASSUME TypeOK, NEW r \in Requests, JobOK(r), InsertCard(r)
  PROVE  Inserts(job[r].board)
<1> DEFINE b == job[r].board
<1>1. b \in BoardIds /\ job[r].number = boards[b].next
  BY DEF JobOK, InsertCard, At
<1>2. b \in Boards
  BY <1>1, BoardIdsType
<1>3. \A d \in Boards : boards[d].next \in Nat
  BY DEF TypeOK, Board
<1>4. \A d \in Boards : /\ boards'[d].next = boards[d].next + (IF d = b THEN 1 ELSE 0)
                        /\ boards'[d].code = boards[d].code
  BY <1>1, <1>2, <1>3 DEF TypeOK, InsertCard, Board
<1>5. PICK k \in Cards \ CardIds :
        InsertCards([id \in {k} |->
          [board |-> b, number |-> job[r].number, code |-> job[r].code,
           column |-> job[r].column, position |-> job[r].position, live |-> TRUE,
           placed |-> TRUE]])
  BY DEF InsertCard
<1>6. /\ cards'[k].board = b
      /\ cards'[k].number = boards[b].next
      /\ \A m \in Cards \ {k} : cards'[m] = cards[m]
  BY <1>1, <1>5 DEF InsertCards
<1> QED BY <1>1, <1>4, <1>6 DEF Inserts

-----------------------------------------------------------------------------
(* The inductive invariant of the numbering.                               *)

NumberInv ==
  /\ TypeOK
  /\ JobInv
  /\ \A b \in BoardIds : boards[b].next # 0
  /\ \A k \in CardIds : cards[k].board \in BoardIds
  /\ NumbersUnique

\* A request's knowledge survives the steps of the others.
LEMMA JobsKept ==
  ASSUME TypeOK, JobInv, NEW r \in Requests,
         \A q \in Requests \ {r} : job'[q] = job[q],
         BoardIds \subseteq BoardIds',
         \A q \in Requests \ {r}, b \in BoardIds :
           lock[b] = q => lock'[b] = q /\ boards'[b].next = boards[b].next,
         JobOK(r)'
  PROVE  JobInv'
<1> SUFFICES ASSUME NEW q \in Requests \ {r} PROVE JobOK(q)'
  BY DEF JobInv
<1>1. JobOK(q)
  BY DEF JobInv
<1> QED BY <1>1 DEF JobOK

LEMMA IdleJobOK ==
  ASSUME TypeOK, NEW r \in Requests, Finish(r)
  PROVE  JobOK(r)' /\ \A q \in Requests \ {r} : job'[q] = job[q]
BY DEF TypeOK, Finish, Idle, JobOK

LEMMA BeginJobOK ==
  ASSUME TypeOK, NEW r \in Requests, NEW j, Begin(r, j),
         j.at \notin {"rename", "duplicate", "reserve", "position", "insert"}
  PROVE  JobOK(r)' /\ \A q \in Requests \ {r} : job'[q] = job[q]
BY DEF TypeOK, Begin, JobOK

LEMMA BoardsKept ==
  ASSUME TypeOK, JobInv, NEW r \in Requests,
         BoardNext(r) \/ ColumnNext(r) \/ CardNext(r) \/ Fail(r)
  PROVE  /\ BoardIds \subseteq BoardIds'
         /\ \A b \in BoardIds : boards'[b].next # boards[b].next => InsertCard(r)
<1>1. CASE SameTickets
  BY <1>1, BoardIdsType DEF SameTickets
<1>2. CASE \E b \in Boards : OpensBoard(b)
  BY <1>2, BoardIdsType DEF OpensBoard, BoardIds
<1>3. CASE InsertCard(r)
  BY <1>3, InsertCardInserts, BoardIdsType DEF Inserts, BoardIds, JobInv
<1> QED BY <1>1, <1>2, <1>3, StepKinds

LEMMA JobStep ==
  ASSUME TypeOK, JobInv, NEW r \in Requests,
         BoardNext(r) \/ ColumnNext(r) \/ CardNext(r) \/ Fail(r)
  PROVE  JobInv'
<1> USE BoardsKept
<1>1. CASE Finish(r) /\ (Unlock(r) \/ UNCHANGED lock)
  <2>1. \A q \in Requests \ {r}, b \in BoardIds :
          lock[b] = q => lock'[b] = q /\ boards'[b].next = boards[b].next
    <3> SUFFICES ASSUME NEW q \in Requests \ {r}, NEW b \in BoardIds, lock[b] = q
                 PROVE  lock'[b] = q /\ boards'[b].next = boards[b].next
      OBVIOUS
    <3>1. lock'[b] = q
      BY <1>1, BoardIdsType DEF TypeOK, Unlock
    <3>2. InsertCard(r) => boards'[b].next = boards[b].next
      <4>1. JobOK(r)
        BY DEF JobInv
      <4>2. InsertCard(r) => lock[job[r].board] = r
        BY <4>1 DEF JobOK, InsertCard, At
      <4>3. InsertCard(r) => Inserts(job[r].board)
        BY <4>1, InsertCardInserts
      <4>4. boards[b].next \in Nat
        BY BoardIdsType DEF TypeOK, Board
      <4> QED BY <4>2, <4>3, <4>4, BoardIdsType DEF Inserts
    <3> QED BY <3>1, <3>2
  <2> QED BY <1>1, <2>1, IdleJobOK, JobsKept
<1>2. ASSUME NEW j, Begin(r, j), UNCHANGED lock, ~InsertCard(r),
             j.at \notin {"rename", "duplicate", "reserve", "position", "insert"}
      PROVE  JobInv'
  BY <1>2, BeginJobOK, JobsKept
<1>3. ASSUME UNCHANGED <<job, lock>>, ~InsertCard(r) PROVE JobInv'
  <2>1. JobOK(r)'
    BY <1>3 DEF JobInv, JobOK
  <2> QED BY <1>3, <2>1, JobsKept
<1>4. CASE BoardNext(r)
  <2>1. ASSUME NEW b \in Boards, NEW code \in Codes, NEW n \in {0, SampleCards},
               CreateBoard(r, b, code, n)
        PROVE  JobInv'
    BY <2>1, <1>3 DEF CreateBoard, InsertCard, At
  <2>2. ASSUME NEW b \in Boards, NEW code \in Codes, DuplicateReadColumns(r, b, code)
        PROVE  JobInv'
    <3>1. job' = [job EXCEPT ![r] = [Idle EXCEPT !.at = "duplicate", !.board = b,
                                       !.code = code, !.columns = LiveColumns(b)]]
      BY <2>2 DEF DuplicateReadColumns, Begin
    <3>2. UNCHANGED <<boards, lock>> /\ b \in BoardIds
      BY <2>2 DEF DuplicateReadColumns
    <3>3. JobOK(r)'
      BY <3>1, <3>2 DEF TypeOK, JobOK, Idle, BoardIds
    <3> QED BY <3>1, <3>2, <3>3, JobsKept DEF TypeOK, BoardIds
  <2>3. ASSUME NEW b \in Boards, DuplicateWrite(r, b) PROVE JobInv'
    BY <2>3, <1>1 DEF DuplicateWrite
  <2>4. ASSUME NEW b \in Boards, NEW code \in Codes, RenameCheck(r, b, code)
        PROVE  JobInv'
    <3>1. job' = [job EXCEPT ![r] = [Idle EXCEPT !.at = "rename", !.board = b,
                                                 !.code = code]]
      BY <2>4 DEF RenameCheck, Begin
    <3>2. UNCHANGED <<boards, lock>> /\ b \in BoardIds
      BY <2>4 DEF RenameCheck
    <3>3. JobOK(r)'
      BY <3>1, <3>2 DEF TypeOK, JobOK, Idle, BoardIds
    <3> QED BY <3>1, <3>2, <3>3, JobsKept DEF TypeOK, BoardIds
  <2>5. ASSUME RenameWrite(r) PROVE JobInv'
    BY <2>5, <1>1 DEF RenameWrite
  <2> QED BY <1>4, <2>1, <2>2, <2>3, <2>4, <2>5 DEF BoardNext, Create, CreateSample, Duplicate
<1>5. CASE ColumnNext(r)
  <2>1. ASSUME NEW b \in Boards, AddColumn(r, b) PROVE JobInv'
    BY <2>1, <1>3 DEF AddColumn, InsertCard, At
  <2>2. ASSUME NEW c \in Columns, RemoveColumnCheck(r, c) PROVE JobInv'
    <3>1. [Idle EXCEPT !.at = "removeColumn", !.column = c].at = "removeColumn"
      BY DEF Idle
    <3> QED BY <2>2, <3>1, <1>2 DEF RemoveColumnCheck, Begin, InsertCard, At
  <2>3. ASSUME SoftDeleteWithCards(r) PROVE JobInv'
    BY <2>3, <1>1 DEF SoftDeleteWithCards
  <2>4. ASSUME NEW c \in Columns, NEW ks \in SUBSET Cards, ReorderCheck(r, c, ks)
        PROVE  JobInv'
    <3>1. [Idle EXCEPT !.at = "reorder", !.column = c, !.nextCards = ks].at = "reorder"
      BY DEF Idle
    <3> QED BY <2>4, <3>1, <1>2 DEF ReorderCheck, Begin, InsertCard, At
  <2>5. ASSUME ReorderWrite(r) PROVE JobInv'
    BY <2>5, <1>1 DEF ReorderWrite
  <2> QED BY <1>5, <2>1, <2>2, <2>3, <2>4, <2>5 DEF ColumnNext
<1>6. CASE CardNext(r)
  <2>1. ASSUME NEW b \in Boards, NEW c \in Columns, CreateCardCheck(r, b, c)
        PROVE  JobInv'
    <3>1. job' = [job EXCEPT ![r] = [Idle EXCEPT !.at = "reserve", !.board = b,
                                                 !.column = c]]
      BY <2>1 DEF CreateCardCheck, Begin
    <3>2. UNCHANGED <<boards, lock>> /\ b \in BoardIds
      BY <2>1 DEF CreateCardCheck
    <3>3. JobOK(r)'
      BY <3>1, <3>2 DEF TypeOK, JobOK, Idle, BoardIds
    <3> QED BY <3>1, <3>2, <3>3, JobsKept DEF TypeOK, BoardIds
  <2>2. ASSUME ReserveNumber(r) PROVE JobInv'
    <3> DEFINE b == job[r].board
    <3>1. b \in BoardIds /\ lock[b] = None
      BY <2>2 DEF JobInv, JobOK, ReserveNumber, At
    <3>2. /\ lock' = [lock EXCEPT ![b] = r]
          /\ job' = [job EXCEPT ![r] = [@ EXCEPT !.at = "position",
                         !.code = boards[b].code, !.number = boards[b].next]]
          /\ UNCHANGED boards
      BY <2>2 DEF ReserveNumber
    <3>3. job[r] \in Job
      BY DEF TypeOK
    <3>4. /\ job'[r].at = "position"
          /\ job'[r].board = b
          /\ job'[r].number = boards[b].next
      BY <3>2, <3>3 DEF TypeOK, Job
    <3>5. lock'[b] = r
      BY <3>1, <3>2, BoardIdsType DEF TypeOK
    <3>6. JobOK(r)'
      BY <3>1, <3>2, <3>4, <3>5 DEF JobOK, BoardIds
    <3>7. \A q \in Requests \ {r}, d \in BoardIds : lock[d] = q => lock'[d] = q
      BY <3>1, <3>2, NoneAssumption, BoardIdsType DEF TypeOK
    <3>8. \A q \in Requests \ {r} : job'[q] = job[q]
      BY <3>2 DEF TypeOK
    <3>9. BoardIds \subseteq BoardIds'
      BY <3>2 DEF BoardIds
    <3> HIDE DEF b
    <3> QED BY <3>2, <3>6, <3>7, <3>8, <3>9, JobsKept
  <2>3. ASSUME ReadLastPosition(r) PROVE JobInv'
    <3>1. UNCHANGED <<boards, lock>> /\ JobOK(r) /\ job[r] \in Job
      BY <2>3 DEF ReadLastPosition, JobInv, TypeOK
    <3>2. PICK p : job' = [job EXCEPT ![r] = [@ EXCEPT !.at = "insert", !.position = p]]
      BY <2>3 DEF ReadLastPosition
    <3>3. /\ job'[r].at = "insert"
          /\ job'[r].board = job[r].board
          /\ job'[r].number = job[r].number
      BY <3>1, <3>2 DEF TypeOK, Job
    <3>4. JobOK(r)'
      BY <2>3, <3>1, <3>3 DEF JobOK, BoardIds, ReadLastPosition, At
    <3> QED BY <3>1, <3>2, <3>4, JobsKept DEF TypeOK, BoardIds
  <2>4. ASSUME InsertCard(r) PROVE JobInv'
    BY <2>4, <1>1 DEF InsertCard
  <2>5. ASSUME NEW k \in Cards, NEW c \in Columns, UpdateCheck(r, k, c)
        PROVE  JobInv'
    <3> DEFINE j == [Idle EXCEPT !.card = k, !.column = c,
                       !.at = IF c # cards[k].column THEN "updatePosition"
                                                     ELSE "updateWrite"]
    <3>1. j.at \in {"updatePosition", "updateWrite"}
      BY DEF Idle
    <3>2. Begin(r, j) /\ UNCHANGED lock /\ ~InsertCard(r)
      BY <2>5 DEF UpdateCheck, Begin, InsertCard, At
    <3> HIDE DEF j
    <3> QED BY <3>1, <3>2, <1>2
  <2>6. ASSUME UpdateCard(r) PROVE JobInv'
    BY <2>6, <1>1 DEF UpdateCard
  <2>7. ASSUME NEW k \in Cards, NEW from \in Columns, NEW to \in Columns,
               NEW prev \in SUBSET Cards, NEW next \in SUBSET Cards,
               MoveCheck(r, k, from, to, prev, next)
        PROVE  JobInv'
    <3> DEFINE j == [Idle EXCEPT !.at = "move", !.card = k, !.prevColumn = from,
                       !.column = to, !.prevCards = prev, !.nextCards = next]
    <3>1. j.at = "move"
      BY DEF Idle
    <3>2. Begin(r, j) /\ UNCHANGED lock /\ ~InsertCard(r)
      BY <2>7 DEF MoveCheck, Begin, InsertCard, At
    <3> HIDE DEF j
    <3> QED BY <3>1, <3>2, <1>2
  <2>8. ASSUME MoveWrite(r) PROVE JobInv'
    BY <2>8, <1>1 DEF MoveWrite
  <2> QED BY <1>6, <2>1, <2>2, <2>3, <2>4, <2>5, <2>6, <2>7, <2>8 DEF CardNext, MoveCardDto
<1>7. CASE Fail(r)
  BY <1>1, <1>7 DEF Fail
<1> QED BY <1>4, <1>5, <1>6, <1>7

-----------------------------------------------------------------------------
(* The steps preserve the invariant.                                       *)

LEMMA InitNumberInv == Init => NumberInv
<1> SUFFICES ASSUME Init PROVE NumberInv
  OBVIOUS
<1>1. TypeOK
  BY IdleType DEF Init, TypeOK, Board, Column, Card, NoCard
<1>2. BoardIds = {} /\ CardIds = {}
  BY DEF Init, BoardIds, CardIds, NoCard
<1>3. JobInv
  BY DEF Init, Idle, JobInv, JobOK
<1> QED BY <1>1, <1>2, <1>3 DEF NumberInv, NumbersUnique

\* The part of NumberInv that speaks of the tables only.
RowsInv ==
  /\ \A b \in BoardIds : boards[b].next # 0
  /\ \A k \in CardIds : cards[k].board \in BoardIds
  /\ NumbersUnique

LEMMA SameTicketsRows ==
  ASSUME TypeOK, RowsInv, SameTickets
  PROVE  RowsInv'
<1>1. CardIds' = CardIds
  BY DEF CardIds, SameTickets
<1>2. BoardIds' = BoardIds
  BY DEF SameTickets, BoardIds
<1>3. \A b \in BoardIds' : boards'[b].next # 0
  BY <1>2, BoardIdsType DEF SameTickets, RowsInv
<1>4. \A k \in CardIds' : cards'[k].board \in BoardIds'
  BY <1>1, <1>2 DEF SameTickets, RowsInv, CardIds
<1>5. NumbersUnique'
  <2> SUFFICES ASSUME NEW k \in CardIds
               PROVE  /\ cards'[k].number < boards'[cards'[k].board].next
                      /\ \A m \in CardIds \ {k} :
                           cards'[m].board = cards'[k].board
                             => cards'[m].number # cards'[k].number
    BY <1>1 DEF NumbersUnique
  <2>1. k \in Cards /\ cards[k].board \in Boards
    BY BoardIdsType DEF CardIds, RowsInv
  <2> QED BY <2>1 DEF SameTickets, RowsInv, NumbersUnique, CardIds
<1> QED BY <1>3, <1>4, <1>5 DEF RowsInv

LEMMA OpensBoardRows ==
  ASSUME TypeOK, RowsInv, NEW b \in Boards, OpensBoard(b)
  PROVE  RowsInv'
<1>1. BoardIds' = BoardIds \cup {b} /\ b \notin BoardIds
  BY DEF OpensBoard, BoardIds
<1>2. \A d \in BoardIds : boards'[d] = boards[d]
  BY BoardIdsType DEF OpensBoard
<1>3. \A k \in CardIds : /\ cards'[k] = cards[k]
                         /\ k \in Cards
                         /\ cards[k].board \in BoardIds
                         /\ cards[k].board # b
  BY <1>1 DEF OpensBoard, RowsInv, CardIds
<1>4. \A k \in CardIds' \ CardIds :
        /\ k \in Cards \ CardIds
        /\ cards'[k].board = b
        /\ cards'[k].number < boards'[b].next
  BY DEF OpensBoard, CardIds
<1>5. \A d \in BoardIds' : boards'[d].next # 0
  BY <1>1, <1>2 DEF OpensBoard, RowsInv
<1>6. \A k \in CardIds' : cards'[k].board \in BoardIds'
  BY <1>1, <1>3, <1>4
<1>7. \A k \in CardIds' : cards'[k].number < boards'[cards'[k].board].next
  BY <1>2, <1>3, <1>4 DEF RowsInv, NumbersUnique
<1>8. \A k \in CardIds', m \in CardIds' :
        (m # k /\ cards'[m].board = cards'[k].board)
          => cards'[m].number # cards'[k].number
  <2> TAKE k \in CardIds', m \in CardIds'
  <2>1. CASE k \in CardIds /\ m \in CardIds
    BY <2>1, <1>3 DEF RowsInv, NumbersUnique
  <2>2. CASE k \notin CardIds /\ m \notin CardIds
    BY <2>2, <1>4 DEF OpensBoard
  <2>3. CASE (k \in CardIds /\ m \notin CardIds) \/ (k \notin CardIds /\ m \in CardIds)
    BY <2>3, <1>3, <1>4
  <2> QED BY <2>1, <2>2, <2>3
<1> QED BY <1>5, <1>6, <1>7, <1>8 DEF RowsInv, NumbersUnique

LEMMA InsertsRows ==
  ASSUME TypeOK, RowsInv, NEW b \in Boards, Inserts(b)
  PROVE  RowsInv'
<1>1. PICK k \in Cards \ CardIds :
        /\ cards'[k].board = b
        /\ cards'[k].number = boards[b].next
        /\ \A m \in Cards \ {k} : cards'[m] = cards[m]
  BY DEF Inserts
<1>2. b \in BoardIds /\ BoardIds' = BoardIds
  BY DEF Inserts, BoardIds
<1>3. CardIds' = CardIds \cup {k}
  BY <1>1, <1>2, NoneAssumption DEF CardIds, BoardIds
<1>4. \A m \in CardIds : /\ cards'[m] = cards[m]
                         /\ m \in Cards /\ m # k
                         /\ cards[m].board \in BoardIds
                         /\ cards[m].board \in Boards
                         /\ cards[m].number \in Nat
  BY <1>1, BoardIdsType DEF RowsInv, CardIds, TypeOK, Card
<1>5. \A d \in Boards : boards[d].next \in Nat
  BY DEF TypeOK, Board
<1>6. /\ boards'[b].next = boards[b].next + 1
      /\ \A d \in Boards : boards'[d].next >= boards[d].next
  BY <1>5 DEF Inserts
<1>7. \A d \in BoardIds' : boards'[d].next # 0
  <2> TAKE d \in BoardIds'
  <2>1. d \in BoardIds /\ d \in Boards
    BY <1>2, BoardIdsType
  <2>2. boards[d].next # 0 /\ boards[d].next \in Nat
    BY <2>1, <1>5 DEF RowsInv
  <2>3. boards'[d].next = boards[d].next \/ boards'[d].next = boards[d].next + 1
    BY <2>1, <2>2 DEF Inserts
  <2> QED BY <2>2, <2>3
<1>8. \A m \in CardIds' : cards'[m].board \in BoardIds'
  BY <1>1, <1>2, <1>3, <1>4
<1>9. \A m \in CardIds' : cards'[m].number < boards'[cards'[m].board].next
  <2> TAKE m \in CardIds'
  <2>1. CASE m = k
    BY <2>1, <1>1, <1>5, <1>6
  <2>2. CASE m \in CardIds
    <3>1. cards[m].number < boards[cards[m].board].next
      BY <2>2 DEF RowsInv, NumbersUnique
    <3>2. /\ boards[cards[m].board].next \in Nat
          /\ \/ boards'[cards[m].board].next = boards[cards[m].board].next
             \/ boards'[cards[m].board].next = boards[cards[m].board].next + 1
      BY <2>2, <1>4, <1>5 DEF Inserts
    <3> QED BY <2>2, <3>1, <3>2, <1>4
  <2> QED BY <2>1, <2>2, <1>3
<1>10. \A i \in CardIds : cards[i].board = b => cards[i].number # boards[b].next
  <2> TAKE i \in CardIds
  <2>1. cards[i].number < boards[cards[i].board].next
    BY DEF RowsInv, NumbersUnique
  <2> QED BY <2>1, <1>4, <1>5
<1>11. \A i \in CardIds', m \in CardIds' :
        (m # i /\ cards'[m].board = cards'[i].board)
          => cards'[m].number # cards'[i].number
  <2> TAKE i \in CardIds', m \in CardIds'
  <2>1. CASE i \in CardIds /\ m \in CardIds
    BY <2>1, <1>4 DEF RowsInv, NumbersUnique
  <2>2. CASE i = k \/ m = k
    BY <2>2, <1>1, <1>3, <1>4, <1>10
  <2> QED BY <2>1, <2>2, <1>3
<1> QED BY <1>7, <1>8, <1>9, <1>11 DEF RowsInv, NumbersUnique

LEMMA NumberStep == NumberInv /\ [Next]_vars => NumberInv'
<1> SUFFICES ASSUME NumberInv, [Next]_vars PROVE NumberInv'
  OBVIOUS
<1>1. TypeOK /\ JobInv /\ RowsInv
  BY DEF NumberInv, RowsInv
<1>2. TypeOK'
  BY <1>1, TypeStep
<1>3. CASE UNCHANGED vars
  <2>1. BoardIds' = BoardIds /\ CardIds' = CardIds
    BY <1>3 DEF vars, BoardIds, CardIds
  <2>2. JobInv'
    BY <1>1, <1>3, <2>1 DEF vars, JobInv, JobOK
  <2>3. RowsInv'
    BY <1>1, <1>3, <2>1 DEF vars, RowsInv, NumbersUnique
  <2> QED BY <1>2, <2>2, <2>3 DEF NumberInv, RowsInv
<1>4. CASE Next
  <2>1. PICK r \in Requests : BoardNext(r) \/ ColumnNext(r) \/ CardNext(r) \/ Fail(r)
    BY <1>4 DEF Next
  <2>2. JobInv'
    BY <1>1, <2>1, JobStep
  <2>3. InsertCard(r) => Inserts(job[r].board) /\ job[r].board \in Boards
    BY <1>1, InsertCardInserts, BoardIdsType DEF JobInv, Inserts
  <2>4. RowsInv'
    BY <1>1, <2>1, <2>3, StepKinds, SameTicketsRows, OpensBoardRows, InsertsRows
  <2> QED BY <1>2, <2>2, <2>4 DEF NumberInv, RowsInv
<1> QED BY <1>3, <1>4

LEMMA NumberInvAlways == Spec => []NumberInv
BY InitNumberInv, NumberStep, PTL DEF Spec

-----------------------------------------------------------------------------
(* The theorems.                                                           *)

\* Rows and local variables keep their types, whatever requests interleave.
THEOREM TypeCorrect == Spec => []TypeOK
<1>1. NumberInv => TypeOK
  BY DEF NumberInv
<1> QED BY <1>1, NumberInvAlways, PTL

\* Concurrent creations, duplications and failures never give two cards of a
\* board the same number.
THEOREM NumbersAlwaysUnique == Spec => []NumbersUnique
<1>1. NumberInv => NumbersUnique
  BY DEF NumberInv
<1> QED BY <1>1, NumberInvAlways, PTL

\* From its increment to its insert a creation holds the only claim to the
\* number it read.
THEOREM ReservationAlwaysHolds == Spec => []ReservationHolds
<1>1. NumberInv => ReservationHolds
  <2> SUFFICES ASSUME NumberInv, NEW r \in Requests, At(r, "position") \/ At(r, "insert")
               PROVE  /\ job[r].number = boards[job[r].board].next
                      /\ \A k \in CardIds : cards[k].board = job[r].board
                                              => cards[k].number # job[r].number
    BY DEF ReservationHolds
  <2>1. job[r].number = boards[job[r].board].next /\ job[r].board \in BoardIds
    BY DEF NumberInv, JobInv, JobOK, At
  <2>2. boards[job[r].board].next \in Nat
    BY <2>1, BoardIdsType DEF NumberInv, TypeOK, Board
  <2>3. \A k \in CardIds : /\ cards[k].number \in Nat
                           /\ cards[k].number < boards[cards[k].board].next
    BY DEF NumberInv, TypeOK, Card, CardIds, NumbersUnique
  <2> QED BY <2>1, <2>2, <2>3
<1> QED BY <1>1, NumberInvAlways, PTL

-----------------------------------------------------------------------------
(* Cards implements Tickets: each kind of step is a stutter, Open or Issue. *)

LEMMA SameTicketsStutters ==
  ASSUME TypeOK, RowsInv, SameTickets
  PROVE  UNCHANGED <<NextShown, NumbersIssued>>
<1>1. CardIds' = CardIds
  BY DEF CardIds, SameTickets
<1>2. NextShown' = NextShown
  BY DEF SameTickets, NextShown
<1>3. \A b \in Boards : NumbersIssued'[b] = NumbersIssued[b]
  BY <1>1 DEF SameTickets, NumbersIssued, CardIds
<1>4. NumbersIssued' = NumbersIssued
  BY <1>3 DEF NumbersIssued
<1> QED BY <1>2, <1>4

LEMMA OpensBoardOpens ==
  ASSUME TypeOK, RowsInv, NEW b \in Boards, OpensBoard(b)
  PROVE  Numbers!Open(b)
<1>1. BoardIds' = BoardIds \cup {b} /\ b \notin BoardIds
  BY DEF OpensBoard, BoardIds
<1>2. \A d \in BoardIds : boards'[d] = boards[d]
  BY BoardIdsType DEF OpensBoard
<1>3. \A k \in CardIds : /\ cards'[k] = cards[k]
                         /\ k \in CardIds'
                         /\ cards[k].board # b
  BY <1>1 DEF OpensBoard, RowsInv, CardIds
<1>4. \A k \in CardIds' \ CardIds :
        /\ cards'[k].board = b
        /\ cards'[k].number \in 1..(boards'[b].next - 1)
  BY DEF OpensBoard, CardIds
<1>5. \A d \in Boards \ {b} : NextShown'[d] = NextShown[d]
  BY <1>1, <1>2 DEF NextShown
<1>6. NextShown[b] = 0 /\ NextShown'[b] = boards'[b].next
  BY <1>1 DEF NextShown
<1>7. NextShown' = [NextShown EXCEPT ![b] = NextShown'[b]]
  BY <1>5 DEF NextShown
<1>8. \A d \in Boards \ {b} : NumbersIssued'[d] = NumbersIssued[d]
  BY <1>3, <1>4 DEF NumbersIssued
<1>9. NumbersIssued' = [NumbersIssued EXCEPT ![b] = NumbersIssued'[b]]
  BY <1>8 DEF NumbersIssued
<1>10. NumbersIssued'[b] \subseteq 1..(NextShown'[b] - 1)
  BY <1>3, <1>4, <1>6 DEF NumbersIssued
<1>11. NextShown'[b] \in Nat \ {0}
  BY <1>6 DEF OpensBoard
<1> QED BY <1>6, <1>7, <1>9, <1>10, <1>11 DEF Numbers!Open

LEMMA InsertsIssues ==
  ASSUME TypeOK, RowsInv, NEW b \in Boards, Inserts(b)
  PROVE  Numbers!Issue(b)
<1>1. PICK k \in Cards \ CardIds :
        /\ cards'[k].board = b
        /\ cards'[k].number = boards[b].next
        /\ \A m \in Cards \ {k} : cards'[m] = cards[m]
  BY DEF Inserts
<1>2. b \in BoardIds /\ BoardIds' = BoardIds
  BY DEF Inserts, BoardIds
<1>3. CardIds' = CardIds \cup {k}
  BY <1>1, <1>2, NoneAssumption DEF CardIds, BoardIds
<1>4. \A m \in CardIds : cards'[m] = cards[m]
  BY <1>1 DEF CardIds
<1>5. \A d \in Boards : boards[d].next \in Nat
  BY DEF TypeOK, Board
<1>6. NextShown[b] = boards[b].next /\ NextShown[b] # 0
  BY <1>2 DEF NextShown, RowsInv
<1>7. \A d \in Boards : NextShown'[d] = NextShown[d] + (IF d = b THEN 1 ELSE 0)
  <2> TAKE d \in Boards
  <2>1. CASE d \in BoardIds
    BY <2>1, <1>2 DEF NextShown, Inserts
  <2>2. CASE d \notin BoardIds
    BY <2>2, <1>2 DEF NextShown
  <2> QED BY <2>1, <2>2
<1>8. \A d \in Boards : NextShown[d] \in Nat
  BY <1>5 DEF NextShown
<1>9. NextShown' = [NextShown EXCEPT ![b] = @ + 1]
  <2>1. NextShown'[b] = NextShown[b] + 1
    BY <1>7
  <2>2. \A d \in Boards \ {b} : NextShown'[d] = NextShown[d]
    BY <1>7, <1>8
  <2> QED BY <2>1, <2>2 DEF NextShown
<1>10. \A d \in Boards \ {b} : NumbersIssued'[d] = NumbersIssued[d]
  BY <1>1, <1>3, <1>4 DEF NumbersIssued
<1>11. NumbersIssued'[b] = NumbersIssued[b] \cup {boards[b].next}
  BY <1>1, <1>3, <1>4 DEF NumbersIssued
<1>12. NumbersIssued' = [NumbersIssued EXCEPT ![b] = @ \cup {NextShown[b]}]
  BY <1>6, <1>10, <1>11 DEF NumbersIssued
<1> QED BY <1>6, <1>9, <1>12 DEF Numbers!Issue

\* The code's numbering, an increment under the row lock that commits with the
\* insert, implements the dispenser that hands out numbers in order.
THEOREM IssuesInOrder == Spec => NumbersIssuedInOrder
<1>1. Init => Numbers!Init
  <2> SUFFICES ASSUME Init PROVE Numbers!Init
    OBVIOUS
  <2>1. BoardIds = {} /\ CardIds = {}
    BY DEF Init, BoardIds, CardIds, NoCard
  <2> QED BY <2>1 DEF Numbers!Init, NextShown, NumbersIssued
<1>2. NumberInv /\ [Next]_vars => [Numbers!Next]_<<NextShown, NumbersIssued>>
  <2> SUFFICES ASSUME NumberInv, [Next]_vars
               PROVE  Numbers!Next \/ UNCHANGED <<NextShown, NumbersIssued>>
    OBVIOUS
  <2>1. TypeOK /\ JobInv /\ RowsInv
    BY DEF NumberInv, RowsInv
  <2>2. CASE UNCHANGED vars
    BY <2>1, <2>2, SameTicketsStutters DEF vars, SameTickets, BoardIds
  <2>3. CASE Next
    <3>1. PICK r \in Requests : BoardNext(r) \/ ColumnNext(r) \/ CardNext(r) \/ Fail(r)
      BY <2>3 DEF Next
    <3>2. InsertCard(r) => Inserts(job[r].board) /\ job[r].board \in Boards
      BY <2>1, InsertCardInserts, BoardIdsType DEF JobInv, Inserts
    <3> QED BY <2>1, <3>1, <3>2, StepKinds, SameTicketsStutters, OpensBoardOpens,
               InsertsIssues DEF Numbers!Next
  <2> QED BY <2>2, <2>3
<1> QED BY <1>1, <1>2, NumberInvAlways, PTL DEF Spec, NumbersIssuedInOrder, Numbers!Spec
=============================================================================
