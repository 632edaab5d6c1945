--------------------------- MODULE PlacementProofs ---------------------------
(***************************************************************************)
(* More proofs about Cards, on top of CardsProofs: where cards are, and    *)
(* that no number gets lost, for any set of requests, boards and columns   *)
(* and any finite set of cards.                                            *)
(*                                                                         *)
(* A card never changes its board and a column neither, so what a request  *)
(* has checked about the two stays true until it writes (Placing).  A      *)
(* creation has read the last position of its column, and until it inserts *)
(* the row lock of the board keeps out every other creation in that column *)
(* (Ahead); updates and moves give up the place of a card's creation.      *)
(*                                                                         *)
(* Two results need a restriction, and say which.  One request at a time   *)
(* (SerialSpec) what a request has read is still current when it writes    *)
(* (Current), so cards sit in live columns under their board's code.  And  *)
(* while no board changes its code (KeepsCodes), card codes never collide. *)
(***************************************************************************)
EXTENDS CardsProofs, MCBoards

-----------------------------------------------------------------------------
(* The invariant.                                                          *)

OwnColumns ==
  \A k \in CardIds :
    cards[k].column \in Columns /\ columns[cards[k].column].board = cards[k].board

\* The rows that do not exist are no live cards.
LiveCardsExist == \A k \in Cards : cards[k].live => k \in CardIds

\* What a request has checked about columns.
Placing(j) ==
  /\ j.at \in {"reserve", "position", "insert"} =>
       /\ j.board \in Boards /\ j.column \in Columns
       /\ columns[j.column].board = j.board
  /\ j.at \in {"updatePosition", "updateWrite"} =>
       /\ j.card \in CardIds /\ j.column \in Columns
       /\ columns[j.column].board = cards[j.card].board
  /\ j.at = "move" =>
       /\ j.column \in Columns /\ j.prevColumn \in Columns
       /\ \A k \in j.prevCards \cup j.nextCards :
            /\ k \in CardIds
            /\ columns[j.column].board = cards[k].board
            /\ columns[j.prevColumn].board = cards[k].board

\* A card that has the place of its creation.
Created(k) == cards[k].live /\ cards[k].placed

\* The position read last is behind all created cards of the column.
Ahead(j) ==
  j.at = "insert" =>
    \A k \in CardIds :
      Created(k) /\ cards[k].column = j.column => cards[k].position < j.position

Fit(j) == Placing(j) /\ Ahead(j)

PlaceInv ==
  /\ NumberInv
  /\ OwnColumns
  /\ LiveCardsExist
  /\ CreatedPositionsDistinct
  /\ \A r \in Requests : Fit(job[r])

-----------------------------------------------------------------------------
(* What a step does to the tables.                                         *)

\* Cards that exist are written: they keep their board and are in columns of
\* it, and those that keep the place of their creation are not touched.
Writes ==
  /\ CardIds' = CardIds
  /\ \A k \in Cards : cards'[k].live => cards[k].live
  /\ \A c \in ColumnIds : columns'[c].board = columns[c].board
  /\ \A k \in CardIds :
       /\ cards'[k].board = cards[k].board
       /\ cards'[k].column \in Columns
       /\ columns'[cards'[k].column].board = cards[k].board
       /\ Created(k)' => /\ Created(k)
                         /\ cards'[k].column = cards[k].column
                         /\ cards'[k].position = cards[k].position

\* A board is written with new columns and cards.
Opens ==
  /\ \A k \in Cards : cards'[k].live => k \in CardIds'
  /\ \A c \in ColumnIds : columns'[c] = columns[c]
  /\ \A k \in CardIds : cards'[k] = cards[k]
  /\ \A k \in CardIds' \ CardIds :
       /\ cards'[k].column \in Columns \ ColumnIds
       /\ columns'[cards'[k].column].board = cards'[k].board
  /\ \A k, m \in CardIds' \ CardIds :
       /\ k # m /\ Created(k)' /\ Created(m)' /\ cards'[k].column = cards'[m].column
       => cards'[k].position # cards'[m].position

\* Existing columns, in terms a request remembers.
LEMMA OwnColumnIds ==
  ASSUME PlaceInv
  PROVE  /\ \A k \in CardIds : cards[k].column \in ColumnIds
         /\ \A j \in Job : Placing(j) /\ j.at \in {"reserve", "position", "insert"}
                             => j.column \in ColumnIds
<1>1. \A k \in CardIds : cards[k].board # None
  BY DEF CardIds
<1> QED BY <1>1, NoneAssumption DEF PlaceInv, OwnColumns, Placing, ColumnIds

LEMMA WritesKeep ==
  ASSUME PlaceInv, Writes
  PROVE  /\ OwnColumns' /\ LiveCardsExist' /\ CreatedPositionsDistinct'
         /\ \A j \in Job : Fit(j) => Fit(j)'
<1>1. OwnColumns' /\ LiveCardsExist'
  BY DEF PlaceInv, Writes, OwnColumns, LiveCardsExist
<1>2. CreatedPositionsDistinct'
  BY DEF PlaceInv, Writes, CreatedPositionsDistinct, Created
<1>3. ASSUME NEW j \in Job, Fit(j)
      PROVE  Fit(j)'
  <2>1. \A c \in Columns, k \in CardIds :
          columns[c].board = cards[k].board => columns'[c].board = cards'[k].board
    BY DEF Writes, ColumnIds, CardIds
  <2>2. \A c \in Columns, b \in Boards : columns[c].board = b => columns'[c].board = b
    BY NoneAssumption DEF Writes, ColumnIds
  <2>3. Placing(j)'
    BY <1>3, <2>1, <2>2 DEF Fit, Placing, Writes
  <2>4. Ahead(j)'
    BY <1>3 DEF Fit, Ahead, Writes
  <2> QED BY <2>3, <2>4 DEF Fit
<1> QED BY <1>1, <1>2, <1>3

LEMMA OpensKeep ==
  ASSUME PlaceInv, Opens
  PROVE  /\ OwnColumns' /\ LiveCardsExist' /\ CreatedPositionsDistinct'
         /\ \A j \in Job : Fit(j) => Fit(j)'
<1>1. /\ \A k \in CardIds : k \in CardIds' /\ cards[k].column \in ColumnIds
      /\ ColumnIds \subseteq Columns
  BY OwnColumnIds DEF Opens, CardIds, ColumnIds
<1>2. OwnColumns'
  <2> SUFFICES ASSUME NEW k \in CardIds'
               PROVE  /\ cards'[k].column \in Columns
                      /\ columns'[cards'[k].column].board = cards'[k].board
    BY DEF OwnColumns
  <2>1. CASE k \in CardIds
    BY <1>1, <2>1 DEF Opens, PlaceInv, OwnColumns
  <2>2. CASE k \notin CardIds
    BY <2>2 DEF Opens
  <2> QED BY <2>1, <2>2
<1>3. CreatedPositionsDistinct'
  <2> SUFFICES ASSUME NEW k \in CardIds', NEW m \in CardIds', k # m,
                      Created(k)', Created(m)', cards'[k].column = cards'[m].column
               PROVE  cards'[k].position # cards'[m].position
    BY DEF CreatedPositionsDistinct, Created
  <2>1. CASE k \in CardIds /\ m \in CardIds
    BY <2>1 DEF Opens, PlaceInv, CreatedPositionsDistinct, Created
  <2>2. CASE k \notin CardIds /\ m \notin CardIds
    BY <2>2 DEF Opens
  <2>3. CASE (k \in CardIds /\ m \notin CardIds) \/ (k \notin CardIds /\ m \in CardIds)
    BY <1>1, <2>3 DEF Opens
  <2> QED BY <2>1, <2>2, <2>3
<1>4. ASSUME NEW j \in Job, Fit(j)
      PROVE  Fit(j)'
  <2>1. \A c \in Columns, k \in CardIds :
          columns[c].board = cards[k].board => columns'[c].board = cards'[k].board
    BY DEF Opens, ColumnIds, CardIds
  <2>2. \A c \in Columns, b \in Boards : columns[c].board = b => columns'[c].board = b
    BY NoneAssumption DEF Opens, ColumnIds
  <2>3. Placing(j)'
    BY <1>1, <1>4, <2>1, <2>2 DEF Fit, Placing
  <2>4. Ahead(j)'
    <3> SUFFICES ASSUME j.at = "insert", NEW k \in CardIds', Created(k)',
                        cards'[k].column = j.column
                 PROVE  cards'[k].position < j.position
      BY DEF Ahead
    <3>1. j.column \in ColumnIds
      BY <1>4, OwnColumnIds DEF Fit
    <3>2. k \in CardIds /\ cards'[k] = cards[k]
      BY <3>1 DEF Opens
    <3> QED BY <1>4, <3>2 DEF Fit, Ahead, Created
  <2> QED BY <2>3, <2>4 DEF Fit
<1>5. LiveCardsExist'
  BY DEF Opens, LiveCardsExist
<1> QED BY <1>2, <1>3, <1>4, <1>5

\* Other requests remember the same, and it still holds.
LEMMA FitsKept ==
  ASSUME PlaceInv, NEW r \in Requests, \A j \in Job : Fit(j) => Fit(j)',
         \A q \in Requests \ {r} : job'[q] = job[q], Fit(job[r])'
  PROVE  \A q \in Requests : Fit(job[q])'
<1> SUFFICES ASSUME NEW q \in Requests, q # r PROVE Fit(job[q])'
  OBVIOUS
<1>1. job[q] \in Job /\ Fit(job[q])
  BY DEF PlaceInv, NumberInv, TypeOK
<1>2. PICK j \in Job : j = job[q]
  BY <1>1
<1>3. Fit(j) /\ job'[q] = j
  BY <1>1, <1>2
<1>4. Fit(j)'
  BY <1>3
<1> QED BY <1>3, <1>4 DEF Fit, Placing, Ahead

LEMMA IdleFit == \A j : j.at = "idle" => Fit(j) /\ Fit(j)'
BY DEF Fit, Placing, Ahead

-----------------------------------------------------------------------------
(* The steps that write cards and columns which exist.                     *)

LEMMA RowTypes ==
  ASSUME PlaceInv
  PROVE  /\ \A k \in Cards : cards[k] \in Card
         /\ \A c \in Columns : columns[c] \in Column
         /\ \A r \in Requests : job[r] \in Job
         /\ CardIds \subseteq Cards /\ ColumnIds \subseteq Columns
BY DEF PlaceInv, NumberInv, TypeOK, CardIds, ColumnIds

\* Nothing is written, but the name of a board or a new column.
LEMMA SameWrites ==
  ASSUME PlaceInv, UNCHANGED cards, \A c \in ColumnIds : columns'[c].board = columns[c].board
  PROVE  Writes
<1>1. \A k \in CardIds : cards[k].column \in ColumnIds
  BY OwnColumnIds
<1>2. CardIds' = CardIds /\ ColumnIds \subseteq Columns
  BY DEF CardIds, ColumnIds
<1> QED BY <1>1, <1>2 DEF PlaceInv, OwnColumns, Writes, Created

\* The board of every card stays, no column changes its board.
LEMMA RewriteWrites ==
  ASSUME PlaceInv, \A c \in Columns : columns'[c].board = columns[c].board,
         \A k \in Cards : cards'[k].board = cards[k].board,
         \A k \in Cards : cards'[k].live => cards[k].live,
         \A k \in CardIds :
           \/ /\ cards'[k].column = cards[k].column
              /\ Created(k)' => Created(k) /\ cards'[k].position = cards[k].position
           \/ /\ cards'[k].column \in Columns /\ ~cards'[k].placed
              /\ columns[cards'[k].column].board = cards[k].board
  PROVE  Writes
<1>1. CardIds' = CardIds
  BY DEF CardIds
<1>2. ColumnIds \subseteq Columns /\ CardIds \subseteq Cards
  BY DEF ColumnIds, CardIds
<1>3. ASSUME NEW k \in CardIds
      PROVE  /\ cards'[k].column \in Columns
             /\ columns'[cards'[k].column].board = cards[k].board
             /\ Created(k)' => /\ Created(k)
                               /\ cards'[k].column = cards[k].column
                               /\ cards'[k].position = cards[k].position
  <2>1. cards[k].column \in Columns /\ columns[cards[k].column].board = cards[k].board
    BY DEF PlaceInv, OwnColumns
  <2> QED BY <2>1 DEF Created
<1> QED BY <1>1, <1>2, <1>3 DEF Writes

LEMMA SoftDeleteWrites ==
  ASSUME PlaceInv, NEW r \in Requests, SoftDeleteWithCards(r)
  PROVE  Writes
<1> DEFINE c == job[r].column
<1>1. /\ cards' = [k \in Cards |-> IF k \in CardsIn(c)
                                   THEN [cards[k] EXCEPT !.live = FALSE]
                                   ELSE cards[k]]
      /\ columns' = [columns EXCEPT ![c] = [columns[c] EXCEPT !.live = FALSE]]
  BY DEF SoftDeleteWithCards
<1> HIDE DEF c
<1>2. \A d \in Columns : columns'[d].board = columns[d].board
  BY <1>1, RowTypes DEF PlaceInv, NumberInv, TypeOK, Column
<1>3. \A k \in Cards : /\ cards'[k].board = cards[k].board
                       /\ cards'[k].column = cards[k].column
                       /\ cards'[k].position = cards[k].position
                       /\ cards'[k].placed = cards[k].placed
                       /\ cards'[k].live => cards[k].live
  BY <1>1, RowTypes DEF Card
<1>4. CardIds \subseteq Cards
  BY RowTypes
<1> QED BY <1>2, <1>3, <1>4, RewriteWrites DEF Created

LEMMA ReorderWrites ==
  ASSUME PlaceInv, NEW r \in Requests, ReorderWrite(r)
  PROVE  Writes
<1>1. PICK pos \in [job[r].nextCards -> 0..MaxPosition] :
        cards' = [k \in Cards |->
                    IF k \in job[r].nextCards
                    THEN [cards[k] EXCEPT !.position = pos[k], !.placed = FALSE]
                    ELSE cards[k]]
  BY DEF ReorderWrite
<1>2. \A k \in Cards : /\ cards'[k].board = cards[k].board
                       /\ cards'[k].column = cards[k].column
                       /\ cards'[k].live = cards[k].live
                       /\ cards'[k] = cards[k] \/ ~cards'[k].placed
  BY <1>1, RowTypes DEF Card
<1>3. UNCHANGED columns
  BY DEF ReorderWrite
<1>4. CardIds \subseteq Cards
  BY RowTypes
<1> QED BY <1>2, <1>3, <1>4, RewriteWrites DEF Created

LEMMA UpdateWrites ==
  ASSUME PlaceInv, NEW r \in Requests, UpdateCard(r)
  PROVE  Writes
<1> DEFINE k == job[r].card
           c == job[r].column
<1>1. UNCHANGED columns /\ (At(r, "updatePosition") \/ At(r, "updateWrite"))
  BY DEF UpdateCard
<1>2. k \in CardIds /\ c \in Columns /\ columns[c].board = cards[k].board
  BY <1>1 DEF PlaceInv, Fit, Placing, At
<1>3. CardIds \subseteq Cards /\ cards[k] \in Card
  BY <1>2, RowTypes
<1>4. CASE At(r, "updatePosition")
  <2>1. PICK p \in 0..MaxPosition :
          cards' = [cards EXCEPT ![k] = [cards[k] EXCEPT !.column = c, !.position = p,
                                                         !.placed = FALSE]]
    BY <1>4 DEF UpdateCard, At
  <2> HIDE DEF k, c
  <2>2. \A m \in Cards \ {k} : cards'[m] = cards[m]
    BY <2>1 DEF PlaceInv, NumberInv, TypeOK
  <2>3. /\ cards'[k].board = cards[k].board /\ cards'[k].column = c
        /\ ~cards'[k].placed /\ cards'[k].live = cards[k].live
    BY <1>2, <1>3, <2>1 DEF PlaceInv, NumberInv, TypeOK, Card
  <2> QED BY <1>1, <1>2, <1>3, <2>2, <2>3, RewriteWrites DEF Created
<1>5. CASE At(r, "updateWrite")
  <2>1. cards' = [cards EXCEPT ![k] = [cards[k] EXCEPT
                    !.column = c, !.placed = cards[k].placed /\ cards[k].column = c]]
    BY <1>5 DEF UpdateCard, At
  <2> HIDE DEF k, c
  <2>2. \A m \in Cards \ {k} : cards'[m] = cards[m]
    BY <2>1 DEF PlaceInv, NumberInv, TypeOK
  <2>3. /\ cards'[k].board = cards[k].board /\ cards'[k].column = c
        /\ cards'[k].position = cards[k].position /\ cards'[k].live = cards[k].live
        /\ cards'[k].placed => cards[k].placed /\ cards[k].column = c
    BY <1>2, <1>3, <2>1 DEF PlaceInv, NumberInv, TypeOK, Card
  <2> QED BY <1>1, <1>2, <1>3, <2>2, <2>3, RewriteWrites DEF Created
<1> QED BY <1>1, <1>4, <1>5

LEMMA MoveWrites ==
  ASSUME PlaceInv, NEW r \in Requests, MoveWrite(r)
  PROVE  Writes
<1> DEFINE j == job[r]
           moved == j.prevCards \cup j.nextCards
           place(k) == IF k \in j.nextCards THEN j.column ELSE j.prevColumn
<1>1. UNCHANGED columns /\ j.at = "move"
  BY DEF MoveWrite, At
<1>2. \A k \in moved : place(k) \in Columns /\ columns[place(k)].board = cards[k].board
  BY <1>1 DEF PlaceInv, Fit, Placing
<1>3. PICK pos \in [moved -> 0..MaxPosition] :
        cards' = [k \in Cards |->
                    IF k \in moved
                    THEN [cards[k] EXCEPT !.column = place(k), !.position = pos[k],
                                          !.placed = FALSE]
                    ELSE cards[k]]
  BY DEF MoveWrite
<1> HIDE DEF moved, place
<1>4. \A k \in Cards :
        IF k \in moved
        THEN /\ cards'[k].board = cards[k].board /\ cards'[k].column = place(k)
             /\ ~cards'[k].placed /\ cards'[k].live = cards[k].live
        ELSE cards'[k] = cards[k]
  BY <1>3, RowTypes DEF Card
<1>5. CardIds \subseteq Cards
  BY RowTypes
<1> QED BY <1>1, <1>2, <1>4, <1>5, RewriteWrites DEF Created

-----------------------------------------------------------------------------
(* The steps that open a board.                                            *)

LEMMA CreateBoardOpensColumns ==
  ASSUME PlaceInv, NEW r \in Requests, NEW b \in Boards, NEW code \in Codes,
         NEW n \in {0, SampleCards}, CreateBoard(r, b, code, n)
  PROVE  Opens
<1> DEFINE before(ids, rank, col, k) == {i \in ids : col[i] = col[k] /\ rank[i] < rank[k]}
           row(ids, rank, col) ==
             [k \in ids |->
               [board |-> b, number |-> rank[k], code |-> code, column |-> col[k],
                position |-> Cardinality(before(ids, rank, col, k)),
                live |-> TRUE, placed |-> TRUE]]
<1>a. PICK new \in SUBSET (Columns \ ColumnIds), ids \in SUBSET (Cards \ CardIds) :
        /\ InsertColumns(b, new)
        /\ \E rank \in Bijection(ids, 1..n), col \in [ids -> new] :
             InsertCards(row(ids, rank, col))
  BY DEF CreateBoard
<1>1. PICK rank \in Bijection(ids, 1..n), col \in [ids -> new] :
        InsertCards(row(ids, rank, col))
  BY <1>a
<1>2. \A k \in Cards :
        IF k \in ids
        THEN /\ cards'[k].board = b /\ cards'[k].column = col[k]
             /\ cards'[k].position = Cardinality(before(ids, rank, col, k))
        ELSE cards'[k] = cards[k]
  BY <1>1 DEF InsertCards
<1> HIDE DEF row
<1>3. \A c \in Columns :
        columns'[c] = IF c \in new THEN [board |-> b, live |-> TRUE] ELSE columns[c]
  BY <1>a DEF InsertColumns
<1>4. CardIds' \ CardIds \subseteq ids /\ ids \subseteq CardIds'
  BY <1>2, NoneAssumption DEF CardIds
<1>5. \A k, m \in ids : col[k] = col[m] /\ rank[k] < rank[m]
        => Cardinality(before(ids, rank, col, k)) < Cardinality(before(ids, rank, col, m))
  <2> SUFFICES ASSUME NEW k \in ids, NEW m \in ids, col[k] = col[m], rank[k] < rank[m]
               PROVE  Cardinality(before(ids, rank, col, k))
                        < Cardinality(before(ids, rank, col, m))
    OBVIOUS
  <2>1. \A i \in ids : rank[i] \in Nat
    BY SizeAssumption DEF Bijection, Injection, Surjection
  <2>2. /\ before(ids, rank, col, k) \subseteq before(ids, rank, col, m)
        /\ k \in before(ids, rank, col, m) /\ k \notin before(ids, rank, col, k)
    BY <2>1
  <2>3. IsFiniteSet(before(ids, rank, col, m))
    BY FiniteAssumption, FS_Subset
  <2>4. Cardinality(before(ids, rank, col, k)) \in Nat
    BY CardinalityType
  <2>5. Cardinality(before(ids, rank, col, m)) \in Nat
    BY CardinalityType
  <2>6. Cardinality(before(ids, rank, col, k)) <= Cardinality(before(ids, rank, col, m))
    BY <2>2, <2>3, FS_Subset
  <2>7. Cardinality(before(ids, rank, col, k)) # Cardinality(before(ids, rank, col, m))
    BY <2>2, <2>3, FS_Subset
  <2> HIDE DEF before
  <2> QED BY <2>4, <2>5, <2>6, <2>7
<1>6. \A k, m \in ids : k # m /\ col[k] = col[m]
        => Cardinality(before(ids, rank, col, k)) # Cardinality(before(ids, rank, col, m))
  <2> SUFFICES ASSUME NEW k \in ids, NEW m \in ids, k # m, col[k] = col[m]
               PROVE  Cardinality(before(ids, rank, col, k))
                        # Cardinality(before(ids, rank, col, m))
    OBVIOUS
  <2>1. rank[k] \in 1..n /\ rank[m] \in 1..n /\ rank[k] # rank[m]
    BY DEF Bijection, Injection, IsInjective
  <2>2. n \in Nat
    BY SizeAssumption
  <2>3. rank[k] < rank[m] \/ rank[m] < rank[k]
    BY <2>1, <2>2
  <2>4. /\ Cardinality(before(ids, rank, col, k)) \in Nat
        /\ Cardinality(before(ids, rank, col, m)) \in Nat
    BY CardinalityType
  <2> HIDE DEF before
  <2> QED BY <1>5, <2>3, <2>4
<1> HIDE DEF before
<1>7. \A k \in Cards : cards'[k].live => k \in CardIds'
  BY <1>2, <1>4 DEF PlaceInv, LiveCardsExist, CardIds
<1>8. \A c \in ColumnIds : columns'[c] = columns[c]
  BY <1>3 DEF ColumnIds
<1>9. \A k \in CardIds : cards'[k] = cards[k]
  BY <1>2 DEF CardIds
<1>10. \A k \in ids : /\ cards'[k].column \in Columns \ ColumnIds
                      /\ columns'[cards'[k].column].board = cards'[k].board
  <2> TAKE k \in ids
  <2>1. cards'[k].column = col[k] /\ cards'[k].board = b /\ col[k] \in new
    BY <1>2
  <2> QED BY <1>3, <2>1
<1>11. \A k, m \in ids :
         k # m /\ cards'[k].column = cards'[m].column
         => cards'[k].position # cards'[m].position
  <2> TAKE k, m \in ids
  <2> QED BY <1>2, <1>6
<1> QED BY <1>4, <1>7, <1>8, <1>9, <1>10, <1>11 DEF Opens

LEMMA DuplicateWriteOpensColumns ==
  ASSUME PlaceInv, NEW r \in Requests, NEW b \in Boards, DuplicateWrite(r, b)
  PROVE  Opens
<1> DEFINE source == LiveCards(job[r].board)
           kept   == {k \in source : cards[k].column \in job[r].columns}
           n      == Cardinality(source)
           ids(copy) == {copy[k] : k \in kept}
           row(rank, col, copy) ==
             [id \in ids(copy) |->
                LET k == CHOOSE k \in kept : copy[k] = id
                IN  [board |-> b, number |-> rank[k], code |-> job[r].code,
                     column |-> col[cards[k].column], position |-> cards[k].position,
                     live |-> TRUE, placed |-> cards[k].placed]]
<1>1. PICK rank \in Bijection(source, 1..n),
           col \in Injection(job[r].columns, Columns \ ColumnIds),
           copy \in Injection(kept, Cards \ CardIds) :
        /\ InsertColumns(b, {col[c] : c \in job[r].columns})
        /\ InsertCards(row(rank, col, copy))
  BY DEF DuplicateWrite
<1> DEFINE from(id) == CHOOSE k \in kept : copy[k] = id
<1>2. \A id \in ids(copy) : from(id) \in kept /\ copy[from(id)] = id
  OBVIOUS
<1>3. \A id \in Cards :
        IF id \in ids(copy)
        THEN /\ cards'[id].board = b
             /\ cards'[id].column = col[cards[from(id)].column]
             /\ cards'[id].position = cards[from(id)].position
             /\ cards'[id].placed = cards[from(id)].placed
        ELSE cards'[id] = cards[id]
  BY <1>1 DEF InsertCards
<1>4. \A k \in kept : k \in CardIds /\ cards[k].live /\ cards[k].column \in job[r].columns
  BY DEF PlaceInv, LiveCardsExist, LiveCards
<1>5. /\ \A c \in job[r].columns : col[c] \in Columns \ ColumnIds
      /\ \A c, d \in job[r].columns : c # d => col[c] # col[d]
  BY DEF Injection, IsInjective
<1>6. ids(copy) \subseteq Cards \ CardIds
  BY DEF Injection
<1> HIDE DEF row, from, ids, kept, source
<1>7. \A c \in Columns :
        columns'[c] = IF c \in {col[d] : d \in job[r].columns}
                      THEN [board |-> b, live |-> TRUE] ELSE columns[c]
  BY <1>1 DEF InsertColumns
<1>8. CardIds' \ CardIds \subseteq ids(copy) /\ ids(copy) \subseteq CardIds'
  BY <1>3, <1>6, NoneAssumption DEF CardIds
<1>9. \A k \in Cards : cards'[k].live => k \in CardIds'
  BY <1>3, <1>8 DEF PlaceInv, LiveCardsExist, CardIds
<1>10. \A c \in ColumnIds : columns'[c] = columns[c]
  BY <1>5, <1>7 DEF ColumnIds
<1>11. \A k \in CardIds : cards'[k] = cards[k]
  BY <1>3, <1>6 DEF CardIds
<1>12. \A k \in ids(copy) : /\ cards'[k].column \in Columns \ ColumnIds
                            /\ columns'[cards'[k].column].board = cards'[k].board
  <2> TAKE k \in ids(copy)
  <2>1. /\ cards'[k].column = col[cards[from(k)].column]
        /\ cards'[k].board = b
        /\ cards[from(k)].column \in job[r].columns
    BY <1>2, <1>3, <1>4, <1>6
  <2> QED BY <1>5, <1>7, <2>1
<1>13. \A k, m \in ids(copy) :
         /\ k # m /\ Created(k)' /\ Created(m)' /\ cards'[k].column = cards'[m].column
         => cards'[k].position # cards'[m].position
  <2> SUFFICES ASSUME NEW k \in ids(copy), NEW m \in ids(copy), k # m,
                      Created(k)', Created(m)', cards'[k].column = cards'[m].column
               PROVE  cards'[k].position # cards'[m].position
    OBVIOUS
  <2>1. from(k) # from(m) /\ from(k) \in kept /\ from(m) \in kept
    BY <1>2
  <2>2. /\ cards'[k].column = col[cards[from(k)].column]
        /\ cards'[k].position = cards[from(k)].position
        /\ cards'[k].placed = cards[from(k)].placed
        /\ cards'[m].column = col[cards[from(m)].column]
        /\ cards'[m].position = cards[from(m)].position
        /\ cards'[m].placed = cards[from(m)].placed
    BY <1>3, <1>6
  <2>3. cards[from(k)].column = cards[from(m)].column
    BY <1>4, <1>5, <2>1, <2>2
  <2>4. cards[from(k)].placed /\ cards[from(m)].placed
    BY <2>2 DEF Created
  <2> QED BY <1>4, <2>1, <2>2, <2>3, <2>4 DEF PlaceInv, CreatedPositionsDistinct
<1> QED BY <1>8, <1>9, <1>10, <1>11, <1>12, <1>13 DEF Opens

-----------------------------------------------------------------------------
(* The insert of a creation.                                               *)

LEMMA InsertCardKeeps ==
  ASSUME PlaceInv, NEW r \in Requests, InsertCard(r)
  PROVE  /\ OwnColumns' /\ LiveCardsExist' /\ CreatedPositionsDistinct'
         /\ \A q \in Requests : Fit(job[q])'
<1> DEFINE b == job[r].board
           c == job[r].column
<1>1. /\ job[r].at = "insert" /\ UNCHANGED columns
      /\ job' = [job EXCEPT ![r] = Idle]
  BY DEF InsertCard, At, Finish
<1>2. b \in BoardIds /\ lock[b] = r
  BY <1>1 DEF PlaceInv, NumberInv, JobInv, JobOK
<1>3. /\ b \in Boards /\ c \in Columns /\ columns[c].board = b
      /\ \A k \in CardIds : Created(k) /\ cards[k].column = c => cards[k].position < job[r].position
  BY <1>1 DEF PlaceInv, Fit, Placing, Ahead
<1>4. PICK k \in Cards \ CardIds :
        /\ cards'[k].board = b /\ cards'[k].column = c
        /\ cards'[k].position = job[r].position
        /\ \A m \in Cards \ {k} : cards'[m] = cards[m]
  BY DEF InsertCard, InsertCards
<1> HIDE DEF b, c
<1>5. b # None
  BY <1>3, NoneAssumption
<1>6. CardIds' = CardIds \cup {k} /\ \A m \in CardIds : cards'[m] = cards[m]
  BY <1>4, <1>5 DEF CardIds
<1>7. OwnColumns'
  <2> SUFFICES ASSUME NEW m \in CardIds'
               PROVE  /\ cards'[m].column \in Columns
                      /\ columns'[cards'[m].column].board = cards'[m].board
    BY DEF OwnColumns
  <2>1. CASE m = k
    BY <1>1, <1>3, <1>4, <2>1
  <2>2. CASE m \in CardIds
    BY <1>1, <1>6, <2>2 DEF PlaceInv, OwnColumns
  <2> QED BY <1>6, <2>1, <2>2
<1>8. LiveCardsExist'
  BY <1>4, <1>6 DEF PlaceInv, LiveCardsExist
<1>9. \A m \in CardIds : cards[m].position \in Nat
  BY RowTypes DEF Card
<1>10. job[r].position \in Nat
  BY RowTypes DEF Job
<1>11. CreatedPositionsDistinct'
  <2> SUFFICES ASSUME NEW m \in CardIds', NEW i \in CardIds', m # i,
                      Created(m)', Created(i)', cards'[m].column = cards'[i].column
               PROVE  cards'[m].position # cards'[i].position
    BY DEF CreatedPositionsDistinct, Created
  <2>1. CASE m \in CardIds /\ i \in CardIds
    BY <1>6, <2>1 DEF PlaceInv, CreatedPositionsDistinct, Created
  <2>2. CASE m = k /\ i \in CardIds
    <3>1. cards[i].position < job[r].position
      BY <1>3, <1>4, <1>6, <2>2 DEF Created
    <3> QED BY <1>4, <1>6, <1>9, <1>10, <2>2, <3>1
  <2>3. CASE i = k /\ m \in CardIds
    <3>1. cards[m].position < job[r].position
      BY <1>3, <1>4, <1>6, <2>3 DEF Created
    <3> QED BY <1>4, <1>6, <1>9, <1>10, <2>3, <3>1
  <2> QED BY <1>6, <2>1, <2>2, <2>3
<1>12. ASSUME NEW q \in Requests PROVE Fit(job[q])'
  <2>1. CASE q = r
    <3>1. job'[q].at = "idle"
      BY <1>1, <2>1 DEF PlaceInv, NumberInv, TypeOK, Idle
    <3> QED BY <3>1 DEF Fit, Placing, Ahead
  <2>2. CASE q # r
    <3>1. job'[q] = job[q]
      BY <1>1, <2>2 DEF PlaceInv, NumberInv, TypeOK
    <3>2. PICK j \in Job : j = job[q]
      BY RowTypes
    <3>3. Fit(j)
      BY <3>2 DEF PlaceInv
    <3>4. Placing(j)'
      BY <1>1, <1>6, <3>3 DEF Fit, Placing
    <3>5. j.at = "insert" => j.column # c
      <4> SUFFICES ASSUME j.at = "insert", j.column = c PROVE FALSE
        OBVIOUS
      <4>1. j.board = b
        BY <1>3, <3>3 DEF Fit, Placing
      <4>2. lock[j.board] = q
        BY <3>2 DEF PlaceInv, NumberInv, JobInv, JobOK
      <4> QED BY <1>2, <2>2, <4>1, <4>2
    <3>6. Ahead(j)'
      BY <1>4, <1>6, <3>3, <3>5 DEF Fit, Ahead, Created
    <3> QED BY <3>1, <3>2, <3>4, <3>6 DEF Fit, Placing, Ahead
  <2> QED BY <2>1, <2>2
<1> QED BY <1>7, <1>8, <1>11, <1>12

-----------------------------------------------------------------------------
(* The steps that read, and remember what they have checked.               *)

\* Nothing is written; what the request of the step remembers is right.
Reads(r) ==
  /\ UNCHANGED <<columns, cards>>
  /\ \A q \in Requests \ {r} : job'[q] = job[q]
  /\ Fit(job[r])'

LEMMA CheckReads ==
  ASSUME PlaceInv, NEW r \in Requests, NEW j \in Job, Begin(r, j),
         UNCHANGED <<columns, cards>>, Placing(j), j.at # "insert"
  PROVE  Reads(r)
<1>1. job' = [job EXCEPT ![r] = j] /\ job \in [Requests -> Job]
  BY DEF Begin, PlaceInv, NumberInv, TypeOK
<1>2. job'[r] = j /\ \A q \in Requests \ {r} : job'[q] = job[q]
  BY <1>1
<1>3. CardIds' = CardIds
  BY DEF CardIds
<1> QED BY <1>2, <1>3 DEF Reads, Fit, Placing, Ahead

LEMMA BoardCheckReads ==
  ASSUME PlaceInv, NEW r \in Requests, NEW b \in Boards, NEW code \in Codes,
         DuplicateReadColumns(r, b, code) \/ RenameCheck(r, b, code)
  PROVE  Reads(r)
<1> DEFINE copy == [Idle EXCEPT !.at = "duplicate", !.board = b, !.code = code,
                                !.columns = LiveColumns(b)]
           name == [Idle EXCEPT !.at = "rename", !.board = b, !.code = code]
<1>1. /\ copy \in Job /\ copy.at = "duplicate"
      /\ name \in Job /\ name.at = "rename"
  BY DEF Idle, Job, Places, LiveColumns
<1>2. Begin(r, copy) \/ Begin(r, name)
  BY DEF DuplicateReadColumns, RenameCheck
<1>3. UNCHANGED <<columns, cards>>
  BY DEF DuplicateReadColumns, RenameCheck
<1> HIDE DEF copy, name
<1> QED BY <1>1, <1>2, <1>3, CheckReads DEF Placing

LEMMA ColumnCheckReads ==
  ASSUME PlaceInv, NEW r \in Requests, NEW c \in Columns, NEW ks \in SUBSET Cards,
         RemoveColumnCheck(r, c) \/ ReorderCheck(r, c, ks)
  PROVE  Reads(r)
<1> DEFINE remove  == [Idle EXCEPT !.at = "removeColumn", !.column = c]
           reorder == [Idle EXCEPT !.at = "reorder", !.column = c, !.nextCards = ks]
<1>1. /\ remove \in Job /\ remove.at = "removeColumn"
      /\ reorder \in Job /\ reorder.at = "reorder"
  BY DEF Idle, Job, Places
<1>2. Begin(r, remove) \/ Begin(r, reorder)
  BY DEF RemoveColumnCheck, ReorderCheck
<1>3. UNCHANGED <<columns, cards>>
  BY DEF RemoveColumnCheck, ReorderCheck
<1> HIDE DEF remove, reorder
<1> QED BY <1>1, <1>2, <1>3, CheckReads DEF Placing

LEMMA CreateCardCheckReads ==
  ASSUME PlaceInv, NEW r \in Requests, NEW b \in Boards, NEW c \in Columns,
         CreateCardCheck(r, b, c)
  PROVE  Reads(r)
<1> DEFINE j == [Idle EXCEPT !.at = "reserve", !.board = b, !.column = c]
<1>1. j \in Job /\ j.at = "reserve" /\ j.board = b /\ j.column = c
  BY DEF Idle, Job, Places
<1>2. columns[c].board = b
  BY DEF CreateCardCheck, LiveColumns
<1>3. Begin(r, j) /\ UNCHANGED <<columns, cards>>
  BY DEF CreateCardCheck
<1> HIDE DEF j
<1> QED BY <1>1, <1>2, <1>3, CheckReads DEF Placing

\* A creation that goes on remembers its board and its column.
LEMMA ReserveNumberReads ==
  ASSUME PlaceInv, NEW r \in Requests, ReserveNumber(r)
  PROVE  Reads(r)
<1>1. /\ job[r].at = "reserve" /\ UNCHANGED <<columns, cards>>
      /\ \E code, n : job' = [job EXCEPT ![r] = [job[r] EXCEPT
                                !.at = "position", !.code = code, !.number = n]]
  BY DEF ReserveNumber, At
<1>2. job \in [Requests -> Job] /\ job[r] \in Job
  BY DEF PlaceInv, NumberInv, TypeOK
<1>3. /\ job'[r].at = "position" /\ job'[r].board = job[r].board
      /\ job'[r].column = job[r].column
      /\ \A q \in Requests \ {r} : job'[q] = job[q]
  BY <1>1, <1>2 DEF Job
<1>4. /\ job[r].board \in Boards /\ job[r].column \in Columns
      /\ columns[job[r].column].board = job[r].board
  BY <1>1 DEF PlaceInv, Fit, Placing
<1> QED BY <1>1, <1>3, <1>4 DEF Reads, Fit, Placing, Ahead

\* The position read is behind all cards of the column.
LEMMA ReadLastPositionReads ==
  ASSUME PlaceInv, NEW r \in Requests, ReadLastPosition(r)
  PROVE  Reads(r)
<1>1. job[r].at = "position" /\ UNCHANGED <<columns, cards>>
  BY DEF ReadLastPosition, At
<1>2. PICK p \in 0..MaxPosition :
        /\ IsNextPosition(job[r].column, p)
        /\ job' = [job EXCEPT ![r] = [job[r] EXCEPT !.at = "insert", !.position = p]]
  BY DEF ReadLastPosition
<1>3. job \in [Requests -> Job] /\ job[r] \in Job
  BY DEF PlaceInv, NumberInv, TypeOK
<1>4. /\ job'[r].at = "insert" /\ job'[r].board = job[r].board
      /\ job'[r].column = job[r].column /\ job'[r].position = p
      /\ \A q \in Requests \ {r} : job'[q] = job[q]
  BY <1>2, <1>3 DEF Job
<1>5. /\ job[r].board \in Boards /\ job[r].column \in Columns
      /\ columns[job[r].column].board = job[r].board
  BY <1>1 DEF PlaceInv, Fit, Placing
<1>6. \A k \in CardIds :
        Created(k) /\ cards[k].column = job[r].column => cards[k].position < p
  BY <1>2 DEF IsNextPosition, CardsIn, CardIds, Created
<1>7. CardIds' = CardIds
  BY <1>1 DEF CardIds
<1>8. Placing(job[r])'
  BY <1>1, <1>4, <1>5 DEF Placing
<1>9. Ahead(job[r])'
  BY <1>1, <1>4, <1>6, <1>7 DEF Ahead, Created
<1> QED BY <1>1, <1>4, <1>8, <1>9 DEF Reads, Fit

LEMMA UpdateCheckReads ==
  ASSUME PlaceInv, NEW r \in Requests, NEW k \in Cards, NEW c \in Columns,
         UpdateCheck(r, k, c)
  PROVE  Reads(r)
<1> DEFINE j == [Idle EXCEPT !.card = k, !.column = c,
                   !.at = IF c # cards[k].column THEN "updatePosition"
                                                 ELSE "updateWrite"]
<1>1. /\ j \in Job /\ j.at \in {"updatePosition", "updateWrite"}
      /\ j.card = k /\ j.column = c
  BY DEF Idle, Job, Places
<1>2. k \in CardIds /\ columns[c].board = cards[k].board
  BY DEF UpdateCheck, LiveColumns
<1>3. Begin(r, j) /\ UNCHANGED <<columns, cards>>
  BY DEF UpdateCheck
<1> HIDE DEF j
<1> QED BY <1>1, <1>2, <1>3, CheckReads DEF Placing

LEMMA MoveCheckReads ==
  ASSUME PlaceInv, NEW r \in Requests, NEW k \in Cards, NEW from \in Columns,
         NEW to \in Columns, NEW prev \in SUBSET Cards, NEW next \in SUBSET Cards,
         MoveCheck(r, k, from, to, prev, next)
  PROVE  Reads(r)
<1> DEFINE j == [Idle EXCEPT !.at = "move", !.card = k, !.prevColumn = from,
                             !.column = to, !.prevCards = prev, !.nextCards = next]
           b == cards[k].board
<1>1. /\ j \in Job /\ j.at = "move" /\ j.prevColumn = from /\ j.column = to
      /\ j.prevCards = prev /\ j.nextCards = next
  BY DEF Idle, Job, Places
<1>2. columns[from].board = b /\ columns[to].board = b
  BY DEF MoveCheck, LiveColumns
<1>3. \A i \in prev : i \in CardIds /\ cards[i].board = b
  <2> TAKE i \in prev
  <2>1. cards[i].column = from /\ cards[i].live
    BY DEF MoveCheck, CardsIn
  <2>2. i \in CardIds
    BY <2>1 DEF PlaceInv, LiveCardsExist
  <2> QED BY <1>2, <2>1, <2>2 DEF PlaceInv, OwnColumns
<1>4. \A i \in next : i \in CardIds /\ cards[i].board = b
  BY DEF MoveCheck, LiveCards, PlaceInv, LiveCardsExist
<1>5. Begin(r, j) /\ UNCHANGED <<columns, cards>>
  BY DEF MoveCheck
<1> HIDE DEF j, b
<1>6. Placing(j)
  BY <1>1, <1>2, <1>3, <1>4 DEF Placing
<1> QED BY <1>1, <1>5, <1>6, CheckReads

-----------------------------------------------------------------------------
(* Every step keeps the invariant.                                         *)

PlaceParts ==
  /\ OwnColumns /\ LiveCardsExist /\ CreatedPositionsDistinct
  /\ \A q \in Requests : Fit(job[q])

LEMMA ReadsKeep ==
  ASSUME PlaceInv, NEW r \in Requests, Reads(r)
  PROVE  PlaceParts'
<1>1. Writes
  BY SameWrites DEF Reads
<1>2. \A q \in Requests : Fit(job[q])'
  BY <1>1, WritesKeep, FitsKept DEF Reads
<1> QED BY <1>1, <1>2, WritesKeep DEF PlaceParts

LEMMA IdleKeeps ==
  ASSUME PlaceInv, NEW r \in Requests, Writes \/ Opens, Finish(r)
  PROVE  PlaceParts'
<1>1. /\ \A q \in Requests \ {r} : job'[q] = job[q]
      /\ job'[r].at = "idle"
  BY DEF Finish, Idle, PlaceInv, NumberInv, TypeOK
<1>2. Fit(job[r])'
  BY <1>1 DEF Fit, Placing, Ahead
<1>3. /\ OwnColumns' /\ LiveCardsExist' /\ CreatedPositionsDistinct'
      /\ \A j \in Job : Fit(j) => Fit(j)'
  BY WritesKeep, OpensKeep
<1>4. \A q \in Requests : Fit(job[q])'
  BY <1>1, <1>2, <1>3, FitsKept
<1> QED BY <1>3, <1>4 DEF PlaceParts

\* A step of a request that is idle before and after it.
LEMMA JobSameKeeps ==
  ASSUME PlaceInv, NEW r \in Requests, Writes \/ Opens, At(r, "idle"), UNCHANGED job
  PROVE  PlaceParts'
<1>1. Fit(job[r])'
  BY DEF At, Fit, Placing, Ahead
<1>2. /\ OwnColumns' /\ LiveCardsExist' /\ CreatedPositionsDistinct'
      /\ \A j \in Job : Fit(j) => Fit(j)'
  BY WritesKeep, OpensKeep
<1>3. \A q \in Requests : Fit(job[q])'
  BY <1>1, <1>2, FitsKept
<1> QED BY <1>2, <1>3 DEF PlaceParts

LEMMA AddColumnKeeps ==
  ASSUME PlaceInv, NEW r \in Requests, NEW b \in Boards, AddColumn(r, b)
  PROVE  PlaceParts'
<1>1. PICK c \in Columns \ ColumnIds :
        columns' = [d \in Columns |-> IF d \in {c} THEN [board |-> b, live |-> TRUE]
                                                   ELSE columns[d]]
  BY DEF AddColumn, InsertColumns
<1>2. \A d \in ColumnIds : columns'[d].board = columns[d].board
  BY <1>1 DEF ColumnIds
<1>3. UNCHANGED <<cards, job>> /\ At(r, "idle")
  BY DEF AddColumn
<1> QED BY <1>2, <1>3, SameWrites, JobSameKeeps

LEMMA PlaceStep == PlaceInv /\ [Next]_vars => PlaceInv'
<1> SUFFICES ASSUME PlaceInv, [Next]_vars PROVE PlaceInv'
  OBVIOUS
<1>1. NumberInv'
  BY NumberStep DEF PlaceInv
<1>2. PlaceParts'
  <2>1. CASE UNCHANGED vars
    <3>1. UNCHANGED <<columns, cards, job>>
      BY <2>1 DEF vars
    <3>2. CardIds' = CardIds
      BY <3>1 DEF CardIds
    <3>3. OwnColumns' /\ LiveCardsExist' /\ CreatedPositionsDistinct'
      BY <3>1, <3>2
         DEF PlaceInv, OwnColumns, LiveCardsExist, CreatedPositionsDistinct
    <3>4. \A q \in Requests : Fit(job[q])'
      BY <3>1, <3>2 DEF PlaceInv, Fit, Placing, Ahead, Created
    <3> QED BY <3>3, <3>4 DEF PlaceParts
  <2>2. ASSUME NEW r \in Requests, BoardNext(r) PROVE PlaceParts'
    <3>1. ASSUME NEW b \in Boards, NEW code \in Codes, NEW n \in {0, SampleCards},
                 CreateBoard(r, b, code, n)
          PROVE  PlaceParts'
      BY <3>1, CreateBoardOpensColumns, JobSameKeeps DEF CreateBoard
    <3>2. ASSUME NEW b \in Boards, NEW code \in Codes,
                 Duplicate(r, b, code) \/ RenameCheck(r, b, code)
          PROVE  PlaceParts'
      BY <3>2, BoardCheckReads, ReadsKeep DEF Duplicate
    <3>3. ASSUME NEW b \in Boards, DuplicateWrite(r, b) PROVE PlaceParts'
      BY <3>3, DuplicateWriteOpensColumns, IdleKeeps DEF DuplicateWrite
    <3>4. ASSUME RenameWrite(r) PROVE PlaceParts'
      BY <3>4, SameWrites, IdleKeeps DEF RenameWrite
    <3> QED BY <2>2, <3>1, <3>2, <3>3, <3>4 DEF BoardNext, Create, CreateSample
  <2>3. ASSUME NEW r \in Requests, ColumnNext(r) PROVE PlaceParts'
    <3>1. ASSUME NEW c \in Columns, NEW ks \in SUBSET Cards,
                 RemoveColumnCheck(r, c) \/ ReorderCheck(r, c, ks)
          PROVE  PlaceParts'
      BY <3>1, ColumnCheckReads, ReadsKeep
    <3>2. ASSUME SoftDeleteWithCards(r) PROVE PlaceParts'
      BY <3>2, SoftDeleteWrites, IdleKeeps DEF SoftDeleteWithCards
    <3>3. ASSUME ReorderWrite(r) PROVE PlaceParts'
      BY <3>3, ReorderWrites, IdleKeeps DEF ReorderWrite
    <3> QED BY <2>3, <3>1, <3>2, <3>3, AddColumnKeeps DEF ColumnNext
  <2>4. ASSUME NEW r \in Requests, CardNext(r) PROVE PlaceParts'
    <3>1. ASSUME NEW b \in Boards, NEW c \in Columns, CreateCardCheck(r, b, c)
          PROVE  PlaceParts'
      BY <3>1, CreateCardCheckReads, ReadsKeep
    <3>2. ASSUME ReserveNumber(r) \/ ReadLastPosition(r) PROVE PlaceParts'
      BY <3>2, ReserveNumberReads, ReadLastPositionReads, ReadsKeep
    <3>3. ASSUME InsertCard(r) PROVE PlaceParts'
      BY <3>3, InsertCardKeeps DEF PlaceParts
    <3>4. ASSUME NEW k \in Cards, NEW c \in Columns, UpdateCheck(r, k, c)
          PROVE  PlaceParts'
      BY <3>4, UpdateCheckReads, ReadsKeep
    <3>5. ASSUME UpdateCard(r) PROVE PlaceParts'
      BY <3>5, UpdateWrites, IdleKeeps DEF UpdateCard
    <3>6. ASSUME NEW dto \in MoveCardDto,
                 MoveCheck(r, dto.currentCardId, dto.prevColumnId, dto.nextColumnId,
                           dto.prevCards, dto.nextCards)
          PROVE  PlaceParts'
      <4>1. /\ dto.currentCardId \in Cards /\ dto.prevColumnId \in Columns
            /\ dto.nextColumnId \in Columns /\ dto.prevCards \in SUBSET Cards
            /\ dto.nextCards \in SUBSET Cards
        BY DEF MoveCardDto
      <4> QED BY <3>6, <4>1, MoveCheckReads, ReadsKeep
    <3>7. ASSUME MoveWrite(r) PROVE PlaceParts'
      BY <3>7, MoveWrites, IdleKeeps DEF MoveWrite
    <3> QED BY <2>4, <3>1, <3>2, <3>3, <3>4, <3>5, <3>6, <3>7 DEF CardNext
  <2>5. ASSUME NEW r \in Requests, Fail(r) PROVE PlaceParts'
    BY <2>5, SameWrites, IdleKeeps DEF Fail
  <2> QED BY <2>1, <2>2, <2>3, <2>4, <2>5 DEF Next
<1> QED BY <1>1, <1>2 DEF PlaceInv, PlaceParts

LEMMA InitPlaceInv == Init => PlaceInv
<1> SUFFICES ASSUME Init PROVE PlaceInv
  OBVIOUS
<1>1. CardIds = {} /\ \A k \in Cards : ~cards[k].live
  BY DEF Init, NoCard, CardIds
<1>2. \A r \in Requests : job[r].at = "idle"
  BY DEF Init, Idle
<1> QED BY <1>1, <1>2, InitNumberInv
        DEF PlaceInv, OwnColumns, LiveCardsExist, CreatedPositionsDistinct, Fit, Placing, Ahead

LEMMA PlaceInvAlways == Spec => []PlaceInv
BY InitPlaceInv, PlaceStep, PTL DEF Spec

\* A card's column is always a column of the card's own board: move and update
\* (CardsService) write columns they have checked before against a card they
\* have read before, and neither a card nor a column ever changes its board.
THEOREM CardsStayOnTheirBoard == Spec => []ColumnOfOwnBoard
<1>1. PlaceInv => ColumnOfOwnBoard
  BY DEF PlaceInv, OwnColumns, ColumnOfOwnBoard
<1> QED BY <1>1, PlaceInvAlways, PTL

\* Concurrent creations in one column never choose the same position: between
\* the read of the last position and the insert of CardsRepository.create the
\* lock that the increment of nextCardNumber took on the board's row is held.
THEOREM CreatedPositionsStayDistinct == Spec => []CreatedPositionsDistinct
<1>1. PlaceInv => CreatedPositionsDistinct
  BY DEF PlaceInv
<1> QED BY <1>1, PlaceInvAlways, PTL

-----------------------------------------------------------------------------
(* The numbers of a board and its gaps are 1 .. nextCardNumber - 1.  A     *)
(* creation adds the number the counter showed and moves the counter past  *)
(* it in one transaction; a new board is numbered 1 .. n at once.          *)

NumbersOf(b) == {cards[k].number : k \in {i \in CardIds : cards[i].board = b}}

\* All numbers the counter of board b has passed are accounted for.
Complete(b) == NumbersOf(b) \cup boards[b].gaps = 1..(boards[b].next - 1)

LEMMA NoNumberLostPerBoard == NoNumberLost <=> \A b \in BoardIds : Complete(b)
BY DEF NoNumberLost, Complete, NumbersOf

\* A board whose row and cards keep their numbers stays complete.
LEMMA CompleteKept ==
  ASSUME NEW b, Complete(b), boards'[b].next = boards[b].next,
         boards'[b].gaps = boards[b].gaps, NumbersOf(b)' = NumbersOf(b)
  PROVE  Complete(b)'
BY DEF Complete

LEMMA SameNumbersOf ==
  ASSUME NEW b \in Boards, SameTickets
  PROVE  NumbersOf(b)' = NumbersOf(b)
<1>1. CardIds' = CardIds /\ CardIds \subseteq Cards
  BY DEF SameTickets, CardIds
<1> QED BY <1>1 DEF SameTickets, NumbersOf

LEMMA CreateBoardComplete ==
  ASSUME NumberInv, NEW r \in Requests, NEW b \in Boards, NEW code \in Codes,
         NEW n \in {0, SampleCards}, CreateBoard(r, b, code, n)
  PROVE  Complete(b)'
<1> DEFINE row(ids, rank, col) ==
      [k \in ids |->
        [board |-> b, number |-> rank[k], code |-> code, column |-> col[k],
         position |-> Cardinality({i \in ids : col[i] = col[k] /\ rank[i] < rank[k]}),
         live |-> TRUE, placed |-> TRUE]]
<1>a. PICK new \in SUBSET (Columns \ ColumnIds), ids \in SUBSET (Cards \ CardIds) :
        \E rank \in Bijection(ids, 1..n), col \in [ids -> new] :
          InsertCards(row(ids, rank, col))
  BY DEF CreateBoard
<1>1. PICK rank \in Bijection(ids, 1..n), col \in [ids -> new] :
        InsertCards(row(ids, rank, col))
  BY <1>a
<1>2. \A k \in Cards :
        IF k \in ids THEN cards'[k].board = b /\ cards'[k].number = rank[k]
                     ELSE cards'[k] = cards[k]
  BY <1>1 DEF InsertCards
<1> HIDE DEF row
<1>3. b \notin BoardIds /\ boards'[b].next = n + 1 /\ boards'[b].gaps = {} /\ n \in Nat
  BY SizeAssumption DEF NumberInv, TypeOK, CreateBoard, InsertBoard
<1>4. \A k \in Cards \ ids : cards'[k].board # b
  BY <1>2, <1>3, NoneAssumption DEF NumberInv, CardIds
<1>5. \A k \in Cards : k \in CardIds' /\ cards'[k].board = b <=> k \in ids
  BY <1>2, <1>4, NoneAssumption DEF CardIds
<1>6. NumbersOf(b)' = {rank[k] : k \in ids}
  BY <1>2, <1>5 DEF NumbersOf, CardIds
<1>7. {rank[k] : k \in ids} = 1..n
  BY DEF Bijection, Surjection
<1>8. 1..(boards'[b].next - 1) = 1..n
  BY <1>3
<1> QED BY <1>3, <1>6, <1>7, <1>8 DEF Complete

LEMMA DuplicateWriteComplete ==
  ASSUME NumberInv, NEW r \in Requests, NEW b \in Boards, DuplicateWrite(r, b)
  PROVE  Complete(b)'
<1> DEFINE source == LiveCards(job[r].board)
           kept   == {k \in source : cards[k].column \in job[r].columns}
           n      == Cardinality(source)
           ids(copy) == {copy[k] : k \in kept}
           row(rank, col, copy) ==
             [id \in ids(copy) |->
                LET k == CHOOSE k \in kept : copy[k] = id
                IN  [board |-> b, number |-> rank[k], code |-> job[r].code,
                     column |-> col[cards[k].column], position |-> cards[k].position,
                     live |-> TRUE, placed |-> cards[k].placed]]
<1>1. n \in Nat
  BY CardinalityType DEF LiveCards
<1>2. PICK rank \in Bijection(source, 1..n),
           col \in Injection(job[r].columns, Columns \ ColumnIds),
           copy \in Injection(kept, Cards \ CardIds) :
        /\ InsertBoard(b, job[r].code, n + 1, {rank[k] : k \in source \ kept})
        /\ InsertCards(row(rank, col, copy))
  BY DEF DuplicateWrite
<1> DEFINE from(id) == CHOOSE k \in kept : copy[k] = id
<1>3. \A id \in ids(copy) : from(id) \in kept /\ copy[from(id)] = id
  OBVIOUS
<1>4. \A k, m \in kept : copy[k] = copy[m] => k = m
  BY DEF Injection, IsInjective
<1>5. \A id \in Cards :
        IF id \in ids(copy)
        THEN cards'[id].board = b /\ cards'[id].number = rank[from(id)]
        ELSE cards'[id] = cards[id]
  BY <1>2 DEF InsertCards
<1>6. ids(copy) \subseteq Cards /\ kept \subseteq source
  BY DEF Injection
<1>7. {rank[k] : k \in source} = 1..n
  BY DEF Bijection, Surjection
<1>8. /\ b \notin BoardIds /\ boards'[b].next = n + 1
      /\ boards'[b].gaps = {rank[k] : k \in source \ kept}
  BY <1>2 DEF NumberInv, TypeOK, InsertBoard
<1>9. \A k \in kept : copy[k] \in ids(copy)
  OBVIOUS
<1> HIDE DEF row, from, ids, kept, source, n
<1>10. \A k \in kept : from(copy[k]) = k
  BY <1>3, <1>4, <1>9
<1>11. {rank[from(id)] : id \in ids(copy)} = {rank[k] : k \in kept}
  BY <1>3, <1>9, <1>10
<1>12. \A k \in Cards \ ids(copy) : cards'[k].board # b
  BY <1>5, <1>8, NoneAssumption DEF NumberInv, CardIds
<1>13. \A k \in Cards : k \in CardIds' /\ cards'[k].board = b <=> k \in ids(copy)
  BY <1>5, <1>12, NoneAssumption DEF CardIds
<1>14. NumbersOf(b)' = {rank[from(id)] : id \in ids(copy)}
  BY <1>5, <1>6, <1>13 DEF NumbersOf, CardIds
<1>15. NumbersOf(b)' \cup boards'[b].gaps = 1..n
  BY <1>6, <1>7, <1>8, <1>11, <1>14
<1>16. 1..(boards'[b].next - 1) = 1..n
  BY <1>1, <1>8
<1> QED BY <1>15, <1>16 DEF Complete

LEMMA InsertCardComplete ==
  ASSUME NumberInv, NEW r \in Requests, InsertCard(r), NEW b \in BoardIds, Complete(b)
  PROVE  Complete(b)'
<1>1. Inserts(job[r].board)
  BY InsertCardInserts DEF NumberInv, JobInv
<1>2. b \in Boards /\ boards[b].next \in Nat /\ boards[b].next # 0
  BY BoardIdsType DEF NumberInv, TypeOK, Board
<1>3. boards'[b].gaps = boards[b].gaps
  BY <1>2 DEF NumberInv, TypeOK, InsertCard, Board
<1>4. PICK k \in Cards \ CardIds :
        /\ cards'[k].board = job[r].board
        /\ cards'[k].number = boards[job[r].board].next
        /\ \A m \in Cards \ {k} : cards'[m] = cards[m]
  BY <1>1 DEF Inserts
<1>5. job[r].board \in Boards /\ job[r].board # None
  BY <1>1, BoardIdsType, NoneAssumption DEF Inserts
<1>6. CardIds' = CardIds \cup {k} /\ \A m \in CardIds : cards'[m] = cards[m]
  BY <1>4, <1>5 DEF CardIds
<1>7. CASE b = job[r].board
  <2>1. NumbersOf(b)' = NumbersOf(b) \cup {boards[b].next}
    BY <1>4, <1>6, <1>7 DEF NumbersOf
  <2>2. boards'[b].next = boards[b].next + 1
    BY <1>1, <1>2, <1>7 DEF Inserts
  <2>3. 1..(boards'[b].next - 1) = 1..(boards[b].next - 1) \cup {boards[b].next}
    BY <1>2, <2>2
  <2> QED BY <1>3, <2>1, <2>3 DEF Complete
<1>8. CASE b # job[r].board
  <2>1. NumbersOf(b)' = NumbersOf(b)
    BY <1>4, <1>6, <1>8 DEF NumbersOf
  <2>2. boards'[b].next = boards[b].next
    BY <1>1, <1>2, <1>8 DEF Inserts
  <2> QED BY <1>3, <2>1, <2>2, CompleteKept
<1> QED BY <1>7, <1>8

\* Opening a board leaves the others alone.
LEMMA OthersComplete ==
  ASSUME NumberInv, NEW b \in Boards, OpensBoard(b), NEW d \in BoardIds, Complete(d)
  PROVE  Complete(d)'
<1>1. d # b /\ d \in Boards /\ boards'[d] = boards[d]
  BY BoardIdsType DEF OpensBoard
<1>2. \A k \in Cards : k \in CardIds' /\ cards'[k].board = d
                         <=> k \in CardIds /\ cards[k].board = d
  BY <1>1, NoneAssumption DEF OpensBoard, CardIds
<1>3. NumbersOf(d)' = NumbersOf(d)
  BY <1>2 DEF OpensBoard, NumbersOf, CardIds
<1> QED BY <1>1, <1>3, CompleteKept

LEMMA SameTicketsComplete ==
  ASSUME NumberInv, NEW r \in Requests, SameTickets, UNCHANGED boards \/ RenameWrite(r),
         NEW b \in BoardIds, Complete(b)
  PROVE  Complete(b)'
<1>1. b \in Boards
  BY BoardIdsType
<1>2. boards'[b].gaps = boards[b].gaps /\ boards'[b].next = boards[b].next
  BY <1>1 DEF NumberInv, TypeOK, RenameWrite, Board
<1> QED BY <1>1, <1>2, SameNumbersOf, CompleteKept

\* Every step opens a board, inserts a card, or keeps numbers and counters.
LEMMA NumberStepKinds ==
  ASSUME NumberInv, NEW r \in Requests,
         BoardNext(r) \/ ColumnNext(r) \/ CardNext(r) \/ Fail(r)
  PROVE  \/ \E b \in Boards : OpensBoard(b) /\ Complete(b)'
         \/ InsertCard(r)
         \/ SameTickets /\ (UNCHANGED boards \/ RenameWrite(r))
<1>1. TypeOK /\ JobInv /\ JobOK(r)
  BY DEF NumberInv, JobInv
<1>2. UNCHANGED <<boards, cards>> => SameTickets
  BY DEF SameTickets, BoardIds
<1>3. CASE BoardNext(r)
  BY <1>1, <1>2, <1>3, CreateBoardOpens, CreateBoardComplete, DuplicateWriteOpens,
     DuplicateWriteComplete, RenameWriteTickets
     DEF BoardNext, Create, CreateSample, Duplicate, DuplicateReadColumns, RenameCheck
<1>4. CASE ColumnNext(r)
  BY <1>1, <1>2, <1>4, CardWriteTickets
     DEF ColumnNext, AddColumn, RemoveColumnCheck, ReorderCheck, SoftDeleteWithCards,
         ReorderWrite
<1>5. CASE CardNext(r)
  BY <1>1, <1>2, <1>5, CardWriteTickets
     DEF CardNext, MoveCardDto, CreateCardCheck, ReserveNumber, ReadLastPosition,
         UpdateCheck, UpdateCard, MoveCheck, MoveWrite
<1>6. CASE Fail(r)
  BY <1>2, <1>6 DEF Fail
<1> QED BY <1>3, <1>4, <1>5, <1>6

LEMMA CompleteStep ==
  NumberInv /\ NoNumberLost /\ [Next]_vars => NoNumberLost'
<1> SUFFICES ASSUME NumberInv, NoNumberLost, [Next]_vars, NEW b \in BoardIds'
             PROVE  Complete(b)'
  BY NoNumberLostPerBoard DEF NoNumberLost, Complete, NumbersOf
<1>1. \A d \in BoardIds : Complete(d)
  BY NoNumberLostPerBoard
<1>2. CASE UNCHANGED vars
  <2>1. b \in BoardIds /\ NumbersOf(b)' = NumbersOf(b)
    BY <1>2 DEF vars, BoardIds, NumbersOf, CardIds
  <2> QED BY <1>1, <1>2, <2>1, CompleteKept DEF vars
<1>3. ASSUME NEW r \in Requests, BoardNext(r) \/ ColumnNext(r) \/ CardNext(r) \/ Fail(r)
      PROVE  Complete(b)'
  <2>1. ASSUME NEW d \in Boards, OpensBoard(d), Complete(d)' PROVE Complete(b)'
    <3>1. b = d \/ b \in BoardIds
      BY <2>1 DEF OpensBoard, BoardIds
    <3> QED BY <1>1, <2>1, <3>1, OthersComplete
  <2>2. CASE InsertCard(r)
    <3>1. BoardIds' = BoardIds
      <4>1. Inserts(job[r].board)
        BY <2>2, InsertCardInserts DEF NumberInv, JobInv
      <4> QED BY <4>1 DEF Inserts, BoardIds
    <3> QED BY <1>1, <2>2, <3>1, InsertCardComplete
  <2>3. CASE SameTickets /\ (UNCHANGED boards \/ RenameWrite(r))
    <3>1. b \in BoardIds
      BY <2>3, BoardIdsType DEF SameTickets, BoardIds
    <3> QED BY <1>1, <2>3, <3>1, SameTicketsComplete
  <2> QED BY <1>3, <2>1, <2>2, <2>3, NumberStepKinds
<1> QED BY <1>2, <1>3 DEF Next

\* A failed creation gives its number back: the increment of nextCardNumber and
\* the card with the number are one transaction (CardsRepository.create), so a
\* board's numbers have no holes but those duplicateBoard counted and did not copy.
THEOREM NoNumberIsLost == Spec => []NoNumberLost
<1>1. Init => NoNumberLost
  BY DEF Init, NoNumberLost, BoardIds
<1> QED BY <1>1, CompleteStep, NumberInvAlways, PTL DEF Spec

-----------------------------------------------------------------------------
(* One request at a time.  What a request has read is then still current   *)
(* when it writes: its columns are live, its code is the board's, a board  *)
(* that gets a new code has no live cards.                                 *)

Current(j) ==
  /\ j.at = "rename" => LiveCards(j.board) = {}
  /\ j.at \in {"reserve", "position", "insert", "updatePosition", "updateWrite", "move"}
       => columns[j.column].live
  /\ j.at \in {"position", "insert"} => j.code = boards[j.board].code
  /\ j.at = "move" => columns[j.prevColumn].live

OneAtATime == \A r, q \in Requests : r = q \/ At(r, "idle") \/ At(q, "idle")

InStep == OneAtATime /\ \A r \in Requests : Current(job[r])

InOrder == NoOrphanCard /\ CardCodeMatchesBoard

SerialInv == PlaceInv /\ InOrder /\ InStep

\* Only the request that runs has anything to remember.
LEMMA RunnerInStep ==
  ASSUME NEW r \in Requests, Alone(r), \A q \in Requests \ {r} : job'[q] = job[q],
         Current(job[r])'
  PROVE  InStep'
<1>1. \A q \in Requests \ {r} : job'[q].at = "idle"
  BY DEF Alone, At
<1>2. OneAtATime'
  BY <1>1 DEF OneAtATime, At
<1>3. ASSUME NEW q \in Requests PROVE Current(job[q])'
  <2>1. CASE q = r
    BY <2>1
  <2>2. CASE q # r
    BY <1>1, <2>2 DEF Current
  <2> QED BY <2>1, <2>2
<1> QED BY <1>2, <1>3 DEF InStep

LEMMA FinishInStep ==
  ASSUME PlaceInv, NEW r \in Requests, Alone(r),
         Finish(r) \/ (At(r, "idle") /\ UNCHANGED job)
  PROVE  InStep'
<1>1. job'[r].at = "idle" /\ \A q \in Requests \ {r} : job'[q] = job[q]
  BY DEF Finish, At, Idle, PlaceInv, NumberInv, TypeOK
<1>2. Current(job[r])'
  BY <1>1 DEF Current
<1> QED BY <1>1, <1>2, RunnerInStep

\* A step that only reads remembers what it has just seen.
LEMMA ReadInStep ==
  ASSUME SerialInv, NEW r \in Requests, Alone(r), NEW j \in Job,
         job' = [job EXCEPT ![r] = j], UNCHANGED <<boards, columns, cards>>, Current(j)
  PROVE  InOrder' /\ InStep'
<1>1. job'[r] = j /\ \A q \in Requests \ {r} : job'[q] = job[q]
  BY DEF SerialInv, PlaceInv, NumberInv, TypeOK
<1>2. Current(job[r])'
  BY <1>1 DEF Current, LiveCards
<1>3. InOrder'
  BY DEF SerialInv, InOrder, NoOrphanCard, CardCodeMatchesBoard, CardIds
<1> QED BY <1>1, <1>2, <1>3, RunnerInStep

-----------------------------------------------------------------------------
(* The reading steps.                                                      *)

LEMMA BoardCheckInStep ==
  ASSUME SerialInv, NEW r \in Requests, Alone(r), NEW b \in Boards, NEW code \in Codes,
         DuplicateReadColumns(r, b, code) \/ RenameCheck(r, b, code)
  PROVE  InOrder' /\ InStep'
<1> DEFINE copy == [Idle EXCEPT !.at = "duplicate", !.board = b, !.code = code,
                                !.columns = LiveColumns(b)]
           name == [Idle EXCEPT !.at = "rename", !.board = b, !.code = code]
<1>1. /\ copy \in Job /\ copy.at = "duplicate"
      /\ name \in Job /\ name.at = "rename" /\ name.board = b
  BY DEF Idle, Job, Places, LiveColumns
<1>2. \/ job' = [job EXCEPT ![r] = copy]
      \/ job' = [job EXCEPT ![r] = name] /\ LiveCards(b) = {}
  BY DEF DuplicateReadColumns, RenameCheck, Begin
<1>3. UNCHANGED <<boards, columns, cards>>
  BY DEF DuplicateReadColumns, RenameCheck
<1> HIDE DEF copy, name
<1> QED BY <1>1, <1>2, <1>3, ReadInStep DEF Current

LEMMA ColumnCheckInStep ==
  ASSUME SerialInv, NEW r \in Requests, Alone(r), NEW c \in Columns,
         NEW ks \in SUBSET Cards, RemoveColumnCheck(r, c) \/ ReorderCheck(r, c, ks)
  PROVE  InOrder' /\ InStep'
<1> DEFINE remove  == [Idle EXCEPT !.at = "removeColumn", !.column = c]
           reorder == [Idle EXCEPT !.at = "reorder", !.column = c, !.nextCards = ks]
<1>1. /\ remove \in Job /\ remove.at = "removeColumn"
      /\ reorder \in Job /\ reorder.at = "reorder"
  BY DEF Idle, Job, Places
<1>2. job' = [job EXCEPT ![r] = remove] \/ job' = [job EXCEPT ![r] = reorder]
  BY DEF RemoveColumnCheck, ReorderCheck, Begin
<1>3. UNCHANGED <<boards, columns, cards>>
  BY DEF RemoveColumnCheck, ReorderCheck
<1> HIDE DEF remove, reorder
<1> QED BY <1>1, <1>2, <1>3, ReadInStep DEF Current

LEMMA CreateCardCheckInStep ==
  ASSUME SerialInv, NEW r \in Requests, Alone(r), NEW b \in Boards, NEW c \in Columns,
         CreateCardCheck(r, b, c)
  PROVE  InOrder' /\ InStep'
<1> DEFINE j == [Idle EXCEPT !.at = "reserve", !.board = b, !.column = c]
<1>1. j \in Job /\ j.at = "reserve" /\ j.column = c
  BY DEF Idle, Job, Places
<1>2. columns[c].live /\ job' = [job EXCEPT ![r] = j]
  BY DEF CreateCardCheck, LiveColumns, Begin
<1>3. UNCHANGED <<boards, columns, cards>>
  BY DEF CreateCardCheck
<1> HIDE DEF j
<1> QED BY <1>1, <1>2, <1>3, ReadInStep DEF Current

LEMMA ReserveNumberInStep ==
  ASSUME SerialInv, NEW r \in Requests, Alone(r), ReserveNumber(r)
  PROVE  InOrder' /\ InStep'
<1> DEFINE b == job[r].board
           j == [job[r] EXCEPT !.at = "position", !.code = boards[b].code,
                               !.number = boards[b].next]
<1>1. job[r] \in Job /\ b \in BoardIds /\ columns[job[r].column].live
  BY DEF SerialInv, InStep, Current, PlaceInv, NumberInv, TypeOK, JobInv, JobOK,
         ReserveNumber, At
<1>2. boards[b].code \in Codes \cup {None} /\ boards[b].next \in Nat
  BY <1>1, BoardIdsType DEF SerialInv, PlaceInv, NumberInv, TypeOK, Board
<1>3. /\ j \in Job /\ j.at = "position" /\ j.column = job[r].column
      /\ j.board = b /\ j.code = boards[b].code
  BY <1>1, <1>2 DEF Job, Places
<1>4. job' = [job EXCEPT ![r] = j] /\ UNCHANGED <<boards, columns, cards>>
  BY DEF ReserveNumber
<1> HIDE DEF b, j
<1> QED BY <1>1, <1>3, <1>4, ReadInStep DEF Current

LEMMA ReadLastPositionInStep ==
  ASSUME SerialInv, NEW r \in Requests, Alone(r), ReadLastPosition(r)
  PROVE  InOrder' /\ InStep'
<1>1. PICK p \in 0..MaxPosition :
        job' = [job EXCEPT ![r] = [job[r] EXCEPT !.at = "insert", !.position = p]]
  BY DEF ReadLastPosition
<1> DEFINE j == [job[r] EXCEPT !.at = "insert", !.position = p]
<1>2. /\ job[r] \in Job /\ columns[job[r].column].live
      /\ job[r].code = boards[job[r].board].code
  BY DEF SerialInv, InStep, Current, PlaceInv, NumberInv, TypeOK, ReadLastPosition, At
<1>3. /\ j \in Job /\ j.at = "insert" /\ j.column = job[r].column
      /\ j.board = job[r].board /\ j.code = job[r].code
  BY <1>2, PositionType DEF Job, Places
<1>4. job' = [job EXCEPT ![r] = j] /\ UNCHANGED <<boards, columns, cards>>
  BY <1>1 DEF ReadLastPosition
<1> HIDE DEF j
<1> QED BY <1>2, <1>3, <1>4, ReadInStep DEF Current

LEMMA UpdateCheckInStep ==
  ASSUME SerialInv, NEW r \in Requests, Alone(r), NEW k \in Cards, NEW c \in Columns,
         UpdateCheck(r, k, c)
  PROVE  InOrder' /\ InStep'
<1> DEFINE j == [Idle EXCEPT !.card = k, !.column = c,
                   !.at = IF c # cards[k].column THEN "updatePosition"
                                                 ELSE "updateWrite"]
<1>1. j \in Job /\ j.at \in {"updatePosition", "updateWrite"} /\ j.column = c
  BY DEF Idle, Job, Places
<1>2. columns[c].live /\ job' = [job EXCEPT ![r] = j]
  BY DEF UpdateCheck, LiveColumns, Begin
<1>3. UNCHANGED <<boards, columns, cards>>
  BY DEF UpdateCheck
<1> HIDE DEF j
<1> QED BY <1>1, <1>2, <1>3, ReadInStep DEF Current

LEMMA MoveCheckInStep ==
  ASSUME SerialInv, NEW r \in Requests, Alone(r), NEW k \in Cards, NEW from \in Columns,
         NEW to \in Columns, NEW prev \in SUBSET Cards, NEW next \in SUBSET Cards,
         MoveCheck(r, k, from, to, prev, next)
  PROVE  InOrder' /\ InStep'
<1> DEFINE j == [Idle EXCEPT !.at = "move", !.card = k, !.prevColumn = from,
                             !.column = to, !.prevCards = prev, !.nextCards = next]
<1>1. j \in Job /\ j.at = "move" /\ j.prevColumn = from /\ j.column = to
  BY DEF Idle, Job, Places
<1>2. columns[from].live /\ columns[to].live /\ job' = [job EXCEPT ![r] = j]
  BY DEF MoveCheck, LiveColumns, Begin
<1>3. UNCHANGED <<boards, columns, cards>>
  BY DEF MoveCheck
<1> HIDE DEF j
<1> QED BY <1>1, <1>2, <1>3, ReadInStep DEF Current

-----------------------------------------------------------------------------
(* The writing steps.                                                      *)

\* Cards that exist are written: the live ones were live, keep board and code
\* and are in live columns; boards keep their codes.
LEMMA RewriteInOrder ==
  ASSUME SerialInv, \A b \in BoardIds : boards'[b].code = boards[b].code,
         \A k \in Cards : cards'[k].board = cards[k].board /\ cards'[k].code = cards[k].code,
         \A k \in Cards : cards'[k].live => cards[k].live,
         \A k \in CardIds : cards'[k].live => columns'[cards'[k].column].live
  PROVE  InOrder'
<1>1. CardIds' = CardIds /\ CardIds \subseteq Cards
  BY DEF CardIds
<1>2. \A k \in CardIds : cards[k].board \in BoardIds
  BY DEF SerialInv, PlaceInv, NumberInv
<1>3. NoOrphanCard'
  BY <1>1 DEF NoOrphanCard
<1>4. CardCodeMatchesBoard'
  BY <1>1, <1>2 DEF SerialInv, InOrder, CardCodeMatchesBoard
<1> QED BY <1>3, <1>4 DEF InOrder

\* Boards keep their codes; a new board comes with live columns and with cards
\* of its own code.
NewRows ==
  /\ \A b \in BoardIds : boards'[b].code = boards[b].code
  /\ \A k \in CardIds' \ CardIds :
       /\ columns'[cards'[k].column].live
       /\ cards'[k].code = boards'[cards'[k].board].code

LEMMA OpensInOrder ==
  ASSUME SerialInv, Opens, NewRows
  PROVE  InOrder'
<1>1. \A k \in CardIds : cards[k].board \in BoardIds
  BY DEF SerialInv, PlaceInv, NumberInv
<1>2. \A k \in CardIds : cards[k].column \in ColumnIds
  BY OwnColumnIds DEF SerialInv
<1>3. /\ \A k \in CardIds : cards'[k] = cards[k]
      /\ \A c \in ColumnIds : columns'[c] = columns[c]
  BY DEF Opens
<1>4. NoOrphanCard'
  <2> SUFFICES ASSUME NEW k \in CardIds', cards'[k].live
               PROVE  columns'[cards'[k].column].live
    BY DEF NoOrphanCard
  <2>1. CASE k \in CardIds
    BY <1>2, <1>3, <2>1 DEF SerialInv, InOrder, NoOrphanCard
  <2> QED BY <2>1 DEF NewRows
<1>5. CardCodeMatchesBoard'
  <2> SUFFICES ASSUME NEW k \in CardIds', cards'[k].live
               PROVE  cards'[k].code = boards'[cards'[k].board].code
    BY DEF CardCodeMatchesBoard
  <2>1. CASE k \in CardIds
    BY <1>1, <1>3, <2>1 DEF SerialInv, InOrder, CardCodeMatchesBoard, NewRows
  <2> QED BY <2>1 DEF NewRows
<1> QED BY <1>4, <1>5 DEF InOrder

LEMMA CreateBoardRows ==
  ASSUME NumberInv, NEW r \in Requests, NEW b \in Boards, NEW code \in Codes,
         NEW n \in {0, SampleCards}, CreateBoard(r, b, code, n)
  PROVE  NewRows
<1> DEFINE row(ids, rank, col) ==
      [k \in ids |->
        [board |-> b, number |-> rank[k], code |-> code, column |-> col[k],
         position |-> Cardinality({i \in ids : col[i] = col[k] /\ rank[i] < rank[k]}),
         live |-> TRUE, placed |-> TRUE]]
<1>a. PICK new \in SUBSET (Columns \ ColumnIds), ids \in SUBSET (Cards \ CardIds) :
        /\ InsertColumns(b, new)
        /\ \E rank \in Bijection(ids, 1..n), col \in [ids -> new] :
             InsertCards(row(ids, rank, col))
  BY DEF CreateBoard
<1>1. PICK rank \in Bijection(ids, 1..n), col \in [ids -> new] :
        InsertCards(row(ids, rank, col))
  BY <1>a
<1>2. \A k \in Cards :
        IF k \in ids
        THEN cards'[k].board = b /\ cards'[k].column = col[k] /\ cards'[k].code = code
        ELSE cards'[k] = cards[k]
  BY <1>1 DEF InsertCards
<1> HIDE DEF row
<1>3. \A c \in new : columns'[c].live
  BY <1>a DEF InsertColumns
<1>4. CardIds' \ CardIds \subseteq ids
  BY <1>2 DEF CardIds
<1>5. /\ boards'[b].code = code
      /\ \A d \in BoardIds : boards'[d].code = boards[d].code
  BY BoardIdsType DEF NumberInv, TypeOK, CreateBoard, InsertBoard
<1>6. \A k \in CardIds' \ CardIds :
        /\ columns'[cards'[k].column].live
        /\ cards'[k].code = boards'[cards'[k].board].code
  BY <1>2, <1>3, <1>4, <1>5
<1> QED BY <1>5, <1>6 DEF NewRows

LEMMA DuplicateWriteRows ==
  ASSUME NumberInv, NEW r \in Requests, NEW b \in Boards, DuplicateWrite(r, b)
  PROVE  NewRows
<1> DEFINE source == LiveCards(job[r].board)
           kept   == {k \in source : cards[k].column \in job[r].columns}
           n      == Cardinality(source)
           ids(copy) == {copy[k] : k \in kept}
           row(rank, col, copy) ==
             [id \in ids(copy) |->
                LET k == CHOOSE k \in kept : copy[k] = id
                IN  [board |-> b, number |-> rank[k], code |-> job[r].code,
                     column |-> col[cards[k].column], position |-> cards[k].position,
                     live |-> TRUE, placed |-> cards[k].placed]]
<1>1. PICK rank \in Bijection(source, 1..n),
           col \in Injection(job[r].columns, Columns \ ColumnIds),
           copy \in Injection(kept, Cards \ CardIds) :
        /\ InsertBoard(b, job[r].code, n + 1, {rank[k] : k \in source \ kept})
        /\ InsertColumns(b, {col[c] : c \in job[r].columns})
        /\ InsertCards(row(rank, col, copy))
  BY DEF DuplicateWrite
<1> DEFINE from(id) == CHOOSE k \in kept : copy[k] = id
<1>2. \A id \in ids(copy) : from(id) \in kept /\ copy[from(id)] = id
  OBVIOUS
<1>3. \A id \in Cards :
        IF id \in ids(copy)
        THEN /\ cards'[id].board = b /\ cards'[id].code = job[r].code
             /\ cards'[id].column = col[cards[from(id)].column]
        ELSE cards'[id] = cards[id]
  BY <1>1 DEF InsertCards
<1>4. \A k \in kept : cards[k].column \in job[r].columns
  OBVIOUS
<1>5. /\ boards'[b].code = job[r].code
      /\ \A d \in BoardIds : boards'[d].code = boards[d].code
  BY <1>1, BoardIdsType DEF NumberInv, TypeOK, InsertBoard
<1> HIDE DEF row, from, ids, kept, source
<1>6. \A c \in job[r].columns : columns'[col[c]].live
  BY <1>1 DEF InsertColumns, Injection
<1>7. CardIds' \ CardIds \subseteq ids(copy) \cap Cards
  BY <1>3 DEF CardIds
<1>8. \A k \in CardIds' \ CardIds :
        /\ columns'[cards'[k].column].live
        /\ cards'[k].code = boards'[cards'[k].board].code
  BY <1>2, <1>3, <1>4, <1>5, <1>6, <1>7
<1> QED BY <1>5, <1>8 DEF NewRows

LEMMA OpenBoardInOrder ==
  ASSUME SerialInv, NEW r \in Requests, NEW b \in Boards,
         \/ \E code \in Codes, n \in {0, SampleCards} : CreateBoard(r, b, code, n)
         \/ DuplicateWrite(r, b)
  PROVE  InOrder'
<1>1. Opens
  BY CreateBoardOpensColumns, DuplicateWriteOpensColumns DEF SerialInv
<1>2. NewRows
  BY CreateBoardRows, DuplicateWriteRows DEF SerialInv, PlaceInv
<1> QED BY <1>1, <1>2, OpensInOrder

\* The board that gets a new code has no live cards.
LEMMA RenameWriteInOrder ==
  ASSUME SerialInv, NEW r \in Requests, RenameWrite(r)
  PROVE  InOrder'
<1>1. LiveCards(job[r].board) = {} /\ UNCHANGED <<columns, cards>>
  BY DEF SerialInv, InStep, Current, RenameWrite, At
<1>2. \A d \in Boards \ {job[r].board} : boards'[d] = boards[d]
  BY DEF RenameWrite, SerialInv, PlaceInv, NumberInv, TypeOK
<1>3. \A k \in CardIds : k \in Cards /\ cards[k].board \in Boards
  BY BoardIdsType DEF SerialInv, PlaceInv, NumberInv, CardIds
<1>4. CardIds' = CardIds
  BY <1>1 DEF CardIds
<1>5. NoOrphanCard'
  BY <1>1, <1>4 DEF SerialInv, InOrder, NoOrphanCard
<1>6. CardCodeMatchesBoard'
  BY <1>1, <1>2, <1>3, <1>4 DEF SerialInv, InOrder, CardCodeMatchesBoard, LiveCards
<1> QED BY <1>5, <1>6 DEF InOrder

\* The column of the new card is live, its code is its board's.
LEMMA InsertCardInOrder ==
  ASSUME SerialInv, NEW r \in Requests, InsertCard(r)
  PROVE  InOrder'
<1>1. /\ columns[job[r].column].live /\ job[r].code = boards[job[r].board].code
      /\ UNCHANGED columns
  BY DEF SerialInv, InStep, Current, InsertCard, At
<1>2. Inserts(job[r].board)
  BY InsertCardInserts DEF SerialInv, PlaceInv, NumberInv, JobInv
<1>3. /\ job[r].board \in Boards
      /\ \A d \in Boards : boards'[d].code = boards[d].code
  BY <1>2, BoardIdsType DEF Inserts
<1>4. PICK k \in Cards \ CardIds :
        /\ cards'[k].board = job[r].board /\ cards'[k].column = job[r].column
        /\ cards'[k].code = job[r].code
        /\ \A m \in Cards \ {k} : cards'[m] = cards[m]
  BY DEF InsertCard, InsertCards
<1>5. CardIds' \subseteq CardIds \cup {k} /\ \A m \in CardIds : cards'[m] = cards[m]
  BY <1>4 DEF CardIds
<1>6. \A m \in CardIds : cards[m].board \in Boards
  BY BoardIdsType DEF SerialInv, PlaceInv, NumberInv
<1>7. NoOrphanCard'
  <2> SUFFICES ASSUME NEW m \in CardIds', cards'[m].live
               PROVE  columns'[cards'[m].column].live
    BY DEF NoOrphanCard
  <2>1. CASE m = k
    BY <1>1, <1>4, <2>1
  <2>2. CASE m \in CardIds
    BY <1>1, <1>5, <2>2 DEF SerialInv, InOrder, NoOrphanCard
  <2> QED BY <1>5, <2>1, <2>2
<1>8. CardCodeMatchesBoard'
  <2> SUFFICES ASSUME NEW m \in CardIds', cards'[m].live
               PROVE  cards'[m].code = boards'[cards'[m].board].code
    BY DEF CardCodeMatchesBoard
  <2>1. CASE m = k
    BY <1>1, <1>3, <1>4, <2>1
  <2>2. CASE m \in CardIds
    BY <1>3, <1>5, <1>6, <2>2 DEF SerialInv, InOrder, CardCodeMatchesBoard
  <2> QED BY <1>5, <2>1, <2>2
<1> QED BY <1>7, <1>8 DEF InOrder

LEMMA SoftDeleteInOrder ==
  ASSUME SerialInv, NEW r \in Requests, SoftDeleteWithCards(r)
  PROVE  InOrder'
<1> DEFINE c == job[r].column
<1>1. /\ cards' = [k \in Cards |-> IF k \in CardsIn(c)
                                   THEN [cards[k] EXCEPT !.live = FALSE]
                                   ELSE cards[k]]
      /\ columns' = [columns EXCEPT ![c] = [columns[c] EXCEPT !.live = FALSE]]
      /\ UNCHANGED boards
  BY DEF SoftDeleteWithCards
<1> HIDE DEF c
<1>2. /\ columns \in [Columns -> Column] /\ \A k \in Cards : cards[k] \in Card
      /\ CardIds \subseteq Cards
  BY RowTypes DEF SerialInv, PlaceInv, NumberInv, TypeOK
<1>3. \A k \in Cards : /\ cards'[k].board = cards[k].board
                       /\ cards'[k].code = cards[k].code
                       /\ cards'[k].column = cards[k].column
                       /\ cards'[k].live => cards[k].live /\ cards[k].column # c
  BY <1>1, <1>2 DEF Card, CardsIn
<1>4. \A d \in Columns \ {c} : columns'[d] = columns[d]
  BY <1>1, <1>2
<1>5. \A k \in CardIds : cards[k].column \in Columns /\ (cards[k].live => columns[cards[k].column].live)
  BY DEF SerialInv, PlaceInv, OwnColumns, InOrder, NoOrphanCard
<1>6. \A k \in CardIds : cards'[k].live => columns'[cards'[k].column].live
  BY <1>2, <1>3, <1>4, <1>5
<1> QED BY <1>1, <1>3, <1>6, RewriteInOrder

LEMMA ReorderInOrder ==
  ASSUME SerialInv, NEW r \in Requests, ReorderWrite(r)
  PROVE  InOrder'
<1>1. PICK pos \in [job[r].nextCards -> 0..MaxPosition] :
        cards' = [k \in Cards |->
                    IF k \in job[r].nextCards
                    THEN [cards[k] EXCEPT !.position = pos[k], !.placed = FALSE]
                    ELSE cards[k]]
  BY DEF ReorderWrite
<1>2. \A k \in Cards : /\ cards'[k].board = cards[k].board
                       /\ cards'[k].code = cards[k].code
                       /\ cards'[k].column = cards[k].column
                       /\ cards'[k].live = cards[k].live
  BY <1>1, RowTypes DEF SerialInv, Card
<1>3. UNCHANGED <<boards, columns>> /\ CardIds \subseteq Cards
  BY DEF ReorderWrite, CardIds
<1>4. \A k \in CardIds : cards'[k].live => columns'[cards'[k].column].live
  BY <1>2, <1>3 DEF SerialInv, InOrder, NoOrphanCard
<1> QED BY <1>2, <1>3, <1>4, RewriteInOrder

\* The column checked before is still live when the card gets it.
LEMMA UpdateInOrder ==
  ASSUME SerialInv, NEW r \in Requests, UpdateCard(r)
  PROVE  InOrder'
<1> DEFINE k == job[r].card
           c == job[r].column
<1>1. UNCHANGED <<boards, columns>> /\ (At(r, "updatePosition") \/ At(r, "updateWrite"))
  BY DEF UpdateCard
<1>2. columns[c].live
  BY <1>1 DEF SerialInv, InStep, Current, At
<1>3. k \in CardIds
  BY <1>1 DEF SerialInv, PlaceInv, Fit, Placing, At
<1>4. PICK p, w : \/ cards' = [cards EXCEPT ![k] = [cards[k] EXCEPT !.column = c,
                                                      !.position = p, !.placed = w]]
                  \/ cards' = [cards EXCEPT ![k] = [cards[k] EXCEPT !.column = c,
                                                      !.placed = w]]
  <2>1. CASE At(r, "updatePosition")
    BY <2>1 DEF UpdateCard, At
  <2>2. CASE At(r, "updateWrite")
    BY <2>2 DEF UpdateCard, At
  <2> QED BY <1>1, <2>1, <2>2
<1> HIDE DEF k, c
<1>5. /\ CardIds \subseteq Cards /\ cards[k] \in Card
      /\ cards \in [Cards -> Card]
  BY <1>3, RowTypes DEF SerialInv, PlaceInv, NumberInv, TypeOK
<1>6. /\ cards'[k].board = cards[k].board /\ cards'[k].code = cards[k].code
      /\ cards'[k].column = c /\ cards'[k].live = cards[k].live
  BY <1>3, <1>4, <1>5 DEF Card
<1>7. \A m \in Cards \ {k} : cards'[m] = cards[m]
  BY <1>4, <1>5
<1>8. \A m \in CardIds : cards'[m].live => columns'[cards'[m].column].live
  BY <1>1, <1>2, <1>5, <1>6, <1>7 DEF SerialInv, InOrder, NoOrphanCard
<1> QED BY <1>1, <1>6, <1>7, <1>8, RewriteInOrder

\* Both columns of the move are still live when its cards are written.
LEMMA MoveInOrder ==
  ASSUME SerialInv, NEW r \in Requests, MoveWrite(r)
  PROVE  InOrder'
<1> DEFINE j == job[r]
           moved == j.prevCards \cup j.nextCards
           place(k) == IF k \in j.nextCards THEN j.column ELSE j.prevColumn
<1>1. UNCHANGED <<boards, columns>> /\ j.at = "move"
  BY DEF MoveWrite, At
<1>2. \A k \in moved : columns[place(k)].live
  BY <1>1 DEF SerialInv, InStep, Current
<1>3. PICK pos \in [moved -> 0..MaxPosition] :
        cards' = [k \in Cards |->
                    IF k \in moved
                    THEN [cards[k] EXCEPT !.column = place(k), !.position = pos[k],
                                          !.placed = FALSE]
                    ELSE cards[k]]
  BY DEF MoveWrite
<1> HIDE DEF moved, place
<1>4. \A k \in Cards :
        /\ cards'[k].board = cards[k].board /\ cards'[k].code = cards[k].code
        /\ cards'[k].live = cards[k].live
        /\ cards'[k].column = IF k \in moved THEN place(k) ELSE cards[k].column
  BY <1>3, RowTypes DEF SerialInv, Card
<1>5. \A k \in CardIds : cards'[k].live => columns'[cards'[k].column].live
  BY <1>1, <1>2, <1>4 DEF SerialInv, InOrder, NoOrphanCard, CardIds
<1> QED BY <1>1, <1>4, <1>5, RewriteInOrder

\* Cards stay as they are, and so do the columns they are in.
LEMMA SameInOrder ==
  ASSUME SerialInv, UNCHANGED <<boards, cards>>,
         \A c \in ColumnIds : columns'[c] = columns[c]
  PROVE  InOrder'
<1>1. \A k \in CardIds : cards[k].column \in ColumnIds
  BY OwnColumnIds DEF SerialInv
<1>2. \A k \in CardIds : cards'[k].live => columns'[cards'[k].column].live
  BY <1>1 DEF SerialInv, InOrder, NoOrphanCard
<1> QED BY <1>2, RewriteInOrder

LEMMA AddColumnInOrder ==
  ASSUME SerialInv, NEW r \in Requests, NEW b \in Boards, AddColumn(r, b)
  PROVE  InOrder'
<1>1. PICK c \in Columns \ ColumnIds : InsertColumns(b, {c})
  BY DEF AddColumn
<1>2. \A d \in ColumnIds : columns'[d] = columns[d]
  BY <1>1 DEF InsertColumns, ColumnIds
<1> QED BY <1>2, SameInOrder DEF AddColumn

-----------------------------------------------------------------------------
(* Every step of a request that runs alone keeps the invariant.            *)

LEMMA BoardNextSerial ==
  ASSUME SerialInv, NEW r \in Requests, Alone(r), BoardNext(r)
  PROVE  InOrder' /\ InStep'
<1>1. ASSUME NEW b \in Boards, NEW code \in Codes, NEW n \in {0, SampleCards},
             CreateBoard(r, b, code, n)
      PROVE  InOrder' /\ InStep'
  BY <1>1, OpenBoardInOrder, FinishInStep DEF CreateBoard, SerialInv
<1>2. ASSUME NEW b \in Boards, NEW code \in Codes,
             Duplicate(r, b, code) \/ RenameCheck(r, b, code)
      PROVE  InOrder' /\ InStep'
  BY <1>2, BoardCheckInStep DEF Duplicate
<1>3. ASSUME NEW b \in Boards, DuplicateWrite(r, b) PROVE InOrder' /\ InStep'
  BY <1>3, OpenBoardInOrder, FinishInStep DEF DuplicateWrite, SerialInv
<1>4. ASSUME RenameWrite(r) PROVE InOrder' /\ InStep'
  BY <1>4, RenameWriteInOrder, FinishInStep DEF RenameWrite, SerialInv
<1> QED BY <1>1, <1>2, <1>3, <1>4 DEF BoardNext, Create, CreateSample

LEMMA ColumnNextSerial ==
  ASSUME SerialInv, NEW r \in Requests, Alone(r), ColumnNext(r)
  PROVE  InOrder' /\ InStep'
<1>1. ASSUME NEW b \in Boards, AddColumn(r, b) PROVE InOrder' /\ InStep'
  BY <1>1, AddColumnInOrder, FinishInStep DEF AddColumn, SerialInv
<1>2. ASSUME NEW c \in Columns, NEW ks \in SUBSET Cards,
             RemoveColumnCheck(r, c) \/ ReorderCheck(r, c, ks)
      PROVE  InOrder' /\ InStep'
  BY <1>2, ColumnCheckInStep
<1>3. ASSUME SoftDeleteWithCards(r) PROVE InOrder' /\ InStep'
  BY <1>3, SoftDeleteInOrder, FinishInStep DEF SoftDeleteWithCards, SerialInv
<1>4. ASSUME ReorderWrite(r) PROVE InOrder' /\ InStep'
  BY <1>4, ReorderInOrder, FinishInStep DEF ReorderWrite, SerialInv
<1> QED BY <1>1, <1>2, <1>3, <1>4 DEF ColumnNext

LEMMA CardNextSerial ==
  ASSUME SerialInv, NEW r \in Requests, Alone(r), CardNext(r)
  PROVE  InOrder' /\ InStep'
<1>1. ASSUME NEW b \in Boards, NEW c \in Columns, CreateCardCheck(r, b, c)
      PROVE  InOrder' /\ InStep'
  BY <1>1, CreateCardCheckInStep
<1>2. ASSUME ReserveNumber(r) \/ ReadLastPosition(r) PROVE InOrder' /\ InStep'
  BY <1>2, ReserveNumberInStep, ReadLastPositionInStep
<1>3. ASSUME InsertCard(r) PROVE InOrder' /\ InStep'
  BY <1>3, InsertCardInOrder, FinishInStep DEF InsertCard, SerialInv
<1>4. ASSUME NEW k \in Cards, NEW c \in Columns, UpdateCheck(r, k, c)
      PROVE  InOrder' /\ InStep'
  BY <1>4, UpdateCheckInStep
<1>5. ASSUME UpdateCard(r) PROVE InOrder' /\ InStep'
  BY <1>5, UpdateInOrder, FinishInStep DEF UpdateCard, SerialInv
<1>6. ASSUME NEW dto \in MoveCardDto,
             MoveCheck(r, dto.currentCardId, dto.prevColumnId, dto.nextColumnId,
                       dto.prevCards, dto.nextCards)
      PROVE  InOrder' /\ InStep'
  <2>1. /\ dto.currentCardId \in Cards /\ dto.prevColumnId \in Columns
        /\ dto.nextColumnId \in Columns /\ dto.prevCards \in SUBSET Cards
        /\ dto.nextCards \in SUBSET Cards
    BY DEF MoveCardDto
  <2> QED BY <1>6, <2>1, MoveCheckInStep
<1>7. ASSUME MoveWrite(r) PROVE InOrder' /\ InStep'
  BY <1>7, MoveInOrder, FinishInStep DEF MoveWrite, SerialInv
<1> QED BY <1>1, <1>2, <1>3, <1>4, <1>5, <1>6, <1>7 DEF CardNext

LEMMA SerialStep == SerialInv /\ [SerialNext]_vars => SerialInv'
<1> SUFFICES ASSUME SerialInv, [SerialNext]_vars PROVE SerialInv'
  OBVIOUS
<1>1. PlaceInv'
  BY PlaceStep DEF SerialInv, SerialNext, Next
<1>2. InOrder' /\ InStep'
  <2>1. CASE UNCHANGED vars
    BY <2>1 DEF vars, SerialInv, InOrder, NoOrphanCard, CardCodeMatchesBoard, CardIds,
                InStep, OneAtATime, At, Current, LiveCards
  <2>2. ASSUME NEW r \in Requests, Alone(r), Fail(r) PROVE InOrder' /\ InStep'
    BY <2>2, SameInOrder, FinishInStep DEF Fail, SerialInv
  <2> QED BY <2>1, <2>2, BoardNextSerial, ColumnNextSerial, CardNextSerial DEF SerialNext
<1> QED BY <1>1, <1>2 DEF SerialInv

LEMMA InitSerialInv == Init => SerialInv
<1> SUFFICES ASSUME Init PROVE SerialInv
  OBVIOUS
<1>1. CardIds = {} /\ \A r \in Requests : job[r].at = "idle"
  BY DEF Init, NoCard, CardIds, Idle
<1> QED BY <1>1, InitPlaceInv
        DEF SerialInv, InOrder, NoOrphanCard, CardCodeMatchesBoard, InStep, OneAtATime,
            At, Current

LEMMA SerialInvAlways == SerialSpec => []SerialInv
BY InitSerialInv, SerialStep, PTL DEF SerialSpec

\* One request at a time, a live card sits in a live column: softDeleteWithCards
\* takes the cards of the column along, and create, update and move (CardsService)
\* put cards only into columns they have found live.
THEOREM CardsHaveAColumn == SerialSpec => []NoOrphanCard
<1>1. SerialInv => NoOrphanCard
  BY DEF SerialInv, InOrder
<1> QED BY <1>1, SerialInvAlways, PTL

\* One request at a time, a live card's code is its board's: cards get the code the
\* board has when they are numbered, and BoardsService.update refuses a new code
\* once the board has cards.
THEOREM CardsHaveTheirBoardsCode == SerialSpec => []CardCodeMatchesBoard
<1>1. SerialInv => CardCodeMatchesBoard
  BY DEF SerialInv, InOrder
<1> QED BY <1>1, SerialInvAlways, PTL

-----------------------------------------------------------------------------
(* Requests in any order, while no board changes its code.  This is what   *)
(* keeps card codes apart: the code of a card is its board's, and no two   *)
(* boards share one.                                                       *)

KeepsCodes == \A b \in BoardIds : boards'[b].code = boards[b].code

Named(j) == j.at \in {"position", "insert"} => j.code = boards[j.board].code

NamesInv ==
  /\ \A b, d \in BoardIds : boards[b].code = boards[d].code => b = d
  /\ \A k \in CardIds : cards[k].code = boards[cards[k].board].code
  /\ \A r \in Requests : Named(job[r])

\* A number is free with the code of its board if it is free on the board.
LEMMA NamesFree == NumberInv /\ NamesInv => NextCardCodeFree
<1> SUFFICES ASSUME NumberInv, NamesInv, NEW b \in BoardIds, NEW k \in CardIds,
                    cards[k].code = boards[b].code, cards[k].number = boards[b].next
             PROVE  FALSE
  BY DEF NextCardCodeFree, CardCodeFree
<1>1. cards[k].board = b
  BY DEF NamesInv, NumberInv
<1>2. cards[k].number < boards[b].next
  BY <1>1 DEF NumberInv, NumbersUnique
<1>3. boards[b].next \in Nat
  BY BoardIdsType DEF NumberInv, TypeOK, Board
<1> QED BY <1>2, <1>3

\* Cards keep board and code when they are written; boards are left alone.
LEMMA CardWriteNames ==
  ASSUME NumberInv, NEW r \in Requests,
         SoftDeleteWithCards(r) \/ ReorderWrite(r) \/ UpdateCard(r) \/ MoveWrite(r)
  PROVE  \A k \in Cards : cards'[k].board = cards[k].board /\ cards'[k].code = cards[k].code
<1>1. cards \in [Cards -> Card]
  BY DEF NumberInv, TypeOK
<1>2. CASE SoftDeleteWithCards(r)
  BY <1>1, <1>2 DEF SoftDeleteWithCards, Card
<1>3. CASE ReorderWrite(r)
  BY <1>1, <1>3 DEF ReorderWrite, Card
<1>4. CASE UpdateCard(r)
  <2> DEFINE card == cards[job[r].card]
  <2>1. CASE At(r, "updatePosition")
    <3>1. PICK p : cards' = [cards EXCEPT ![job[r].card] =
                              [card EXCEPT !.column = job[r].column,
                                           !.position = p, !.placed = FALSE]]
      BY <1>4, <2>1 DEF UpdateCard, At
    <3> QED BY <1>1, <3>1 DEF Card
  <2>2. CASE At(r, "updateWrite")
    <3>1. cards' = [cards EXCEPT ![job[r].card] =
                      [card EXCEPT !.column = job[r].column,
                                   !.placed = card.placed /\ card.column = job[r].column]]
      BY <1>4, <2>2 DEF UpdateCard, At
    <3> QED BY <1>1, <3>1 DEF Card
  <2> QED BY <1>4, <2>1, <2>2 DEF UpdateCard
<1>5. CASE MoveWrite(r)
  <2> DEFINE j == job[r]
             listed == j.prevCards \cup j.nextCards
  <2>1. PICK pos : cards' = [k \in Cards |->
                              IF k \in listed
                              THEN [cards[k] EXCEPT
                                      !.column = IF k \in j.nextCards THEN j.column
                                                                      ELSE j.prevColumn,
                                      !.position = pos[k], !.placed = FALSE]
                              ELSE cards[k]]
    BY <1>5 DEF MoveWrite
  <2>2. ASSUME NEW k \in Cards
        PROVE  cards'[k].board = cards[k].board /\ cards'[k].code = cards[k].code
    <3>1. cards[k] \in Card
      BY <1>1
    <3>2. CASE k \in listed
      BY <2>1, <3>1, <3>2 DEF Card
    <3>3. CASE k \notin listed
      BY <2>1, <3>3
    <3> QED BY <3>2, <3>3
  <2> QED BY <2>2
<1> QED BY <1>2, <1>3, <1>4, <1>5

\* What happens to the names in the tables: a board is opened under a free
\* code, a card is inserted, or all rows keep their names.
NewBoard ==
  \E b \in Boards : OpensBoard(b) /\ NewRows /\ \A d \in Boards : boards[d].code # boards'[b].code

SameNames ==
  /\ BoardIds' = BoardIds
  /\ \A k \in Cards : cards'[k].board = cards[k].board /\ cards'[k].code = cards[k].code

LEMMA NameStepKinds ==
  ASSUME NumberInv, NEW r \in Requests,
         BoardNext(r) \/ ColumnNext(r) \/ CardNext(r) \/ Fail(r)
  PROVE  NewBoard \/ InsertCard(r) \/ SameNames
<1>1. TypeOK /\ JobOK(r)
  BY DEF NumberInv, JobInv
<1>2. UNCHANGED <<boards, cards>> => SameNames
  BY DEF SameNames, BoardIds
<1>3. ASSUME NEW b \in Boards, NEW code \in Codes, NEW n \in {0, SampleCards},
             CreateBoard(r, b, code, n)
      PROVE  NewBoard
  <2>1. boards'[b].code = code /\ CodeFree(code)
    BY <1>1, <1>3 DEF CreateBoard, InsertBoard, TypeOK
  <2> QED BY <1>1, <1>3, <2>1, CreateBoardOpens, CreateBoardRows DEF NewBoard, CodeFree
<1>4. ASSUME NEW b \in Boards, DuplicateWrite(r, b)
      PROVE  NewBoard
  <2>1. boards'[b].code = job[r].code /\ CodeFree(job[r].code)
    BY <1>1, <1>4 DEF DuplicateWrite, InsertBoard, TypeOK
  <2> QED BY <1>1, <1>4, <2>1, DuplicateWriteOpens, DuplicateWriteRows DEF NewBoard, CodeFree
<1>5. ASSUME RenameWrite(r) PROVE SameNames
  <2>1. BoardIds' = BoardIds
    BY <1>1, <1>5, RenameWriteTickets DEF SameTickets, BoardIds
  <2> QED BY <1>5, <2>1 DEF SameNames, RenameWrite
<1>6. ASSUME SoftDeleteWithCards(r) \/ ReorderWrite(r) \/ UpdateCard(r) \/ MoveWrite(r)
      PROVE  SameNames
  <2>1. UNCHANGED boards
    BY <1>6 DEF SoftDeleteWithCards, ReorderWrite, UpdateCard, MoveWrite
  <2> QED BY <1>6, <2>1, CardWriteNames DEF SameNames, BoardIds
<1>7. CASE BoardNext(r)
  BY <1>2, <1>3, <1>4, <1>5, <1>7
     DEF BoardNext, Create, CreateSample, Duplicate, DuplicateReadColumns, RenameCheck
<1>8. CASE ColumnNext(r)
  BY <1>2, <1>6, <1>8 DEF ColumnNext, AddColumn, RemoveColumnCheck, ReorderCheck
<1>9. CASE CardNext(r)
  BY <1>2, <1>6, <1>9
     DEF CardNext, CreateCardCheck, ReserveNumber, ReadLastPosition, UpdateCheck, MoveCheck
<1> QED BY <1>2, <1>7, <1>8, <1>9 DEF Fail

LEMMA NamesTables ==
  ASSUME NumberInv, NamesInv, KeepsCodes, NEW r \in Requests,
         NewBoard \/ InsertCard(r) \/ SameNames
  PROVE  /\ \A b, d \in BoardIds' : boards'[b].code = boards'[d].code => b = d
         /\ \A k \in CardIds' : cards'[k].code = boards'[cards'[k].board].code
<1>1. /\ \A k \in CardIds : cards[k].board \in BoardIds
      /\ BoardIds \subseteq Boards
  BY BoardIdsType DEF NumberInv
<1>2. CASE NewBoard
  <2>1. PICK b \in Boards : OpensBoard(b) /\ \A d \in Boards : boards[d].code # boards'[b].code
    BY <1>2 DEF NewBoard
  <2>2. BoardIds' = BoardIds \cup {b} /\ \A k \in CardIds : cards'[k] = cards[k]
    BY <2>1 DEF OpensBoard, BoardIds
  <2>3. \A d, e \in BoardIds' : boards'[d].code = boards'[e].code => d = e
    BY <1>1, <2>1, <2>2 DEF NamesInv, KeepsCodes
  <2>4. ASSUME NEW k \in CardIds' PROVE cards'[k].code = boards'[cards'[k].board].code
    <3>1. CASE k \in CardIds
      BY <1>1, <2>2, <3>1 DEF NamesInv, KeepsCodes
    <3> QED BY <1>2, <2>4, <3>1 DEF NewBoard, NewRows
  <2> QED BY <2>3, <2>4
<1>3. CASE InsertCard(r)
  <2>1. Inserts(job[r].board) /\ job[r].code = boards[job[r].board].code
    BY <1>3, InsertCardInserts DEF NumberInv, JobInv, NamesInv, Named, InsertCard, At
  <2>2. \A d \in Boards : boards'[d].code = boards[d].code
    BY <2>1 DEF Inserts
  <2>3. BoardIds' = BoardIds
    BY <2>2 DEF BoardIds
  <2>4. PICK k \in Cards \ CardIds :
          /\ cards'[k].board = job[r].board /\ cards'[k].code = job[r].code
          /\ \A m \in Cards \ {k} : cards'[m] = cards[m]
    BY <1>3 DEF InsertCard, InsertCards
  <2>5. CardIds' \subseteq CardIds \cup {k} /\ \A m \in CardIds : cards'[m] = cards[m]
    BY <2>4 DEF CardIds
  <2>6. job[r].board \in Boards
    BY <1>1, <2>1 DEF Inserts
  <2>7. ASSUME NEW m \in CardIds' PROVE cards'[m].code = boards'[cards'[m].board].code
    <3>1. CASE m = k
      BY <2>1, <2>2, <2>4, <2>6, <3>1
    <3>2. CASE m \in CardIds
      BY <1>1, <2>2, <2>5, <3>2 DEF NamesInv
    <3> QED BY <2>5, <2>7, <3>1, <3>2
  <2> QED BY <1>1, <2>2, <2>3, <2>7 DEF NamesInv
<1>4. CASE SameNames
  <2>1. CardIds' = CardIds /\ CardIds \subseteq Cards
    BY <1>4 DEF SameNames, CardIds
  <2> QED BY <1>1, <1>4, <2>1 DEF SameNames, NamesInv, KeepsCodes
<1> QED BY <1>2, <1>3, <1>4

\* A request that has numbered its card knows the board's code.
LEMMA NamedStep ==
  ASSUME NumberInv, NamesInv, KeepsCodes, NEW r \in Requests,
         BoardNext(r) \/ ColumnNext(r) \/ CardNext(r) \/ Fail(r)
  PROVE  \A q \in Requests : Named(job[q])'
<1>1. job \in [Requests -> Job]
  BY DEF NumberInv, TypeOK
<1>2. \A q \in Requests : Named(job[q]) /\ JobOK(q)
  BY DEF NamesInv, NumberInv, JobInv
<1>3. (\A q \in Requests \ {r} : job'[q] = job[q]) /\ Named(job[r])'
  <2>1. job'[r].at \notin {"position", "insert"} => Named(job[r])'
    BY DEF Named
  <2>2. ASSUME Finish(r) \/ (At(r, "idle") /\ UNCHANGED job)
        PROVE  (\A q \in Requests \ {r} : job'[q] = job[q]) /\ Named(job[r])'
    BY <1>1, <2>2 DEF Finish, Idle, Named, At
  <2>3. ASSUME ReserveNumber(r)
        PROVE  (\A q \in Requests \ {r} : job'[q] = job[q]) /\ Named(job[r])'
    <3>1. job'[r].board = job[r].board /\ job'[r].code = boards[job[r].board].code
      BY <1>1, <2>3 DEF ReserveNumber, Job
    <3>2. \A q \in Requests \ {r} : job'[q] = job[q]
      BY <1>1, <2>3 DEF ReserveNumber
    <3> QED BY <2>3, <3>1, <3>2 DEF Named, ReserveNumber
  <2>4. ASSUME ReadLastPosition(r)
        PROVE  (\A q \in Requests \ {r} : job'[q] = job[q]) /\ Named(job[r])'
    <3>1. PICK p \in 0..MaxPosition :
            job' = [job EXCEPT ![r] = [job[r] EXCEPT !.at = "insert", !.position = p]]
      BY <2>4 DEF ReadLastPosition
    <3>2. job'[r].board = job[r].board /\ job'[r].code = job[r].code
      BY <1>1, <3>1 DEF Job
    <3>3. \A q \in Requests \ {r} : job'[q] = job[q]
      BY <1>1, <3>1
    <3>4. job[r].code = boards[job[r].board].code /\ UNCHANGED boards
      BY <1>2, <2>4 DEF Named, ReadLastPosition, At
    <3> QED BY <3>2, <3>3, <3>4 DEF Named
  <2>5. CASE BoardNext(r)
    <3>1. ASSUME NEW b \in Boards, NEW code \in Codes,
                 DuplicateReadColumns(r, b, code) \/ RenameCheck(r, b, code)
          PROVE  (\A q \in Requests \ {r} : job'[q] = job[q])
                 /\ job'[r].at \notin {"position", "insert"}
      <4>1. CASE DuplicateReadColumns(r, b, code)
        BY <1>1, <4>1 DEF DuplicateReadColumns, Begin, Idle
      <4>2. CASE RenameCheck(r, b, code)
        BY <1>1, <4>2 DEF RenameCheck, Begin, Idle
      <4> QED BY <3>1, <4>1, <4>2
    <3> QED BY <2>1, <2>2, <2>5, <3>1
            DEF BoardNext, Create, CreateSample, CreateBoard, Duplicate, DuplicateWrite,
                RenameWrite
  <2>6. CASE ColumnNext(r)
    <3>1. ASSUME NEW c \in Columns, NEW ks \in SUBSET Cards,
                 RemoveColumnCheck(r, c) \/ ReorderCheck(r, c, ks)
          PROVE  (\A q \in Requests \ {r} : job'[q] = job[q])
                 /\ job'[r].at \notin {"position", "insert"}
      <4>1. CASE RemoveColumnCheck(r, c)
        BY <1>1, <4>1 DEF RemoveColumnCheck, Begin, Idle
      <4>2. CASE ReorderCheck(r, c, ks)
        BY <1>1, <4>2 DEF ReorderCheck, Begin, Idle
      <4> QED BY <3>1, <4>1, <4>2
    <3> QED BY <2>1, <2>2, <2>6, <3>1
            DEF ColumnNext, AddColumn, SoftDeleteWithCards, ReorderWrite
  <2>7. CASE CardNext(r)
    <3>1. ASSUME NEW b \in Boards, NEW c \in Columns, CreateCardCheck(r, b, c)
          PROVE  (\A q \in Requests \ {r} : job'[q] = job[q])
                 /\ job'[r].at \notin {"position", "insert"}
      BY <1>1, <3>1 DEF CreateCardCheck, Begin, Idle
    <3>2. ASSUME NEW k \in Cards, NEW c \in Columns, UpdateCheck(r, k, c)
          PROVE  (\A q \in Requests \ {r} : job'[q] = job[q])
                 /\ job'[r].at \notin {"position", "insert"}
      BY <1>1, <3>2 DEF UpdateCheck, Begin, Idle
    <3>3. ASSUME NEW k, NEW from, NEW to, NEW prev, NEW next,
                 MoveCheck(r, k, from, to, prev, next)
          PROVE  (\A q \in Requests \ {r} : job'[q] = job[q])
                 /\ job'[r].at \notin {"position", "insert"}
      BY <1>1, <3>3 DEF MoveCheck, Begin, Idle
    <3> QED BY <2>1, <2>2, <2>3, <2>4, <2>7, <3>1, <3>2, <3>3
            DEF CardNext, InsertCard, UpdateCard, MoveWrite
  <2> QED BY <2>2, <2>5, <2>6, <2>7 DEF Fail
<1>4. ASSUME NEW q \in Requests \ {r} PROVE Named(job[q])'
  <2>1. PICK j \in Job : j = job[q]
    BY <1>1
  <2>2. job'[q] = j /\ Named(j)
    BY <1>2, <1>3, <2>1
  <2>3. j.at \in {"position", "insert"} => j.board \in BoardIds
    BY <1>2, <2>1 DEF JobOK
  <2> QED BY <2>2, <2>3 DEF Named, KeepsCodes
<1> QED BY <1>3, <1>4

LEMMA NamesStep == NumberInv /\ NamesInv /\ [Next]_vars /\ [KeepsCodes]_vars => NamesInv'
<1> SUFFICES ASSUME NumberInv, NamesInv, [Next]_vars, [KeepsCodes]_vars PROVE NamesInv'
  OBVIOUS
<1>1. CASE UNCHANGED vars
  BY <1>1 DEF vars, NamesInv, Named, BoardIds, CardIds
<1>2. ASSUME KeepsCodes, NEW r \in Requests,
             BoardNext(r) \/ ColumnNext(r) \/ CardNext(r) \/ Fail(r)
      PROVE  NamesInv'
  BY <1>2, NameStepKinds, NamesTables, NamedStep DEF NamesInv
<1> QED BY <1>1, <1>2 DEF Next

\* While no board changes its code, a creation is never refused for its card code,
\* however requests interleave: BoardsService.update with a new code is the only way
\* to a board that can get no more cards.
THEOREM NextCodeIsFree == Spec /\ [][KeepsCodes]_vars => []NextCardCodeFree
<1>1. Init => NamesInv
  BY DEF Init, Idle, NoCard, NamesInv, Named, BoardIds, CardIds
<1>2. Spec /\ [][KeepsCodes]_vars => []NamesInv
  BY <1>1, NamesStep, NumberInvAlways, PTL DEF Spec
<1> QED BY <1>2, NamesFree, NumberInvAlways, PTL

-----------------------------------------------------------------------------
(* The three subjects of the large run: each of its steps is a step of     *)
(* Cards, and those about the third subject are one request at a time.     *)

LEMMA DuplicationNextIsNext == DuplicationNext => Next
BY DEF DuplicationNext, CreateCardNext, RemoveColumnNext, Next, ColumnNext, CardNext

LEMMA MCNextIsNext == MCNext => Next
BY DuplicationNextIsNext DEF MCNext, SerialNext, Next

\* What the behaviours of the run keep, whatever they are about.
SubjectInv == PlaceInv /\ (subject = "serial" => SerialInv)

LEMMA SubjectInvAlways == MCSpec => []SubjectInv
<1>1. MCInit => SubjectInv
  BY InitPlaceInv, InitSerialInv DEF MCInit, SubjectInv
<1>2. SubjectInv /\ [MCNext]_<<vars, subject>> => SubjectInv'
  <2> SUFFICES ASSUME SubjectInv, [MCNext]_<<vars, subject>> PROVE SubjectInv'
    OBVIOUS
  <2>1. PlaceInv'
    BY PlaceStep, MCNextIsNext DEF SubjectInv
  <2>2. subject' = subject
    BY DEF MCNext
  <2>3. CASE subject = "serial"
    <3>1. [SerialNext]_vars
      BY <2>3 DEF MCNext
    <3> QED BY <2>1, <2>3, <3>1, SerialStep DEF SubjectInv
  <2> QED BY <2>1, <2>2, <2>3 DEF SubjectInv
<1> QED BY <1>1, <1>2, PTL DEF MCSpec

\* The same for the behaviours of the large run: where requests come one at a time,
\* no live card is left in a removed column.
THEOREM SerialCardsHaveAColumn == MCSpec => []SerialNoOrphanCard
<1>1. SubjectInv => SerialNoOrphanCard
  BY DEF SubjectInv, SerialInv, InOrder, SerialNoOrphanCard
<1> QED BY <1>1, SubjectInvAlways, PTL

\* ... and no live card has a code other than its board's.
THEOREM SerialCardsHaveTheirBoardsCode == MCSpec => []SerialCardCodeMatchesBoard
<1>1. SubjectInv => SerialCardCodeMatchesBoard
  BY DEF SubjectInv, SerialInv, InOrder, SerialCardCodeMatchesBoard
<1> QED BY <1>1, SubjectInvAlways, PTL
=============================================================================
