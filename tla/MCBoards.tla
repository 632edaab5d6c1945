------------------------------ MODULE MCBoards ------------------------------
(* The instance of Cards that the large run checks.  No bound lets requests  *)
(* interleave over several boards with everything they can do, so each       *)
(* behaviour is about one of three subjects.                                 *)
EXTENDS MCCards

\* "board": one board with two columns, every operation.  "duplication":
\* several boards that come and go, and nobody moves a card.  "serial":
\* everything, but each request ends before the next begins.
VARIABLE subject

OneBoard == Cardinality(BoardIds) <= 1 /\ Cardinality(ColumnIds) <= 2

CreateCardNext(r) ==
  \/ \E b \in Boards, c \in Columns : CreateCardCheck(r, b, c)
  \/ ReserveNumber(r)
  \/ ReadLastPosition(r)
  \/ InsertCard(r)

RemoveColumnNext(r) ==
  \/ \E c \in Columns : RemoveColumnCheck(r, c)
  \/ SoftDeleteWithCards(r)

DuplicationNext ==
  \E r \in Requests :
    \/ BoardNext(r)
    \/ \E b \in Boards : AddColumn(r, b)
    \/ CreateCardNext(r) \/ RemoveColumnNext(r) \/ Fail(r)

MCNext ==
  \/ subject = "board" /\ Next /\ OneBoard' /\ UNCHANGED subject
  \/ subject = "duplication" /\ DuplicationNext /\ UNCHANGED subject
  \/ subject = "serial" /\ SerialNext /\ UNCHANGED subject

MCInit == Init /\ subject \in {"board", "duplication", "serial"}

MCSpec == MCInit /\ [][MCNext]_<<vars, subject>>

\* One request at a time, a live card always sits in a live column: removing a
\* column takes its cards along and no handler puts a card into a removed one.
SerialNoOrphanCard == subject = "serial" => NoOrphanCard

\* One request at a time, a live card's code is its board's current code and
\* its number: BoardsService.update refuses a new code once there are cards.
SerialCardCodeMatchesBoard == subject = "serial" => CardCodeMatchesBoard
=============================================================================
