--------------------------- MODULE CatalogProofs ---------------------------
(***************************************************************************)
(* Proofs about Catalog, for any number of requests, boards, issue types,  *)
(* versions, cards, names, days and columns: types, that cards refer to    *)
(* what their own board has, and, until requests overlap, that issue types *)
(* keep distinct names, columns are numbered without gaps and dates stay   *)
(* in order.                                                               *)
(*                                                                         *)
(* A reference is checked before it is written.  What the check has found  *)
(* stays true as far as it matters (Fits): a row may be deleted meanwhile, *)
(* which the foreign key notices, but it does not move to another board,   *)
(* and its id is not used again.                                           *)
(*                                                                         *)
(* What holds until requests overlap is carried from the check to the      *)
(* write in the one request in flight (AloneInv, OrderInv, DatesInv).      *)
(***************************************************************************)
EXTENDS Catalog, FiniteSetTheorems, TLAPS

-----------------------------------------------------------------------------
(* The invariant.                                                          *)

\* The references a request is about to write belong to board b.
Refers(j, b) ==
  /\ j.type \in Types => types[j.type].status # "none" /\ types[j.type].board = b
  /\ j.version \in Versions =>
       versions[j.version].status # "none" /\ versions[j.version].board = b

Fits(j) ==
  /\ j.at = "insertType" => j.board \in Boards /\ j.name \in Names
  /\ j.at = "writeType" => j.type \in Types /\ j.name \in Names
  /\ j.at = "insertCard" =>
       /\ j.board \in Boards /\ j.type # Unset /\ j.version # Unset
       /\ Refers(j, j.board)
  /\ j.at = "writeCard" =>
       /\ j.card \in Cards /\ cards[j.card].board # None
       /\ Refers(j, cards[j.card].board)

JobsInv == \A r \in Requests : Fits(job[r])

Distinct ==
  \A b \in Boards, t, u \in Types :
    TypeOf(t, b) /\ TypeOf(u, b) /\ t # u => types[t].name.word # types[u].name.word

\* What a request has found out about names, if no other has arrived.
NameChecked(j) ==
  /\ j.at = "insertType" => NameFree(j.board, j.name, None)
  /\ j.at = "writeType" /\ j.name # types[j.type].name =>
       NameFree(types[j.type].board, j.name, j.type)

AloneInv ==
  alone =>
    /\ Distinct
    /\ \A r, q \in Requests : At(r, "idle") \/ At(q, "idle") \/ r = q
    /\ \A r \in Requests : NameChecked(job[r])

Inv == TypeOK /\ RefsOwnBoard /\ JobsInv /\ AloneInv

\* Rows stay on their board, and ids are not used again.
RowsKeep ==
  /\ \A t \in Types : types[t].status # "none" =>
       types'[t].status # "none" /\ types'[t].board = types[t].board
  /\ \A v \in Versions : versions[v].status # "none" =>
       versions'[v].status # "none" /\ versions'[v].board = versions[v].board
  /\ \A k \in Cards : cards[k].board # None => cards'[k].board = cards[k].board

-----------------------------------------------------------------------------
(* Lemmas.                                                                 *)

LEMMA PlacesNone == NoPlaces \in [ColumnIds -> Nat \cup {Unset}]
BY DEF NoPlaces

LEMMA IdleFits == Idle \in Job /\ Fits(Idle) /\ Fits(Idle)' /\ Idle.at = "idle"
BY PlacesNone DEF Idle, Job, Places, Fits

LEMMA InitInv == Init => Inv
<1> SUFFICES ASSUME Init PROVE Inv
  OBVIOUS
<1>1. TypeOK
  BY IdleFits DEF Init, TypeOK, Type, Version, Card, Column
<1>2. RefsOwnBoard /\ JobsInv
  BY IdleFits DEF Init, RefsOwnBoard, JobsInv
<1>3. AloneInv
  BY IdleFits DEF Init, AloneInv, Distinct, TypeOf, At, NameChecked
<1> QED BY <1>1, <1>2, <1>3 DEF Inv

LEMMA OneJob ==
  ASSUME TypeOK, JobsInv, NEW r \in Requests, NEW j \in Job,
         job' = [job EXCEPT ![r] = j], Fits(j)', RowsKeep
  PROVE  JobsInv' /\ job' \in [Requests -> Job]
<1>1. job'[r] = j /\ \A q \in Requests \ {r} : job'[q] = job[q]
  BY DEF TypeOK
<1>2. ASSUME NEW q \in Requests, q # r
      PROVE  Fits(job[q])'
  <2>1. Fits(job[q]) /\ job'[q] = job[q]
    BY <1>1, <1>2 DEF JobsInv
  <2> QED BY <2>1 DEF Fits, Refers, RowsKeep
<1> QED BY <1>1, <1>2 DEF JobsInv, TypeOK

\* A request arrives: it has read rows, and remembers j.
LEMMA OpenInv ==
  ASSUME Inv, NEW r \in Requests, NEW j \in Job, Open(r, j), tidy' \in BOOLEAN,
         UNCHANGED <<types, versions, cards, columns>>,
         Fits(j), NameChecked(j)
  PROVE  Inv'
<1>1. job' = [job EXCEPT ![r] = j] /\ alone' = (alone /\ AllIdle)
  BY DEF Open
<1>2. Fits(j)' /\ RowsKeep
  BY DEF Fits, Refers, RowsKeep
<1>3. JobsInv' /\ job' \in [Requests -> Job]
  BY <1>1, <1>2, OneJob DEF Inv
<1>4. TypeOK'
  BY <1>1, <1>3 DEF Inv, TypeOK
<1>5. RefsOwnBoard'
  BY DEF Inv, RefsOwnBoard, TypeOf, VersionOf
<1>6. AloneInv'
  <2>1. SUFFICES ASSUME alone, AllIdle
                 PROVE  /\ Distinct'
                        /\ \A p, q \in Requests : At(p, "idle")' \/ At(q, "idle")' \/ p = q
                        /\ \A q \in Requests : NameChecked(job[q])'
    BY <1>1 DEF AloneInv
  <2>2. job'[r] = j /\ \A q \in Requests \ {r} : job'[q] = job[q]
    BY <1>1 DEF Inv, TypeOK
  <2>3. Distinct'
    BY <2>1 DEF Inv, AloneInv, Distinct, TypeOf
  <2>4. \A q \in Requests \ {r} : At(q, "idle")'
    BY <2>1, <2>2 DEF AllIdle, At
  <2>5. \A q \in Requests \ {r} : NameChecked(job[q])'
    BY <2>2, <2>4 DEF NameChecked, At
  <2>6. NameChecked(job[r])'
    BY <2>2 DEF NameChecked, NameFree, TypeOf
  <2> QED BY <2>3, <2>4, <2>5, <2>6
<1> QED BY <1>3, <1>4, <1>5, <1>6 DEF Inv

\* A request writes and is done.  If it was alone nobody is left.
LEMMA FinishInv ==
  ASSUME Inv, NEW r \in Requests, ~At(r, "idle"), Finish(r),
         types' \in [Types -> Type], versions' \in [Versions -> Version],
         cards' \in [Cards -> Card], columns' \in [ColumnIds -> Column],
         RowsKeep, RefsOwnBoard', alone => Distinct'
  PROVE  Inv'
<1>1. job' = [job EXCEPT ![r] = Idle] /\ UNCHANGED <<alone, tidy>>
  BY DEF Finish
<1>2. JobsInv' /\ job' \in [Requests -> Job]
  BY <1>1, IdleFits, OneJob DEF Inv
<1>3. TypeOK'
  BY <1>1, <1>2 DEF Inv, TypeOK
<1>4. AloneInv'
  <2>1. SUFFICES ASSUME alone
                 PROVE  \A q \in Requests : At(q, "idle")'
    BY <1>1 DEF AloneInv, NameChecked, At
  <2>2. \A q \in Requests : q = r \/ At(q, "idle")
    BY <2>1 DEF Inv, AloneInv
  <2> QED BY <1>1, <2>2, IdleFits DEF At, Inv, TypeOK
<1> QED BY <1>2, <1>3, <1>4 DEF Inv

LEMMA DatesWritten ==
  ASSUME NEW x \in Days \cup {None, Unset}, NEW old \in Days \cup {None}
  PROVE  Written(x, old) \in Days \cup {None}
<1>1. 0 \in Days
  BY CatalogAssumption DEF Days
<1> QED BY <1>1 DEF Written

\* Rows of other tables than the issue types change: names stay distinct.
LEMMA SameTypes ==
  ASSUME Inv, UNCHANGED types
  PROVE  alone => Distinct'
BY DEF Inv, AloneInv, Distinct, TypeOf

-----------------------------------------------------------------------------
(* The first steps of requests.                                            *)

LEMMA BeginInv ==
  ASSUME Inv, NEW r \in Requests, NEW j \in Job, Begin(r, j),
         UNCHANGED <<types, versions, cards, columns>>,
         Fits(j), NameChecked(j)
  PROVE  Inv'
<1>1. Open(r, j) /\ tidy' \in BOOLEAN
  BY DEF Begin, Inv, TypeOK
<1> QED BY <1>1, OpenInv

\* A request that has nothing to remember about types and names.
LEMMA PlainInv ==
  ASSUME Inv, NEW r \in Requests, NEW j \in Job, Begin(r, j),
         UNCHANGED <<types, versions, cards, columns>>,
         j.at \notin {"insertType", "writeType", "insertCard", "writeCard"}
  PROVE  Inv'
<1>1. Fits(j) /\ NameChecked(j)
  BY DEF Fits, NameChecked
<1> QED BY <1>1, BeginInv

LEMMA TypeCreateCheckInv ==
  ASSUME Inv, NEW r \in Requests, NEW b \in Boards, NEW n \in Names,
         TypeCreateCheck(r, b, n)
  PROVE  Inv'
<1> DEFINE j == [Idle EXCEPT !.at = "insertType", !.board = b, !.name = n]
<1>1. /\ j \in Job /\ j.at = "insertType" /\ j.board = b /\ j.name = n
  BY IdleFits DEF Job, Places
<1>2. /\ NameFree(b, n, None) /\ Begin(r, j)
      /\ UNCHANGED <<types, versions, cards, columns>>
  BY DEF TypeCreateCheck
<1> HIDE DEF j
<1>3. Fits(j)
  BY <1>1 DEF Fits
<1>4. NameChecked(j)
  BY <1>1, <1>2 DEF NameChecked
<1> QED BY <1>1, <1>2, <1>3, <1>4, BeginInv

LEMMA TypeUpdateCheckInv ==
  ASSUME Inv, NEW r \in Requests, NEW b \in Boards, NEW t \in Types, NEW n \in Names,
         TypeUpdateCheck(r, b, t, n)
  PROVE  Inv'
<1> DEFINE j == [Idle EXCEPT !.at = "writeType", !.type = t, !.name = n]
<1>1. /\ j \in Job /\ j.at = "writeType" /\ j.type = t /\ j.name = n
  BY IdleFits DEF Job, Places
<1>2. /\ TypeOf(t, b) /\ (n # types[t].name => NameFree(b, n, t)) /\ Begin(r, j)
      /\ UNCHANGED <<types, versions, cards, columns>>
  BY DEF TypeUpdateCheck
<1> HIDE DEF j
<1>3. Fits(j)
  BY <1>1 DEF Fits
<1>4. NameChecked(j)
  BY <1>1, <1>2 DEF NameChecked, TypeOf
<1> QED BY <1>1, <1>2, <1>3, <1>4, BeginInv

LEMMA TypeRemoveCheckInv ==
  ASSUME Inv, NEW r \in Requests, NEW b \in Boards, NEW t \in Types,
         TypeRemoveCheck(r, b, t)
  PROVE  Inv'
<1> DEFINE j == [Idle EXCEPT !.at = "deleteType", !.type = t]
<1>1. j \in Job /\ j.at = "deleteType"
  BY IdleFits DEF Job, Places
<1>2. Begin(r, j) /\ UNCHANGED <<types, versions, cards, columns>>
  BY DEF TypeRemoveCheck
<1> HIDE DEF j
<1> QED BY <1>1, <1>2, PlainInv

LEMMA VersionUpdateCheckInv ==
  ASSUME Inv, NEW r \in Requests, NEW b \in Boards, NEW v \in Versions,
         NEW s \in AnyDate, NEW e \in AnyDate, VersionUpdateCheck(r, b, v, s, e)
  PROVE  Inv'
<1> DEFINE j == [Idle EXCEPT !.at = "writeVersion", !.version = v, !.start = s, !.end = e]
<1>1. j \in Job /\ j.at = "writeVersion"
  BY PlacesNone DEF Idle, Job, Places, AnyDate
<1>2. Begin(r, j) /\ UNCHANGED <<types, versions, cards, columns>>
  BY DEF VersionUpdateCheck
<1> HIDE DEF j
<1> QED BY <1>1, <1>2, PlainInv

LEMMA VersionRemoveCheckInv ==
  ASSUME Inv, NEW r \in Requests, NEW b \in Boards, NEW v \in Versions,
         VersionRemoveCheck(r, b, v)
  PROVE  Inv'
<1> DEFINE j == [Idle EXCEPT !.at = "deleteVersion", !.version = v]
<1>1. j \in Job /\ j.at = "deleteVersion"
  BY IdleFits DEF Job, Places
<1>2. Begin(r, j) /\ UNCHANGED <<types, versions, cards, columns>>
  BY DEF VersionRemoveCheck
<1> HIDE DEF j
<1> QED BY <1>1, <1>2, PlainInv

\* What a check of references leaves behind.
LEMMA BelongRefers ==
  ASSUME NEW j \in Job, NEW b \in Boards, RefsBelong(b, j.type, j.version)
  PROVE  Refers(j, b)
BY DEF RefsBelong, Refers, TypeOf, VersionOf

LEMMA CardCreateCheckInv ==
  ASSUME Inv, NEW r \in Requests, NEW b \in Boards,
         NEW t \in Types \cup {None}, NEW v \in Versions \cup {None},
         NEW s \in AnyDate, NEW d \in AnyDate, CardCreateCheck(r, b, t, v, s, d)
  PROVE  Inv'
<1> DEFINE j == [Idle EXCEPT !.at = "insertCard", !.board = b, !.type = t, !.version = v,
                             !.start = s, !.end = d]
<1>1. /\ j \in Job /\ j.at = "insertCard" /\ j.board = b /\ j.type = t /\ j.version = v
  BY PlacesNone DEF Idle, Job, Places, AnyDate
<1>2. /\ RefsBelong(b, t, v) /\ Begin(r, j)
      /\ UNCHANGED <<types, versions, cards, columns>>
  BY DEF CardCreateCheck
<1>3. t # Unset /\ v # Unset
  BY CatalogAssumption
<1> HIDE DEF j
<1>4. Fits(j)
  BY <1>1, <1>2, <1>3, BelongRefers DEF Fits
<1>5. NameChecked(j)
  BY <1>1 DEF NameChecked
<1> QED BY <1>1, <1>2, <1>4, <1>5, BeginInv

LEMMA CardUpdateCheckInv ==
  ASSUME Inv, NEW r \in Requests, NEW k \in Cards,
         NEW t \in Types \cup {None, Unset}, NEW v \in Versions \cup {None, Unset},
         NEW s \in AnyDate, NEW d \in AnyDate, CardUpdateCheck(r, k, t, v, s, d)
  PROVE  Inv'
<1> DEFINE j == [Idle EXCEPT !.at = "writeCard", !.card = k, !.type = t, !.version = v,
                             !.start = s, !.end = d]
<1>1. /\ j \in Job /\ j.at = "writeCard" /\ j.card = k /\ j.type = t /\ j.version = v
  BY PlacesNone DEF Idle, Job, Places, AnyDate
<1>2. /\ cards[k].board # None /\ RefsBelong(cards[k].board, t, v) /\ Begin(r, j)
      /\ UNCHANGED <<types, versions, cards, columns>>
  BY DEF CardUpdateCheck
<1> HIDE DEF j
<1>3. cards[k].board \in Boards
  BY <1>2 DEF Inv, TypeOK, Card
<1>4. Refers(j, cards[k].board)
  BY <1>1, <1>2 DEF RefsBelong, Refers, TypeOf, VersionOf
<1>5. Fits(j) /\ NameChecked(j)
  BY <1>1, <1>2, <1>4 DEF Fits, NameChecked
<1> QED BY <1>1, <1>2, <1>5, BeginInv

LEMMA ColumnCreateReadInv ==
  ASSUME Inv, NEW r \in Requests, NEW b \in Boards, NEW p \in 0 .. MaxColumn,
         ColumnCreateRead(r, b, p)
  PROVE  Inv'
<1> DEFINE j == [Idle EXCEPT !.at = "insertColumn", !.board = b, !.position = p]
<1>1. p \in Nat
  BY CatalogAssumption
<1>2. j \in Job /\ j.at = "insertColumn"
  BY <1>1, PlacesNone DEF Idle, Job, Places
<1>3. Begin(r, j) /\ UNCHANGED <<types, versions, cards, columns>>
  BY DEF ColumnCreateRead
<1> HIDE DEF j
<1> QED BY <1>2, <1>3, PlainInv

LEMMA ColumnRemoveCheckInv ==
  ASSUME Inv, NEW r \in Requests, NEW b \in Boards, NEW c \in ColumnIds,
         ColumnRemoveCheck(r, b, c)
  PROVE  Inv'
<1> DEFINE j == [Idle EXCEPT !.at = "removeColumn", !.board = b, !.column = c]
<1>1. j \in Job /\ j.at = "removeColumn"
  BY PlacesNone DEF Idle, Job, Places
<1>2. Begin(r, j) /\ UNCHANGED <<types, versions, cards, columns>>
  BY DEF ColumnRemoveCheck
<1> HIDE DEF j
<1> QED BY <1>1, <1>2, PlainInv

LEMMA ReorderCheckInv ==
  ASSUME Inv, NEW r \in Requests, NEW b \in Boards, NEW places \in ReorderColumnDto,
         ReorderCheck(r, b, places)
  PROVE  Inv'
<1> DEFINE j == [Idle EXCEPT !.at = "reorderColumns", !.places = places]
<1>1. 0 .. MaxColumn \cup {Unset} \subseteq Nat \cup {Unset}
  BY CatalogAssumption
<1>2. places \in [ColumnIds -> Nat \cup {Unset}]
  BY <1>1 DEF ReorderColumnDto
<1>3. j \in Job /\ j.at = "reorderColumns"
  BY <1>2 DEF Idle, Job, Places
<1>4. Open(r, j) /\ UNCHANGED <<types, versions, cards, columns>>
  BY DEF ReorderCheck
<1>5. tidy' \in BOOLEAN
  BY DEF ReorderCheck
<1> HIDE DEF j
<1>6. Fits(j) /\ NameChecked(j)
  BY <1>3 DEF Fits, NameChecked
<1> QED BY <1>3, <1>4, <1>5, <1>6, OpenInv

-----------------------------------------------------------------------------
(* The last steps of requests.                                             *)

LEMMA InsertTypeInv ==
  ASSUME Inv, NEW r \in Requests, NEW t \in Types, InsertType(r, t)
  PROVE  Inv'
<1> DEFINE b == job[r].board
           n == job[r].name
<1>1. /\ ~At(r, "idle") /\ job[r].at = "insertType" /\ types[t].status = "none"
      /\ types' = [types EXCEPT ![t] = [status |-> "live", board |-> b, name |-> n]]
      /\ Finish(r) /\ UNCHANGED <<versions, cards, columns>>
  BY DEF InsertType, At
<1>2. b \in Boards /\ n \in Names
  BY <1>1 DEF Inv, JobsInv, Fits
<1>3. [status |-> "live", board |-> b, name |-> n] \in Type
  BY <1>2 DEF Type
<1> HIDE DEF b, n
<1>4. /\ types' \in [Types -> Type]
      /\ types'[t] = [status |-> "live", board |-> b, name |-> n]
      /\ \A u \in Types \ {t} : types'[u] = types[u]
  BY <1>1, <1>3 DEF Inv, TypeOK
<1>5. RowsKeep
  BY <1>1, <1>4 DEF RowsKeep
<1>6. RefsOwnBoard'
  <2> SUFFICES ASSUME NEW k \in Cards
               PROVE  /\ cards[k].type # None => TypeOf(cards[k].type, cards[k].board)'
                      /\ cards[k].version # None
                           => VersionOf(cards[k].version, cards[k].board)'
    BY <1>1 DEF RefsOwnBoard
  <2>1. cards[k].type # None =>
          /\ cards[k].type \in Types /\ cards[k].type # t
          /\ types'[cards[k].type] = types[cards[k].type]
    BY <1>1, <1>4 DEF Inv, RefsOwnBoard, TypeOf, TypeOK, Card
  <2> QED BY <1>1, <2>1 DEF Inv, RefsOwnBoard, TypeOf, VersionOf
<1>7. alone => Distinct'
  <2> SUFFICES ASSUME alone PROVE Distinct'
    OBVIOUS
  <2>1. NameFree(b, n, None) /\ Distinct
    BY <1>1 DEF Inv, AloneInv, NameChecked, b, n
  <2>2. \A u \in Types \ {t} : ~(TypeOf(u, b) /\ types[u].name.word = n.word)
    BY <2>1, CatalogAssumption DEF NameFree
  <2>3. \A u \in Types \ {t}, c \in Boards : TypeOf(u, c)' <=> TypeOf(u, c)
    BY <1>4 DEF TypeOf
  <2>4. \A c \in Boards : TypeOf(t, c)' => c = b
    BY <1>4 DEF TypeOf
  <2> QED BY <1>4, <2>1, <2>2, <2>3, <2>4 DEF Distinct
<1> QED BY <1>1, <1>4, <1>5, <1>6, <1>7, FinishInv DEF Inv, TypeOK

LEMMA WriteTypeInv ==
  ASSUME Inv, NEW r \in Requests, WriteType(r)
  PROVE  Inv'
<1> DEFINE t == job[r].type
           n == job[r].name
<1>1. /\ ~At(r, "idle") /\ job[r].at = "writeType" /\ types[t].status = "live"
      /\ types' = [types EXCEPT ![t] = [types[t] EXCEPT !.name = n]]
      /\ Finish(r) /\ UNCHANGED <<versions, cards, columns>>
  BY DEF WriteType, At
<1>2. t \in Types /\ n \in Names
  BY <1>1 DEF Inv, JobsInv, Fits
<1>3. alone => (n # types[t].name => NameFree(types[t].board, n, t)) /\ Distinct
  BY <1>1 DEF Inv, AloneInv, NameChecked
<1> HIDE DEF t, n
<1>4. [types[t] EXCEPT !.name = n] \in Type
  BY <1>2 DEF Inv, TypeOK, Type
<1>5. /\ types' \in [Types -> Type]
      /\ types'[t] = [types[t] EXCEPT !.name = n]
      /\ \A u \in Types \ {t} : types'[u] = types[u]
  BY <1>1, <1>2, <1>4 DEF Inv, TypeOK
<1>6. /\ types'[t].status = "live" /\ types'[t].board = types[t].board
      /\ types'[t].name = n
  BY <1>1, <1>2, <1>5 DEF Inv, TypeOK, Type
<1>7. \A u \in Types : /\ types'[u].status = types[u].status
                       /\ types'[u].board = types[u].board
  BY <1>1, <1>5, <1>6
<1>8. RowsKeep
  BY <1>1, <1>7 DEF RowsKeep
<1>9. RefsOwnBoard'
  BY <1>1, <1>7 DEF Inv, RefsOwnBoard, TypeOf, VersionOf, TypeOK, Card
<1>10. alone => Distinct'
  <2> SUFFICES ASSUME alone, NEW c \in Boards, NEW u \in Types, NEW w \in Types, u # w,
                      TypeOf(u, c)', TypeOf(w, c)'
               PROVE  types'[u].name.word # types'[w].name.word
    BY DEF Distinct
  <2>1. TypeOf(u, c) /\ TypeOf(w, c)
    BY <1>7 DEF TypeOf
  <2>2. types[u].name.word # types[w].name.word
    BY <1>3, <2>1 DEF Distinct
  <2>3. CASE n = types[t].name
    <3>1. types'[u].name = types[u].name /\ types'[w].name = types[w].name
      BY <1>5, <1>6, <2>3
    <3> QED BY <2>2, <3>1
  <2>4. CASE n # types[t].name
    <3>1. \A x \in Types \ {t} :
            ~(TypeOf(x, types[t].board) /\ types[x].name.word = n.word)
      BY <1>3, <2>4 DEF NameFree
    <3>2. CASE u = t
      <4>1. types'[u].name = n /\ types'[w].name = types[w].name /\ types[t].board = c
        BY <1>5, <1>6, <2>1, <3>2 DEF TypeOf
      <4> QED BY <2>1, <3>1, <3>2, <4>1
    <3>3. CASE w = t
      <4>1. types'[w].name = n /\ types'[u].name = types[u].name /\ types[t].board = c
        BY <1>5, <1>6, <2>1, <3>3 DEF TypeOf
      <4> QED BY <2>1, <3>1, <3>3, <4>1
    <3>4. CASE u # t /\ w # t
      BY <1>5, <2>2, <3>4
    <3> QED BY <3>2, <3>3, <3>4
  <2> QED BY <2>3, <2>4
<1> QED BY <1>1, <1>5, <1>8, <1>9, <1>10, FinishInv DEF Inv, TypeOK

LEMMA DeleteTypeInv ==
  ASSUME Inv, NEW r \in Requests, DeleteType(r)
  PROVE  Inv'
<1> DEFINE t == job[r].type
<1>1. /\ ~At(r, "idle") /\ types[t].status = "live"
      /\ types' = [types EXCEPT ![t] = [types[t] EXCEPT !.status = "gone"]]
      /\ cards' = [k \in Cards |->
                     IF cards[k].type = t THEN [cards[k] EXCEPT !.type = None]
                     ELSE cards[k]]
      /\ Finish(r) /\ UNCHANGED <<versions, columns>>
  BY DEF DeleteType, At
<1> HIDE DEF t
<1>2. /\ types' \in [Types -> Type]
      /\ t \in Types => types'[t].status = "gone" /\ types'[t].board = types[t].board
      /\ \A u \in Types \ {t} : types'[u] = types[u]
      /\ \A u \in Types : types'[u].name = types[u].name
  BY <1>1 DEF Inv, TypeOK, Type
<1>3. /\ cards' \in [Cards -> Card]
      /\ \A k \in Cards : /\ cards'[k].board = cards[k].board
                          /\ cards'[k].version = cards[k].version
                          /\ cards'[k].type # None =>
                               cards[k].type # t /\ cards'[k].type = cards[k].type
  BY <1>1 DEF Inv, TypeOK, Card
<1>4. RowsKeep
  BY <1>1, <1>2, <1>3 DEF RowsKeep
<1>5. RefsOwnBoard'
  <2> SUFFICES ASSUME NEW k \in Cards
               PROVE  /\ cards'[k].type # None =>
                           /\ types'[cards'[k].type].status = "live"
                           /\ types'[cards'[k].type].board = cards'[k].board
                      /\ cards'[k].version # None =>
                           /\ versions'[cards'[k].version].status = "live"
                           /\ versions'[cards'[k].version].board = cards'[k].board
    BY DEF RefsOwnBoard, TypeOf, VersionOf
  <2>1. cards'[k].type # None =>
          /\ cards'[k].type = cards[k].type /\ cards[k].type \in Types \ {t}
          /\ types'[cards[k].type] = types[cards[k].type]
    BY <1>2, <1>3 DEF Inv, TypeOK, Card
  <2> QED BY <1>1, <1>3, <2>1 DEF Inv, RefsOwnBoard, TypeOf, VersionOf
<1>6. alone => Distinct'
  <2>1. \A u \in Types, c \in Boards : TypeOf(u, c)' => TypeOf(u, c)
    BY <1>2 DEF TypeOf
  <2> QED BY <1>2, <2>1 DEF Inv, AloneInv, Distinct
<1> QED BY <1>1, <1>2, <1>3, <1>4, <1>5, <1>6, FinishInv DEF Inv, TypeOK

LEMMA DeleteVersionInv ==
  ASSUME Inv, NEW r \in Requests, DeleteVersion(r)
  PROVE  Inv'
<1> DEFINE v == job[r].version
<1>1. /\ ~At(r, "idle") /\ versions[v].status = "live"
      /\ versions' = [versions EXCEPT ![v] = [versions[v] EXCEPT !.status = "gone"]]
      /\ cards' = [k \in Cards |->
                     IF cards[k].version = v THEN [cards[k] EXCEPT !.version = None]
                     ELSE cards[k]]
      /\ Finish(r) /\ UNCHANGED <<types, columns>>
  BY DEF DeleteVersion, At
<1> HIDE DEF v
<1>2. /\ versions' \in [Versions -> Version]
      /\ v \in Versions =>
           versions'[v].status = "gone" /\ versions'[v].board = versions[v].board
      /\ \A u \in Versions \ {v} : versions'[u] = versions[u]
  BY <1>1 DEF Inv, TypeOK, Version
<1>3. /\ cards' \in [Cards -> Card]
      /\ \A k \in Cards : /\ cards'[k].board = cards[k].board
                          /\ cards'[k].type = cards[k].type
                          /\ cards'[k].version # None =>
                               /\ cards[k].version # v
                               /\ cards'[k].version = cards[k].version
  BY <1>1 DEF Inv, TypeOK, Card
<1>4. RowsKeep
  BY <1>1, <1>2, <1>3 DEF RowsKeep
<1>5. RefsOwnBoard'
  <2> SUFFICES ASSUME NEW k \in Cards
               PROVE  /\ cards'[k].type # None =>
                           /\ types'[cards'[k].type].status = "live"
                           /\ types'[cards'[k].type].board = cards'[k].board
                      /\ cards'[k].version # None =>
                           /\ versions'[cards'[k].version].status = "live"
                           /\ versions'[cards'[k].version].board = cards'[k].board
    BY DEF RefsOwnBoard, TypeOf, VersionOf
  <2>1. cards'[k].version # None =>
          /\ cards'[k].version = cards[k].version /\ cards[k].version \in Versions \ {v}
          /\ versions'[cards[k].version] = versions[cards[k].version]
    BY <1>2, <1>3 DEF Inv, TypeOK, Card
  <2> QED BY <1>1, <1>3, <2>1 DEF Inv, RefsOwnBoard, TypeOf, VersionOf
<1>6. alone => Distinct'
  BY <1>1, SameTypes
<1> QED BY <1>1, <1>2, <1>3, <1>4, <1>5, <1>6, FinishInv DEF Inv, TypeOK

LEMMA WriteVersionInv ==
  ASSUME Inv, NEW r \in Requests, WriteVersion(r)
  PROVE  Inv'
<1> DEFINE v == job[r].version
           s == Written(job[r].start, versions[v].start)
           e == Written(job[r].end, versions[v].end)
<1>1. /\ ~At(r, "idle")
      /\ versions' = [versions EXCEPT ![v] = [versions[v] EXCEPT !.start = s, !.end = e]]
      /\ Finish(r) /\ UNCHANGED <<types, cards, columns>>
  BY DEF WriteVersion, At
<1>2. v \in Versions => s \in Days \cup {None} /\ e \in Days \cup {None}
  <2>1. job[r].start \in Days \cup {None, Unset} /\ job[r].end \in Days \cup {None, Unset}
    BY DEF Inv, TypeOK, Job
  <2>2. v \in Versions => /\ versions[v].start \in Days \cup {None}
                          /\ versions[v].end \in Days \cup {None}
    BY DEF Inv, TypeOK, Version
  <2> QED BY <2>1, <2>2, DatesWritten
<1> HIDE DEF v, s, e
<1>3. v \in Versions => [versions[v] EXCEPT !.start = s, !.end = e] \in Version
  BY <1>2 DEF Inv, TypeOK, Version
<1>4. /\ versions' \in [Versions -> Version]
      /\ \A u \in Versions : /\ versions'[u].status = versions[u].status
                             /\ versions'[u].board = versions[u].board
  BY <1>1, <1>3 DEF Inv, TypeOK, Version
<1>5. RowsKeep
  BY <1>1, <1>4 DEF RowsKeep
<1>6. RefsOwnBoard'
  BY <1>1, <1>4 DEF Inv, RefsOwnBoard, TypeOf, VersionOf, TypeOK, Card
<1>7. alone => Distinct'
  BY <1>1, SameTypes
<1> QED BY <1>1, <1>4, <1>5, <1>6, <1>7, FinishInv DEF Inv, TypeOK

LEMMA InsertCardInv ==
  ASSUME Inv, NEW r \in Requests, NEW k \in Cards, InsertCard(r, k)
  PROVE  Inv'
<1> DEFINE b == job[r].board
           t == job[r].type
           v == job[r].version
           s == Written(job[r].start, None)
           d == Written(job[r].end, None)
           new == [board |-> b, type |-> t, version |-> v, start |-> s, due |-> d]
<1>1. /\ ~At(r, "idle") /\ job[r].at = "insertCard" /\ cards[k].board = None
      /\ RefsExist(t, v) /\ cards' = [cards EXCEPT ![k] = new]
      /\ Finish(r) /\ UNCHANGED <<types, versions, columns>>
  BY DEF InsertCard, At
<1>2. /\ b \in Boards /\ t \in Types \cup {None} /\ v \in Versions \cup {None}
      /\ Refers(job[r], b)
  BY <1>1 DEF Inv, JobsInv, Fits, TypeOK, Job
<1>3. /\ t \in Types => TypeOf(t, b)
      /\ v \in Versions => VersionOf(v, b)
  BY <1>1, <1>2 DEF Refers, RefsExist, TypeOf, VersionOf
<1>4. s \in Days \cup {None} /\ d \in Days \cup {None}
  <2>1. job[r].start \in Days \cup {None, Unset} /\ job[r].end \in Days \cup {None, Unset}
    BY DEF Inv, TypeOK, Job
  <2> QED BY <2>1, DatesWritten
<1>5. new \in Card
  BY <1>2, <1>4 DEF Card
<1>6. new.board = b /\ new.type = t /\ new.version = v
  OBVIOUS
<1> HIDE DEF b, t, v, s, d, new
<1>7. /\ cards' \in [Cards -> Card] /\ cards'[k] = new
      /\ \A q \in Cards \ {k} : cards'[q] = cards[q]
  BY <1>1, <1>5 DEF Inv, TypeOK
<1>8. RowsKeep
  BY <1>1, <1>7 DEF RowsKeep
<1>9. RefsOwnBoard'
  BY <1>1, <1>2, <1>3, <1>6, <1>7 DEF Inv, RefsOwnBoard, TypeOf, VersionOf
<1>10. alone => Distinct'
  BY <1>1, SameTypes
<1> QED BY <1>1, <1>7, <1>8, <1>9, <1>10, FinishInv DEF Inv, TypeOK

LEMMA WriteCardInv ==
  ASSUME Inv, NEW r \in Requests, WriteCard(r)
  PROVE  Inv'
<1> DEFINE k == job[r].card
           t == IF job[r].type = Unset THEN cards[k].type ELSE job[r].type
           v == IF job[r].version = Unset THEN cards[k].version ELSE job[r].version
           s == Written(job[r].start, cards[k].start)
           d == Written(job[r].end, cards[k].due)
           new == [board |-> cards[k].board, type |-> t, version |-> v,
                   start |-> s, due |-> d]
<1>1. /\ ~At(r, "idle") /\ job[r].at = "writeCard" /\ RefsExist(job[r].type, job[r].version)
      /\ cards' = [cards EXCEPT ![k] = new]
      /\ Finish(r) /\ UNCHANGED <<types, versions, columns>>
  BY DEF WriteCard, At
<1>2. k \in Cards /\ cards[k].board # None /\ Refers(job[r], cards[k].board)
  BY <1>1 DEF Inv, JobsInv, Fits
<1>3. /\ cards[k] \in Card
      /\ job[r].type \in Types \cup {None, Unset}
      /\ job[r].version \in Versions \cup {None, Unset}
  BY <1>2 DEF Inv, TypeOK, Job
<1>4. /\ job[r].type \in Types => TypeOf(job[r].type, cards[k].board)
      /\ job[r].version \in Versions => VersionOf(job[r].version, cards[k].board)
  BY <1>1, <1>2 DEF Refers, RefsExist, TypeOf, VersionOf
<1>5. /\ cards[k].type # None => TypeOf(cards[k].type, cards[k].board)
      /\ cards[k].version # None => VersionOf(cards[k].version, cards[k].board)
  BY <1>2 DEF Inv, RefsOwnBoard
<1>6. t \in Types \cup {None} /\ (t # None => TypeOf(t, cards[k].board))
  BY <1>3, <1>4, <1>5 DEF Card
<1>7. v \in Versions \cup {None} /\ (v # None => VersionOf(v, cards[k].board))
  BY <1>3, <1>4, <1>5 DEF Card
<1>8. s \in Days \cup {None} /\ d \in Days \cup {None}
  <2>1. job[r].start \in Days \cup {None, Unset} /\ job[r].end \in Days \cup {None, Unset}
    BY DEF Inv, TypeOK, Job
  <2>2. cards[k].start \in Days \cup {None} /\ cards[k].due \in Days \cup {None}
    BY <1>3 DEF Card
  <2> QED BY <2>1, <2>2, DatesWritten
<1> HIDE DEF k, t, v, s, d
<1>9. /\ new \in Card /\ new.board = cards[k].board /\ new.type = t /\ new.version = v
  BY <1>3, <1>6, <1>7, <1>8 DEF Card
<1> HIDE DEF new
<1>10. /\ cards' \in [Cards -> Card] /\ cards'[k] = new
       /\ \A q \in Cards \ {k} : cards'[q] = cards[q]
  BY <1>1, <1>2, <1>9 DEF Inv, TypeOK
<1>11. RowsKeep
  BY <1>1, <1>9, <1>10 DEF RowsKeep
<1>12. RefsOwnBoard'
  BY <1>1, <1>6, <1>7, <1>9, <1>10 DEF Inv, RefsOwnBoard, TypeOf, VersionOf
<1>13. alone => Distinct'
  BY <1>1, SameTypes
<1> QED BY <1>1, <1>10, <1>11, <1>12, <1>13, FinishInv DEF Inv, TypeOK

\* Steps that write columns only.
LEMMA ColumnsInv ==
  ASSUME Inv, NEW r \in Requests, ~At(r, "idle"), Finish(r),
         UNCHANGED <<types, versions, cards>>, columns' \in [ColumnIds -> Column]
  PROVE  Inv'
<1>1. RowsKeep
  BY DEF RowsKeep
<1>2. RefsOwnBoard'
  BY DEF Inv, RefsOwnBoard, TypeOf, VersionOf
<1>3. alone => Distinct'
  BY SameTypes
<1> QED BY <1>1, <1>2, <1>3, FinishInv DEF Inv, TypeOK

LEMMA InsertColumnInv ==
  ASSUME Inv, NEW r \in Requests, NEW c \in ColumnIds, InsertColumn(r, c)
  PROVE  Inv'
<1>1. [board |-> job[r].board, live |-> TRUE, position |-> job[r].position] \in Column
  BY DEF Inv, TypeOK, Job, Column
<1>2. columns' \in [ColumnIds -> Column]
  BY <1>1 DEF Inv, TypeOK, InsertColumn
<1> QED BY <1>2, ColumnsInv DEF InsertColumn, At

LEMMA RemoveColumnInv ==
  ASSUME Inv, NEW r \in Requests, RemoveColumn(r)
  PROVE  Inv'
<1> DEFINE rest == LiveColumns(job[r].board) \ {job[r].column}
<1>1. IsFiniteSet(ColumnIds)
  BY CatalogAssumption, FS_Interval DEF ColumnIds
<1>2. ASSUME NEW c \in ColumnIds
      PROVE  Cardinality({d \in rest : Before(d, c)}) \in Nat
  <2>1. {d \in rest : Before(d, c)} \subseteq ColumnIds
    BY DEF LiveColumns
  <2>2. IsFiniteSet({d \in rest : Before(d, c)})
    BY <1>1, <2>1, FS_Subset
  <2> QED BY <2>2, FS_CardinalityType
<1>3. columns' = [c \in ColumnIds |->
       IF c = job[r].column THEN [columns[c] EXCEPT !.live = FALSE]
       ELSE IF c \in rest
       THEN [columns[c] EXCEPT !.position = Cardinality({d \in rest : Before(d, c)})]
       ELSE columns[c]]
  BY DEF RemoveColumn
<1> HIDE DEF rest
<1>4. columns' \in [ColumnIds -> Column]
  BY <1>2, <1>3 DEF Inv, TypeOK, Column
<1> QED BY <1>4, ColumnsInv DEF RemoveColumn, At

LEMMA ReorderWriteInv ==
  ASSUME Inv, NEW r \in Requests, ReorderWrite(r)
  PROVE  Inv'
<1>1. \A c \in ColumnIds : job[r].places[c] \in Nat \cup {Unset}
  BY DEF Inv, TypeOK, Job
<1>2. columns' \in [ColumnIds -> Column]
  BY <1>1 DEF Inv, TypeOK, ReorderWrite, Column
<1> QED BY <1>2, ColumnsInv DEF ReorderWrite, At

LEMMA FailInv ==
  ASSUME Inv, NEW r \in Requests, Fail(r)
  PROVE  Inv'
BY ColumnsInv DEF Fail, Inv, TypeOK

\* A version is created in one step, whoever else is in flight.
LEMMA CreateVersionInv ==
  ASSUME Inv, NEW b \in Boards, NEW v \in Versions, NEW s \in AnyDate, NEW e \in AnyDate,
         CreateVersion(b, v, s, e)
  PROVE  Inv'
<1> DEFINE new == [status |-> "live", board |-> b,
                   start |-> Written(s, None), end |-> Written(e, None)]
<1>1. /\ versions[v].status = "none" /\ versions' = [versions EXCEPT ![v] = new]
      /\ alone' = (alone /\ AllIdle)
      /\ UNCHANGED <<types, cards, columns, job, tidy>>
  BY DEF CreateVersion, Instant
<1>2. new \in Version
  BY DatesWritten DEF Version, AnyDate
<1> HIDE DEF new
<1>3. /\ versions' \in [Versions -> Version]
      /\ \A u \in Versions \ {v} : versions'[u] = versions[u]
  BY <1>1, <1>2 DEF Inv, TypeOK
<1>4. TypeOK'
  BY <1>1, <1>3 DEF Inv, TypeOK
<1>5. RowsKeep
  BY <1>1, <1>3 DEF RowsKeep
<1>6. RefsOwnBoard'
  BY <1>1, <1>3 DEF Inv, RefsOwnBoard, TypeOf, VersionOf, TypeOK, Card
<1>7. JobsInv'
  <2> SUFFICES ASSUME NEW q \in Requests PROVE Fits(job[q])'
    BY DEF JobsInv
  <2>1. Fits(job[q]) /\ job'[q] = job[q]
    BY <1>1 DEF Inv, JobsInv
  <2> QED BY <1>5, <2>1 DEF Fits, Refers, RowsKeep
<1>8. AloneInv'
  BY <1>1 DEF Inv, AloneInv, Distinct, TypeOf, NameChecked, NameFree, At
<1> QED BY <1>4, <1>6, <1>7, <1>8 DEF Inv

-----------------------------------------------------------------------------
LEMMA NextInv == Inv /\ [Next]_vars => Inv'
<1> SUFFICES ASSUME Inv, [Next]_vars PROVE Inv'
  OBVIOUS
<1>1. CASE UNCHANGED vars
  <2>1. UNCHANGED <<types, versions, cards, columns, job, alone, tidy>>
    BY <1>1 DEF vars
  <2>2. TypeOK' /\ RefsOwnBoard'
    BY <2>1 DEF Inv, TypeOK, RefsOwnBoard, TypeOf, VersionOf
  <2>3. JobsInv'
    BY <2>1 DEF Inv, JobsInv, Fits, Refers
  <2>4. AloneInv'
    BY <2>1 DEF Inv, AloneInv, Distinct, TypeOf, NameChecked, NameFree, At
  <2> QED BY <2>2, <2>3, <2>4 DEF Inv
<1>2. ASSUME NEW r \in Requests, TypeNext(r)
      PROVE  Inv'
  BY <1>2, TypeCreateCheckInv, InsertTypeInv, TypeUpdateCheckInv, WriteTypeInv,
     TypeRemoveCheckInv, DeleteTypeInv DEF TypeNext, CreateIssueTypeDto
<1>3. ASSUME NEW r \in Requests, VersionNext(r, AnyDate)
      PROVE  Inv'
  <2>1. ASSUME NEW dto \in CreateVersionDto(AnyDate)
        PROVE  dto.start \in AnyDate /\ dto.end \in AnyDate
    BY DEF CreateVersionDto
  <2> QED BY <1>3, <2>1, VersionUpdateCheckInv, WriteVersionInv, VersionRemoveCheckInv,
             DeleteVersionInv DEF VersionNext
<1>4. ASSUME NEW r \in Requests,
             CardNext(r, Types \cup {None, Unset}, Versions \cup {None, Unset}, AnyDate)
      PROVE  Inv'
  <2> DEFINE T == Types \cup {None, Unset}
             V == Versions \cup {None, Unset}
  <2>1. ASSUME NEW dto \in CreateCardDto(T, V, AnyDate)
        PROVE  /\ dto.type \in Types \cup {None} /\ dto.version \in Versions \cup {None}
               /\ dto.start \in AnyDate /\ dto.due \in AnyDate
    BY DEF CreateCardDto
  <2>2. ASSUME NEW dto \in UpdateCardDto(T, V, AnyDate)
        PROVE  /\ dto.type \in T /\ dto.version \in V
               /\ dto.start \in AnyDate /\ dto.due \in AnyDate
    BY DEF UpdateCardDto
  <2>3. CASE \E b \in Boards, dto \in CreateCardDto(T, V, AnyDate) :
               CardCreateCheck(r, b, dto.type, dto.version, dto.start, dto.due)
    BY <2>1, <2>3, CardCreateCheckInv
  <2>4. CASE \E k \in Cards, dto \in UpdateCardDto(T, V, AnyDate) :
               CardUpdateCheck(r, k, dto.type, dto.version, dto.start, dto.due)
    BY <2>2, <2>4, CardUpdateCheckInv
  <2> QED BY <1>4, <2>3, <2>4, InsertCardInv, WriteCardInv DEF CardNext
<1>5. ASSUME NEW r \in Requests, ColumnNext(r)
      PROVE  Inv'
  BY <1>5, ColumnCreateReadInv, InsertColumnInv, ColumnRemoveCheckInv, RemoveColumnInv,
     ReorderCheckInv, ReorderWriteInv DEF ColumnNext
<1>6. ASSUME NEW r \in Requests, Fail(r)
      PROVE  Inv'
  BY <1>6, FailInv
<1>7. CASE NewVersion(AnyDate)
  <2>1. ASSUME NEW dto \in CreateVersionDto(AnyDate)
        PROVE  dto.start \in AnyDate /\ dto.end \in AnyDate
    BY DEF CreateVersionDto
  <2> QED BY <1>7, <2>1, CreateVersionInv DEF NewVersion
<1> QED BY <1>1, <1>2, <1>3, <1>4, <1>5, <1>6, <1>7 DEF Next, NextWith

LEMMA SpecInv == Spec => []Inv
BY InitInv, NextInv, PTL DEF Spec

-----------------------------------------------------------------------------
(* Theorems.                                                               *)

\* The tables and the requests in flight have the types of the schema and of
\* the DTOs: JSON null never becomes a reference or a position, and a null date
\* becomes a day (IssueTypesService, VersionsService, ColumnsService,
\* CardsService).
THEOREM TypeCorrect == Spec => []TypeOK
BY SpecInv, PTL DEF Inv

\* A card's issue type and version exist and belong to its board, although
\* check and write are apart (ensureBelongsToBoard, ON DELETE SET NULL).
THEOREM ReferencesStayOnTheBoard == Spec => []RefsOwnBoard
BY SpecInv, PTL DEF Inv

\* Until requests overlap, the issue types of a board differ in more than case
\* (ensureNameAvailable).
THEOREM TypeNamesStayDistinct == Spec => []IssueTypeNamesDistinct
<1>1. Inv => IssueTypeNamesDistinct
  BY DEF Inv, AloneInv, Distinct, IssueTypeNamesDistinct
<1> QED BY <1>1, SpecInv, PTL

-----------------------------------------------------------------------------
(* The order of columns.  Until requests overlap, what the one in flight    *)
(* has read about the columns still holds when it writes them (OrderFits).  *)

Numbered(b) ==
  {columns[c].position : c \in LiveColumns(b)} = 0 .. (Cardinality(LiveColumns(b)) - 1)

\* Where a reordering puts column c.
PlaceAfter(j, c) == IF j.places[c] # Unset THEN j.places[c] ELSE columns[c].position

OrderFits(j) ==
  /\ j.at = "insertColumn" => j.board \in Boards /\ IsNextPosition(j.board, j.position)
  /\ j.at = "removeColumn" => j.board \in Boards /\ j.column \in LiveColumns(j.board)
  /\ j.at = "reorderColumns" =>
       \A b \in Boards :
         {PlaceAfter(j, c) : c \in LiveColumns(b)} = 0 .. (Cardinality(LiveColumns(b)) - 1)

OrderInv ==
  alone /\ tidy =>
    /\ \A b \in Boards : Numbered(b)
    /\ \A r \in Requests : OrderFits(job[r])

ColumnPlaces == {"insertColumn", "removeColumn", "reorderColumns"}

LEMMA LiveFinite ==
  ASSUME NEW b
  PROVE  /\ LiveColumns(b) \subseteq ColumnIds /\ IsFiniteSet(LiveColumns(b))
         /\ Cardinality(LiveColumns(b)) \in Nat
<1>1. IsFiniteSet(ColumnIds)
  BY CatalogAssumption, FS_Interval DEF ColumnIds
<1>2. LiveColumns(b) \in SUBSET ColumnIds
  BY DEF LiveColumns
<1> HIDE DEF LiveColumns
<1> QED BY <1>1, <1>2, FS_Subset, FS_CardinalityType

LEMMA SameColumns ==
  ASSUME UNCHANGED columns
  PROVE  /\ \A b : Numbered(b)' <=> Numbered(b)
         /\ \A j : OrderFits(j)' <=> OrderFits(j)
<1>1. \A b : LiveColumns(b)' = LiveColumns(b)
  BY DEF LiveColumns
<1>2. \A b : Numbered(b)' <=> Numbered(b)
  BY <1>1 DEF Numbered
<1>3. \A j, c : PlaceAfter(j, c)' = PlaceAfter(j, c)
  BY DEF PlaceAfter
<1>4. \A b, p : IsNextPosition(b, p)' <=> IsNextPosition(b, p)
  BY <1>1 DEF IsNextPosition
<1> QED BY <1>1, <1>2, <1>3, <1>4 DEF OrderFits

\* A request arrives.
LEMMA OpenOrder ==
  ASSUME Inv, OrderInv, NEW r \in Requests, NEW j, Open(r, j), UNCHANGED columns,
         tidy' => tidy /\ ((\A b \in Boards : Numbered(b)) => OrderFits(j))
  PROVE  OrderInv'
<1>1. SUFFICES ASSUME alone', tidy'
               PROVE  /\ \A b \in Boards : Numbered(b)'
                      /\ \A q \in Requests : OrderFits(job[q])'
  BY DEF OrderInv
<1>2. alone /\ tidy /\ job' = [job EXCEPT ![r] = j]
  BY <1>1 DEF Open
<1>3. (\A b \in Boards : Numbered(b)) /\ (\A q \in Requests : OrderFits(job[q]))
  BY <1>2 DEF OrderInv
<1>4. ASSUME NEW q \in Requests
      PROVE  OrderFits(job[q])'
  <2>1. PICK i : i = job'[q]
    OBVIOUS
  <2>2. OrderFits(i)
    BY <1>1, <1>2, <1>3, <2>1 DEF Inv, TypeOK
  <2>3. OrderFits(i)'
    BY <2>2, SameColumns
  <2> QED BY <2>1, <2>3 DEF OrderFits, PlaceAfter
<1> QED BY <1>3, <1>4, SameColumns

\* A request is done.
LEMMA FinishOrder ==
  ASSUME Inv, OrderInv, NEW r \in Requests, ~At(r, "idle"), Finish(r),
         alone /\ tidy => \A b \in Boards : Numbered(b)'
  PROVE  OrderInv'
<1>1. SUFFICES ASSUME alone, tidy
               PROVE  \A q \in Requests : OrderFits(job[q])'
  BY DEF OrderInv, Finish
<1>2. \A q \in Requests : q = r \/ At(q, "idle")
  BY <1>1 DEF Inv, AloneInv
<1>3. \A q \in Requests : At(q, "idle")'
  BY <1>2, IdleFits DEF At, Inv, TypeOK, Finish
<1> QED BY <1>3 DEF At, OrderFits

LEMMA StillOrder ==
  ASSUME Inv, OrderInv, NEW r \in Requests, ~At(r, "idle"), Finish(r), UNCHANGED columns
  PROVE  OrderInv'
<1>1. alone /\ tidy => \A b \in Boards : Numbered(b)'
  BY SameColumns DEF OrderInv
<1> QED BY <1>1, FinishOrder

\* A request that is not about columns arrives.
LEMMA OtherOrder ==
  ASSUME Inv, OrderInv, NEW r \in Requests, NEW j, Begin(r, j), UNCHANGED columns,
         j.at \notin ColumnPlaces
  PROVE  OrderInv'
<1>1. OrderFits(j)
  BY DEF OrderFits, ColumnPlaces
<1> QED BY <1>1, OpenOrder DEF Begin

LEMMA TypeOrder ==
  ASSUME Inv, OrderInv, NEW r \in Requests, TypeNext(r)
  PROVE  OrderInv'
<1>1. ASSUME NEW b, NEW n, TypeCreateCheck(r, b, n)
      PROVE  OrderInv'
  <2>1. [Idle EXCEPT !.at = "insertType", !.board = b, !.name = n].at \notin ColumnPlaces
    BY DEF Idle, ColumnPlaces
  <2> QED BY <1>1, <2>1, OtherOrder DEF TypeCreateCheck
<1>2. ASSUME NEW b, NEW t, NEW n, TypeUpdateCheck(r, b, t, n)
      PROVE  OrderInv'
  <2>1. [Idle EXCEPT !.at = "writeType", !.type = t, !.name = n].at \notin ColumnPlaces
    BY DEF Idle, ColumnPlaces
  <2> QED BY <1>2, <2>1, OtherOrder DEF TypeUpdateCheck
<1>3. ASSUME NEW b, NEW t, TypeRemoveCheck(r, b, t)
      PROVE  OrderInv'
  <2>1. [Idle EXCEPT !.at = "deleteType", !.type = t].at \notin ColumnPlaces
    BY DEF Idle, ColumnPlaces
  <2> QED BY <1>3, <2>1, OtherOrder DEF TypeRemoveCheck
<1>4. CASE (\E t \in Types : InsertType(r, t)) \/ WriteType(r) \/ DeleteType(r)
  BY <1>4, StillOrder DEF InsertType, WriteType, DeleteType, At
<1> QED BY <1>1, <1>2, <1>3, <1>4 DEF TypeNext

LEMMA VersionOrder ==
  ASSUME Inv, OrderInv, NEW r \in Requests, NEW D, VersionNext(r, D)
  PROVE  OrderInv'
<1>1. ASSUME NEW b, NEW v, NEW s, NEW e, VersionUpdateCheck(r, b, v, s, e)
      PROVE  OrderInv'
  <2>1. [Idle EXCEPT !.at = "writeVersion", !.version = v, !.start = s, !.end = e].at
          \notin ColumnPlaces
    BY DEF Idle, ColumnPlaces
  <2> QED BY <1>1, <2>1, OtherOrder DEF VersionUpdateCheck
<1>2. ASSUME NEW b, NEW v, VersionRemoveCheck(r, b, v)
      PROVE  OrderInv'
  <2>1. [Idle EXCEPT !.at = "deleteVersion", !.version = v].at \notin ColumnPlaces
    BY DEF Idle, ColumnPlaces
  <2> QED BY <1>2, <2>1, OtherOrder DEF VersionRemoveCheck
<1>3. CASE WriteVersion(r) \/ DeleteVersion(r)
  BY <1>3, StillOrder DEF WriteVersion, DeleteVersion, At
<1> QED BY <1>1, <1>2, <1>3 DEF VersionNext

LEMMA CardOrder ==
  ASSUME Inv, OrderInv, NEW r \in Requests, NEW T, NEW V, NEW D, CardNext(r, T, V, D)
  PROVE  OrderInv'
<1>1. ASSUME NEW b, NEW t, NEW v, NEW s, NEW d, CardCreateCheck(r, b, t, v, s, d)
      PROVE  OrderInv'
  <2>1. [Idle EXCEPT !.at = "insertCard", !.board = b, !.type = t, !.version = v,
                     !.start = s, !.end = d].at \notin ColumnPlaces
    BY DEF Idle, ColumnPlaces
  <2> QED BY <1>1, <2>1, OtherOrder DEF CardCreateCheck
<1>2. ASSUME NEW k, NEW t, NEW v, NEW s, NEW d, CardUpdateCheck(r, k, t, v, s, d)
      PROVE  OrderInv'
  <2>1. [Idle EXCEPT !.at = "writeCard", !.card = k, !.type = t, !.version = v,
                     !.start = s, !.end = d].at \notin ColumnPlaces
    BY DEF Idle, ColumnPlaces
  <2> QED BY <1>2, <2>1, OtherOrder DEF CardUpdateCheck
<1>3. CASE (\E k \in Cards : InsertCard(r, k)) \/ WriteCard(r)
  BY <1>3, StillOrder DEF InsertCard, WriteCard, At
<1> QED BY <1>1, <1>2, <1>3 DEF CardNext

\* Creating a column.
LEMMA ColumnCreateReadOrder ==
  ASSUME Inv, OrderInv, NEW r \in Requests, NEW b \in Boards, NEW p,
         ColumnCreateRead(r, b, p)
  PROVE  OrderInv'
<1> DEFINE j == [Idle EXCEPT !.at = "insertColumn", !.board = b, !.position = p]
<1>1. j.at = "insertColumn" /\ j.board = b /\ j.position = p
  BY DEF Idle
<1>2. IsNextPosition(b, p) /\ Begin(r, j) /\ UNCHANGED columns
  BY DEF ColumnCreateRead
<1> HIDE DEF j
<1>3. OrderFits(j)
  BY <1>1, <1>2 DEF OrderFits
<1> QED BY <1>2, <1>3, OpenOrder DEF Begin

\* One past the last of 0 .. n-1 is n.
LEMMA NextIsLength ==
  ASSUME TypeOK, NEW b, Numbered(b), NEW p \in Nat, IsNextPosition(b, p)
  PROVE  p = Cardinality(LiveColumns(b))
<1> DEFINE L == LiveColumns(b)
           n == Cardinality(L)
<1>1. n \in Nat /\ L \subseteq ColumnIds /\ IsFiniteSet(L)
  BY LiveFinite
<1>2. {columns[c].position : c \in L} = 0 .. (n - 1)
  BY DEF Numbered
<1>3. \A c \in L : columns[c].position \in Nat
  BY <1>1 DEF TypeOK, Column
<1>4. IF L = {} THEN p = 0
      ELSE /\ \A c \in L : columns[c].position < p
           /\ \E c \in L : columns[c].position + 1 = p
  BY DEF IsNextPosition
<1>5. (n = 0) <=> (L = {})
  BY <1>1, FS_EmptySet
<1> HIDE DEF L, n
<1>6. ASSUME L = {} PROVE p = n
  BY <1>4, <1>5, <1>6
<1>7. ASSUME L # {} PROVE p = n
  <2>1. PICK c \in L : columns[c].position + 1 = p
    BY <1>4, <1>7
  <2>2. columns[c].position \in 0 .. (n - 1)
    BY <1>2
  <2>3. n - 1 \in 0 .. (n - 1)
    BY <1>1, <1>5, <1>7
  <2>4. PICK d \in L : columns[d].position = n - 1
    BY <1>2, <2>3
  <2>5. n - 1 < p
    BY <1>4, <1>7, <2>4
  <2> QED BY <1>1, <1>3, <2>1, <2>2, <2>5
<1>8. p = n
  BY <1>6, <1>7
<1> QED BY <1>8 DEF L, n

LEMMA InsertColumnOrder ==
  ASSUME Inv, OrderInv, NEW r \in Requests, NEW c \in ColumnIds, InsertColumn(r, c)
  PROVE  OrderInv'
<1> DEFINE b == job[r].board
           p == job[r].position
<1>1. /\ job[r].at = "insertColumn" /\ ~At(r, "idle") /\ Finish(r)
      /\ columns' = [columns EXCEPT ![c] = [board |-> b, live |-> TRUE, position |-> p]]
  BY DEF InsertColumn, At
<1>2. columns[c].board = None
  <2>1. c \in Int /\ c <= c
    BY CatalogAssumption DEF ColumnIds
  <2> QED BY <2>1 DEF InsertColumn
<1>3. p \in Nat
  BY DEF Inv, TypeOK, Job
<1> HIDE DEF b, p
<1>4. /\ columns'[c] = [board |-> b, live |-> TRUE, position |-> p]
      /\ \A d \in ColumnIds \ {c} : columns'[d] = columns[d]
  BY <1>1 DEF Inv, TypeOK
<1>5. SUFFICES ASSUME alone, tidy, NEW a \in Boards
               PROVE  Numbered(a)'
  BY <1>1, FinishOrder
<1>6. Numbered(a) /\ (b \in Boards /\ IsNextPosition(b, p))
  BY <1>1, <1>5 DEF OrderInv, OrderFits, b, p
<1>7. c \notin LiveColumns(a)
  BY <1>2, CatalogAssumption DEF LiveColumns
<1>8. CASE a # b
  <2>1. LiveColumns(a)' = LiveColumns(a)
    BY <1>4, <1>7, <1>8 DEF LiveColumns
  <2>2. \A d \in LiveColumns(a) : columns'[d].position = columns[d].position
    BY <1>4, <1>7 DEF LiveColumns
  <2> QED BY <1>6, <2>1, <2>2 DEF Numbered
<1>9. CASE a = b
  <2> DEFINE L == LiveColumns(a)
             n == Cardinality(L)
  <2>1. LiveColumns(a)' = L \cup {c}
    BY <1>4, <1>9 DEF LiveColumns
  <2>2. n \in Nat /\ L \subseteq ColumnIds /\ IsFiniteSet(L)
    BY LiveFinite
  <2>3. Cardinality(L \cup {c}) = n + 1
    BY <1>7, <2>2, FS_AddElement
  <2>4. p = n
    BY <1>3, <1>6, <1>9, NextIsLength DEF Inv
  <2>5. {columns[d].position : d \in L} = 0 .. (n - 1)
    BY <1>6 DEF Numbered
  <2>6. \A d \in L : columns'[d].position = columns[d].position
    BY <1>4, <1>7, <2>2
  <2>7. columns'[c].position = n
    BY <1>4, <2>4
  <2> HIDE DEF L, n
  <2>8. {columns'[d].position : d \in L \cup {c}} = {columns[d].position : d \in L} \cup {n}
    BY <2>6, <2>7
  <2>9. 0 .. (n - 1) \cup {n} = 0 .. ((n + 1) - 1)
    BY <2>2
  <2> QED BY <2>1, <2>3, <2>5, <2>8, <2>9 DEF Numbered
<1> QED BY <1>8, <1>9

LEMMA ColumnRemoveCheckOrder ==
  ASSUME Inv, OrderInv, NEW r \in Requests, NEW b \in Boards, NEW c,
         ColumnRemoveCheck(r, b, c)
  PROVE  OrderInv'
<1> DEFINE j == [Idle EXCEPT !.at = "removeColumn", !.board = b, !.column = c]
<1>1. j.at = "removeColumn" /\ j.board = b /\ j.column = c
  BY DEF Idle
<1>2. c \in LiveColumns(b) /\ Begin(r, j) /\ UNCHANGED columns
  BY DEF ColumnRemoveCheck
<1> HIDE DEF j
<1>3. OrderFits(j)
  BY <1>1, <1>2 DEF OrderFits
<1> QED BY <1>2, <1>3, OpenOrder DEF Begin

\* The ranks in an order without ties are 0 .. n-1: they differ, and there are
\* as many of them as numbers.
LEMMA Ranks ==
  ASSUME TypeOK, NEW S \in SUBSET ColumnIds
  PROVE  {Cardinality({d \in S : Before(d, c)}) : c \in S} = 0 .. (Cardinality(S) - 1)
<1> DEFINE Below(c) == {d \in S : Before(d, c)}
           n == Cardinality(S)
           rank == [c \in S |-> Cardinality(Below(c))]
<1>1. IsFiniteSet(S) /\ n \in Nat
  <2>1. IsFiniteSet(ColumnIds)
    BY CatalogAssumption, FS_Interval DEF ColumnIds
  <2> QED BY <2>1, FS_Subset, FS_CardinalityType
<1>2. \A c \in S : c \in Int /\ columns[c].position \in Nat
  BY CatalogAssumption DEF ColumnIds, TypeOK, Column
<1>3. \A c, d \in S : c # d => Before(c, d) \/ Before(d, c)
  BY <1>2 DEF Before
<1>4. \A c \in S : ~Before(c, c)
  BY <1>2 DEF Before
<1>5. \A c, d, e \in S : Before(e, c) /\ Before(c, d) => Before(e, d)
  BY <1>2 DEF Before
<1>6. \A c \in S : IsFiniteSet(Below(c)) /\ Cardinality(Below(c)) \in Nat
  <2> SUFFICES ASSUME NEW c \in S
               PROVE  IsFiniteSet(Below(c)) /\ Cardinality(Below(c)) \in Nat
    OBVIOUS
  <2>1. Below(c) \in SUBSET S
    OBVIOUS
  <2> HIDE DEF Below
  <2> QED BY <1>1, <2>1, FS_Subset, FS_CardinalityType
<1>7. \A T \in SUBSET S, U \in SUBSET S :
        T \subseteq U /\ T # U => Cardinality(T) < Cardinality(U)
  <2> SUFFICES ASSUME NEW T \in SUBSET S, NEW U \in SUBSET S, T \subseteq U, T # U
               PROVE  Cardinality(T) < Cardinality(U)
    OBVIOUS
  <2>1. IsFiniteSet(U) /\ IsFiniteSet(T)
    BY <1>1, FS_Subset
  <2>2. Cardinality(T) <= Cardinality(U) /\ Cardinality(T) # Cardinality(U)
    BY <2>1, FS_Subset
  <2>3. Cardinality(T) \in Nat /\ Cardinality(U) \in Nat
    BY <2>1, FS_CardinalityType
  <2> QED BY <2>2, <2>3
<1>8. \A c \in S : Cardinality(Below(c)) < n
  <2> SUFFICES ASSUME NEW c \in S PROVE Cardinality(Below(c)) < Cardinality(S)
    OBVIOUS
  <2>1. Below(c) \in SUBSET S /\ Below(c) # S
    BY <1>4
  <2> HIDE DEF Below
  <2> QED BY <1>7, <2>1
<1>9. \A c, d \in S : Before(c, d) => Cardinality(Below(c)) < Cardinality(Below(d))
  <2> SUFFICES ASSUME NEW c \in S, NEW d \in S, Before(c, d)
               PROVE  Cardinality(Below(c)) < Cardinality(Below(d))
    OBVIOUS
  <2>1. /\ Below(c) \in SUBSET S /\ Below(d) \in SUBSET S
        /\ Below(c) \subseteq Below(d) /\ Below(c) # Below(d)
    BY <1>4, <1>5
  <2> HIDE DEF Below
  <2> QED BY <1>7, <2>1
<1> HIDE DEF Below, n
<1>10. rank \in [S -> 0 .. (n - 1)]
  BY <1>1, <1>6, <1>8
<1>11. \A c, d \in S : rank[c] = rank[d] => c = d
  <2> SUFFICES ASSUME NEW c \in S, NEW d \in S, c # d PROVE rank[c] # rank[d]
    OBVIOUS
  <2>1. rank[c] < rank[d] \/ rank[d] < rank[c]
    BY <1>3, <1>9
  <2>2. rank[c] \in Nat /\ rank[d] \in Nat
    BY <1>6
  <2> HIDE DEF rank
  <2> QED BY <2>1, <2>2
<1>12. rank \in Injection(S, 0 .. (n - 1))
  BY <1>10, <1>11 DEF Injection, IsInjective
<1>13. IsFiniteSet(0 .. (n - 1)) /\ Cardinality(0 .. (n - 1)) = n
  BY <1>1, FS_Interval
<1>14. rank \in Surjection(S, 0 .. (n - 1))
  BY <1>12, <1>13, FS_Injection DEF n
<1>15. {rank[c] : c \in S} = 0 .. (n - 1)
  BY <1>10, <1>14 DEF Surjection
<1> QED BY <1>15 DEF Below, n

\* What remains is numbered anew; no other board is touched.
LEMMA RemoveColumnOrder ==
  ASSUME Inv, OrderInv, NEW r \in Requests, RemoveColumn(r)
  PROVE  OrderInv'
<1> DEFINE b == job[r].board
           k == job[r].column
           rest == LiveColumns(b) \ {k}
           place == [c \in ColumnIds |-> Cardinality({d \in rest : Before(d, c)})]
<1>1. /\ job[r].at = "removeColumn" /\ ~At(r, "idle") /\ Finish(r)
      /\ columns' = [c \in ColumnIds |->
           IF c = k THEN [columns[c] EXCEPT !.live = FALSE]
           ELSE IF c \in rest THEN [columns[c] EXCEPT !.position = place[c]]
           ELSE columns[c]]
  BY DEF RemoveColumn, At, LiveColumns
<1>2. rest \in SUBSET ColumnIds
  BY DEF LiveColumns
<1>3. {place[c] : c \in rest} = 0 .. (Cardinality(rest) - 1)
  <2>1. \A c \in rest : place[c] = Cardinality({d \in rest : Before(d, c)})
    BY <1>2
  <2> HIDE DEF rest, place
  <2>2. {Cardinality({d \in rest : Before(d, c)}) : c \in rest} = 0 .. (Cardinality(rest) - 1)
    BY <1>2, Ranks DEF Inv
  <2>3. {place[c] : c \in rest} = {Cardinality({d \in rest : Before(d, c)}) : c \in rest}
    BY <2>1
  <2> QED BY <2>2, <2>3
<1>4. SUFFICES ASSUME alone, tidy, NEW a \in Boards
               PROVE  Numbered(a)'
  BY <1>1, FinishOrder
<1>5. Numbered(a) /\ k \in LiveColumns(b)
  BY <1>1, <1>4 DEF OrderInv, OrderFits
<1> HIDE DEF k, place
<1>6. \A c \in ColumnIds : /\ columns'[c].board = columns[c].board
                           /\ columns'[c].live <=> columns[c].live /\ c # k
                           /\ c \in rest => columns'[c].position = place[c]
                           /\ c \notin rest => columns'[c].position = columns[c].position
  BY <1>1, <1>2 DEF Inv, TypeOK, Column
<1>7. LiveColumns(a)' = LiveColumns(a) \ {k}
  BY <1>6 DEF LiveColumns
<1>8. CASE a = b
  <2>1. LiveColumns(a)' = rest
    BY <1>7, <1>8
  <2>2. \A c \in rest : columns'[c].position = place[c]
    BY <1>2, <1>6
  <2> HIDE DEF rest
  <2>3. {columns'[c].position : c \in rest} = {place[c] : c \in rest}
    BY <2>2
  <2> QED BY <1>3, <2>1, <2>3 DEF Numbered
<1>9. CASE a # b
  <2>1. \A c \in LiveColumns(a) : columns'[c].position = columns[c].position
    BY <1>6, <1>9 DEF LiveColumns
  <2>2. LiveColumns(a)' = LiveColumns(a)
    BY <1>5, <1>7, <1>9 DEF LiveColumns
  <2> QED BY <1>5, <2>1, <2>2 DEF Numbered
<1> QED BY <1>8, <1>9

\* tidy is about the board that is named; the others keep their order.
LEMMA ReorderCheckOrder ==
  ASSUME Inv, OrderInv, NEW r \in Requests, NEW b \in Boards, NEW places,
         ReorderCheck(r, b, places)
  PROVE  OrderInv'
<1> DEFINE named == {c \in ColumnIds : places[c] # Unset}
           j == [Idle EXCEPT !.at = "reorderColumns", !.places = places]
           after == {IF c \in named THEN places[c] ELSE columns[c].position :
                       c \in LiveColumns(b)}
<1>1. j.at = "reorderColumns" /\ j.places = places
  BY DEF Idle
<1>2. /\ named \subseteq LiveColumns(b) /\ Open(r, j) /\ UNCHANGED columns
      /\ tidy' = (tidy /\ after = 0 .. (Cardinality(LiveColumns(b)) - 1))
  BY DEF ReorderCheck
<1>3. \A a : LiveColumns(a) \subseteq ColumnIds
  BY DEF LiveColumns
<1>4. \A a, c : a # b /\ c \in LiveColumns(a) => c \notin LiveColumns(b)
  BY DEF LiveColumns
<1> HIDE DEF j
<1>5. {PlaceAfter(j, c) : c \in LiveColumns(b)} = after
  <2>1. \A c \in LiveColumns(b) :
          PlaceAfter(j, c) = IF c \in named THEN places[c] ELSE columns[c].position
    BY <1>1, <1>3 DEF PlaceAfter
  <2> HIDE DEF named
  <2> QED BY <2>1
<1>6. ASSUME NEW a \in Boards, a # b, Numbered(a)
      PROVE  {PlaceAfter(j, c) : c \in LiveColumns(a)} = 0 .. (Cardinality(LiveColumns(a)) - 1)
  <2>1. \A c \in LiveColumns(a) : PlaceAfter(j, c) = columns[c].position
    BY <1>1, <1>2, <1>3, <1>4, <1>6 DEF PlaceAfter
  <2> QED BY <1>6, <2>1 DEF Numbered
<1> HIDE DEF after
<1>7. tidy' /\ (\A a \in Boards : Numbered(a)) => OrderFits(j)
  BY <1>1, <1>2, <1>5, <1>6 DEF OrderFits
<1> QED BY <1>2, <1>7, OpenOrder

LEMMA ReorderWriteOrder ==
  ASSUME Inv, OrderInv, NEW r \in Requests, ReorderWrite(r)
  PROVE  OrderInv'
<1> DEFINE places == job[r].places
<1>1. /\ job[r].at = "reorderColumns" /\ ~At(r, "idle") /\ Finish(r)
      /\ columns' = [c \in ColumnIds |->
           IF places[c] = Unset THEN columns[c]
           ELSE [columns[c] EXCEPT !.position = places[c]]]
  BY DEF ReorderWrite, At
<1>2. SUFFICES ASSUME alone, tidy, NEW a \in Boards
               PROVE  Numbered(a)'
  BY <1>1, FinishOrder
<1>3. {PlaceAfter(job[r], c) : c \in LiveColumns(a)} = 0 .. (Cardinality(LiveColumns(a)) - 1)
  BY <1>1, <1>2 DEF OrderInv, OrderFits
<1> HIDE DEF places
<1>4. \A c \in ColumnIds :
        /\ columns'[c].board = columns[c].board
        /\ columns'[c].live <=> columns[c].live
        /\ columns'[c].position = IF places[c] # Unset THEN places[c] ELSE columns[c].position
  BY <1>1 DEF Inv, TypeOK, Column
<1>5. LiveColumns(a)' = LiveColumns(a)
  BY <1>4 DEF LiveColumns
<1>6. \A c \in LiveColumns(a) : columns'[c].position = PlaceAfter(job[r], c)
  BY <1>4 DEF PlaceAfter, places, LiveColumns
<1>7. {columns'[c].position : c \in LiveColumns(a)} = {PlaceAfter(job[r], c) : c \in LiveColumns(a)}
  BY <1>6
<1> QED BY <1>3, <1>5, <1>7 DEF Numbered

LEMMA NextOrder == Inv /\ OrderInv /\ [Next]_vars => OrderInv'
<1> SUFFICES ASSUME Inv, OrderInv, [Next]_vars PROVE OrderInv'
  OBVIOUS
<1>1. CASE UNCHANGED vars
  <2>1. UNCHANGED <<columns, job, alone, tidy>>
    BY <1>1 DEF vars
  <2>2. \A q \in Requests : OrderFits(job[q]) => OrderFits(job[q])'
    <3> SUFFICES ASSUME NEW q \in Requests, OrderFits(job[q]) PROVE OrderFits(job[q])'
      OBVIOUS
    <3>1. PICK i : i = job[q] /\ i = job'[q]
      BY <2>1
    <3>2. OrderFits(i)'
      BY <2>1, <3>1, SameColumns
    <3> QED BY <3>1, <3>2 DEF OrderFits, PlaceAfter
  <2> QED BY <2>1, <2>2, SameColumns DEF OrderInv
<1>2. ASSUME NEW r \in Requests, TypeNext(r) \/ VersionNext(r, AnyDate)
      PROVE  OrderInv'
  BY <1>2, TypeOrder, VersionOrder
<1>3. ASSUME NEW r \in Requests,
             CardNext(r, Types \cup {None, Unset}, Versions \cup {None, Unset}, AnyDate)
      PROVE  OrderInv'
  BY <1>3, CardOrder
<1>4. ASSUME NEW r \in Requests, ColumnNext(r)
      PROVE  OrderInv'
  BY <1>4, ColumnCreateReadOrder, InsertColumnOrder, ColumnRemoveCheckOrder,
     RemoveColumnOrder, ReorderCheckOrder, ReorderWriteOrder DEF ColumnNext
<1>5. ASSUME NEW r \in Requests, Fail(r)
      PROVE  OrderInv'
  BY <1>5, StillOrder DEF Fail
<1>6. CASE NewVersion(AnyDate)
  <2>1. UNCHANGED <<columns, job, tidy>> /\ alone' = (alone /\ AllIdle)
    BY <1>6 DEF NewVersion, CreateVersion, Instant
  <2>2. \A q \in Requests : AllIdle => OrderFits(job[q])'
    BY <2>1 DEF AllIdle, At, OrderFits
  <2> QED BY <2>1, <2>2, SameColumns DEF OrderInv
<1> QED BY <1>1, <1>2, <1>3, <1>4, <1>5, <1>6 DEF Next, NextWith

LEMMA InitOrder == Init => OrderInv
<1> SUFFICES ASSUME Init PROVE OrderInv
  OBVIOUS
<1>1. \A b \in Boards : LiveColumns(b) = {}
  BY DEF Init, LiveColumns
<1>2. 0 .. (Cardinality({}) - 1) = {}
  BY FS_EmptySet
<1>3. \A b \in Boards : Numbered(b)
  BY <1>1, <1>2 DEF Numbered
<1>4. \A q \in Requests : OrderFits(job[q])
  BY IdleFits DEF Init, OrderFits
<1> QED BY <1>3, <1>4 DEF OrderInv

\* Until requests overlap or a client sends other numbers, the columns of every
\* board are numbered 0, 1, 2 ..., whichever are added, removed and reordered
\* (ColumnsRepository.create, softDeleteWithCards, updateBoard).
THEOREM ColumnsStayNumbered == Spec => []ColumnsNumbered
<1>1. OrderInv => ColumnsNumbered
  BY DEF OrderInv, Numbered, ColumnsNumbered
<1>2. Inv /\ OrderInv /\ [Next]_vars => Inv' /\ OrderInv'
  BY NextInv, NextOrder
<1> QED BY <1>1, <1>2, InitInv, InitOrder, PTL DEF Spec

-----------------------------------------------------------------------------
(* Dates, while no client sends null (DatedSpec).  A check compares what    *)
(* will be written: Given and Written differ for null only.                 *)

Ordered ==
  /\ \A v \in Versions : RangeValid(versions[v].start, versions[v].end)
  /\ \A k \in Cards : RangeValid(cards[k].start, cards[k].due)

DatePlaces == {"writeVersion", "insertCard", "writeCard"}

\* The dates of request j over those stored are in order.
InOrder(j, start, end) ==
  /\ j.start # None /\ j.end # None
  /\ RangeValid(Given(j.start, start), Given(j.end, end))

DatesFit(j) ==
  /\ j.at = "writeVersion" =>
       /\ j.version \in Versions
       /\ InOrder(j, versions[j.version].start, versions[j.version].end)
  /\ j.at = "insertCard" => InOrder(j, None, None)
  /\ j.at = "writeCard" => InOrder(j, cards[j.card].start, cards[j.card].due)

DatesInv == alone => Ordered /\ \A r \in Requests : DatesFit(job[r])

DatedNow == AnyDate \ {None}

LEMMA AsGiven ==
  ASSUME NEW j, NEW start, NEW end, InOrder(j, start, end)
  PROVE  RangeValid(Written(j.start, start), Written(j.end, end))
BY DEF InOrder, Given, Written

\* A request arrives.
LEMMA OpenDates ==
  ASSUME Inv, DatesInv, NEW r \in Requests, NEW j, Open(r, j),
         UNCHANGED <<versions, cards>>, DatesFit(j)
  PROVE  DatesInv'
<1>1. SUFFICES ASSUME alone'
               PROVE  Ordered' /\ \A q \in Requests : DatesFit(job[q])'
  BY DEF DatesInv
<1>2. alone /\ job' = [job EXCEPT ![r] = j]
  BY <1>1 DEF Open
<1>3. Ordered'
  BY <1>2 DEF DatesInv, Ordered
<1>4. ASSUME NEW q \in Requests
      PROVE  DatesFit(job[q])'
  <2>1. PICK i : i = job'[q]
    OBVIOUS
  <2>2. DatesFit(i)
    BY <1>2, <2>1 DEF DatesInv, Inv, TypeOK
  <2> QED BY <2>1, <2>2 DEF DatesFit, InOrder
<1> QED BY <1>3, <1>4

\* A request is done.
LEMMA FinishDates ==
  ASSUME Inv, DatesInv, NEW r \in Requests, ~At(r, "idle"), Finish(r), alone => Ordered'
  PROVE  DatesInv'
<1>1. SUFFICES ASSUME alone
               PROVE  \A q \in Requests : DatesFit(job[q])'
  BY DEF DatesInv, Finish
<1>2. \A q \in Requests : q = r \/ At(q, "idle")
  BY <1>1 DEF Inv, AloneInv
<1>3. \A q \in Requests : At(q, "idle")'
  BY <1>2, IdleFits DEF At, Inv, TypeOK, Finish
<1> QED BY <1>3 DEF At, DatesFit

\* Dates stay as they are, whatever else of a row is written.
LEMMA StillDates ==
  ASSUME Inv, DatesInv, NEW r \in Requests, ~At(r, "idle"), Finish(r),
         \A v \in Versions : /\ versions'[v].start = versions[v].start
                             /\ versions'[v].end = versions[v].end,
         \A k \in Cards : /\ cards'[k].start = cards[k].start
                          /\ cards'[k].due = cards[k].due
  PROVE  DatesInv'
<1>1. alone => Ordered'
  BY DEF DatesInv, Ordered
<1> QED BY <1>1, FinishDates

\* A request that is not about dates arrives.
LEMMA OtherDates ==
  ASSUME Inv, DatesInv, NEW r \in Requests, NEW j, Open(r, j),
         UNCHANGED <<versions, cards>>, j.at \notin DatePlaces
  PROVE  DatesInv'
<1>1. DatesFit(j)
  BY DEF DatesFit, DatePlaces
<1> QED BY <1>1, OpenDates

LEMMA TypeDates ==
  ASSUME Inv, DatesInv, NEW r \in Requests, TypeNext(r)
  PROVE  DatesInv'
<1>1. ASSUME NEW b, NEW n, TypeCreateCheck(r, b, n)
      PROVE  DatesInv'
  <2>1. [Idle EXCEPT !.at = "insertType", !.board = b, !.name = n].at \notin DatePlaces
    BY DEF Idle, DatePlaces
  <2> QED BY <1>1, <2>1, OtherDates DEF TypeCreateCheck, Begin
<1>2. ASSUME NEW b, NEW t, NEW n, TypeUpdateCheck(r, b, t, n)
      PROVE  DatesInv'
  <2>1. [Idle EXCEPT !.at = "writeType", !.type = t, !.name = n].at \notin DatePlaces
    BY DEF Idle, DatePlaces
  <2> QED BY <1>2, <2>1, OtherDates DEF TypeUpdateCheck, Begin
<1>3. ASSUME NEW b, NEW t, TypeRemoveCheck(r, b, t)
      PROVE  DatesInv'
  <2>1. [Idle EXCEPT !.at = "deleteType", !.type = t].at \notin DatePlaces
    BY DEF Idle, DatePlaces
  <2> QED BY <1>3, <2>1, OtherDates DEF TypeRemoveCheck, Begin
<1>4. CASE (\E t \in Types : InsertType(r, t)) \/ WriteType(r)
  BY <1>4, StillDates DEF InsertType, WriteType, At
<1>5. CASE DeleteType(r)
  <2>1. \A k \in Cards : cards'[k].start = cards[k].start /\ cards'[k].due = cards[k].due
    BY <1>5 DEF DeleteType, Inv, TypeOK, Card
  <2> QED BY <1>5, <2>1, StillDates DEF DeleteType, At
<1> QED BY <1>1, <1>2, <1>3, <1>4, <1>5 DEF TypeNext

LEMMA VersionDates ==
  ASSUME Inv, DatesInv, NEW r \in Requests, VersionNext(r, DatedNow)
  PROVE  DatesInv'
<1>1. ASSUME NEW b, NEW v \in Versions, NEW s \in DatedNow, NEW e \in DatedNow,
             VersionUpdateCheck(r, b, v, s, e)
      PROVE  DatesInv'
  <2> DEFINE j == [Idle EXCEPT !.at = "writeVersion", !.version = v, !.start = s, !.end = e]
  <2>1. j.at = "writeVersion" /\ j.version = v /\ j.start = s /\ j.end = e
    BY DEF Idle
  <2>2. /\ RangeValid(Given(s, versions[v].start), Given(e, versions[v].end))
        /\ Open(r, j) /\ UNCHANGED <<versions, cards>>
    BY <1>1 DEF VersionUpdateCheck, Begin
  <2> HIDE DEF j
  <2>3. DatesFit(j)
    BY <2>1, <2>2 DEF DatesFit, InOrder, DatedNow
  <2> QED BY <2>2, <2>3, OpenDates
<1>2. \A dto \in CreateVersionDto(DatedNow) : dto.start \in DatedNow /\ dto.end \in DatedNow
  BY DEF CreateVersionDto
<1>3. ASSUME NEW b, NEW v, VersionRemoveCheck(r, b, v)
      PROVE  DatesInv'
  <2>1. [Idle EXCEPT !.at = "deleteVersion", !.version = v].at \notin DatePlaces
    BY DEF Idle, DatePlaces
  <2> QED BY <1>3, <2>1, OtherDates DEF VersionRemoveCheck, Begin
<1>4. CASE WriteVersion(r)
  <2> DEFINE j == job[r]
             v == j.version
             s == Written(j.start, versions[v].start)
             e == Written(j.end, versions[v].end)
  <2>1. /\ j.at = "writeVersion" /\ ~At(r, "idle") /\ Finish(r) /\ UNCHANGED cards
        /\ versions' = [versions EXCEPT ![v] = [versions[v] EXCEPT !.start = s, !.end = e]]
    BY <1>4 DEF WriteVersion, At
  <2>2. alone => Ordered /\ v \in Versions /\ RangeValid(s, e)
    BY <2>1, AsGiven DEF DatesInv, DatesFit
  <2>3. versions \in [Versions -> Version]
    BY DEF Inv, TypeOK
  <2> HIDE DEF v, s, e
  <2>4. \A u \in Versions : /\ u # v => versions'[u] = versions[u]
                            /\ u = v => versions'[u].start = s /\ versions'[u].end = e
    BY <2>1, <2>3 DEF Version
  <2>5. alone => Ordered'
    BY <2>1, <2>2, <2>4 DEF Ordered
  <2> QED BY <2>1, <2>5, FinishDates
<1>5. CASE DeleteVersion(r)
  <2>1. \A k \in Cards : cards'[k].start = cards[k].start /\ cards'[k].due = cards[k].due
    BY <1>5 DEF DeleteVersion, Inv, TypeOK, Card
  <2>2. \A v \in Versions : versions'[v].start = versions[v].start /\ versions'[v].end = versions[v].end
    BY <1>5 DEF DeleteVersion, Inv, TypeOK, Version
  <2> QED BY <1>5, <2>1, <2>2, StillDates DEF DeleteVersion, At
<1> QED BY <1>1, <1>2, <1>3, <1>4, <1>5 DEF VersionNext

LEMMA CardDates ==
  ASSUME Inv, DatesInv, NEW r \in Requests,
         NEW T, NEW V, CardNext(r, T, V, DatedNow)
  PROVE  DatesInv'
<1>1. ASSUME NEW b, NEW t, NEW v, NEW s \in DatedNow, NEW d \in DatedNow,
             CardCreateCheck(r, b, t, v, s, d)
      PROVE  DatesInv'
  <2> DEFINE j == [Idle EXCEPT !.at = "insertCard", !.board = b, !.type = t, !.version = v,
                               !.start = s, !.end = d]
  <2>1. j.at = "insertCard" /\ j.start = s /\ j.end = d
    BY DEF Idle
  <2>2. /\ RangeValid(Given(s, None), Given(d, None))
        /\ Open(r, j) /\ UNCHANGED <<versions, cards>>
    BY <1>1 DEF CardCreateCheck, Begin
  <2> HIDE DEF j
  <2>3. DatesFit(j)
    BY <2>1, <2>2 DEF DatesFit, InOrder, DatedNow
  <2> QED BY <2>2, <2>3, OpenDates
<1>2. \A dto \in CreateCardDto(T, V, DatedNow) : dto.start \in DatedNow /\ dto.due \in DatedNow
  BY DEF CreateCardDto
<1>3. ASSUME NEW k \in Cards, NEW t, NEW v, NEW s \in DatedNow, NEW d \in DatedNow,
             CardUpdateCheck(r, k, t, v, s, d)
      PROVE  DatesInv'
  <2> DEFINE j == [Idle EXCEPT !.at = "writeCard", !.card = k, !.type = t, !.version = v,
                               !.start = s, !.end = d]
  <2>1. j.at = "writeCard" /\ j.card = k /\ j.start = s /\ j.end = d
    BY DEF Idle
  <2>2. /\ RangeValid(Given(s, cards[k].start), Given(d, cards[k].due))
        /\ Open(r, j) /\ UNCHANGED <<versions, cards>>
    BY <1>3 DEF CardUpdateCheck, Begin
  <2> HIDE DEF j
  <2>3. DatesFit(j)
    BY <2>1, <2>2 DEF DatesFit, InOrder, DatedNow
  <2> QED BY <2>2, <2>3, OpenDates
<1>4. \A dto \in UpdateCardDto(T, V, DatedNow) : dto.start \in DatedNow /\ dto.due \in DatedNow
  BY DEF UpdateCardDto
<1>5. ASSUME NEW k \in Cards, InsertCard(r, k)
      PROVE  DatesInv'
  <2> DEFINE s == Written(job[r].start, None)
             d == Written(job[r].end, None)
             new == [board |-> job[r].board, type |-> job[r].type,
                     version |-> job[r].version, start |-> s, due |-> d]
  <2>1. /\ job[r].at = "insertCard" /\ ~At(r, "idle") /\ Finish(r) /\ UNCHANGED versions
        /\ cards' = [cards EXCEPT ![k] = new]
    BY <1>5 DEF InsertCard, At
  <2>2. alone => Ordered /\ RangeValid(s, d)
    BY <2>1, AsGiven DEF DatesInv, DatesFit
  <2> HIDE DEF s, d
  <2>3. new.start = s /\ new.due = d
    OBVIOUS
  <2> HIDE DEF new
  <2>4. cards'[k] = new /\ \A q \in Cards \ {k} : cards'[q] = cards[q]
    BY <2>1 DEF Inv, TypeOK
  <2>5. alone => Ordered'
    BY <2>1, <2>2, <2>3, <2>4 DEF Ordered
  <2> QED BY <2>1, <2>5, FinishDates
<1>6. CASE WriteCard(r)
  <2> DEFINE k == job[r].card
             s == Written(job[r].start, cards[k].start)
             d == Written(job[r].end, cards[k].due)
             new == [board |-> cards[k].board,
                     type |-> IF job[r].type = Unset THEN cards[k].type ELSE job[r].type,
                     version |-> IF job[r].version = Unset THEN cards[k].version
                                 ELSE job[r].version,
                     start |-> s, due |-> d]
  <2>1. /\ job[r].at = "writeCard" /\ ~At(r, "idle") /\ Finish(r) /\ UNCHANGED versions
        /\ cards' = [cards EXCEPT ![k] = new]
    BY <1>6 DEF WriteCard, At
  <2>2. alone => Ordered /\ RangeValid(s, d)
    BY <2>1, AsGiven DEF DatesInv, DatesFit
  <2>3. new.start = s /\ new.due = d
    OBVIOUS
  <2> HIDE DEF k, s, d, new
  <2>4. \A q \in Cards : /\ q # k => cards'[q] = cards[q]
                         /\ q = k => cards'[q] = new
    BY <2>1 DEF Inv, TypeOK
  <2>5. alone => Ordered'
    BY <2>1, <2>2, <2>3, <2>4 DEF Ordered
  <2> QED BY <2>1, <2>5, FinishDates
<1> QED BY <1>1, <1>2, <1>3, <1>4, <1>5, <1>6 DEF CardNext

LEMMA ColumnDates ==
  ASSUME Inv, DatesInv, NEW r \in Requests, ColumnNext(r)
  PROVE  DatesInv'
<1>1. ASSUME NEW b, NEW p, ColumnCreateRead(r, b, p)
      PROVE  DatesInv'
  <2>1. [Idle EXCEPT !.at = "insertColumn", !.board = b, !.position = p].at \notin DatePlaces
    BY DEF Idle, DatePlaces
  <2> QED BY <1>1, <2>1, OtherDates DEF ColumnCreateRead, Begin
<1>2. ASSUME NEW b, NEW c, ColumnRemoveCheck(r, b, c)
      PROVE  DatesInv'
  <2>1. [Idle EXCEPT !.at = "removeColumn", !.board = b, !.column = c].at \notin DatePlaces
    BY DEF Idle, DatePlaces
  <2> QED BY <1>2, <2>1, OtherDates DEF ColumnRemoveCheck, Begin
<1>3. ASSUME NEW b, NEW places, ReorderCheck(r, b, places)
      PROVE  DatesInv'
  <2>1. [Idle EXCEPT !.at = "reorderColumns", !.places = places].at \notin DatePlaces
    BY DEF Idle, DatePlaces
  <2> QED BY <1>3, <2>1, OtherDates DEF ReorderCheck
<1>4. CASE (\E c \in ColumnIds : InsertColumn(r, c)) \/ RemoveColumn(r) \/ ReorderWrite(r)
  BY <1>4, StillDates DEF InsertColumn, RemoveColumn, ReorderWrite, At
<1> QED BY <1>1, <1>2, <1>3, <1>4 DEF ColumnNext

LEMMA NewVersionDates ==
  ASSUME Inv, DatesInv, NewVersion(DatedNow)
  PROVE  DatesInv'
<1>1. PICK v \in Versions, dto \in CreateVersionDto(DatedNow), b \in Boards :
        CreateVersion(b, v, dto.start, dto.end)
  BY DEF NewVersion
<1> DEFINE s == dto.start
           e == dto.end
           new == [status |-> "live", board |-> b,
                   start |-> Written(s, None), end |-> Written(e, None)]
<1>2. s # None /\ e # None
  BY DEF CreateVersionDto, DatedNow
<1>3. /\ RangeValid(Given(s, None), Given(e, None)) /\ versions' = [versions EXCEPT ![v] = new]
      /\ alone' = (alone /\ AllIdle) /\ UNCHANGED <<cards, job>>
  BY <1>1 DEF CreateVersion, Instant
<1>4. RangeValid(new.start, new.end)
  BY <1>2, <1>3 DEF Given, Written
<1> HIDE DEF new
<1>5. versions'[v] = new /\ \A u \in Versions \ {v} : versions'[u] = versions[u]
  BY <1>3 DEF Inv, TypeOK
<1>6. alone => Ordered'
  BY <1>3, <1>4, <1>5 DEF DatesInv, Ordered
<1>7. AllIdle => \A q \in Requests : DatesFit(job[q])'
  BY <1>3 DEF AllIdle, At, DatesFit
<1> QED BY <1>3, <1>6, <1>7 DEF DatesInv

LEMMA DatedIsNext == DatedNext => Next
<1> DEFINE T == Types \cup {None, Unset}
           V == Versions \cup {None, Unset}
<1>1. DatedNow \subseteq AnyDate
  BY DEF DatedNow
<1>2. CreateVersionDto(DatedNow) \subseteq CreateVersionDto(AnyDate)
  BY <1>1 DEF CreateVersionDto
<1>3. /\ CreateCardDto(T, V, DatedNow) \subseteq CreateCardDto(T, V, AnyDate)
      /\ UpdateCardDto(T, V, DatedNow) \subseteq UpdateCardDto(T, V, AnyDate)
  BY <1>1 DEF CreateCardDto, UpdateCardDto
<1>4. \A r : VersionNext(r, DatedNow) => VersionNext(r, AnyDate)
  BY <1>2 DEF VersionNext
<1>5. \A r : CardNext(r, T, V, DatedNow) => CardNext(r, T, V, AnyDate)
  BY <1>3 DEF CardNext
<1>6. NewVersion(DatedNow) => NewVersion(AnyDate)
  BY <1>2 DEF NewVersion
<1> QED BY <1>4, <1>5, <1>6 DEF DatedNext, Next, NextWith, DatedNow

LEMMA NextDates == Inv /\ DatesInv /\ [DatedNext]_vars => DatesInv'
<1> SUFFICES ASSUME Inv, DatesInv, [DatedNext]_vars PROVE DatesInv'
  OBVIOUS
<1>1. CASE UNCHANGED vars
  BY <1>1 DEF vars, DatesInv, Ordered, DatesFit, InOrder
<1>2. CASE NewVersion(DatedNow)
  BY <1>2, NewVersionDates
<1>3. ASSUME NEW r \in Requests,
             TypeNext(r) \/ VersionNext(r, DatedNow) \/ ColumnNext(r)
      PROVE  DatesInv'
  BY <1>3, TypeDates, VersionDates, ColumnDates
<1>4. ASSUME NEW r \in Requests,
             CardNext(r, Types \cup {None, Unset}, Versions \cup {None, Unset}, DatedNow)
      PROVE  DatesInv'
  BY <1>4, CardDates
<1>5. ASSUME NEW r \in Requests, Fail(r)
      PROVE  DatesInv'
  BY <1>5, StillDates DEF Fail
<1> QED BY <1>1, <1>2, <1>3, <1>4, <1>5 DEF DatedNext, NextWith, DatedNow

LEMMA InitDates == Init => DatesInv
BY IdleFits DEF Init, DatesInv, Ordered, RangeValid, DatesFit

\* If no client sends null for a date, no version and no card ends before it
\* starts until two requests overlap, however its dates are changed one by one
\* (ensureDateRangeValid, toDate).
THEOREM RangesStayOrdered == DatedSpec => []RangesOrdered
<1>1. DatesInv => RangesOrdered
  BY DEF DatesInv, Ordered, RangesOrdered
<1>2. Inv /\ DatesInv /\ [DatedNext]_vars => Inv' /\ DatesInv'
  BY NextInv, NextDates, DatedIsNext
<1> QED BY <1>1, <1>2, InitInv, InitDates, PTL DEF DatedSpec
=============================================================================
