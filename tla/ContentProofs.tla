--------------------------- MODULE ContentProofs ---------------------------
(***************************************************************************)
(* Proofs about Content, for any number of requests, users, cards,         *)
(* comments, files and values: types, that its attachments implement       *)
(* FileStore, that only authors change their comments, that no file is     *)
(* lost sight of, and that without overlap comments keep a body and        *)
(* histories are complete.                                                 *)
(*                                                                         *)
(* Behind FileStore is that the files a request has prepared are stored,   *)
(* have no row and are no other request's (FilesInv); behind AuthorOnly,   *)
(* that a request which has checked its author still names a comment of    *)
(* its user (Fits).  Of every step the proof shows what it does to files   *)
(* (FilesStep), what becomes of prepared ones (Keeps) and who touches      *)
(* comments (Authored); the theorems follow from these three.  For the     *)
(* last two, CalmInv says what the one request in flight has yet to do so  *)
(* that the text, the files and the history come out right in the end.     *)
(***************************************************************************)
EXTENDS Content, TLAPS

-----------------------------------------------------------------------------
(* The invariant.                                                          *)

CardPlaces    == {"createComment", "editCard", "dropFromCard", "addToCard", "rereadCard",
                  "record"}
CommentPlaces == {"editComment", "dropFromComment", "addToComment", "removeComment"}

\* What a request remembers, by place.
Fits(j) ==
  /\ j.at \in CardPlaces => j.owner \in Cards
  /\ j.at \in CommentPlaces =>
       /\ j.owner \in Comments
       /\ comments[j.owner].status # "none"
       /\ comments[j.owner].user = j.user
  /\ j.at \in {"createComment", "editComment"} => j.text \in Texts
  /\ j.at = "setAvatar" =>
       /\ j.user \in Users
       /\ \/ j.left = 1 /\ j.prepared = {}
          \/ j.left = 0 /\ \E f \in Files : j.prepared = {f}
  /\ j.at \notin Uploading => j.prepared = {}

Prepared(r) == job[r].prepared

FilesInv ==
  /\ \A r \in Requests : \A f \in Prepared(r) : f \in stored /\ rows[f].owner = None
  /\ \A r, q \in Requests : r # q => Prepared(r) \cap Prepared(q) = {}
  /\ \A f \in Files : rows[f].owner # None => f \in stored

JobsInv == \A r \in Requests : Fits(job[r])

Inv == TypeOK /\ JobsInv /\ FilesInv /\ NoStrayFile

-----------------------------------------------------------------------------
(* What a step does.                                                       *)

\* To files: nothing, or one of the three operations of FileStore.
Quiet ==
  /\ UNCHANGED <<stored, rows>>
  /\ \A q \in Requests : Prepared(q)' \subseteq Prepared(q)

Uploads(r, f) ==
  /\ f \notin stored
  /\ stored' = stored \cup {f}
  /\ UNCHANGED rows
  /\ Prepared(r)' = Prepared(r) \cup {f}
  /\ \A q \in Requests \ {r} : Prepared(q)' = Prepared(q)

Attaches(r, o) ==
  /\ UNCHANGED stored
  /\ rows' = [f \in Files |->
                IF f \in Prepared(r) THEN [owner |-> o, live |-> TRUE] ELSE rows[f]]
  /\ Prepared(r)' = {}
  /\ \A q \in Requests \ {r} : Prepared(q)' = Prepared(q)

Detaches(F, o) ==
  /\ UNCHANGED stored
  /\ rows' = [f \in Files |->
                IF f \in F /\ rows[f].owner = o
                THEN [rows[f] EXCEPT !.live = FALSE] ELSE rows[f]]
  /\ \A q \in Requests : Prepared(q)' = Prepared(q)

FilesStep ==
  \/ Quiet
  \/ \E r \in Requests, f \in Files : Uploads(r, f)
  \/ \E r \in Requests, o \in Owners : Attaches(r, o)
  \/ \E F \in SUBSET Files, o \in Owners : Detaches(F, o)

\* To files nobody has attached yet.
Keeps ==
  ~spilled' =>
    /\ ~spilled
    /\ \A u \in Users : avatar[u] # None => avatar'[u] = avatar[u]
    /\ \A q \in Requests : \A f \in Prepared(q) :
         \/ f \in Prepared(q)'
         \/ rows'[f].owner # None
         \/ \E u \in Users : avatar'[u] = f

\* To comments and their files.
Touched(c) ==
  \/ comments'[c] # comments[c]
  \/ \E f \in FilesOf(c) : rows'[f] # rows[f]

Authored ==
  \A c \in Comments :
    LiveComment(c) /\ Touched(c) =>
      \E r \in Requests :
        job[r].owner = c /\ job[r].user = comments[c].user /\ job'[r] # job[r]

\* A comment that exists stays, and keeps its user.
CommentsKeep ==
  \A c \in Comments :
    comments[c].status # "none" =>
      comments'[c].status # "none" /\ comments'[c].user = comments[c].user

Good == TypeOK' /\ JobsInv' /\ FilesStep /\ Keeps /\ Authored

-----------------------------------------------------------------------------
(* Lemmas.                                                                 *)

LEMMA IdleFits == Idle \in Job /\ Fits(Idle) /\ Fits(Idle)' /\ Idle.prepared = {}
BY ContentAssumption DEF Idle, Job, Places, Fits, CardPlaces, CommentPlaces, Uploading

LEMMA InitInv == Init => Inv
<1> SUFFICES ASSUME Init PROVE Inv
  OBVIOUS
<1>1. TypeOK
  BY IdleFits DEF Init, TypeOK, Card, Comment, NoComment, Statuses, Texts, Row
<1>2. JobsInv
  BY IdleFits DEF Init, JobsInv
<1>3. FilesInv /\ NoStrayFile
  BY IdleFits DEF Init, FilesInv, NoStrayFile, Prepared
<1> QED BY <1>1, <1>2, <1>3 DEF Inv

\* A step of one request: the others remember the same, and it still holds.
LEMMA OneJob ==
  ASSUME TypeOK, JobsInv, NEW r \in Requests, NEW j \in Job,
         job' = [job EXCEPT ![r] = j], Fits(j)', CommentsKeep
  PROVE  /\ JobsInv'
         /\ job' \in [Requests -> Job]
         /\ Prepared(r)' = j.prepared
         /\ \A q \in Requests \ {r} : Prepared(q)' = Prepared(q)
<1>1. \A q \in Requests \ {r} : job'[q] = job[q]
  BY DEF TypeOK
<1>2. job'[r] = j
  BY DEF TypeOK
<1>3. ASSUME NEW q \in Requests, q # r
      PROVE  Fits(job[q])'
  <2>1. Fits(job[q]) /\ job'[q] = job[q]
    BY <1>1, <1>3 DEF JobsInv
  <2> QED BY <2>1 DEF Fits, CommentsKeep
<1>4. JobsInv'
  BY <1>2, <1>3 DEF JobsInv
<1> QED BY <1>1, <1>2, <1>4 DEF TypeOK, Prepared

\* A step that leaves everything but its request as it is.
LEMMA ReadOnly ==
  ASSUME Inv, NEW r \in Requests, NEW j \in Job,
         job' = [job EXCEPT ![r] = j], Fits(j)',
         j.prepared = Prepared(r),
         UNCHANGED <<cards, comments, files, told, spilled>>, calm' \in BOOLEAN
  PROVE  Good
<1>1. CommentsKeep
  BY DEF CommentsKeep
<1>2. /\ JobsInv' /\ job' \in [Requests -> Job]
      /\ \A q \in Requests : Prepared(q)' = Prepared(q)
  BY <1>1, OneJob DEF Inv
<1>3. TypeOK'
  BY <1>2 DEF Inv, TypeOK, files
<1>4. FilesStep
  BY <1>2 DEF FilesStep, Quiet, files
<1>5. Keeps
  BY <1>2 DEF Keeps, files
<1>6. Authored
  BY DEF Authored, Touched, files
<1> QED BY <1>2, <1>3, <1>4, <1>5, <1>6 DEF Good

\* The request that Goto leaves.
Went(j, i, place) ==
  /\ j \in Job /\ j.at = place /\ j.user = i.user /\ j.owner = i.owner /\ j.prepared = {}

LEMMA GotoJob ==
  ASSUME TypeOK, NEW r \in Requests, NEW place \in Places, Goto(r, place)
  PROVE  /\ \E j : Went(j, job[r], place) /\ job' = [job EXCEPT ![r] = j]
         /\ UNCHANGED <<calm, spilled>>
<1> DEFINE D == IF place \in {"dropFromComment", "dropFromCard"} THEN job[r].drop ELSE {}
<1> DEFINE j == [job[r] EXCEPT !.at = place, !.text = None, !.value = None, !.prepared = {},
                               !.drop = D]
<1>1. job' = [job EXCEPT ![r] = j] /\ UNCHANGED <<calm, spilled>>
  BY DEF Goto
<1>2. job[r] \in Job
  BY DEF TypeOK
<1>3. D \in SUBSET Files
  BY <1>2 DEF Job
<1> HIDE DEF D
<1>4. Went(j, job[r], place)
  BY <1>2, <1>3 DEF Went, Job
<1> HIDE DEF j
<1> QED BY <1>1, <1>4

LEMMA WentFits ==
  ASSUME NEW r \in Requests, Fits(job[r]), NEW j, CommentsKeep,
         \/ /\ job[r].at \in CommentPlaces
            /\ \E place \in {"dropFromComment", "addToComment"} : Went(j, job[r], place)
         \/ /\ job[r].at \in CardPlaces
            /\ \E place \in {"dropFromCard", "addToCard", "rereadCard"} : Went(j, job[r], place)
  PROVE  Fits(j)'
BY DEF Fits, Went, CommentsKeep, CardPlaces, CommentPlaces

-----------------------------------------------------------------------------
(* Requests arrive.                                                        *)

\* Begin with a request that has prepared nothing.
LEMMA BeginGood ==
  ASSUME Inv, NEW r \in Requests, NEW j \in Job, Begin(r, j), Fits(j), j.prepared = {},
         UNCHANGED <<cards, comments, files, told>>
  PROVE  Good
<1>1. Prepared(r) = {}
  BY DEF Inv, JobsInv, Fits, Begin, At, Prepared, Uploading
<1>2. Fits(j)'
  BY DEF Fits
<1>3. calm' \in BOOLEAN
  BY DEF Begin, Inv, TypeOK
<1> QED BY <1>1, <1>2, <1>3, ReadOnly DEF Begin

LEMMA ArriveGood ==
  ASSUME Inv, NEW r \in Requests, NEW u \in Users,
         \/ UploadAvatar(r, u)
         \/ \E c \in Comments : CommentRemoveCheck(r, u, c)
         \/ \E n \in 0 .. MaxFiles :
              \/ \E v \in Values : CardCreateCheck(r, u, v, n)
              \/ \E k \in Cards, dto \in CreateCommentDto :
                   CommentCreateCheck(r, u, k, dto.content, n)
              \/ \E c \in Comments, dto \in UpdateCommentDto :
                   CommentUpdateCheck(r, u, c, dto.content, dto.removeAttachmentIds, n)
              \/ \E k \in Cards, dto \in UpdateCardDto :
                   CardUpdateCheck(r, u, k, dto.value, dto.removeAttachmentIds, n)
  PROVE  Good
<1> USE DEF CardPlaces, CommentPlaces, Uploading
<1>1. CASE UploadAvatar(r, u)
  <2> DEFINE j == [Idle EXCEPT !.at = "setAvatar", !.user = u, !.left = 1]
  <2>0. 1 \in 0 .. MaxFiles
    BY ContentAssumption
  <2>1. j \in Job /\ j.at = "setAvatar" /\ j.user = u /\ j.left = 1 /\ j.prepared = {}
    BY <2>0 DEF Idle, Job, Places
  <2>2. Begin(r, j) /\ UNCHANGED <<cards, comments, files, told>>
    BY <1>1 DEF UploadAvatar
  <2> HIDE DEF j
  <2>3. Fits(j)
    BY <2>1 DEF Fits
  <2> QED BY <2>1, <2>2, <2>3, BeginGood
<1>2. ASSUME NEW c \in Comments, CommentRemoveCheck(r, u, c)
      PROVE  Good
  <2> DEFINE j == [Idle EXCEPT !.at = "removeComment", !.user = u, !.owner = c]
  <2>0. 0 \in 0 .. MaxFiles
    BY ContentAssumption
  <2>1. j \in Job /\ j.at = "removeComment" /\ j.user = u /\ j.owner = c /\ j.prepared = {}
    BY <2>0 DEF Idle, Job, Places, Owners
  <2>2. /\ Begin(r, j) /\ UNCHANGED <<cards, comments, files, told>>
        /\ comments[c].status # "none" /\ comments[c].user = u
    BY <1>2 DEF CommentRemoveCheck, LiveComment
  <2> HIDE DEF j
  <2>3. Fits(j)
    BY <2>1, <2>2 DEF Fits
  <2> QED BY <2>1, <2>2, <2>3, BeginGood
<1>3. ASSUME NEW n \in 0 .. MaxFiles, NEW v \in Values, CardCreateCheck(r, u, v, n)
      PROVE  Good
  <2> DEFINE j == [Idle EXCEPT !.at = "createCard", !.user = u, !.value = v, !.left = n]
  <2>1. j \in Job /\ j.at = "createCard" /\ j.prepared = {}
    BY <1>3 DEF Idle, Job, Places
  <2>2. Begin(r, j) /\ UNCHANGED <<cards, comments, files, told>>
    BY <1>3 DEF CardCreateCheck
  <2> HIDE DEF j
  <2>3. Fits(j)
    BY <2>1 DEF Fits
  <2> QED BY <2>1, <2>2, <2>3, BeginGood
<1>4. ASSUME NEW n \in 0 .. MaxFiles, NEW k \in Cards, NEW text \in {"empty", "words"},
             CommentCreateCheck(r, u, k, text, n)
      PROVE  Good
  <2> DEFINE j == [Idle EXCEPT !.at = "createComment", !.user = u, !.owner = k,
                               !.text = text, !.left = n]
  <2>1. /\ j \in Job /\ j.at = "createComment" /\ j.owner = k /\ j.text \in Texts
        /\ j.prepared = {}
    BY <1>4 DEF Idle, Job, Places, Owners, Texts
  <2>2. Begin(r, j) /\ UNCHANGED <<cards, comments, files, told>>
    BY <1>4 DEF CommentCreateCheck
  <2> HIDE DEF j
  <2>3. Fits(j)
    BY <2>1 DEF Fits
  <2> QED BY <2>1, <2>2, <2>3, BeginGood
<1>5. ASSUME NEW n \in 0 .. MaxFiles, NEW c \in Comments,
             NEW text \in {"empty", "words", None}, NEW D \in SUBSET Files,
             CommentUpdateCheck(r, u, c, text, D, n)
      PROVE  Good
  <2> DEFINE place == IF text = None THEN "dropFromComment" ELSE "editComment"
  <2> DEFINE j == [Idle EXCEPT !.at = place, !.user = u, !.owner = c, !.text = text,
                               !.drop = D, !.left = n]
  <2>1. place \in {"dropFromComment", "editComment"} /\ (place = "editComment" => text \in Texts)
    BY DEF Texts
  <2>2. Begin(r, j) /\ UNCHANGED <<cards, comments, files, told>>
    BY <1>5 DEF CommentUpdateCheck
  <2> HIDE DEF place
  <2>3. /\ j \in Job /\ j.at = place /\ j.user = u /\ j.owner = c /\ j.text = text
        /\ j.prepared = {}
    BY <1>5, <2>1 DEF Idle, Job, Places, Owners, Texts
  <2>4. comments[c].status # "none" /\ comments[c].user = u
    BY <1>5 DEF CommentUpdateCheck, LiveComment
  <2> HIDE DEF j
  <2>5. Fits(j)
    BY <2>1, <2>3, <2>4 DEF Fits
  <2> QED BY <2>2, <2>3, <2>5, BeginGood
<1>6. ASSUME NEW n \in 0 .. MaxFiles, NEW k \in Cards, NEW v \in Values, NEW D \in SUBSET Files,
             CardUpdateCheck(r, u, k, v, D, n)
      PROVE  Good
  <2> DEFINE before == Snapshot(k)
  <2> DEFINE j == [Idle EXCEPT !.at = "editCard", !.user = u, !.owner = k, !.value = v,
                               !.drop = D, !.left = n, !.before = before]
  <2>1. before \in Values \cup {None}
    BY DEF Snapshot, Inv, TypeOK, Card
  <2>2. Begin(r, j) /\ UNCHANGED <<cards, comments, files, told>>
    BY <1>6 DEF CardUpdateCheck
  <2> HIDE DEF before
  <2>3. j \in Job /\ j.at = "editCard" /\ j.owner = k /\ j.prepared = {}
    BY <1>6, <2>1 DEF Idle, Job, Places, Owners
  <2> HIDE DEF j
  <2>4. Fits(j)
    BY <2>3 DEF Fits
  <2> QED BY <2>2, <2>3, <2>4, BeginGood
<1>7. \A dto \in UpdateCommentDto : /\ dto.content \in {"empty", "words", None}
                                    /\ dto.removeAttachmentIds \in SUBSET Files
  BY DEF UpdateCommentDto, AttachmentIds
<1>8. \A dto \in UpdateCardDto : dto.value \in Values /\ dto.removeAttachmentIds \in SUBSET Files
  BY DEF UpdateCardDto, AttachmentIds
<1>9. \A dto \in CreateCommentDto : dto.content \in {"empty", "words"}
  BY DEF CreateCommentDto
<1> QED BY <1>1, <1>2, <1>3, <1>4, <1>5, <1>6, <1>7, <1>8, <1>9

LEMMA FailGood ==
  ASSUME Inv, NEW r \in Requests, Fail(r)
  PROVE  Good
<1>1. CommentsKeep
  BY DEF Fail, CommentsKeep
<1>2. Fits(Idle)'
  BY IdleFits
<1>3. /\ JobsInv' /\ job' \in [Requests -> Job] /\ Prepared(r)' = {}
      /\ \A q \in Requests \ {r} : Prepared(q)' = Prepared(q)
  BY <1>1, <1>2, IdleFits, OneJob DEF Inv, Fail
<1>4. TypeOK'
  BY <1>3 DEF Inv, TypeOK, Fail, files
<1>5. FilesStep
  BY <1>3 DEF FilesStep, Quiet, Fail, files
<1>6. Keeps
  BY <1>3 DEF Keeps, Fail, files, Prepared
<1>7. Authored
  BY DEF Authored, Touched, Fail, files
<1> QED BY <1>3, <1>4, <1>5, <1>6, <1>7 DEF Good

LEMMA RemoveCardGood ==
  ASSUME Inv, NEW k \in Cards, RemoveCard(k)
  PROVE  Good
<1>1. TypeOK'
  BY DEF Inv, TypeOK, RemoveCard, Card, Statuses, files
<1>2. JobsInv' /\ \A q \in Requests : Prepared(q)' = Prepared(q)
  BY DEF Inv, JobsInv, Fits, RemoveCard, Prepared
<1>3. FilesStep /\ Keeps /\ Authored
  BY <1>2 DEF FilesStep, Quiet, Keeps, Authored, Touched, RemoveCard, files
<1> QED BY <1>1, <1>2, <1>3 DEF Good

LEMMA UpdateProfileGood ==
  ASSUME Inv, NEW r \in Requests, NEW u \in Users, NEW dto \in UpdateProfileDto,
         UpdateProfile(r, u, dto.avatar)
  PROVE  Good
<1>1. dto.avatar \in Files \cup {None}
  BY DEF UpdateProfileDto, Inv, TypeOK
<1>2. TypeOK'
  BY <1>1 DEF Inv, TypeOK, UpdateProfile, SetAvatar
<1>3. JobsInv' /\ \A q \in Requests : Prepared(q)' = Prepared(q)
  BY DEF Inv, JobsInv, Fits, UpdateProfile, SetAvatar, Prepared
<1>4. FilesStep /\ Authored
  BY <1>3 DEF FilesStep, Quiet, Authored, Touched, UpdateProfile, SetAvatar
<1>5. Keeps
  BY <1>3 DEF Keeps, UpdateProfile, SetAvatar, Inv, TypeOK
<1> QED BY <1>2, <1>3, <1>4, <1>5 DEF Good

-----------------------------------------------------------------------------
(* Requests go on.                                                         *)

LEMMA UploadGood ==
  ASSUME Inv, NEW r \in Requests, Upload(r)
  PROVE  Good
<1>1. PICK f \in Files :
        /\ Put(f)
        /\ job' = [job EXCEPT ![r] = [job[r] EXCEPT !.left = job[r].left - 1,
                                                  !.prepared = job[r].prepared \cup {f}]]
  BY DEF Upload
<1> DEFINE i == job[r]
<1>2. i \in Job /\ Fits(i) /\ i.at \in Uploading /\ i.left > 0 /\ i.left \in 0 .. MaxFiles
  BY DEF Upload, Inv, TypeOK, JobsInv, Job
<1>3. i.left - 1 \in 0 .. MaxFiles
  BY <1>2, ContentAssumption
<1>4. PICK j \in Job :
        j = [i EXCEPT !.left = i.left - 1, !.prepared = i.prepared \cup {f}]
  BY <1>2, <1>3 DEF Job
<1>5. /\ job' = [job EXCEPT ![r] = j]
      /\ UNCHANGED <<cards, comments, rows, avatar, told, calm, spilled>>
  BY <1>1, <1>4 DEF Upload
<1> HIDE DEF i
<1>6. /\ j \in Job /\ j.at = i.at /\ j.user = i.user /\ j.owner = i.owner /\ j.text = i.text
      /\ j.left = i.left - 1 /\ j.prepared = i.prepared \cup {f}
  BY <1>2, <1>4 DEF Job
<1>7. Fits(j)'
  <2>1. j.at = "setAvatar" => j.user \in Users /\ j.left = 0 /\ j.prepared = {f}
    <3>1. SUFFICES ASSUME i.at = "setAvatar"
                   PROVE  i.user \in Users /\ i.left = 1 /\ i.prepared = {}
      BY <1>6
    <3> QED BY <1>2, <3>1 DEF Fits
  <2> QED BY <1>2, <1>5, <1>6, <2>1 DEF Fits, Uploading, CardPlaces, CommentPlaces
<1>8. CommentsKeep
  BY <1>5 DEF CommentsKeep
<1>9. /\ JobsInv' /\ job' \in [Requests -> Job] /\ Prepared(r)' = Prepared(r) \cup {f}
      /\ \A q \in Requests \ {r} : Prepared(q)' = Prepared(q)
  <2>1. j.prepared = Prepared(r) \cup {f}
    BY <1>6 DEF Prepared, i
  <2> QED BY <1>5, <1>7, <1>8, <2>1, OneJob DEF Inv
<1>10. TypeOK'
  BY <1>1, <1>5, <1>9 DEF Inv, TypeOK, Put
<1>11. Uploads(r, f)
  BY <1>1, <1>5, <1>9 DEF Uploads, Put
<1>12. Keeps /\ Authored
  BY <1>5, <1>9 DEF Keeps, Authored, Touched
<1> QED BY <1>9, <1>10, <1>11, <1>12 DEF Good, FilesStep

\* Prepared files get their rows, and the request ends or goes on.
LEMMA AttachGood ==
  ASSUME Inv, NEW r \in Requests, NEW o \in Owners, Attach(Prepared(r), o),
         NEW j \in Job, job' = [job EXCEPT ![r] = j], Fits(j)', j.prepared = {},
         UNCHANGED <<calm, spilled>>,
         cards' \in [Cards -> Card], told' \in [Cards -> Values \cup {None}],
         comments' \in [Comments -> Comment],
         \A c \in Comments : comments[c].status # "none" => comments'[c] = comments[c]
  PROVE  Good
<1>1. CommentsKeep
  BY DEF CommentsKeep
<1>2. /\ JobsInv' /\ job' \in [Requests -> Job] /\ Prepared(r)' = {}
      /\ \A q \in Requests \ {r} : Prepared(q)' = Prepared(q)
  BY <1>1, OneJob DEF Inv
<1>3. /\ rows' = [f \in Files |->
                    IF f \in Prepared(r) THEN [owner |-> o, live |-> TRUE] ELSE rows[f]]
      /\ UNCHANGED <<stored, avatar>>
  BY DEF Attach
<1>4. [owner |-> o, live |-> TRUE] \in Row
  BY DEF Row
<1>5. TypeOK'
  BY <1>2, <1>3, <1>4 DEF Inv, TypeOK
<1>6. Attaches(r, o)
  BY <1>2, <1>3 DEF Attaches
<1>7. \A f \in Prepared(r) : f \in Files /\ rows[f].owner = None /\ rows'[f].owner # None
  BY <1>3, ContentAssumption DEF Inv, FilesInv, TypeOK, Owners
<1>8. Keeps
  BY <1>2, <1>3, <1>7 DEF Keeps
<1>9. Authored
  <2>1. ASSUME NEW c \in Comments, LiveComment(c)
        PROVE  ~Touched(c)
    <3>1. comments[c].status # "none"
      BY <2>1 DEF LiveComment
    <3>2. \A f \in FilesOf(c) : f \notin Prepared(r)
      BY <1>7, ContentAssumption DEF FilesOf
    <3> QED BY <1>3, <3>1, <3>2 DEF Touched, FilesOf
  <2> QED BY <2>1 DEF Authored
<1> QED BY <1>2, <1>5, <1>6, <1>8, <1>9 DEF Good, FilesStep

\* The attachments that the client named are detached from the request's owner.
LEMMA DetachGood ==
  ASSUME Inv, NEW r \in Requests, Detach(job[r].drop, job[r].owner),
         NEW j \in Job, job' = [job EXCEPT ![r] = j], Fits(j)', j.prepared = Prepared(r),
         j.at # job[r].at, job[r].owner \in Owners,
         \A c \in Comments : job[r].owner = c => job[r].user = comments[c].user,
         UNCHANGED <<cards, comments, told, calm, spilled>>
  PROVE  Good
<1> DEFINE D == job[r].drop
<1> DEFINE o == job[r].owner
<1>1. CommentsKeep
  BY DEF CommentsKeep
<1>2. /\ JobsInv' /\ job' \in [Requests -> Job]
      /\ \A q \in Requests : Prepared(q)' = Prepared(q)
  BY <1>1, OneJob DEF Inv
<1>3. D \in SUBSET Files
  BY DEF Inv, TypeOK, Job
<1>4. /\ rows' = [f \in Files |->
                    IF f \in D /\ rows[f].owner = o
                    THEN [rows[f] EXCEPT !.live = FALSE] ELSE rows[f]]
      /\ UNCHANGED <<stored, avatar>>
  BY DEF Detach
<1>5. job'[r] # job[r]
  BY DEF Inv, TypeOK
<1> HIDE DEF D, o
<1>6. TypeOK'
  <2>1. rows' \in [Files -> Row]
    BY <1>4 DEF Inv, TypeOK, Row
  <2> QED BY <1>2, <1>4, <2>1 DEF Inv, TypeOK
<1>7. Detaches(D, o)
  BY <1>2, <1>4 DEF Detaches
<1>8. Keeps
  BY <1>2, <1>4 DEF Keeps
<1>9. Authored
  <2>1. ASSUME NEW c \in Comments, Touched(c)
        PROVE  c = o
    <3>1. PICK f \in FilesOf(c) : rows'[f] # rows[f]
      BY <2>1 DEF Touched
    <3> QED BY <1>4, <3>1 DEF FilesOf
  <2> QED BY <1>5, <2>1 DEF Authored, o
<1> QED BY <1>2, <1>3, <1>6, <1>7, <1>8, <1>9 DEF Good, FilesStep, o

\* A comment is written that is new, or that the request names.
LEMMA CommentGood ==
  ASSUME Inv, NEW r \in Requests, NEW c \in Comments, NEW row \in Comment,
         comments' = [comments EXCEPT ![c] = row],
         row.status # "none",
         \/ comments[c].status = "none"
         \/ /\ row.user = comments[c].user
            /\ job[r].owner = c
            /\ job[r].user = comments[c].user
            /\ job'[r] # job[r],
         NEW j \in Job, job' = [job EXCEPT ![r] = j], CommentsKeep => Fits(j)',
         j.prepared = Prepared(r),
         told' \in [Cards -> Values \cup {None}],
         UNCHANGED <<cards, files, calm, spilled>>
  PROVE  Good
<1>1. /\ comments'[c] = row
      /\ \A d \in Comments \ {c} : comments'[d] = comments[d]
  BY DEF Inv, TypeOK
<1>2. CommentsKeep
  BY <1>1 DEF CommentsKeep
<1>3. /\ JobsInv' /\ job' \in [Requests -> Job]
      /\ \A q \in Requests : Prepared(q)' = Prepared(q)
  BY <1>2, OneJob DEF Inv
<1>4. TypeOK'
  BY <1>3 DEF Inv, TypeOK, files
<1>5. FilesStep /\ Keeps
  BY <1>3 DEF FilesStep, Quiet, Keeps, files
<1>6. Authored
  <2>1. ASSUME NEW d \in Comments, Touched(d)
        PROVE  d = c
    BY <1>1, <2>1 DEF Touched, files
  <2> QED BY <2>1 DEF Authored, LiveComment
<1> QED BY <1>3, <1>4, <1>5, <1>6 DEF Good

-----------------------------------------------------------------------------
(* The steps of requests, one by one.                                      *)

LEMMA InsertCommentGood ==
  ASSUME Inv, NEW r \in Requests, NEW c \in Comments, InsertComment(r, c)
  PROVE  Good
<1>1. Fits(job[r]) /\ job[r] \in Job /\ job[r].at = "createComment"
  BY DEF Inv, TypeOK, JobsInv, InsertComment, At
<1>2. NewComment(job[r].owner, job[r].user, "USER", job[r].text) \in Comment
  BY <1>1 DEF Fits, CardPlaces, NewComment, Comment, Statuses, Job
<1>3. /\ Attach(Prepared(r), c) /\ c \in Owners
      /\ job' = [job EXCEPT ![r] = Idle]
      /\ UNCHANGED <<cards, told, calm, spilled>>
      /\ comments[c].status = "none"
      /\ comments' = [comments EXCEPT ![c] =
           NewComment(job[r].owner, job[r].user, "USER", job[r].text)]
  BY DEF InsertComment, Finish, Prepared, Owners
<1>4. /\ comments' \in [Comments -> Comment]
      /\ \A d \in Comments : comments[d].status # "none" => comments'[d] = comments[d]
  BY <1>2, <1>3 DEF Inv, TypeOK
<1>5. cards' \in [Cards -> Card] /\ told' \in [Cards -> Values \cup {None}]
  BY <1>3 DEF Inv, TypeOK
<1> QED BY <1>3, <1>4, <1>5, IdleFits, AttachGood

LEMMA RecordGood ==
  ASSUME Inv, NEW r \in Requests, NEW c \in Comments, RecordCardUpdate(r, c)
  PROVE  Good
<1>1. Fits(job[r]) /\ job[r] \in Job /\ job[r].at = "record"
  BY DEF Inv, TypeOK, JobsInv, RecordCardUpdate, At
<1>2. PICK row \in Comment :
        row = NewComment(job[r].owner, job[r].user, "SYSTEM", "delta") /\ row.status # "none"
  <2> DEFINE new == NewComment(job[r].owner, job[r].user, "SYSTEM", "delta")
  <2>1. new \in Comment /\ new.status # "none"
    BY <1>1 DEF Fits, CardPlaces, NewComment, Comment, Statuses, Job, Texts
  <2> HIDE DEF new
  <2>2. \E row \in Comment : row = new /\ row.status # "none"
    BY <2>1
  <2> QED BY <2>2 DEF new
<1>3. /\ job' = [job EXCEPT ![r] = Idle]
      /\ UNCHANGED <<cards, files, calm, spilled>>
      /\ comments[c].status = "none"
      /\ comments' = [comments EXCEPT ![c] = row]
  BY <1>2 DEF RecordCardUpdate, Finish
<1>4. told' \in [Cards -> Values \cup {None}]
  <2>1. job[r].owner \in Cards /\ job[r].before \in Values \cup {None}
        /\ job[r].after \in Values \cup {None}
    BY <1>1 DEF Fits, CardPlaces, Job
  <2> QED BY <2>1 DEF RecordCardUpdate, Inv, TypeOK
<1>5. Idle.prepared = Prepared(r)
  BY <1>1, IdleFits DEF Fits, Uploading, Prepared
<1> QED BY <1>2, <1>3, <1>4, <1>5, IdleFits, CommentGood

LEMMA InsertCardGood ==
  ASSUME Inv, NEW r \in Requests, NEW k \in Cards, InsertCard(r, k)
  PROVE  Good
<1>1. job[r] \in Job
  BY DEF Inv, TypeOK
<1>2. [status |-> "live", value |-> job[r].value] \in Card /\ job[r].value \in Values \cup {None}
  BY <1>1 DEF Card, Statuses, Job
<1>3. cards' \in [Cards -> Card] /\ told' \in [Cards -> Values \cup {None}]
  BY <1>2 DEF InsertCard, Inv, TypeOK
<1>4. /\ Attach(Prepared(r), k) /\ k \in Owners
      /\ job' = [job EXCEPT ![r] = Idle]
      /\ UNCHANGED <<comments, calm, spilled>>
  BY DEF InsertCard, Finish, Prepared, Owners
<1>5. comments' \in [Comments -> Comment]
  BY <1>4 DEF Inv, TypeOK
<1> QED BY <1>3, <1>4, <1>5, IdleFits, AttachGood

LEMMA EditCommentGood ==
  ASSUME Inv, NEW r \in Requests, EditComment(r)
  PROVE  Good
<1>1. Fits(job[r]) /\ job[r] \in Job /\ job[r].at = "editComment"
  BY DEF Inv, TypeOK, JobsInv, EditComment, At
<1>2. PICK c \in Comments : c = job[r].owner
  BY <1>1 DEF Fits, CommentPlaces
<1>3. /\ comments[c] \in Comment /\ comments[c].status # "none"
      /\ comments[c].user = job[r].user /\ job[r].text \in Texts
  BY <1>1, <1>2 DEF Fits, CommentPlaces, Inv, TypeOK
<1>4. PICK row \in Comment :
        /\ row = [comments[c] EXCEPT !.text = job[r].text]
        /\ row.status = comments[c].status /\ row.user = comments[c].user
  <2> DEFINE new == [comments[c] EXCEPT !.text = job[r].text]
  <2>1. /\ new \in Comment /\ new.status = comments[c].status
        /\ new.user = comments[c].user
    BY <1>3 DEF Comment
  <2> HIDE DEF new
  <2>2. \E row \in Comment : /\ row = new /\ row.status = comments[c].status
                             /\ row.user = comments[c].user
    BY <2>1
  <2> QED BY <2>2 DEF new
<1>5. PICK j : Went(j, job[r], "dropFromComment") /\ job' = [job EXCEPT ![r] = j]
  BY GotoJob DEF EditComment, Inv, Places
<1>6. UNCHANGED <<cards, files, told, calm, spilled>>
  BY GotoJob DEF EditComment, Inv, Places
<1>7. comments' = [comments EXCEPT ![c] = row]
  BY <1>2, <1>4 DEF EditComment
<1>8. j \in Job /\ j.at = "dropFromComment" /\ j.prepared = {} /\ job'[r] = j
  BY <1>5 DEF Went, Inv, TypeOK
<1>9. CommentsKeep => Fits(j)'
  BY <1>1, <1>5, WentFits DEF CommentPlaces
<1>10. j.prepared = Prepared(r) /\ job'[r] # job[r]
  BY <1>1, <1>8 DEF Fits, Uploading, Prepared
<1>11. told' \in [Cards -> Values \cup {None}]
  BY <1>6 DEF Inv, TypeOK
<1> QED BY <1>2, <1>3, <1>4, <1>5, <1>6, <1>7, <1>8, <1>9, <1>10, <1>11, CommentGood

LEMMA RemoveCommentGood ==
  ASSUME Inv, NEW r \in Requests, RemoveComment(r)
  PROVE  Good
<1>1. Fits(job[r]) /\ job[r] \in Job /\ job[r].at = "removeComment"
  BY DEF Inv, TypeOK, JobsInv, RemoveComment, At
<1>2. PICK c \in Comments : c = job[r].owner
  BY <1>1 DEF Fits, CommentPlaces
<1>3. comments[c] \in Comment /\ comments[c].user = job[r].user
  BY <1>1, <1>2 DEF Fits, CommentPlaces, Inv, TypeOK
<1>4. PICK row \in Comment :
        /\ row = [comments[c] EXCEPT !.status = "deleted"]
        /\ row.status = "deleted" /\ row.user = comments[c].user
  <2> DEFINE new == [comments[c] EXCEPT !.status = "deleted"]
  <2>1. new \in Comment /\ new.status = "deleted" /\ new.user = comments[c].user
    BY <1>3 DEF Comment, Statuses
  <2> HIDE DEF new
  <2>2. \E row \in Comment : row = new /\ row.status = "deleted" /\ row.user = comments[c].user
    BY <2>1
  <2> QED BY <2>2 DEF new
<1>5. /\ comments' = [comments EXCEPT ![c] = row]
      /\ job' = [job EXCEPT ![r] = Idle]
      /\ UNCHANGED <<cards, files, told, calm, spilled>>
  BY <1>2, <1>4 DEF RemoveComment, Finish
<1>6. job'[r] = Idle /\ Idle.at # job[r].at
  BY <1>1, <1>5 DEF Inv, TypeOK, Idle
<1>7. Idle.prepared = Prepared(r) /\ job'[r] # job[r]
  BY <1>1, <1>6, IdleFits DEF Fits, Uploading, Prepared
<1>8. told' \in [Cards -> Values \cup {None}]
  BY <1>5 DEF Inv, TypeOK
<1> QED BY <1>2, <1>3, <1>4, <1>5, <1>7, <1>8, IdleFits, CommentGood

LEMMA DropGood ==
  ASSUME Inv, NEW r \in Requests, DropFromComment(r) \/ DropFromCard(r)
  PROVE  Good
<1>1. Fits(job[r]) /\ job[r].at \in {"dropFromComment", "dropFromCard"}
  BY DEF Inv, TypeOK, JobsInv, DropFromComment, DropFromCard, At
<1>2. Detach(job[r].drop, job[r].owner) /\ UNCHANGED <<cards, comments, told>>
  BY DEF DropFromComment, DropFromCard
<1>3. CommentsKeep
  BY <1>2 DEF CommentsKeep
<1>4. PICK j : /\ job' = [job EXCEPT ![r] = j]
               /\ \/ job[r].at = "dropFromComment" /\ Went(j, job[r], "addToComment")
                  \/ job[r].at = "dropFromCard" /\ Went(j, job[r], "addToCard")
  BY GotoJob DEF DropFromComment, DropFromCard, Inv, Places, At
<1>5. UNCHANGED <<calm, spilled>>
  BY GotoJob DEF DropFromComment, DropFromCard, Inv, Places
<1>6. j \in Job /\ j.prepared = {} /\ j.at # job[r].at
  BY <1>4 DEF Went
<1>7. Fits(j)'
  BY <1>1, <1>3, <1>4, WentFits DEF CommentPlaces, CardPlaces
<1>8. Prepared(r) = {}
  BY <1>1 DEF Fits, Uploading, Prepared
<1>9. job[r].owner \in Owners /\ \A c \in Comments : job[r].owner = c => job[r].user = comments[c].user
  BY <1>1, ContentAssumption DEF Fits, CommentPlaces, CardPlaces, Owners
<1> QED BY <1>2, <1>4, <1>5, <1>6, <1>7, <1>8, <1>9, DetachGood

LEMMA AddToCommentGood ==
  ASSUME Inv, NEW r \in Requests, AddToComment(r)
  PROVE  Good
<1>1. job[r].owner \in Owners
  BY DEF Inv, JobsInv, Fits, CommentPlaces, Owners, AddToComment, At
<1>2. /\ Attach(Prepared(r), job[r].owner)
      /\ job' = [job EXCEPT ![r] = Idle]
      /\ UNCHANGED <<cards, comments, told, calm, spilled>>
  BY DEF AddToComment, Finish, Prepared
<1>3. /\ cards' \in [Cards -> Card] /\ told' \in [Cards -> Values \cup {None}]
      /\ comments' \in [Comments -> Comment]
  BY <1>2 DEF Inv, TypeOK
<1>4. PICK o \in Owners : o = job[r].owner
  BY <1>1
<1> QED BY <1>2, <1>3, <1>4, IdleFits, AttachGood

LEMMA AddToCardGood ==
  ASSUME Inv, NEW r \in Requests, AddToCard(r)
  PROVE  Good
<1>1. Fits(job[r]) /\ job[r].at = "addToCard" /\ job[r].owner \in Owners
  BY DEF Inv, JobsInv, Fits, CardPlaces, Owners, AddToCard, At
<1>2. PICK o \in Owners : o = job[r].owner
  BY <1>1
<1>3. PICK j : Went(j, job[r], "rereadCard") /\ job' = [job EXCEPT ![r] = j]
  BY GotoJob DEF AddToCard, Inv, Places
<1>4. UNCHANGED <<cards, comments, told, calm, spilled>>
  BY GotoJob DEF AddToCard, Inv, Places
<1>5. Attach(Prepared(r), o)
  BY <1>2 DEF AddToCard, Prepared
<1>6. CommentsKeep
  BY <1>4 DEF CommentsKeep
<1>7. j \in Job /\ j.prepared = {} /\ Fits(j)'
  BY <1>1, <1>3, <1>6, WentFits DEF Went, CardPlaces
<1>8. /\ cards' \in [Cards -> Card] /\ told' \in [Cards -> Values \cup {None}]
      /\ comments' \in [Comments -> Comment]
  BY <1>4 DEF Inv, TypeOK
<1> QED BY <1>3, <1>4, <1>5, <1>7, <1>8, AttachGood

LEMMA EditCardGood ==
  ASSUME Inv, NEW r \in Requests, EditCard(r)
  PROVE  Good
<1>1. Fits(job[r]) /\ job[r] \in Job /\ job[r].at = "editCard"
  BY DEF Inv, TypeOK, JobsInv, EditCard, At
<1>2. PICK j : Went(j, job[r], "dropFromCard") /\ job' = [job EXCEPT ![r] = j]
  BY GotoJob DEF EditCard, Inv, Places
<1>3. UNCHANGED <<comments, files, told, calm, spilled>>
  BY GotoJob DEF EditCard, Inv, Places
<1>4. CommentsKeep
  BY <1>3 DEF CommentsKeep
<1>5. j \in Job /\ j.prepared = {} /\ Fits(j)'
  BY <1>1, <1>2, <1>4, WentFits DEF Went, CardPlaces
<1>6. Prepared(r) = {}
  BY <1>1 DEF Fits, Uploading, Prepared
<1>7. /\ JobsInv' /\ job' \in [Requests -> Job]
      /\ \A q \in Requests : Prepared(q)' = Prepared(q)
  BY <1>2, <1>4, <1>5, <1>6, OneJob DEF Inv
<1>8. cards' \in [Cards -> Card]
  <2>1. job[r].owner \in Cards /\ job[r].value \in Values \cup {None}
    BY <1>1 DEF Fits, CardPlaces, Job
  <2> QED BY <2>1 DEF EditCard, Inv, TypeOK, Card
<1>9. TypeOK'
  BY <1>3, <1>7, <1>8 DEF Inv, TypeOK, files
<1>10. FilesStep /\ Keeps /\ Authored
  BY <1>3, <1>7 DEF FilesStep, Quiet, Keeps, Authored, Touched, files
<1> QED BY <1>7, <1>9, <1>10 DEF Good

LEMMA RereadCardGood ==
  ASSUME Inv, NEW r \in Requests, RereadCard(r)
  PROVE  Good
<1>1. Fits(job[r]) /\ job[r] \in Job /\ job[r].at = "rereadCard" /\ job[r].owner \in Cards
  BY DEF Inv, TypeOK, JobsInv, RereadCard, At, Fits, CardPlaces
<1>2. Prepared(r) = {}
  BY <1>1 DEF Fits, Uploading, Prepared
<1>3. UNCHANGED <<cards, comments, files, told, calm, spilled>>
  BY DEF RereadCard, Finish
<1>4. calm' \in BOOLEAN
  BY <1>3 DEF Inv, TypeOK
<1>5. CASE job' = [job EXCEPT ![r] = Idle]
  BY <1>2, <1>3, <1>4, <1>5, IdleFits, ReadOnly
<1>6. CASE job' = [job EXCEPT ![r] = [@ EXCEPT !.at = "record",
                                               !.after = Snapshot(job[r].owner)]]
  <2>1. Snapshot(job[r].owner) \in Values \cup {None}
    BY <1>1 DEF Snapshot, Inv, TypeOK, Card
  <2>2. PICK j \in Job :
          j = [job[r] EXCEPT !.at = "record", !.after = Snapshot(job[r].owner)]
    BY <1>1, <2>1 DEF Job, Places
  <2>3. j.at = "record" /\ j.owner = job[r].owner /\ j.prepared = Prepared(r)
    BY <1>1, <2>2 DEF Job, Prepared
  <2>4. Fits(j)'
    BY <1>1, <1>2, <2>3 DEF Fits, CardPlaces, CommentPlaces
  <2> QED BY <1>3, <1>4, <1>6, <2>2, <2>3, <2>4, ReadOnly
<1> QED BY <1>5, <1>6 DEF RereadCard, Finish

LEMMA WriteAvatarGood ==
  ASSUME Inv, NEW r \in Requests, WriteAvatar(r)
  PROVE  Good
<1>1. Fits(job[r]) /\ job[r] \in Job /\ job[r].at = "setAvatar"
  BY DEF Inv, TypeOK, JobsInv, WriteAvatar, At
<1>2. PICK f \in Files : Prepared(r) = {f} /\ SetAvatar(job[r].user, f)
  BY <1>1 DEF Fits, WriteAvatar, Prepared
<1>3. /\ job[r].user \in Users
      /\ UNCHANGED <<cards, comments, stored, rows, told, calm>>
      /\ avatar' = [avatar EXCEPT ![job[r].user] = f]
      /\ spilled' = (spilled \/ avatar[job[r].user] # None)
      /\ job' = [job EXCEPT ![r] = Idle]
  BY <1>1, <1>2 DEF Fits, SetAvatar, WriteAvatar
<1>4. CommentsKeep
  BY <1>3 DEF CommentsKeep
<1>5. /\ JobsInv' /\ job' \in [Requests -> Job] /\ Prepared(r)' = {}
      /\ \A q \in Requests \ {r} : Prepared(q)' = Prepared(q)
  BY <1>3, <1>4, IdleFits, OneJob DEF Inv
<1>6. TypeOK'
  BY <1>3, <1>5 DEF Inv, TypeOK
<1>7. FilesStep /\ Authored
  BY <1>3, <1>5 DEF FilesStep, Quiet, Authored, Touched
<1>8. Keeps
  <2>1. avatar'[job[r].user] = f
    BY <1>3 DEF Inv, TypeOK
  <2>2. \A u \in Users \ {job[r].user} : avatar'[u] = avatar[u]
    BY <1>3 DEF Inv, TypeOK
  <2> QED BY <1>2, <1>3, <1>5, <2>1, <2>2 DEF Keeps
<1> QED BY <1>5, <1>6, <1>7, <1>8 DEF Good

-----------------------------------------------------------------------------
(* The invariant is inductive.                                             *)

LEMMA StepGood ==
  ASSUME Inv, [Next]_vars
  PROVE  Good
<1>1. ASSUME NEW r \in Requests, Arrive(r)
      PROVE  Good
  <2>1. PICK u \in Users :
          \/ \E dto \in UpdateProfileDto : UpdateProfile(r, u, dto.avatar)
          \/ UploadAvatar(r, u)
          \/ \E c \in Comments : CommentRemoveCheck(r, u, c)
          \/ \E n \in 0 .. MaxFiles :
               \/ \E v \in Values : CardCreateCheck(r, u, v, n)
               \/ \E k \in Cards, dto \in CreateCommentDto :
                    CommentCreateCheck(r, u, k, dto.content, n)
               \/ \E c \in Comments, dto \in UpdateCommentDto :
                    CommentUpdateCheck(r, u, c, dto.content, dto.removeAttachmentIds, n)
               \/ \E k \in Cards, dto \in UpdateCardDto :
                    CardUpdateCheck(r, u, k, dto.value, dto.removeAttachmentIds, n)
    BY <1>1 DEF Arrive
  <2>2. CASE \E dto \in UpdateProfileDto : UpdateProfile(r, u, dto.avatar)
    BY <2>2, UpdateProfileGood
  <2>3. CASE ~(\E dto \in UpdateProfileDto : UpdateProfile(r, u, dto.avatar))
    BY <2>1, <2>3, ArriveGood
  <2> QED BY <2>2, <2>3
<1>2. ASSUME NEW r \in Requests, Step(r)
      PROVE  Good
  BY <1>2, UploadGood, InsertCommentGood, RecordGood, InsertCardGood, EditCommentGood,
     DropGood, AddToCommentGood, RemoveCommentGood, EditCardGood, AddToCardGood,
     RereadCardGood, WriteAvatarGood DEF Step
<1>3. ASSUME NEW r \in Requests, Fail(r)
      PROVE  Good
  BY <1>3, FailGood
<1>4. ASSUME NEW k \in Cards, RemoveCard(k)
      PROVE  Good
  BY <1>4, RemoveCardGood
<1>5. CASE UNCHANGED vars
  <2>1. TypeOK' /\ JobsInv'
    BY <1>5 DEF Inv, TypeOK, JobsInv, Fits, vars
  <2>2. FilesStep /\ Keeps /\ Authored
    BY <1>5 DEF FilesStep, Quiet, Keeps, Authored, Touched, vars, Prepared
  <2> QED BY <2>1, <2>2 DEF Good
<1> QED BY <1>1, <1>2, <1>3, <1>4, <1>5 DEF Next

LEMMA FilesStepInv ==
  ASSUME FilesInv, TypeOK, FilesStep
  PROVE  FilesInv'
<1>1. CASE Quiet
  BY <1>1 DEF FilesInv, Quiet
<1>2. ASSUME NEW r \in Requests, NEW f \in Files, Uploads(r, f)
      PROVE  FilesInv'
  <2>1. rows[f].owner = None
    BY <1>2 DEF FilesInv, Uploads
  <2>2. \A q \in Requests : f \notin Prepared(q)
    BY <1>2 DEF FilesInv, Uploads
  <2> QED BY <1>2, <2>1, <2>2 DEF FilesInv, Uploads
<1>3. ASSUME NEW r \in Requests, NEW o \in Owners, Attaches(r, o)
      PROVE  FilesInv'
  <2>1. \A f \in Files : rows'[f].owner = IF f \in Prepared(r) THEN o ELSE rows[f].owner
    BY <1>3 DEF Attaches
  <2>2. \A q \in Requests : Prepared(q) \subseteq Files
    BY DEF TypeOK, Job, Prepared
  <2>3. \A q \in Requests : \A f \in Prepared(q)' : f \in stored' /\ rows'[f].owner = None
    BY <1>3, <2>1, <2>2 DEF FilesInv, Attaches
  <2>4. \A p, q \in Requests : p # q => Prepared(p)' \cap Prepared(q)' = {}
    BY <1>3 DEF FilesInv, Attaches
  <2>5. \A f \in Files : rows'[f].owner # None => f \in stored'
    BY <1>3, <2>1 DEF FilesInv, Attaches
  <2> QED BY <2>3, <2>4, <2>5 DEF FilesInv
<1>4. ASSUME NEW F \in SUBSET Files, NEW o \in Owners, Detaches(F, o)
      PROVE  FilesInv'
  <2>1. \A f \in Files : rows'[f].owner = rows[f].owner
    BY <1>4 DEF Detaches, TypeOK, Row
  <2>2. \A q \in Requests : Prepared(q) \subseteq Files
    BY DEF TypeOK, Job, Prepared
  <2> QED BY <1>4, <2>1, <2>2 DEF FilesInv, Detaches
<1> QED BY <1>1, <1>2, <1>3, <1>4 DEF FilesStep

\* A file with a row keeps one, so that Keeps carries NoStrayFile along.
LEMMA NoStrayStep ==
  ASSUME FilesInv, TypeOK, NoStrayFile, FilesStep, Keeps
  PROVE  NoStrayFile'
<1>1. \A f \in Files : rows[f].owner # None => rows'[f].owner # None
  <2>1. ASSUME NEW r \in Requests, NEW o \in Owners, Attaches(r, o), NEW f \in Files
        PROVE  rows[f].owner # None => rows'[f].owner # None
    BY <2>1 DEF Attaches, FilesInv
  <2>2. ASSUME NEW F \in SUBSET Files, NEW o \in Owners, Detaches(F, o), NEW f \in Files
        PROVE  rows[f].owner # None => rows'[f].owner # None
    BY <2>2 DEF Detaches, TypeOK, Row
  <2> QED BY <2>1, <2>2 DEF FilesStep, Quiet, Uploads
<1>2. \A f \in stored' : f \in stored \/ \E q \in Requests : f \in Prepared(q)'
  BY DEF FilesStep, Quiet, Uploads, Attaches, Detaches
<1>3. SUFFICES ASSUME ~spilled', NEW f \in stored'
               PROVE  \/ rows'[f].owner # None
                      \/ \E u \in Users : avatar'[u] = f
                      \/ \E q \in Requests : f \in Prepared(q)'
  BY DEF NoStrayFile, Prepared
<1>4. CASE f \in stored
  <2>1. \/ rows[f].owner # None
        \/ \E u \in Users : avatar[u] = f
        \/ \E q \in Requests : f \in Prepared(q)
    BY <1>3, <1>4 DEF NoStrayFile, Keeps, Prepared
  <2>2. f \in Files /\ f # None
    BY <1>4, ContentAssumption DEF TypeOK
  <2> QED BY <1>1, <1>3, <2>1, <2>2 DEF Keeps
<1> QED BY <1>2, <1>4

LEMMA NextInv ==
  ASSUME Inv, [Next]_vars
  PROVE  Inv' /\ FilesStep /\ Authored
BY StepGood, FilesStepInv, NoStrayStep DEF Inv, Good

LEMMA Invariance == Spec => []Inv
BY InitInv, NextInv, PTL DEF Spec

-----------------------------------------------------------------------------
(* The theorems.                                                           *)

\* Every variable has its type: what a request remembers is there when a later
\* statement of it needs it.
THEOREM TypeCorrect == Spec => []TypeOK
BY Invariance, PTL DEF Inv

\* Until a request fails behind an upload or an avatar is replaced, every file
\* in storage has a row, is an avatar, or is still held by its request
\* (uploadFiles, createMany, updateProfile).
THEOREM NoFileStrays == Spec => []NoStrayFile
BY Invariance, PTL DEF Inv

\* Only a request of its author changes a comment or takes its files, whatever
\* ids clients send and however requests overlap (ensureCommentOwner,
\* softDeleteForComment).
THEOREM OnlyAuthorsChange == Spec => AuthorOnly
<1>1. Inv /\ [Next]_vars => [Authored]_vars
  BY NextInv
<1>2. [Authored]_vars =>
        [\A c \in Comments :
           /\ LiveComment(c)
           /\ \/ comments'[c] # comments[c]
              \/ \E f \in FilesOf(c) : rows'[f] # rows[f]
           => \E r \in Requests :
                /\ job[r].owner = c
                /\ job[r].user = comments[c].user
                /\ job'[r] # job[r]]_vars
  BY DEF Authored, Touched
<1> QED BY <1>1, <1>2, Invariance, PTL DEF Spec, AuthorOnly

OwnerOf == [f \in Files |-> rows[f].owner]

\* Each kind of step is an operation of FileStore or a stutter.
LEMMA StoreStep ==
  ASSUME Inv, FilesStep
  PROVE  Store!Next \/ UNCHANGED <<stored, OwnerOf, Downloadable>>
<1>1. CASE Quiet
  BY <1>1 DEF Quiet, OwnerOf, Downloadable, AttachmentIds
<1>2. ASSUME NEW r \in Requests, NEW f \in Files, Uploads(r, f)
      PROVE  Store!Next
  <2>1. UNCHANGED <<OwnerOf, Downloadable>>
    BY <1>2 DEF Uploads, OwnerOf, Downloadable, AttachmentIds
  <2>2. Store!Store(f)
    BY <1>2, <2>1 DEF Uploads, Store!Store, OwnerOf
  <2> QED BY <2>2 DEF Store!Next
<1>3. ASSUME NEW r \in Requests, NEW o \in Owners, Attaches(r, o)
      PROVE  Store!Next
  <2>1. /\ Prepared(r) \subseteq stored /\ Prepared(r) \in SUBSET Files
        /\ \A f \in Prepared(r) : OwnerOf[f] = None
    BY DEF Inv, FilesInv, TypeOK, OwnerOf
  <2>2. OwnerOf' = [f \in Files |-> IF f \in Prepared(r) THEN o ELSE OwnerOf[f]]
    BY <1>3 DEF Attaches, OwnerOf
  <2>3. Downloadable' = Downloadable \cup Prepared(r)
    BY <1>3, <2>1, ContentAssumption DEF Attaches, Downloadable, AttachmentIds, Owners
  <2>4. PICK F \in SUBSET Files : F = Prepared(r)
    BY <2>1
  <2>5. Store!Attach(o, F)
    BY <1>3, <2>1, <2>2, <2>3, <2>4 DEF Attaches, Store!Attach, OwnerOf
  <2> QED BY <2>5 DEF Store!Next
<1>4. ASSUME NEW F \in SUBSET Files, NEW o \in Owners, Detaches(F, o)
      PROVE  Store!Next
  <2>0. PICK G \in SUBSET Files : G = {f \in F : rows[f].owner = o}
    OBVIOUS
  <2>1. \A f \in Files : /\ rows'[f].owner = rows[f].owner
                         /\ rows'[f].live <=> (rows[f].live /\ f \notin G)
    BY <1>4, <2>0 DEF Detaches, Inv, TypeOK, Row
  <2>2. OwnerOf' = OwnerOf
    BY <2>1 DEF OwnerOf
  <2>3. Downloadable' = Downloadable \ G
    BY <2>1 DEF Downloadable, AttachmentIds
  <2>4. Store!Remove(o, G)
    BY <1>4, <2>0, <2>2, <2>3 DEF Detaches, Store!Remove, OwnerOf
  <2> QED BY <2>4 DEF Store!Next
<1> QED BY <1>1, <1>2, <1>3, <1>4 DEF FilesStep

\* The attachments of the code, uploaded one by one and attached and removed in
\* later steps, implement FileStore.
THEOREM FilesAreKept == Spec => FilesKept
<1>1. Init => Store!Init
  BY DEF Init, Store!Init, Downloadable, AttachmentIds
<1>2. Inv /\ [Next]_vars => [Store!Next]_<<stored, OwnerOf, Downloadable>>
  BY NextInv, StoreStep
<1> QED BY <1>1, <1>2, Invariance, PTL DEF Spec, FilesKept, Store!Spec, OwnerOf

-----------------------------------------------------------------------------
(* While requests do not overlap and no update is broken off (calm), what  *)
(* the one request still owes to its comment or to the history of its card *)
(* is known (Promise); all other comments and cards are in order.          *)

Editing(j, c) ==
  j.at \in {"editComment", "dropFromComment", "addToComment"} /\ j.owner = c

Updates(j, k) ==
  j.at \in {"editCard", "dropFromCard", "addToCard", "rereadCard", "record"} /\ j.owner = k

Body(c) == comments[c].text # "empty" \/ FilesOf(c) # {}

\* Files that are still to come.
Coming(j) == j.left > 0 \/ j.prepared # {}

Promise(j) ==
  /\ j.at = "createComment" => j.text # "empty" \/ Coming(j)
  /\ j.at = "editComment" =>
       j.text # "empty" \/ FilesOf(j.owner) \ j.drop # {} \/ Coming(j)
  /\ j.at = "dropFromComment" =>
       comments[j.owner].text # "empty" \/ FilesOf(j.owner) \ j.drop # {} \/ Coming(j)
  /\ j.at = "addToComment" => Body(j.owner) \/ Coming(j)
  /\ \A k \in Cards : Updates(j, k) /\ LiveCard(k) =>
       /\ told[k] = j.before
       /\ j.at = "record" => cards[k].value = j.after

Bodied(c) == LiveComment(c) /\ comments[c].type = "USER" => Body(c)

Told(k) == LiveCard(k) => told[k] = cards[k].value

CalmInv ==
  calm =>
    /\ \A r, q \in Requests : At(r, "idle") \/ At(q, "idle") \/ r = q
    /\ \A r \in Requests : Promise(job[r])
    /\ \A c \in Comments : Bodied(c) \/ \E r \in Requests : Editing(job[r], c)
    /\ \A k \in Cards : Told(k) \/ \E r \in Requests : Updates(job[r], k)

LEMMA IdlePromise ==
  ASSUME NEW j, j.at = "idle"
  PROVE  /\ Promise(j) /\ Promise(j)'
         /\ \A c : ~Editing(j, c) /\ ~Editing(j, c)'
         /\ \A k : ~Updates(j, k) /\ ~Updates(j, k)'
BY DEF Promise, Editing, Updates

\* What holds while request r is the one in flight ...
LEMMA Sole ==
  ASSUME CalmInv, calm, NEW r \in Requests, ~At(r, "idle")
  PROVE  /\ \A q \in Requests \ {r} : At(q, "idle")
         /\ Promise(job[r])
         /\ \A c \in Comments : Bodied(c) \/ Editing(job[r], c)
         /\ \A k \in Cards : Told(k) \/ Updates(job[r], k)
<1>1. \A q \in Requests \ {r} : At(q, "idle")
  BY DEF CalmInv
<1>2. \A q \in Requests \ {r} : /\ \A c : ~Editing(job[q], c)
                                /\ \A k : ~Updates(job[q], k)
  BY <1>1 DEF Editing, Updates, At
<1> QED BY <1>1, <1>2 DEF CalmInv

\* ... and while there is none.
LEMMA NoneInFlight ==
  ASSUME CalmInv, calm, AllIdle
  PROVE  (\A c \in Comments : Bodied(c)) /\ (\A k \in Cards : Told(k))
<1>1. \A q \in Requests : /\ \A c : ~Editing(job[q], c)
                          /\ \A k : ~Updates(job[q], k)
  BY DEF AllIdle, At, Editing, Updates
<1> QED BY <1>1 DEF CalmInv

\* The step of the one request that is in flight afterwards.
LEMMA CalmStep ==
  ASSUME TypeOK, NEW r \in Requests, NEW j, job' = [job EXCEPT ![r] = j],
         calm' => /\ \A q \in Requests \ {r} : At(q, "idle")
                  /\ Promise(j)'
                  /\ \A c \in Comments : Bodied(c)' \/ Editing(j, c)
                  /\ \A k \in Cards : Told(k)' \/ Updates(j, k)
  PROVE  CalmInv'
<1> SUFFICES ASSUME calm'
             PROVE  /\ \A p, q \in Requests : At(p, "idle")' \/ At(q, "idle")' \/ p = q
                    /\ \A q \in Requests : Promise(job[q])'
                    /\ \A c \in Comments :
                         Bodied(c)' \/ \E q \in Requests : Editing(job[q], c)'
                    /\ \A k \in Cards :
                         Told(k)' \/ \E q \in Requests : Updates(job[q], k)'
  BY DEF CalmInv
<1>1. job'[r] = j /\ \A q \in Requests \ {r} : job'[q] = job[q]
  BY DEF TypeOK
<1>2. \A q \in Requests \ {r} : At(q, "idle")'
  BY <1>1 DEF At
<1>3. \A q \in Requests \ {r} : Promise(job[q])'
  BY <1>2, IdlePromise DEF At
<1>4. Promise(job[r])'
  BY <1>1 DEF Promise, Updates, Coming
<1>5. \A c \in Comments : Editing(j, c) => Editing(job[r], c)'
  BY <1>1 DEF Editing
<1>6. \A k \in Cards : Updates(j, k) => Updates(job[r], k)'
  BY <1>1 DEF Updates
<1> QED BY <1>2, <1>3, <1>4, <1>5, <1>6

\* A request ends.
LEMMA FinishCalm ==
  ASSUME TypeOK, CalmInv, NEW r \in Requests, ~At(r, "idle"),
         job' = [job EXCEPT ![r] = Idle], calm' => calm,
         calm' => (\A c \in Comments : Bodied(c)') /\ (\A k \in Cards : Told(k)')
  PROVE  CalmInv'
<1>1. Promise(Idle)'
  BY IdlePromise DEF Idle
<1> QED BY <1>1, Sole, CalmStep

\* Nothing changes of what CalmInv is about.
LEMMA SameBodied ==
  ASSUME UNCHANGED <<comments, rows>>, NEW c
  PROVE  (Bodied(c)' <=> Bodied(c)) /\ FilesOf(c)' = FilesOf(c)
BY DEF Bodied, LiveComment, Body, FilesOf

LEMMA SameTold ==
  ASSUME UNCHANGED <<cards, told>>, NEW k
  PROVE  Told(k)' <=> Told(k)
BY DEF Told, LiveCard

LEMMA SamePromise ==
  ASSUME UNCHANGED <<comments, rows, cards, told>>, NEW j
  PROVE  Promise(j)' <=> Promise(j)
BY DEF Promise, Body, FilesOf, Updates, LiveCard, Coming

LEMMA SameCalm ==
  ASSUME CalmInv, UNCHANGED <<cards, comments, rows, told, job, calm>>
  PROVE  CalmInv'
BY DEF CalmInv, At, Promise, Bodied, Told, Editing, Updates, Body, FilesOf, LiveComment,
       LiveCard, Coming

LEMMA BeginCalm ==
  ASSUME Inv, CalmInv, NEW r \in Requests, NEW j \in Job, Begin(r, j),
         UNCHANGED <<cards, comments, files, told>>,
         (\A k \in Cards : Told(k)) => Promise(j)
  PROVE  CalmInv'
<1>1. calm' => calm /\ AllIdle
  BY DEF Begin
<1>2. calm' => (\A c \in Comments : Bodied(c)') /\ (\A k \in Cards : Told(k)')
  BY <1>1, NoneInFlight, SameBodied, SameTold DEF files
<1>3. calm' => Promise(j)'
  BY <1>1, NoneInFlight, SamePromise DEF files
<1>4. calm' => \A q \in Requests : At(q, "idle")
  BY <1>1 DEF AllIdle
<1>5. job' = [job EXCEPT ![r] = j] /\ TypeOK
  BY DEF Begin, Inv
<1> QED BY <1>2, <1>3, <1>4, <1>5, CalmStep

\* What becomes of the files of comments.
LEMMA AttachFiles ==
  ASSUME Inv, NEW r \in Requests, NEW o, Attach(Prepared(r), o)
  PROVE  \A c \in Comments : /\ FilesOf(c) \subseteq FilesOf(c)'
                             /\ c = o => Prepared(r) \subseteq FilesOf(c)'
<1>1. \A f \in Prepared(r) : f \in Files /\ rows[f].owner = None
  BY DEF Inv, FilesInv, TypeOK
<1>2. None \notin Comments
  BY ContentAssumption
<1> QED BY <1>1, <1>2 DEF Attach, FilesOf

LEMMA DetachFiles ==
  ASSUME Inv, NEW D, NEW o, Detach(D, o)
  PROVE  \A c \in Comments : /\ c # o => FilesOf(c)' = FilesOf(c)
                             /\ FilesOf(c) \ D \subseteq FilesOf(c)'
<1>1. \A f \in Files : /\ rows'[f].owner = rows[f].owner
                       /\ rows'[f].live <=> rows[f].live /\ ~(f \in D /\ rows[f].owner = o)
  BY DEF Detach, Inv, TypeOK, Row
<1> QED BY <1>1 DEF FilesOf

-----------------------------------------------------------------------------
(* Requests arrive.                                                        *)

LEMMA ArriveCalm ==
  ASSUME Inv, CalmInv, NEW r \in Requests, NEW u \in Users,
         \/ UploadAvatar(r, u)
         \/ \E c \in Comments : CommentRemoveCheck(r, u, c)
         \/ \E n \in 0 .. MaxFiles, v \in Values : CardCreateCheck(r, u, v, n)
  PROVE  CalmInv'
<1>0. 0 \in 0 .. MaxFiles /\ 1 \in 0 .. MaxFiles
  BY ContentAssumption
<1>1. PICK j \in Job : /\ j.at \in {"setAvatar", "removeComment", "createCard"}
                       /\ Begin(r, j)
                       /\ UNCHANGED <<cards, comments, files, told>>
  <2>1. CASE UploadAvatar(r, u)
    <3>1. [Idle EXCEPT !.at = "setAvatar", !.user = u, !.left = 1] \in Job
      BY <1>0 DEF Idle, Job, Places
    <3> QED BY <2>1, <3>1 DEF UploadAvatar, Idle
  <2>2. ASSUME NEW c \in Comments, CommentRemoveCheck(r, u, c)
        PROVE  \E j \in Job : /\ j.at \in {"setAvatar", "removeComment", "createCard"}
                              /\ Begin(r, j)
                              /\ UNCHANGED <<cards, comments, files, told>>
    <3>1. [Idle EXCEPT !.at = "removeComment", !.user = u, !.owner = c] \in Job
      BY <1>0 DEF Idle, Job, Places, Owners
    <3> QED BY <2>2, <3>1 DEF CommentRemoveCheck, Idle
  <2>3. ASSUME NEW n \in 0 .. MaxFiles, NEW v \in Values, CardCreateCheck(r, u, v, n)
        PROVE  \E j \in Job : /\ j.at \in {"setAvatar", "removeComment", "createCard"}
                              /\ Begin(r, j)
                              /\ UNCHANGED <<cards, comments, files, told>>
    <3>1. [Idle EXCEPT !.at = "createCard", !.user = u, !.value = v, !.left = n] \in Job
      BY DEF Idle, Job, Places
    <3> QED BY <2>3, <3>1 DEF CardCreateCheck, Idle
  <2> QED BY <2>1, <2>2, <2>3
<1>2. Promise(j)
  BY <1>1 DEF Promise, Updates
<1> QED BY <1>1, <1>2, BeginCalm

LEMMA CommentCreateCalm ==
  ASSUME Inv, CalmInv, NEW r \in Requests, NEW u \in Users, NEW k \in Cards,
         NEW text \in {"empty", "words"}, NEW n \in 0 .. MaxFiles,
         CommentCreateCheck(r, u, k, text, n)
  PROVE  CalmInv'
<1>1. PICK j \in Job :
        /\ j.at = "createComment" /\ j.text = text /\ j.left = n /\ Begin(r, j)
        /\ UNCHANGED <<cards, comments, files, told>>
  <2>1. [Idle EXCEPT !.at = "createComment", !.user = u, !.owner = k,
                     !.text = text, !.left = n] \in Job
    BY DEF Idle, Job, Places, Owners, Texts
  <2> QED BY <2>1 DEF CommentCreateCheck, Idle
<1>2. text = "empty" => n > 0
  BY DEF CommentCreateCheck
<1>3. Promise(j)
  BY <1>1, <1>2 DEF Promise, Updates, Coming
<1> QED BY <1>1, <1>3, BeginCalm

LEMMA CommentUpdateCalm ==
  ASSUME Inv, CalmInv, NEW r \in Requests, NEW u \in Users, NEW c \in Comments,
         NEW text \in {"empty", "words", None}, NEW D \in SUBSET Files,
         NEW n \in 0 .. MaxFiles, CommentUpdateCheck(r, u, c, text, D, n)
  PROVE  CalmInv'
<1> DEFINE place == IF text = None THEN "dropFromComment" ELSE "editComment"
<1>1. PICK j \in Job :
        /\ j.at = place /\ j.owner = c /\ j.text = text /\ j.drop = D /\ j.left = n
        /\ Begin(r, j) /\ UNCHANGED <<cards, comments, files, told>>
  <2>1. [Idle EXCEPT !.at = place, !.user = u, !.owner = c, !.text = text,
                     !.drop = D, !.left = n] \in Job
    BY DEF Idle, Job, Places, Owners, Texts
  <2> QED BY <2>1 DEF CommentUpdateCheck, Idle
<1>2. \/ text = "words"
      \/ text = None /\ comments[c].text # "empty"
      \/ FilesOf(c) \ D # {}
      \/ n > 0
  BY DEF CommentUpdateCheck
<1>3. Promise(j)
  BY <1>1, <1>2, ContentAssumption DEF Promise, Updates, Coming, Texts
<1> QED BY <1>1, <1>3, BeginCalm

LEMMA CardUpdateCalm ==
  ASSUME Inv, CalmInv, NEW r \in Requests, NEW u \in Users, NEW k \in Cards,
         NEW v \in Values, NEW D \in SUBSET Files, NEW n \in 0 .. MaxFiles,
         CardUpdateCheck(r, u, k, v, D, n)
  PROVE  CalmInv'
<1>1. PICK j \in Job :
        /\ j.at = "editCard" /\ j.owner = k /\ j.before = cards[k].value
        /\ Begin(r, j) /\ UNCHANGED <<cards, comments, files, told>>
  <2>1. cards[k].value \in Values \cup {None}
    BY DEF Inv, TypeOK, Card
  <2>2. [Idle EXCEPT !.at = "editCard", !.user = u, !.owner = k, !.value = v,
                     !.drop = D, !.left = n, !.before = cards[k].value] \in Job
    BY <2>1 DEF Idle, Job, Places, Owners
  <2> QED BY <2>2 DEF CardUpdateCheck, Snapshot, Idle
<1>2. (\A i \in Cards : Told(i)) => Promise(j)
  BY <1>1 DEF Promise, Updates, Told
<1> QED BY <1>1, <1>2, BeginCalm

LEMMA FailCalm ==
  ASSUME Inv, CalmInv, NEW r \in Requests, Fail(r)
  PROVE  CalmInv'
<1>1. /\ ~At(r, "idle") /\ job' = [job EXCEPT ![r] = Idle]
      /\ calm' = (calm /\ job[r].at \notin Updating)
      /\ UNCHANGED <<cards, comments, files, told>>
  BY DEF Fail
<1>2. job[r].at \notin Updating =>
        (\A c : ~Editing(job[r], c)) /\ (\A k : ~Updates(job[r], k))
  BY DEF Updating, Editing, Updates
<1>3. calm' => (\A c \in Comments : Bodied(c)') /\ (\A k \in Cards : Told(k)')
  BY <1>1, <1>2, Sole, SameBodied, SameTold DEF files
<1> QED BY <1>1, <1>3, FinishCalm DEF Inv

LEMMA RemoveCardCalm ==
  ASSUME Inv, CalmInv, NEW k \in Cards, RemoveCard(k)
  PROVE  CalmInv'
<1>1. UNCHANGED <<comments, files, job, told, calm>>
  BY DEF RemoveCard
<1>2. \A i \in Cards : LiveCard(i)' => LiveCard(i) /\ cards'[i] = cards[i]
  BY DEF RemoveCard, LiveCard, Inv, TypeOK, Card
<1>3. \A j : Promise(j) => Promise(j)'
  BY <1>1, <1>2 DEF Promise, Body, FilesOf, Updates, Coming, files
<1>4. \A i \in Cards : Told(i) => Told(i)'
  BY <1>1, <1>2 DEF Told
<1>5. \A c \in Comments : Bodied(c)' <=> Bodied(c)
  BY <1>1, SameBodied DEF files
<1>6. \A q \in Requests : Promise(job[q]) => Promise(job[q])'
  <2> SUFFICES ASSUME NEW q \in Requests, Promise(job[q]) PROVE Promise(job[q])'
    OBVIOUS
  <2>1. Promise(job[q]) /\ job'[q] = job[q]
    BY <1>1
  <2> QED BY <1>1, <1>2, <2>1 DEF Promise, Body, FilesOf, Updates, Coming, files
<1> QED BY <1>1, <1>4, <1>5, <1>6 DEF CalmInv, At, Editing, Updates

-----------------------------------------------------------------------------
(* Requests go on.                                                         *)

LEMMA UploadCalm ==
  ASSUME Inv, CalmInv, NEW r \in Requests, Upload(r)
  PROVE  CalmInv'
<1>1. PICK f \in Files :
        job' = [job EXCEPT ![r] = [job[r] EXCEPT !.left = job[r].left - 1,
                                                !.prepared = job[r].prepared \cup {f}]]
  BY DEF Upload
<1>2. PICK j : j = [job[r] EXCEPT !.left = job[r].left - 1,
                                  !.prepared = job[r].prepared \cup {f}]
  OBVIOUS
<1>3. /\ j.at = job[r].at /\ j.owner = job[r].owner /\ j.text = job[r].text
      /\ j.drop = job[r].drop /\ j.before = job[r].before /\ j.after = job[r].after
      /\ j.prepared # {}
  BY <1>2 DEF Inv, TypeOK, Job
<1>4. ~At(r, "idle") /\ UNCHANGED <<cards, comments, rows, told, calm>>
  BY DEF Upload, At, Uploading
<1>5. Promise(job[r]) => Promise(j)
  BY <1>3 DEF Promise, Updates, Coming
<1>6. Promise(j)' <=> Promise(j)
  BY <1>4, SamePromise
<1>7. /\ \A c \in Comments : Editing(job[r], c) => Editing(j, c)
      /\ \A k \in Cards : Updates(job[r], k) => Updates(j, k)
  BY <1>3 DEF Editing, Updates
<1>8. job' = [job EXCEPT ![r] = j]
  BY <1>1, <1>2
<1> QED BY <1>4, <1>5, <1>6, <1>7, <1>8, Sole, SameBodied, SameTold, CalmStep DEF Inv

LEMMA InsertCommentCalm ==
  ASSUME Inv, CalmInv, NEW r \in Requests, NEW c \in Comments, InsertComment(r, c)
  PROVE  CalmInv'
<1>1. /\ job[r].at = "createComment" /\ job[r].left = 0
      /\ comments' = [comments EXCEPT ![c] =
           NewComment(job[r].owner, job[r].user, "USER", job[r].text)]
      /\ Attach(Prepared(r), c) /\ job' = [job EXCEPT ![r] = Idle]
      /\ UNCHANGED <<cards, told, calm>>
  BY DEF InsertComment, At, Finish, Prepared
<1>2. comments'[c].text = job[r].text /\ \A d \in Comments \ {c} : comments'[d] = comments[d]
  BY <1>1 DEF Inv, TypeOK, NewComment
<1>3. (\A d : ~Editing(job[r], d)) /\ (\A k : ~Updates(job[r], k)) /\ ~At(r, "idle")
  BY <1>1 DEF Editing, Updates, At
<1>4. Promise(job[r]) => job[r].text # "empty" \/ Prepared(r) # {}
  BY <1>1 DEF Promise, Coming, Prepared
<1>5. \A d \in Comments : FilesOf(d) \subseteq FilesOf(d)'
  BY <1>1, AttachFiles
<1>6. Prepared(r) \subseteq FilesOf(c)'
  BY <1>1, AttachFiles
<1>7. Promise(job[r]) => Bodied(c)'
  BY <1>2, <1>4, <1>6 DEF Bodied, Body
<1>8. \A d \in Comments \ {c} : Bodied(d) => Bodied(d)'
  BY <1>2, <1>5 DEF Bodied, Body, LiveComment
<1> QED BY <1>1, <1>3, <1>7, <1>8, Sole, SameTold, FinishCalm DEF Inv

LEMMA RecordCalm ==
  ASSUME Inv, CalmInv, NEW r \in Requests, NEW c \in Comments, RecordCardUpdate(r, c)
  PROVE  CalmInv'
<1>1. /\ job[r].at = "record" /\ job[r].owner \in Cards
      /\ comments' = [comments EXCEPT ![c] =
           NewComment(job[r].owner, job[r].user, "SYSTEM", "delta")]
      /\ told' = [told EXCEPT ![job[r].owner] =
                    IF told[job[r].owner] = job[r].before THEN job[r].after ELSE None]
      /\ job' = [job EXCEPT ![r] = Idle]
      /\ UNCHANGED <<cards, files, calm>>
  BY DEF RecordCardUpdate, At, Finish, Inv, JobsInv, Fits, CardPlaces
<1>2. comments'[c].type = "SYSTEM" /\ \A d \in Comments \ {c} : comments'[d] = comments[d]
  BY <1>1 DEF Inv, TypeOK, NewComment
<1>3. (\A d : ~Editing(job[r], d)) /\ ~At(r, "idle")
  BY <1>1 DEF Editing, At
<1>4. \A d \in Comments : Bodied(d) => Bodied(d)'
  BY <1>1, <1>2 DEF Bodied, Body, LiveComment, FilesOf, files
<1>5. \A k \in Cards : Updates(job[r], k) <=> k = job[r].owner
  BY <1>1 DEF Updates
<1>6. /\ told'[job[r].owner] =
           IF told[job[r].owner] = job[r].before THEN job[r].after ELSE None
      /\ \A k \in Cards \ {job[r].owner} : told'[k] = told[k]
  BY <1>1 DEF Inv, TypeOK
<1>7. \A k \in Cards \ {job[r].owner} : Told(k) => Told(k)'
  BY <1>1, <1>6 DEF Told, LiveCard
<1>8. ASSUME NEW k \in Cards, k = job[r].owner, Promise(job[r])
      PROVE  Told(k)'
  BY <1>1, <1>5, <1>6, <1>8 DEF Promise, Told, LiveCard
<1>9. \A k \in Cards : Promise(job[r]) /\ (Told(k) \/ Updates(job[r], k)) => Told(k)'
  BY <1>5, <1>7, <1>8
<1> QED BY <1>1, <1>3, <1>4, <1>9, Sole, FinishCalm DEF Inv

LEMMA InsertCardCalm ==
  ASSUME Inv, CalmInv, NEW r \in Requests, NEW k \in Cards, InsertCard(r, k)
  PROVE  CalmInv'
<1>1. /\ job[r].at = "createCard"
      /\ cards' = [cards EXCEPT ![k] = [status |-> "live", value |-> job[r].value]]
      /\ told' = [told EXCEPT ![k] = job[r].value]
      /\ Attach(Prepared(r), k) /\ job' = [job EXCEPT ![r] = Idle]
      /\ UNCHANGED <<comments, calm>>
  BY DEF InsertCard, At, Finish, Prepared
<1>2. (\A d : ~Editing(job[r], d)) /\ (\A i : ~Updates(job[r], i)) /\ ~At(r, "idle")
  BY <1>1 DEF Editing, Updates, At
<1>3. \A c \in Comments : Bodied(c) => Bodied(c)'
  BY <1>1, AttachFiles DEF Bodied, Body, LiveComment
<1>4. Told(k)'
  BY <1>1 DEF Told, Inv, TypeOK
<1>5. \A i \in Cards \ {k} : Told(i) => Told(i)'
  BY <1>1 DEF Told, LiveCard, Inv, TypeOK
<1> QED BY <1>1, <1>2, <1>3, <1>4, <1>5, Sole, FinishCalm DEF Inv

LEMMA RemoveCommentCalm ==
  ASSUME Inv, CalmInv, NEW r \in Requests, RemoveComment(r)
  PROVE  CalmInv'
<1>1. /\ job[r].at = "removeComment"
      /\ comments' = [comments EXCEPT ![job[r].owner].status = "deleted"]
      /\ job' = [job EXCEPT ![r] = Idle]
      /\ UNCHANGED <<cards, files, told, calm>>
  BY DEF RemoveComment, At, Finish
<1>2. (\A d : ~Editing(job[r], d)) /\ (\A i : ~Updates(job[r], i)) /\ ~At(r, "idle")
  BY <1>1 DEF Editing, Updates, At
<1>3. \A c \in Comments : LiveComment(c)' => comments'[c] = comments[c]
  BY <1>1 DEF LiveComment, Inv, TypeOK, Comment
<1>4. \A c \in Comments : Bodied(c) => Bodied(c)'
  BY <1>1, <1>3 DEF Bodied, Body, LiveComment, FilesOf, files
<1> QED BY <1>1, <1>2, <1>4, Sole, SameTold, FinishCalm DEF Inv

LEMMA WriteAvatarCalm ==
  ASSUME Inv, CalmInv, NEW r \in Requests, WriteAvatar(r)
  PROVE  CalmInv'
<1>1. /\ job[r].at = "setAvatar" /\ job' = [job EXCEPT ![r] = Idle]
      /\ UNCHANGED <<cards, comments, rows, told, calm>>
  BY DEF WriteAvatar, SetAvatar, At
<1>2. (\A d : ~Editing(job[r], d)) /\ (\A i : ~Updates(job[r], i)) /\ ~At(r, "idle")
  BY <1>1 DEF Editing, Updates, At
<1> QED BY <1>1, <1>2, Sole, SameBodied, SameTold, FinishCalm DEF Inv

LEMMA AddToCommentCalm ==
  ASSUME Inv, CalmInv, NEW r \in Requests, AddToComment(r)
  PROVE  CalmInv'
<1>1. /\ job[r].at = "addToComment" /\ job[r].left = 0
      /\ Attach(Prepared(r), job[r].owner) /\ job' = [job EXCEPT ![r] = Idle]
      /\ UNCHANGED <<cards, comments, told, calm>>
  BY DEF AddToComment, At, Finish, Prepared
<1>2. PICK c \in Comments : c = job[r].owner
  BY <1>1 DEF Inv, JobsInv, Fits, CommentPlaces
<1>3. /\ \A d \in Comments : Editing(job[r], d) <=> d = c
      /\ (\A i : ~Updates(job[r], i)) /\ ~At(r, "idle")
  BY <1>1, <1>2 DEF Editing, Updates, At
<1>4. \A d \in Comments : FilesOf(d) \subseteq FilesOf(d)'
  BY <1>1, AttachFiles
<1>5. Prepared(r) \subseteq FilesOf(c)'
  BY <1>1, <1>2, AttachFiles
<1>6. Promise(job[r]) => Body(c) \/ Prepared(r) # {}
  BY <1>1, <1>2 DEF Promise, Coming, Prepared
<1>7. Promise(job[r]) => Bodied(c)'
  BY <1>1, <1>4, <1>5, <1>6 DEF Bodied, Body
<1>8. \A d \in Comments : Bodied(d) => Bodied(d)'
  BY <1>1, <1>4 DEF Bodied, Body, LiveComment
<1>9. \A d \in Comments : Promise(job[r]) /\ (Bodied(d) \/ Editing(job[r], d)) => Bodied(d)'
  BY <1>3, <1>7, <1>8
<1> QED BY <1>1, <1>3, <1>9, Sole, SameTold, FinishCalm DEF Inv

\* Goto, for a request that has prepared nothing: what is left to do stays.
LEMMA GotoCalm ==
  ASSUME Inv, NEW r \in Requests, NEW place \in Places, Goto(r, place)
  PROVE  \E j : /\ job' = [job EXCEPT ![r] = j]
                /\ j.at = place /\ j.owner = job[r].owner /\ j.left = job[r].left
                /\ j.before = job[r].before /\ j.prepared = {}
                /\ place \in {"dropFromComment", "dropFromCard"} => j.drop = job[r].drop
<1> DEFINE D == IF place \in {"dropFromComment", "dropFromCard"} THEN job[r].drop ELSE {}
           j == [job[r] EXCEPT !.at = place, !.text = None, !.value = None,
                               !.prepared = {}, !.drop = D]
<1>1. job' = [job EXCEPT ![r] = j]
  BY DEF Goto
<1>2. job[r] \in Job
  BY DEF Inv, TypeOK
<1> HIDE DEF D
<1>3. /\ j.at = place /\ j.owner = job[r].owner /\ j.left = job[r].left
      /\ j.before = job[r].before /\ j.prepared = {} /\ j.drop = D
  BY <1>2 DEF Job
<1> HIDE DEF j
<1> QED BY <1>1, <1>3 DEF D

LEMMA EditCommentCalm ==
  ASSUME Inv, CalmInv, NEW r \in Requests, EditComment(r)
  PROVE  CalmInv'
<1>1. /\ job[r].at = "editComment" /\ UNCHANGED <<cards, files, told, calm>>
      /\ comments' = [comments EXCEPT ![job[r].owner].text = job[r].text]
  BY DEF EditComment, At, Goto
<1>2. PICK c \in Comments : c = job[r].owner
  BY <1>1 DEF Inv, JobsInv, Fits, CommentPlaces
<1>3. PICK j : /\ job' = [job EXCEPT ![r] = j]
               /\ j.at = "dropFromComment" /\ j.owner = c /\ j.left = job[r].left
               /\ j.prepared = {} /\ j.drop = job[r].drop
  BY <1>2, GotoCalm DEF EditComment, Places
<1>4. job[r].prepared = {}
  BY <1>1 DEF Inv, JobsInv, Fits, Uploading
<1>5. comments'[c].text = job[r].text /\ \A d \in Comments \ {c} : comments'[d] = comments[d]
  BY <1>1, <1>2 DEF Inv, TypeOK, Comment
<1>6. Promise(job[r]) => Promise(j)'
  BY <1>1, <1>2, <1>3, <1>4, <1>5 DEF Promise, Coming, FilesOf, files, Updates
<1>7. \A d \in Comments : Bodied(d) \/ Editing(job[r], d) => Bodied(d)' \/ Editing(j, d)
  BY <1>1, <1>2, <1>3, <1>5 DEF Bodied, Body, LiveComment, FilesOf, files, Editing
<1>8. (\A i : ~Updates(job[r], i)) /\ ~At(r, "idle")
  BY <1>1 DEF Updates, At
<1> QED BY <1>1, <1>3, <1>6, <1>7, <1>8, Sole, SameTold, CalmStep DEF Inv

LEMMA DropFromCommentCalm ==
  ASSUME Inv, CalmInv, NEW r \in Requests, DropFromComment(r)
  PROVE  CalmInv'
<1>1. /\ job[r].at = "dropFromComment" /\ UNCHANGED <<cards, comments, told, calm>>
      /\ Detach(job[r].drop, job[r].owner)
  BY DEF DropFromComment, At, Goto
<1>2. PICK c \in Comments : c = job[r].owner
  BY <1>1 DEF Inv, JobsInv, Fits, CommentPlaces
<1>3. PICK j : /\ job' = [job EXCEPT ![r] = j]
               /\ j.at = "addToComment" /\ j.owner = c /\ j.left = job[r].left
               /\ j.prepared = {}
  BY <1>2, GotoCalm DEF DropFromComment, Places
<1>4. job[r].prepared = {}
  BY <1>1 DEF Inv, JobsInv, Fits, Uploading
<1>5. /\ \A d \in Comments \ {c} : FilesOf(d)' = FilesOf(d)
      /\ FilesOf(c) \ job[r].drop \subseteq FilesOf(c)'
  BY <1>1, <1>2, DetachFiles
<1>6. Promise(job[r]) => Promise(j)'
  BY <1>1, <1>2, <1>3, <1>4, <1>5 DEF Promise, Coming, Body, Updates
<1>7. \A d \in Comments : Bodied(d) \/ Editing(job[r], d) => Bodied(d)' \/ Editing(j, d)
  BY <1>1, <1>2, <1>3, <1>5 DEF Bodied, Body, LiveComment, Editing
<1>8. (\A i : ~Updates(job[r], i)) /\ ~At(r, "idle")
  BY <1>1 DEF Updates, At
<1> QED BY <1>1, <1>3, <1>6, <1>7, <1>8, Sole, SameTold, CalmStep DEF Inv

\* The three steps of a card's update before the last read: nobody's comment
\* loses a file, and the history still ends where the update began.
LEMMA CardStepCalm ==
  ASSUME Inv, CalmInv, NEW r \in Requests, NEW place \in {"dropFromCard", "addToCard", "rereadCard"},
         job[r].at \in {"editCard", "dropFromCard", "addToCard"}, Goto(r, place),
         UNCHANGED <<comments, told>>,
         \A i \in Cards : /\ LiveCard(i)' <=> LiveCard(i)
                          /\ i # job[r].owner => cards'[i] = cards[i],
         \A c \in Comments : FilesOf(c) \subseteq FilesOf(c)'
  PROVE  CalmInv'
<1>1. PICK k \in Cards : k = job[r].owner
  BY DEF Inv, JobsInv, Fits, CardPlaces
<1>2. PICK j : /\ job' = [job EXCEPT ![r] = j]
               /\ j.at = place /\ j.owner = k /\ j.before = job[r].before
  BY <1>1, GotoCalm DEF Places
<1>3. /\ ~At(r, "idle") /\ UNCHANGED calm
      /\ \A i : Updates(job[r], i) <=> i = k
      /\ \A i : Updates(j, i) <=> i = k
      /\ \A c : ~Editing(job[r], c)
  BY <1>1, <1>2 DEF At, Goto, Updates, Editing
<1>4. Promise(job[r]) => (LiveCard(k) => told[k] = job[r].before)
  BY <1>3 DEF Promise
<1>5. Promise(job[r]) => Promise(j)'
  BY <1>1, <1>2, <1>3, <1>4 DEF Promise, Updates
<1>6. \A c \in Comments : Bodied(c) => Bodied(c)'
  BY DEF Bodied, Body, LiveComment
<1>7. \A i \in Cards : Told(i) \/ Updates(job[r], i) => Told(i)' \/ Updates(j, i)
  BY <1>1, <1>3 DEF Told
<1> QED BY <1>2, <1>3, <1>5, <1>6, <1>7, Sole, CalmStep DEF Inv

LEMMA EditCardCalm ==
  ASSUME Inv, CalmInv, NEW r \in Requests, EditCard(r)
  PROVE  CalmInv'
<1>1. /\ job[r].at = "editCard" /\ Goto(r, "dropFromCard") /\ UNCHANGED <<comments, files, told>>
      /\ cards' = [cards EXCEPT ![job[r].owner].value = job[r].value]
  BY DEF EditCard, At
<1>2. PICK k \in Cards : k = job[r].owner
  BY <1>1 DEF Inv, JobsInv, Fits, CardPlaces
<1>3. \A i \in Cards : /\ LiveCard(i)' <=> LiveCard(i)
                       /\ i # job[r].owner => cards'[i] = cards[i]
  BY <1>1, <1>2 DEF LiveCard, Inv, TypeOK, Card
<1>4. \A c \in Comments : FilesOf(c)' = FilesOf(c)
  BY <1>1, SameBodied DEF files
<1> QED BY <1>1, <1>3, <1>4, CardStepCalm

LEMMA DropFromCardCalm ==
  ASSUME Inv, CalmInv, NEW r \in Requests, DropFromCard(r)
  PROVE  CalmInv'
<1>1. /\ job[r].at = "dropFromCard" /\ Goto(r, "addToCard") /\ UNCHANGED <<cards, comments, told>>
      /\ Detach(job[r].drop, job[r].owner)
  BY DEF DropFromCard, At
<1>2. job[r].owner \notin Comments
  BY <1>1, ContentAssumption DEF Inv, JobsInv, Fits, CardPlaces
<1>3. \A c \in Comments : FilesOf(c)' = FilesOf(c)
  BY <1>1, <1>2, DetachFiles
<1>4. \A i \in Cards : LiveCard(i)' <=> LiveCard(i)
  BY <1>1 DEF LiveCard
<1> QED BY <1>1, <1>3, <1>4, CardStepCalm

LEMMA AddToCardCalm ==
  ASSUME Inv, CalmInv, NEW r \in Requests, AddToCard(r)
  PROVE  CalmInv'
<1>1. /\ job[r].at = "addToCard" /\ Goto(r, "rereadCard") /\ UNCHANGED <<cards, comments, told>>
      /\ Attach(Prepared(r), job[r].owner)
  BY DEF AddToCard, At, Prepared
<1>2. \A c \in Comments : FilesOf(c) \subseteq FilesOf(c)'
  BY <1>1, AttachFiles
<1>3. \A i \in Cards : LiveCard(i)' <=> LiveCard(i)
  BY <1>1 DEF LiveCard
<1> QED BY <1>1, <1>2, <1>3, CardStepCalm

\* What is read last is what the entry says, or there is nothing to say.
LEMMA RereadCardCalm ==
  ASSUME Inv, CalmInv, NEW r \in Requests, RereadCard(r)
  PROVE  CalmInv'
<1>1. job[r].at = "rereadCard" /\ UNCHANGED <<cards, comments, files, told, calm>>
  BY DEF RereadCard, At, Finish
<1>2. PICK k \in Cards : k = job[r].owner
  BY <1>1 DEF Inv, JobsInv, Fits, CardPlaces
<1>3. /\ ~At(r, "idle")
      /\ \A i : Updates(job[r], i) <=> i = k
      /\ \A c : ~Editing(job[r], c)
  BY <1>1, <1>2 DEF At, Updates, Editing
<1>4. Promise(job[r]) => (LiveCard(k) => told[k] = job[r].before)
  BY <1>3 DEF Promise
<1>5. (\A c \in Comments : Bodied(c)' <=> Bodied(c)) /\ (\A i \in Cards : Told(i)' <=> Told(i))
  BY <1>1, SameBodied, SameTold DEF files
<1>6. CASE LiveCard(k) /\ Snapshot(k) # job[r].before
  <2> DEFINE i == [job[r] EXCEPT !.at = "record", !.after = Snapshot(k)]
  <2>1. job' = [job EXCEPT ![r] = i]
    BY <1>2, <1>6 DEF RereadCard
  <2>2. job[r] \in Job
    BY DEF Inv, TypeOK
  <2>3. i.at = "record" /\ i.owner = k /\ i.before = job[r].before /\ i.after = cards[k].value
    BY <1>2, <2>2 DEF Job, Snapshot
  <2> HIDE DEF i
  <2>4. PICK j : /\ job' = [job EXCEPT ![r] = j] /\ j.at = "record" /\ j.owner = k
                 /\ j.before = job[r].before /\ j.after = cards[k].value
    BY <2>1, <2>3
  <2>5. \A m : Updates(j, m) <=> m = k
    BY <2>4 DEF Updates
  <2>6. Promise(job[r]) => Promise(j)
    BY <1>4, <2>4, <2>5 DEF Promise
  <2>7. Promise(job[r]) => Promise(j)'
    BY <1>1, <2>6, SamePromise DEF files
  <2> QED BY <1>1, <1>3, <1>5, <2>4, <2>5, <2>7, Sole, CalmStep DEF Inv
<1>7. CASE ~(LiveCard(k) /\ Snapshot(k) # job[r].before)
  <2>1. job' = [job EXCEPT ![r] = Idle]
    BY <1>2, <1>7 DEF RereadCard, Finish
  <2>2. Promise(job[r]) => Told(k)
    BY <1>4, <1>7 DEF Told, Snapshot
  <2> QED BY <1>1, <1>3, <1>5, <2>1, <2>2, Sole, FinishCalm DEF Inv
<1> QED BY <1>6, <1>7

LEMMA StepCalm ==
  ASSUME Inv, CalmInv, [Next]_vars
  PROVE  CalmInv'
<1>1. ASSUME NEW r \in Requests, Arrive(r)
      PROVE  CalmInv'
  <2>1. PICK u \in Users :
          \/ UploadAvatar(r, u)
          \/ \E dto \in UpdateProfileDto : UpdateProfile(r, u, dto.avatar)
          \/ \E c \in Comments : CommentRemoveCheck(r, u, c)
          \/ \E n \in 0 .. MaxFiles :
               \/ \E v \in Values : CardCreateCheck(r, u, v, n)
               \/ \E k \in Cards, dto \in CreateCommentDto :
                    CommentCreateCheck(r, u, k, dto.content, n)
               \/ \E c \in Comments, dto \in UpdateCommentDto :
                    CommentUpdateCheck(r, u, c, dto.content, dto.removeAttachmentIds, n)
               \/ \E k \in Cards, dto \in UpdateCardDto :
                    CardUpdateCheck(r, u, k, dto.value, dto.removeAttachmentIds, n)
    BY <1>1 DEF Arrive
  <2>2. CASE \E dto \in UpdateProfileDto : UpdateProfile(r, u, dto.avatar)
    BY <2>2, SameCalm DEF UpdateProfile, SetAvatar
  <2>3. CASE \/ UploadAvatar(r, u)
             \/ \E c \in Comments : CommentRemoveCheck(r, u, c)
             \/ \E n \in 0 .. MaxFiles, v \in Values : CardCreateCheck(r, u, v, n)
    BY <2>3, ArriveCalm
  <2>4. ASSUME NEW n \in 0 .. MaxFiles, NEW k \in Cards, NEW dto \in CreateCommentDto,
               CommentCreateCheck(r, u, k, dto.content, n)
        PROVE  CalmInv'
    <3>1. dto.content \in {"empty", "words"}
      BY DEF CreateCommentDto
    <3> QED BY <2>4, <3>1, CommentCreateCalm
  <2>5. ASSUME NEW n \in 0 .. MaxFiles, NEW c \in Comments, NEW dto \in UpdateCommentDto,
               CommentUpdateCheck(r, u, c, dto.content, dto.removeAttachmentIds, n)
        PROVE  CalmInv'
    <3>1. dto.content \in {"empty", "words", None} /\ dto.removeAttachmentIds \in SUBSET Files
      BY DEF UpdateCommentDto, AttachmentIds
    <3> QED BY <2>5, <3>1, CommentUpdateCalm
  <2>6. ASSUME NEW n \in 0 .. MaxFiles, NEW k \in Cards, NEW dto \in UpdateCardDto,
               CardUpdateCheck(r, u, k, dto.value, dto.removeAttachmentIds, n)
        PROVE  CalmInv'
    <3>1. dto.value \in Values /\ dto.removeAttachmentIds \in SUBSET Files
      BY DEF UpdateCardDto, AttachmentIds
    <3> QED BY <2>6, <3>1, CardUpdateCalm
  <2> QED BY <2>1, <2>2, <2>3, <2>4, <2>5, <2>6
<1>2. ASSUME NEW r \in Requests, Step(r)
      PROVE  CalmInv'
  BY <1>2, UploadCalm, InsertCommentCalm, RecordCalm, InsertCardCalm, EditCommentCalm,
     DropFromCommentCalm, AddToCommentCalm, RemoveCommentCalm, EditCardCalm,
     DropFromCardCalm, AddToCardCalm, RereadCardCalm, WriteAvatarCalm DEF Step
<1>3. ASSUME NEW r \in Requests, Fail(r)
      PROVE  CalmInv'
  BY <1>3, FailCalm
<1>4. ASSUME NEW k \in Cards, RemoveCard(k)
      PROVE  CalmInv'
  BY <1>4, RemoveCardCalm
<1>5. CASE UNCHANGED vars
  BY <1>5, SameCalm DEF vars, files
<1> QED BY <1>1, <1>2, <1>3, <1>4, <1>5 DEF Next

LEMMA InitCalm == Init => CalmInv
<1> SUFFICES ASSUME Init PROVE CalmInv
  OBVIOUS
<1>1. \A r \in Requests : At(r, "idle") /\ Promise(job[r])
  BY IdlePromise DEF Init, At, Idle
<1>2. (\A c \in Comments : Bodied(c)) /\ (\A k \in Cards : Told(k))
  BY DEF Init, Bodied, LiveComment, NoComment, Told, LiveCard
<1> QED BY <1>1, <1>2 DEF CalmInv

LEMMA CalmInvariance == Spec => []CalmInv
BY InitCalm, StepCalm, Invariance, PTL DEF Spec

\* While requests do not overlap and no update is broken off, a user's comment
\* that is there has a text or a file (CommentsService.create and update check
\* this before the uploads and the three writes that bring it about).
THEOREM CommentsKeepABody == Spec => []CommentHasBody
<1>1. CalmInv => CommentHasBody
  BY NoneInFlight DEF CommentHasBody, Bodied, Body
<1> QED BY <1>1, CalmInvariance, PTL

\* While requests do not overlap and no update is broken off, the history of a
\* card leads from its first value to the one it has (CardsService.update,
\* recordCardUpdate).
THEOREM HistoriesAreComplete == Spec => []HistoryComplete
<1>1. CalmInv => HistoryComplete
  BY NoneInFlight DEF HistoryComplete, Told
<1> QED BY <1>1, CalmInvariance, PTL
=============================================================================
