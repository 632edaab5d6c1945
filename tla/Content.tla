------------------------------ MODULE Content ------------------------------
(***************************************************************************)
(* What users put into cards: the card's own fields, comments, attached    *)
(* files, and the history the service writes as comments of type SYSTEM;   *)
(* and the pictures they upload of themselves (CardsService, MeService,    *)
(* CommentsService, AttachmentsService, CardHistoryService, StorageService *)
(* and their repositories).                                                *)
(*                                                                         *)
(* A request checks, uploads its files one by one and writes in separate   *)
(* steps.  It may fail between any two of them (a refusal, an error of the *)
(* storage or of the database, a crash): what it did so far stays.         *)
(*                                                                         *)
(* A card's fields are one value.  Board roles only refuse requests and    *)
(* are left out; numbers, columns and positions are in Cards.  A storage   *)
(* key is a random UUID and gets at most one row, so a file stands for its *)
(* key and its row.                                                        *)
(***************************************************************************)
EXTENDS Naturals

CONSTANTS
  Requests,  \* slots for requests in flight
  Users,     \* who may ask
  Cards,     \* card ids
  Comments,  \* comment ids
  Files,     \* storage keys that uploads may draw
  Values,    \* what the fields of a card may hold
  MaxFiles,  \* bound: files sent with one request (10 in the code)
  None       \* SQL NULL, an absent row, a field that was not sent

\* A text is empty, something a user wrote, or the delta of a card update.
Texts == {"empty", "words", "delta"}

ASSUME ContentAssumption ==
  /\ MaxFiles \in Nat \ {0}
  /\ Cards \cap Comments = {}
  /\ None \notin Requests \cup Users \cup Cards \cup Comments \cup Files \cup Values \cup Texts

Owners == Cards \cup Comments

VARIABLES
  cards,     \* table cards
  comments,  \* table comments
  stored,    \* the keys in storage
  rows,      \* table attachments, by storage key
  avatar,    \* of table users: the storage key in the URL of the avatar
  job,       \* the local variables of the request in each slot
  told,      \* history: the value the history entries of a card lead to
  calm,      \* history: no overlapping requests, no update broken off
  spilled    \* history: a request failed after it had uploaded, or an avatar was
             \* replaced

vars == <<cards, comments, stored, rows, avatar, job, told, calm, spilled>>

files == <<stored, rows, avatar>>

-----------------------------------------------------------------------------
(* Rows.                                                                   *)

Statuses == {"none", "live", "deleted"}

Card == [status : Statuses, value : Values \cup {None}]

Comment == [status : Statuses, card : Cards \cup {None}, user : Users \cup {None},
            type : {"USER", "SYSTEM"}, text : Texts]

Row == [owner : Owners \cup {None}, live : BOOLEAN]

NoComment == [status |-> "none", card |-> None, user |-> None, type |-> "USER",
              text |-> "empty"]

LiveCard(k)    == cards[k].status = "live"
LiveComment(c) == comments[c].status = "live"

\* The ids a client may have seen.
AttachmentIds == {f \in Files : rows[f].owner # None}

\* getDownloadTarget: the row is there and leads to a board, by a card or by a
\* comment, deleted ones included.
Downloadable == {f \in AttachmentIds : rows[f].live}

\* The attachments a response lists.
FilesOf(o) == {f \in Files : rows[f].owner = o /\ rows[f].live}

-----------------------------------------------------------------------------
(* Requests.                                                               *)

Places == {"idle", "createCard", "createComment",
           "editComment", "dropFromComment", "addToComment", "removeComment",
           "editCard", "dropFromCard", "addToCard", "rereadCard", "record",
           "setAvatar"}

Uploading == {"createCard", "createComment", "addToComment", "addToCard", "setAvatar"}

\* Places of an update that has already checked its input.
Updating == {"editComment", "dropFromComment", "addToComment",
             "editCard", "dropFromCard", "addToCard", "rereadCard", "record"}

\* left: files still to be uploaded.  prepared: those that are, without a row.
\* drop: removeAttachmentIds.  before, after: snapshots for the history.
Job == [at : Places, user : Users \cup {None}, owner : Owners \cup {None},
        text : Texts \cup {None}, value : Values \cup {None},
        left : 0 .. MaxFiles, prepared : SUBSET Files, drop : SUBSET Files,
        before : Values \cup {None}, after : Values \cup {None}]

Idle == [at |-> "idle", user |-> None, owner |-> None, text |-> None,
         value |-> None, left |-> 0, prepared |-> {}, drop |-> {},
         before |-> None, after |-> None]

TypeOK ==
  /\ cards \in [Cards -> Card]
  /\ comments \in [Comments -> Comment]
  /\ stored \subseteq Files
  /\ rows \in [Files -> Row]
  /\ avatar \in [Users -> Files \cup {None}]
  /\ job \in [Requests -> Job]
  /\ told \in [Cards -> Values \cup {None}]
  /\ calm \in BOOLEAN
  /\ spilled \in BOOLEAN

Init ==
  /\ cards = [k \in Cards |-> [status |-> "none", value |-> None]]
  /\ comments = [c \in Comments |-> NoComment]
  /\ stored = {}
  /\ rows = [f \in Files |-> [owner |-> None, live |-> FALSE]]
  /\ avatar = [u \in Users |-> None]
  /\ job = [r \in Requests |-> Idle]
  /\ told = [k \in Cards |-> None]
  /\ calm = TRUE
  /\ spilled = FALSE

At(r, place) == job[r].at = place

AllIdle == \A r \in Requests : At(r, "idle")

Begin(r, j) ==
  /\ At(r, "idle")
  /\ job' = [job EXCEPT ![r] = j]
  /\ calm' = (calm /\ AllIdle)
  /\ UNCHANGED spilled

\* What the rest of the request still needs.
Goto(r, place) ==
  /\ job' = [job EXCEPT ![r] =
               [@ EXCEPT !.at = place, !.text = None, !.value = None, !.prepared = {},
                         !.drop = IF place \in {"dropFromComment", "dropFromCard"}
                                  THEN job[r].drop ELSE {}]]
  /\ UNCHANGED <<calm, spilled>>

Finish(r) ==
  /\ job' = [job EXCEPT ![r] = Idle]
  /\ UNCHANGED <<calm, spilled>>

\* An exception, a lost connection or a crash at an await.
Fail(r) ==
  /\ ~At(r, "idle")
  /\ job' = [job EXCEPT ![r] = Idle]
  /\ calm' = (calm /\ job[r].at \notin Updating)
  /\ spilled' = (spilled \/ job[r].prepared # {})
  /\ UNCHANGED <<cards, comments, files, told>>

-----------------------------------------------------------------------------
(* Attachments.                                                            *)

\* Variant for mutation: the key is of the file's name, not a fresh one.
PutByName(f) == stored' = stored \cup {f}

\* StorageService.upload: the key is a fresh UUID.
Put(f) ==
  /\ f \notin stored
  /\ stored' = stored \cup {f}

\* uploadFiles: one upload after the other.
Upload(r) ==
  /\ job[r].at \in Uploading
  /\ job[r].left > 0
  /\ \E f \in Files :
       /\ Put(f)
       /\ job' = [job EXCEPT ![r] =
                    [@ EXCEPT !.left = job[r].left - 1, !.prepared = job[r].prepared \cup {f}]]
  /\ UNCHANGED <<cards, comments, rows, avatar, told, calm, spilled>>

\* createMany and the nested create: all rows in one transaction.
Attach(F, o) ==
  /\ rows' = [f \in Files |-> IF f \in F THEN [owner |-> o, live |-> TRUE] ELSE rows[f]]
  /\ UNCHANGED <<stored, avatar>>

\* Variant for mutation: whatever attachments the client names.
DetachAny(F, o) ==
  /\ rows' = [f \in Files |->
                IF f \in F THEN [rows[f] EXCEPT !.live = FALSE] ELSE rows[f]]
  /\ UNCHANGED <<stored, avatar>>

\* softDeleteForComment, softDeleteForCard: of the ids the client sent, those
\* that belong to this owner.
Detach(F, o) ==
  /\ rows' = [f \in Files |->
                IF f \in F /\ rows[f].owner = o
                THEN [rows[f] EXCEPT !.live = FALSE] ELSE rows[f]]
  /\ UNCHANGED <<stored, avatar>>

-----------------------------------------------------------------------------
(* Comments.                                                               *)

CommentCreateCheck(r, u, k, text, n) ==
  /\ LiveCard(k)
  /\ text = "empty" => n > 0
  /\ Begin(r, [Idle EXCEPT !.at = "createComment", !.user = u, !.owner = k,
                           !.text = text, !.left = n])
  /\ UNCHANGED <<cards, comments, files, told>>

NewComment(k, u, type, text) ==
  [status |-> "live", card |-> k, user |-> u, type |-> type, text |-> text]

\* The comment and its attachments in one nested write.  Whether the card is
\* still there is not asked again.
InsertComment(r, c) ==
  /\ At(r, "createComment")
  /\ job[r].left = 0
  /\ comments[c].status = "none"
  /\ comments' = [comments EXCEPT ![c] = NewComment(job[r].owner, job[r].user, "USER", job[r].text)]
  /\ Attach(job[r].prepared, c)
  /\ Finish(r)
  /\ UNCHANGED <<cards, told>>

\* Variant for mutation: removed attachments count as remaining ones.
CommentUpdateCheckAnyRow(r, u, c, text, D, n) ==
  /\ LiveComment(c)
  /\ comments[c].user = u
  /\ \/ text = "words"
     \/ text = None /\ comments[c].text # "empty"
     \/ FilesOf(c) # {}
     \/ n > 0
  /\ Begin(r, [Idle EXCEPT !.at = IF text = None THEN "dropFromComment" ELSE "editComment",
                           !.user = u, !.owner = c, !.text = text, !.drop = D, !.left = n])
  /\ UNCHANGED <<cards, comments, files, told>>

\* A SYSTEM comment's user is the one whose update it records: he may edit it.
\* text = None when the request has no content.
CommentUpdateCheck(r, u, c, text, D, n) ==
  /\ LiveComment(c)
  /\ comments[c].user = u
  /\ \/ text = "words"
     \/ text = None /\ comments[c].text # "empty"
     \/ FilesOf(c) \ D # {}
     \/ n > 0
  /\ Begin(r, [Idle EXCEPT !.at = IF text = None THEN "dropFromComment" ELSE "editComment",
                           !.user = u, !.owner = c, !.text = text, !.drop = D, !.left = n])
  /\ UNCHANGED <<cards, comments, files, told>>

\* By id, whether the comment was deleted meanwhile or not.
EditComment(r) ==
  /\ At(r, "editComment")
  /\ comments' = [comments EXCEPT ![job[r].owner].text = job[r].text]
  /\ Goto(r, "dropFromComment")
  /\ UNCHANGED <<cards, files, told>>

DropFromComment(r) ==
  /\ At(r, "dropFromComment")
  /\ Detach(job[r].drop, job[r].owner)
  /\ Goto(r, "addToComment")
  /\ UNCHANGED <<cards, comments, told>>

\* The comment that is read afterwards is the answer, 404 if it is gone.
AddToComment(r) ==
  /\ At(r, "addToComment")
  /\ job[r].left = 0
  /\ Attach(job[r].prepared, job[r].owner)
  /\ Finish(r)
  /\ UNCHANGED <<cards, comments, told>>

CommentRemoveCheck(r, u, c) ==
  /\ LiveComment(c)
  /\ comments[c].user = u
  /\ Begin(r, [Idle EXCEPT !.at = "removeComment", !.user = u, !.owner = c])
  /\ UNCHANGED <<cards, comments, files, told>>

\* Variant for mutation: the row is deleted.
RemoveCommentRow(r) ==
  /\ At(r, "removeComment")
  /\ comments' = [c \in Comments \ {job[r].owner} |-> comments[c]]
  /\ Finish(r)
  /\ UNCHANGED <<cards, files, told>>

\* Its attachments stay as they are, and can still be downloaded.
RemoveComment(r) ==
  /\ At(r, "removeComment")
  /\ comments' = [comments EXCEPT ![job[r].owner].status = "deleted"]
  /\ Finish(r)
  /\ UNCHANGED <<cards, files, told>>

-----------------------------------------------------------------------------
(* Cards.                                                                  *)

CardCreateCheck(r, u, v, n) ==
  /\ Begin(r, [Idle EXCEPT !.at = "createCard", !.user = u, !.value = v, !.left = n])
  /\ UNCHANGED <<cards, comments, files, told>>

InsertCard(r, k) ==
  /\ At(r, "createCard")
  /\ job[r].left = 0
  /\ cards[k].status = "none"
  /\ cards' = [cards EXCEPT ![k] = [status |-> "live", value |-> job[r].value]]
  /\ told' = [told EXCEPT ![k] = job[r].value]
  /\ Attach(job[r].prepared, k)
  /\ Finish(r)
  /\ UNCHANGED comments

\* The fields toDiffable picks.
Snapshot(k) == cards[k].value

\* Variant for mutation: the card for the comparison is read after the write.
EditCardThenRead(r) ==
  /\ At(r, "editCard")
  /\ cards' = [cards EXCEPT ![job[r].owner].value = job[r].value]
  /\ job' = [job EXCEPT ![r] = [@ EXCEPT !.at = "dropFromCard", !.before = job[r].value]]
  /\ UNCHANGED <<comments, files, told, calm, spilled>>

CardUpdateCheck(r, u, k, v, D, n) ==
  /\ LiveCard(k)
  /\ Begin(r, [Idle EXCEPT !.at = "editCard", !.user = u, !.owner = k, !.value = v,
                           !.drop = D, !.left = n, !.before = Snapshot(k)])
  /\ UNCHANGED <<cards, comments, files, told>>

EditCard(r) ==
  /\ At(r, "editCard")
  /\ cards' = [cards EXCEPT ![job[r].owner].value = job[r].value]
  /\ Goto(r, "dropFromCard")
  /\ UNCHANGED <<comments, files, told>>

DropFromCard(r) ==
  /\ At(r, "dropFromCard")
  /\ Detach(job[r].drop, job[r].owner)
  /\ Goto(r, "addToCard")
  /\ UNCHANGED <<cards, comments, told>>

\* Variant for mutation: a card deleted meanwhile is answered with 404 here.
AddToCardUnlessGone(r) ==
  /\ At(r, "addToCard")
  /\ job[r].left = 0
  /\ IF LiveCard(job[r].owner)
     THEN Attach(job[r].prepared, job[r].owner) /\ Goto(r, "rereadCard")
     ELSE UNCHANGED files /\ Finish(r)
  /\ UNCHANGED <<cards, comments, told>>

AddToCard(r) ==
  /\ At(r, "addToCard")
  /\ job[r].left = 0
  /\ Attach(job[r].prepared, job[r].owner)
  /\ Goto(r, "rereadCard")
  /\ UNCHANGED <<cards, comments, told>>

\* A card deleted meanwhile, or one that reads as before, gets no entry.
RereadCard(r) ==
  LET k == job[r].owner IN
  /\ At(r, "rereadCard")
  /\ IF LiveCard(k) /\ Snapshot(k) # job[r].before
     THEN /\ job' = [job EXCEPT ![r] = [@ EXCEPT !.at = "record", !.after = Snapshot(k)]]
          /\ UNCHANGED <<calm, spilled>>
     ELSE Finish(r)
  /\ UNCHANGED <<cards, comments, files, told>>

RecordCardUpdate(r, c) ==
  /\ At(r, "record")
  /\ comments[c].status = "none"
  /\ comments' = [comments EXCEPT ![c] = NewComment(job[r].owner, job[r].user, "SYSTEM", "delta")]
  /\ told' = [told EXCEPT ![job[r].owner] = IF @ = job[r].before THEN job[r].after ELSE None]
  /\ Finish(r)
  /\ UNCHANGED <<cards, files>>

\* The column of the card is removed, and the card with it.
RemoveCard(k) ==
  /\ LiveCard(k)
  /\ cards' = [cards EXCEPT ![k].status = "deleted"]
  /\ UNCHANGED <<comments, files, job, told, calm, spilled>>

-----------------------------------------------------------------------------
(* The users' own profiles.                                                *)

\* UsersRepository.updateProfile: the file of the old avatar stays in storage.
SetAvatar(u, a) ==
  /\ avatar' = [avatar EXCEPT ![u] = a]
  /\ spilled' = (spilled \/ avatar[u] # None)
  /\ UNCHANGED <<cards, comments, stored, rows, told, calm>>

\* With any URL, or null: that of another user's avatar, or of no file here.
UpdateProfile(r, u, a) ==
  /\ At(r, "idle")
  /\ SetAvatar(u, a)
  /\ UNCHANGED job

UploadAvatar(r, u) ==
  /\ Begin(r, [Idle EXCEPT !.at = "setAvatar", !.user = u, !.left = 1])
  /\ UNCHANGED <<cards, comments, files, told>>

WriteAvatar(r) ==
  /\ At(r, "setAvatar")
  /\ \E f \in job[r].prepared : SetAvatar(job[r].user, f)
  /\ job' = [job EXCEPT ![r] = Idle]

-----------------------------------------------------------------------------
(* What validation lets through.                                           *)

UpdateProfileDto == [avatar : {avatar[u] : u \in Users} \cup {None}]

CreateCommentDto == [content : {"empty", "words"}]

UpdateCommentDto ==
  [content : {"empty", "words", None}, removeAttachmentIds : SUBSET AttachmentIds]

UpdateCardDto == [value : Values, removeAttachmentIds : SUBSET AttachmentIds]

-----------------------------------------------------------------------------
Step(r) ==
  \/ Upload(r)
  \/ \E c \in Comments : InsertComment(r, c) \/ RecordCardUpdate(r, c)
  \/ \E k \in Cards : InsertCard(r, k)
  \/ EditComment(r) \/ DropFromComment(r) \/ AddToComment(r) \/ RemoveComment(r)
  \/ EditCard(r) \/ DropFromCard(r) \/ AddToCard(r) \/ RereadCard(r)
  \/ WriteAvatar(r)

Arrive(r) ==
  \E u \in Users :
    \/ UploadAvatar(r, u)
    \/ \E dto \in UpdateProfileDto : UpdateProfile(r, u, dto.avatar)
    \/ \E c \in Comments : CommentRemoveCheck(r, u, c)
    \/ \E n \in 0 .. MaxFiles :
         \/ \E v \in Values : CardCreateCheck(r, u, v, n)
         \/ \E k \in Cards, dto \in CreateCommentDto :
              CommentCreateCheck(r, u, k, dto.content, n)
         \/ \E c \in Comments, dto \in UpdateCommentDto :
              CommentUpdateCheck(r, u, c, dto.content, dto.removeAttachmentIds, n)
         \/ \E k \in Cards, dto \in UpdateCardDto :
              CardUpdateCheck(r, u, k, dto.value, dto.removeAttachmentIds, n)

Next ==
  \/ \E r \in Requests : Arrive(r) \/ Step(r) \/ Fail(r)
  \/ \E k \in Cards : RemoveCard(k)

Spec == Init /\ [][Next]_vars

-----------------------------------------------------------------------------
(* Properties.                                                             *)

Store == INSTANCE FileStore
  WITH owner <- [f \in Files |-> rows[f].owner],
       shown <- Downloadable

\* Whatever requests overlap or fail, attachments keep the promises of
\* FileStore: no row names a file that is not in storage, a file never changes
\* its owner, and one request takes files from one owner only
\* (AttachmentsService.uploadFiles, AttachmentsRepository).
FilesKept == Store!Spec

\* The check of CommentsService.create and update ("Comment must have content
\* or at least one attachment") is about a comment that changes in three more
\* steps.  While requests do not overlap and none breaks off an update, no
\* user's comment is without both; a creation may fail at any point.
CommentHasBody ==
  calm /\ AllIdle =>
    \A c \in Comments :
      LiveComment(c) /\ comments[c].type = "USER" =>
        comments[c].text # "empty" \/ FilesOf(c) # {}

\* A request names attachments by ids of the client's choice, checks the author
\* first and writes up to three steps later.  Still only a request of its author,
\* about this comment, changes it or takes its files (ensureCommentOwner,
\* softDeleteForComment).
AuthorOnly ==
  [][\A c \in Comments :
       /\ LiveComment(c)
       /\ \/ comments'[c] # comments[c]
          \/ \E f \in FilesOf(c) : rows'[f] # rows[f]
       => \E r \in Requests :
            /\ job[r].owner = c
            /\ job[r].user = comments[c].user
            /\ job'[r] # job[r]]_vars

\* A file in storage that no row names stays there for ever.  Until a request
\* fails behind an upload, or an avatar is replaced, there is none but those of
\* requests in flight, however requests overlap.
NoStrayFile ==
  ~spilled =>
    \A f \in stored :
      \/ rows[f].owner # None
      \/ \E u \in Users : avatar[u] = f
      \/ \E r \in Requests : f \in job[r].prepared

EntriesIntact ==
  \A c \in Comments :
    comments[c].type = "SYSTEM" => LiveComment(c) /\ comments[c].text = "delta"

\* The entries of a card's history, read one after the other, lead from its
\* first value to the one it has, while updates do not overlap or break off and
\* nobody edits or deletes an entry (CardsService.update, recordCardUpdate).  The
\* value leaves out the column, which a move writes without an entry, and the
\* names of what a card refers to, which others change.
HistoryComplete ==
  calm /\ AllIdle /\ EntriesIntact =>
    \A k \in Cards : LiveCard(k) => told[k] = cards[k].value
=============================================================================
