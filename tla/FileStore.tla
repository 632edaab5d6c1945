------------------------------ MODULE FileStore ------------------------------
(***************************************************************************)
(* What attachments promise, without saying how: a file is stored once,    *)
(* before any row names it; a row gives it to one owner (a card, a         *)
(* comment) for good; removing rows takes files from a single owner, and   *)
(* what was removed does not come back.                                    *)
(***************************************************************************)

CONSTANTS Files, Owners, None

VARIABLES
  stored,  \* the files in storage
  owner,   \* the owner a file's row names, None while it has no row
  shown    \* the files whose row is not removed

Init ==
  /\ stored = {}
  /\ owner = [f \in Files |-> None]
  /\ shown = {}

Store(f) ==
  /\ f \notin stored
  /\ stored' = stored \cup {f}
  /\ UNCHANGED <<owner, shown>>

Attach(o, F) ==
  /\ F \subseteq stored
  /\ \A f \in F : owner[f] = None
  /\ owner' = [f \in Files |-> IF f \in F THEN o ELSE owner[f]]
  /\ shown' = shown \cup F
  /\ UNCHANGED stored

Remove(o, F) ==
  /\ \A f \in F : owner[f] = o
  /\ shown' = shown \ F
  /\ UNCHANGED <<stored, owner>>

Next ==
  \/ \E f \in Files : Store(f)
  \/ \E o \in Owners, F \in SUBSET Files : Attach(o, F) \/ Remove(o, F)

Spec == Init /\ [][Next]_<<stored, owner, shown>>
=============================================================================
