----------------------------- MODULE MCCatalog -----------------------------
(* Instances of Catalog for TLC.  Its parts meet in the references of cards *)
(* only, so each behaviour is about one of four subjects.                   *)
EXTENDS Catalog, TLC

VARIABLE subject

Symmetry ==
  Permutations(Requests) \cup Permutations(Boards) \cup Permutations(Types)
    \cup Permutations(Versions) \cup Permutations(Cards) \cup Permutations(Words)
    \cup Permutations(Cases)

TypeNames(r) == TypeNext(r) \/ Fail(r)

References(r) ==
  \/ TypeNext(r) \/ VersionNext(r, {Unset}) \/ Fail(r)
  \/ CardNext(r, Types \cup {None, Unset}, Versions \cup {None, Unset}, {Unset})

\* D: the dates requests may have.
Dates(r, D) ==
  \/ VersionNext(r, D) \/ CardNext(r, {None, Unset}, {None, Unset}, D) \/ Fail(r)

\* Of places that leave gaps only what follows the request is cut off.
Order(r) == ColumnNext(r) \/ Fail(r)

MCInit == Init /\ subject \in {"names", "references", "dates", "order"}

MCNext(D) ==
  /\ \E r \in Requests :
       \/ subject = "names" /\ TypeNames(r)
       \/ subject = "references" /\ (References(r) \/ NewVersion({Unset}))
       \/ subject = "dates" /\ (Dates(r, D) \/ NewVersion(D))
       \/ subject = "order" /\ tidy /\ Order(r)
  /\ UNCHANGED subject

\* No client sends null for a date.
MCSpec == MCInit /\ [][MCNext(AnyDate \ {None, 0})]_<<vars, subject>>

\* A client may.
NullSpec == MCInit /\ subject = "dates" /\ [][MCNext(AnyDate \ {0})]_<<vars, subject>>
=============================================================================
