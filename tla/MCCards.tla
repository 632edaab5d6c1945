------------------------------ MODULE MCCards ------------------------------
(* Instances of Cards for TLC. *)
EXTENDS Cards, TLC

\* The ids are interchangeable: no definition compares or orders them.
Symmetry ==
  Permutations(Requests) \cup Permutations(Boards) \cup Permutations(Columns)
    \cup Permutations(Cards) \cup Permutations(Codes)
=============================================================================
