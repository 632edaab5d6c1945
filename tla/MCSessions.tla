----------------------------- MODULE MCSessions -----------------------------
(* Instances of Sessions for TLC. *)
EXTENDS Sessions, TLC

Symmetry ==
  Permutations(Requests) \cup Permutations(Passwords) \cup Permutations(ResetTokens)
=============================================================================
