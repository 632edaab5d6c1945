----------------------------- MODULE MCContent -----------------------------
(* Instances of Content for TLC. *)
EXTENDS Content, FiniteSets, TLC

CONSTANT MaxRequests  \* bound: how many requests arrive

VARIABLE arrived  \* how many requests have arrived

Symmetry ==
  Permutations(Requests) \cup Permutations(Users) \cup Permutations(Cards)
    \cup Permutations(Comments) \cup Permutations(Files) \cup Permutations(Values)

MCInit == Init /\ arrived = 0

MCNext ==
  \/ \E r \in Requests :
       /\ arrived < MaxRequests
       /\ Arrive(r)
       /\ arrived' = arrived + 1
  \/ /\ \/ \E r \in Requests : Step(r) \/ Fail(r)
        \/ \E k \in Cards : RemoveCard(k)
     /\ UNCHANGED arrived

MCSpec == MCInit /\ [][MCNext]_<<vars, arrived>>
=============================================================================
