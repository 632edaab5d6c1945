----------------------------- MODULE MCAccounts -----------------------------
(* Instances of Accounts for TLC. *)
EXTENDS Accounts, Naturals

CONSTANT MaxRequests  \* bound: how many requests arrive

VARIABLE arrived  \* how many requests have arrived

MCInit == Init /\ arrived = 0

MCNext ==
  \/ \E r \in Requests :
       /\ arrived < MaxRequests
       /\ Arrive(r)
       /\ arrived' = arrived + 1
  \/ /\ \/ \E r \in Requests : Step(r) \/ Fail(r)
        \/ Others
     /\ UNCHANGED arrived

MCSpec == MCInit /\ [][MCNext]_<<vars, arrived>> /\ Fairness
=============================================================================
