------------------------------ MODULE Tickets ------------------------------
(***************************************************************************)
(* What the numbering of cards promises, without saying how: every board   *)
(* has a dispenser; a card takes the number the dispenser shows and moves  *)
(* it to the next one in the same step.  A board may open with numbers     *)
(* already issued (a duplicate or a sample).  Nothing else touches it.     *)
(***************************************************************************)
EXTENDS Naturals

CONSTANT Boards

VARIABLES
  next,    \* the number a board's dispenser shows, 0 before the board exists
  issued   \* the numbers a board's cards carry

Init ==
  /\ next = [b \in Boards |-> 0]
  /\ issued = [b \in Boards |-> {}]

Open(b) ==
  /\ next[b] = 0
  /\ next'[b] \in Nat \ {0}
  /\ issued'[b] \subseteq 1..(next'[b] - 1)
  /\ next'   = [next EXCEPT ![b] = next'[b]]
  /\ issued' = [issued EXCEPT ![b] = issued'[b]]

Issue(b) ==
  /\ next[b] # 0
  /\ issued' = [issued EXCEPT ![b] = @ \cup {next[b]}]
  /\ next'   = [next EXCEPT ![b] = @ + 1]

Next == \E b \in Boards : Open(b) \/ Issue(b)

Spec == Init /\ [][Next]_<<next, issued>>
=============================================================================
