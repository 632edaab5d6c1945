--------------------------- MODULE MCInvitations ---------------------------
(* Instances of Invitations for TLC. *)
EXTENDS Invitations, TLC

\* The creator is fixed; requests and invitations are interchangeable.
Symmetry == Permutations(Requests) \cup Permutations(Invitations)

\* "racing": requests overlap and invitations are resent (Next).  "serial":
\* neither (SerialNext).
VARIABLE subject

MCNext ==
  \/ subject = "racing" /\ Next /\ UNCHANGED subject
  \/ subject = "serial" /\ SerialNext /\ UNCHANGED subject

MCInit == Init /\ subject \in {"racing", "serial"}

MCSpec == MCInit /\ [][MCNext]_<<vars, subject>>

\* One request at a time the board always has an admin: ensureNotLastAdmin
\* refuses to remove or demote the last one.
SerialBoardHasAdmin == subject = "serial" => BoardHasAdmin

\* One request at a time, and if nothing is resent, nobody has a pending
\* invitation to a board he is a member of.
SerialPendingInviteeNotMember == subject = "serial" => PendingInviteeNotMember

\* One request at a time, an answered invitation keeps its answer: revoke,
\* decline, accept and the expiry look at the status first.
SerialAnsweredIsFinal ==
  [][\A i \in Invitations : subject = "serial" /\ invitations[i].status \in Answered
       => invitations'[i].status = invitations[i].status]_vars
=============================================================================
