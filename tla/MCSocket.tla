------------------------------ MODULE MCSocket ------------------------------
(***************************************************************************)
(* Small instances of Socket: users U1 and U2, each with the picks a run   *)
(* gives it.                                                               *)
(***************************************************************************)
EXTENDS Socket, TLC

CONSTANTS U1, U2, Hand1, Hand2

MCHand == [u \in Users |-> IF u = U1 THEN Hand1 ELSE Hand2]

\* One scale, or a team that changes its scale between rounds.
OneScale  == {{1, 2}}
TwoScales == {{1}, {1, 2}}

\* For runs in which both users have the same picks.
Symmetry == Permutations(Cards) \cup Permutations(Users)
=============================================================================
