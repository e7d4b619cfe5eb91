----------------------------- MODULE MCWebhook -----------------------------
(***************************************************************************)
(* Small instances of Webhook: users U1 and U2, each with the picks a run  *)
(* gives it.                                                               *)
(***************************************************************************)
EXTENDS Webhook, TLC

CONSTANTS U1, U2, Hand1, Hand2

MCHand == [u \in Users |-> IF u = U1 THEN Hand1 ELSE Hand2]

\* One scale, or a team that changes its scale between rounds.
OneScale  == {{1, 2}}
TwoScales == {{1}, {1, 2}}

WorkerSymmetry == Permutations(Workers)
Symmetry == WorkerSymmetry \cup Permutations(Cards)
=============================================================================
