--------------------------- MODULE Recommendation ---------------------------
(***************************************************************************)
(* Scale.Consensus as one formula over values, the form the handler's      *)
(* model uses.  Module Consensus has the loops of the code and shows that  *)
(* they return what the formula says.                                      *)
(***************************************************************************)
EXTENDS Integers, FiniteSets

CONSTANTS
  Users,       \* Slack users
  NoPoint      \* no vote, no selection, no estimate

\* How many users chose point p.
Tally(votes, p) == Cardinality({u \in Users : votes[u] = p})

\* Mutant: a tie goes to the lower point.
LeadersLower(scale, votes) ==
  {p \in scale :
     /\ Tally(votes, p) > 0
     /\ \A q \in scale : \/ Tally(votes, q) < Tally(votes, p)
                         \/ Tally(votes, q) = Tally(votes, p) /\ p <= q}

\* The most voted point of the scale, the higher one on a tie: at most one.
Leaders(scale, votes) ==
  {p \in scale :
     /\ Tally(votes, p) > 0
     /\ \A q \in scale : \/ Tally(votes, q) < Tally(votes, p)
                         \/ Tally(votes, q) = Tally(votes, p) /\ q <= p}

\* Mutant: "no consensus" is not told from the zero Point.
AnyOfZero(S) == IF S = {} THEN 0 ELSE CHOOSE p \in S : TRUE

AnyOf(S) == IF S = {} THEN NoPoint ELSE CHOOSE p \in S : TRUE

Consensus(scale, votes) == AnyOf(Leaders(scale, votes))
=============================================================================
