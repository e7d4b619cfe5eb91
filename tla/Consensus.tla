----------------------------- MODULE Consensus -----------------------------
(***************************************************************************)
(* Scale.Consensus: the recommended estimate, computed by two loops over   *)
(* Go maps.  A range over a map visits the keys in an order the language   *)
(* leaves open, so each iteration here picks any key not visited yet.  The *)
(* order must not show in the result: Recommended says what it is, and     *)
(* ConsensusIsHandlers that it is the formula the handler's model uses.    *)
(***************************************************************************)
EXTENDS Integers, FiniteSets

CONSTANTS
  Voters,      \* Slack users who may vote in a round
  LabelSet,    \* labels a vote may carry, on the scale or not
  Scales,      \* scales: functions from some of the labels to their values
  NoVote,      \* what a user who did not vote is mapped to
  NoLabel      \* the answer "not ok"

ASSUME VotersAssumption == IsFiniteSet(Voters)
ASSUME SentinelAssumption ==
  NoVote \notin LabelSet /\ NoLabel \notin LabelSet \cup Nat

\* Labels of a scale have distinct values, so a tie has one higher point.
ASSUME ScalesAssumption ==
  \A scale \in Scales :
    /\ DOMAIN scale \subseteq LabelSet
    /\ \A l \in DOMAIN scale : scale[l] \in Nat
    /\ \A l, m \in DOMAIN scale : scale[l] = scale[m] => l = m

VARIABLES
  scale,       \* the receiver s
  votes,       \* the argument: the vote map
  phase,       \* the loop being run: "count", "pick", then "done"
  todo,        \* keys the running loop has not visited
  counts,      \* counts[label], 0 for a label that is not in the map yet
  best,        \* the label of the best point so far
  bestCount    \* its count, -1 before the second loop visits a label

vars == <<scale, votes, phase, todo, counts, best, bestCount>>

Cast == {u \in Voters : votes[u] # NoVote}

Init ==
  /\ scale \in Scales
  /\ votes \in [Voters -> LabelSet \cup {NoVote}]
  /\ phase = "count"
  /\ todo = Cast
  /\ counts = [l \in LabelSet |-> 0]
  /\ best = NoLabel
  /\ bestCount = -1

\* One iteration of the first loop: a vote counts when Find finds its label.
CountVote(u) ==
  /\ phase = "count"
  /\ u \in todo
  /\ todo' = todo \ {u}
  /\ counts' = IF votes[u] \in DOMAIN scale
               THEN [counts EXCEPT ![votes[u]] = @ + 1]
               ELSE counts
  /\ UNCHANGED <<scale, votes, phase, best, bestCount>>

Counted == {l \in LabelSet : counts[l] > 0}

\* Mutant: the second loop ranges over the votes.
StartPickVotes ==
  /\ phase = "count"
  /\ todo = {}
  /\ phase' = IF Counted = {} THEN "done" ELSE "pick"
  /\ todo' = Cast
  /\ UNCHANGED <<scale, votes, counts, best, bestCount>>

\* The first loop is over: with no count at all the answer is "not ok",
\* otherwise the second loop ranges over the labels counted.
StartPick ==
  /\ phase = "count"
  /\ todo = {}
  /\ phase' = IF Counted = {} THEN "done" ELSE "pick"
  /\ todo' = Counted
  /\ UNCHANGED <<scale, votes, counts, best, bestCount>>

\* Mutant: a tie is left to the order of the visits.
BetterFirst(l) == counts[l] > bestCount

\* label l, with its count, replaces the best point so far.
Better(l) ==
  \/ counts[l] > bestCount
  \/ counts[l] = bestCount /\ scale[l] > scale[best]

\* One iteration of the second loop.
PickLabel(l) ==
  /\ phase = "pick"
  /\ l \in todo
  /\ todo' = todo \ {l}
  /\ IF Better(l)
     THEN best' = l /\ bestCount' = counts[l]
     ELSE UNCHANGED <<best, bestCount>>
  /\ UNCHANGED <<scale, votes, phase, counts>>

Return ==
  /\ phase = "pick"
  /\ todo = {}
  /\ phase' = "done"
  /\ UNCHANGED <<scale, votes, todo, counts, best, bestCount>>

\* The result is there: nothing more happens.  Any other state without a
\* successor is a deadlock, so the loops are checked to end.
Returned == phase = "done" /\ UNCHANGED vars

Next ==
  \/ \E u \in Voters : CountVote(u)
  \/ StartPick
  \/ \E l \in LabelSet : PickLabel(l)
  \/ Return
  \/ Returned

Spec == Init /\ [][Next]_vars

----------------------------------------------------------------------------
\* How many voters chose label l.
Tally(l) == Cardinality({u \in Voters : votes[u] = l})

\* Label l is the mode of the on-scale votes, and the highest-valued one
\* when several labels share the greatest count.
Recommended(l) ==
  /\ l \in DOMAIN scale
  /\ Tally(l) > 0
  /\ \A m \in DOMAIN scale :
       \/ Tally(m) < Tally(l)
       \/ Tally(m) = Tally(l) /\ scale[m] <= scale[l]

\* The variables hold what the code's do.
TypeOK ==
  /\ scale \in Scales
  /\ votes \in [Voters -> LabelSet \cup {NoVote}]
  /\ phase \in {"count", "pick", "done"}
  /\ todo \subseteq IF phase = "count" THEN Voters ELSE LabelSet
  /\ counts \in [LabelSet -> Nat]
  /\ best \in LabelSet \cup {NoLabel}
  /\ bestCount \in Nat \cup {-1}

\* Whatever order the maps are visited in, Consensus returns the most voted
\* point of the scale, the higher one on a tie, and "not ok" exactly when no
\* vote is on the scale (poker.go: "Ties ... break toward the higher point").
ConsensusIsMode ==
  phase = "done" =>
    IF best = NoLabel
    THEN \A l \in DOMAIN scale : Tally(l) = 0
    ELSE Recommended(best)

\* The votes and the scale as module PokerHandler has them: by value, a vote
\* that is not on the scale being none.
PointVotes ==
  [u \in Voters |-> IF votes[u] \in DOMAIN scale THEN scale[votes[u]] ELSE NoLabel]
PointScale == {scale[l] : l \in DOMAIN scale}

Handlers == INSTANCE Recommendation WITH Users <- Voters, NoPoint <- NoLabel

\* The loops return the point that the handler's model takes for the
\* consensus: what is shown of estimation rounds is shown of these loops.
ConsensusIsHandlers ==
  phase = "done" =>
    Handlers!Consensus(PointScale, PointVotes) =
      IF best = NoLabel THEN NoLabel ELSE scale[best]
=============================================================================
