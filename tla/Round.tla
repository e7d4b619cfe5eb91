------------------------------- MODULE Round -------------------------------
(***************************************************************************)
(* What an estimation round promises: the abstract specification of the    *)
(* handler.  Every operation is one step; setting the estimate writes it   *)
(* and closes the round at once; nothing is said of cards, requests and    *)
(* failures.  Handler runs that do not overlap on an issue (module Serial) *)
(* implement RoundSpec as long as the services answer, and FaultyRoundSpec *)
(* under the failures of PokerHandler.  A behaviour does not say who asked *)
(* for a step, nor how often: an event that is handled twice is two steps. *)
(***************************************************************************)
CONSTANTS Users, Issues, Points, Scales,
          NoPoint,   \* no vote, no estimate
          NoRound    \* no round is open on the issue

VARIABLES
  round,       \* round[i]: the open round of issue i
  estimate     \* estimate[i]: the estimate of issue i

roundVars == <<round, estimate>>

Fresh(scale) ==
  [status |-> "voting", votes |-> [u \in Users |-> NoPoint], scale |-> scale]

RoundInit ==
  /\ round = [i \in Issues |-> NoRound]
  /\ estimate = [i \in Issues |-> NoPoint]

\* /chipin: a new round, in the place of an open one.
Start(i) ==
  /\ \E scale \in Scales : round' = [round EXCEPT ![i] = Fresh(scale)]
  /\ UNCHANGED estimate

IsOpen(i) == round[i] # NoRound

\* A vote, or none, in the place of a user's vote; votes are hidden again.
WithVote(r, u, p) ==
  [status |-> "voting", votes |-> [r.votes EXCEPT ![u] = p], scale |-> r.scale]

\* A user picks a card of the round.
Vote(i, u, p) ==
  /\ IsOpen(i)
  /\ p \in round[i].scale
  /\ round' = [round EXCEPT ![i] = WithVote(@, u, p)]
  /\ UNCHANGED estimate

\* A user takes back a vote of their own.
Retract(i, u) ==
  /\ IsOpen(i)
  /\ round[i].votes[u] # NoPoint
  /\ round' = [round EXCEPT ![i] = WithVote(@, u, NoPoint)]
  /\ UNCHANGED estimate

Reveal(i) ==
  /\ IsOpen(i)
  /\ round' = [round EXCEPT ![i].status = "revealed"]
  /\ UNCHANGED estimate

Continue(i) ==
  /\ IsOpen(i)
  /\ round' = [round EXCEPT ![i].status = "voting"]
  /\ UNCHANGED estimate

\* A point of the scale is written to Linear and the round is over.
Settle(i, p) ==
  /\ IsOpen(i)
  /\ p \in round[i].scale
  /\ estimate' = [estimate EXCEPT ![i] = p]
  /\ round' = [round EXCEPT ![i] = NoRound]

\* The round is over and Linear is left alone.
Cancel(i) ==
  /\ IsOpen(i)
  /\ round' = [round EXCEPT ![i] = NoRound]
  /\ UNCHANGED estimate

RoundNext ==
  \E i \in Issues :
    \/ Start(i)
    \/ \E u \in Users, p \in Points : Vote(i, u, p)
    \/ \E u \in Users : Retract(i, u)
    \/ Reveal(i) \/ Continue(i)
    \/ \E p \in Points : Settle(i, p)
    \/ Cancel(i)

RoundSpec == RoundInit /\ [][RoundNext]_roundVars

----------------------------------------------------------------------------
(***************************************************************************)
(* The promise that is left when any call may fail.  Only Settle can come  *)
(* apart: the estimate is written and the round goes on, to be set again   *)
(* or cancelled.  Everything else still happens whole or not at all.       *)
(***************************************************************************)
\* A point of the scale is written to Linear, the round stays open.
Write(i, p) ==
  /\ IsOpen(i)
  /\ p \in round[i].scale
  /\ estimate' = [estimate EXCEPT ![i] = p]
  /\ UNCHANGED round

FaultyRoundNext == RoundNext \/ \E i \in Issues, p \in Points : Write(i, p)

FaultyRoundSpec == RoundInit /\ [][FaultyRoundNext]_roundVars
=============================================================================
