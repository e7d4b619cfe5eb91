---------------------------- MODULE WebhookProofs ----------------------------
(***************************************************************************)
(* The HTTP deployment, for any number of goroutines, users, issues and    *)
(* rounds, and whatever the store, Slack and Linear lose: what holds       *)
(* however its requests overlap, and what holds as long as no two requests *)
(* about one issue do.                                                     *)
(***************************************************************************)
EXTENDS Webhook, SerialPromises

\* Its goroutines run the handler, and nothing else moves them.
THEOREM WebhookIsHandler == Spec => HandlerSpec
<1>1. Next => HandlerNext
  BY DEF Next, HandlerNext, Receive, Sendable, Picked
<1> QED
  BY <1>1, PTL DEF Spec, HandlerSpec

\* The inductive invariant of the handler holds however its runs interleave.
THEOREM WebhookInvariant == Spec => []IInv
BY WebhookIsHandler, HandlerInvariant, PTL

\* Every variable keeps its type.
THEOREM WebhookTypeOK == Spec => []TypeOK
BY IInvSays, WebhookInvariant, PTL

\* No interleaving and no failure makes a card claim an estimate that its
\* round did not write to Linear.
THEOREM WebhookFinalWasSaved == Spec => []FinalWasSaved
BY IInvSays, WebhookInvariant, PTL

\* Votes may be lost between two runs, but none is ever put down to a user
\* who did not cast it.
THEOREM WebhookOnlyOwnPicks == Spec => []OnlyOwnPicks
BY IInvSays, WebhookInvariant, PTL

\* A click on a card of an earlier round never brings a vote into a round
\* whose scale does not have it.
THEOREM WebhookVotesOnScale == Spec => []VotesOnScale
BY IInvSays, WebhookInvariant, PTL

\* The card of an open round is in the channel and about the round's issue.
THEOREM WebhookSessionHasCard == Spec => []SessionHasCard
BY IInvSays, WebhookInvariant, PTL

\* Whatever is voted, retracted, continued or rendered late at the same time,
\* a vote comes into view by the rendering of a reveal and by nothing else.
THEOREM WebhookHiddenUntilReveal == Spec => HiddenUntilReveal
BY WebhookIsHandler, HandlerHiddenUntilReveal, PTL

----------------------------------------------------------------------------
(***************************************************************************)
(* Overlapping requests lose votes, reopen rounds and contradict final     *)
(* cards.  That takes two requests about one issue: requests about other   *)
(* issues, and failures of all kinds, do none of it.                       *)
(***************************************************************************)
\* A behaviour in which no two requests about one issue overlap.
LEMMA WebhookApart == Spec /\ []Apart => ApartSpec
BY WebhookIsHandler, PTL DEF ApartSpec

\* Then a round that was closed is never open again.
THEOREM WebhookClosedStaysClosed == Spec /\ []Apart => []ClosedStaysClosed
BY WebhookApart, ApartClosedStaysClosed, PTL

\* Then a vote is confirmed to its user only when it is in the store.
THEOREM WebhookNoticeTruthful == Spec /\ []Apart => []NoticeTruthful
BY WebhookApart, ApartNoticeTruthful, PTL

\* Then, at rest, the final card of the round that wrote last names what
\* Linear has.
THEOREM WebhookFinalMatchesLinear == Spec /\ []Apart => []FinalMatchesLinear
BY WebhookApart, ApartFinalMatchesLinear, PTL

\* Then a card that says how its round ended says so for good.
THEOREM WebhookClosingCardIsLast == Spec /\ []Apart => ClosingCardIsLast
BY WebhookApart, ApartClosingCardIsLast, PTL

\* Then a vote is cast, changed or retracted only by a request of its user.
THEOREM WebhookVotesOnlyByOwner == Spec /\ []Apart => VotesOnlyByOwner
BY WebhookApart, ApartVotesOnlyByOwner, PTL

\* Then the store goes through whole operations of users, and estimates are
\* points of open rounds, for any value of Faulty.
THEOREM WebhookSurvivesFaults == Spec /\ []Apart => SurvivesFaults
BY WebhookApart, ApartSurvivesFaults, PTL

\* Then, unless the store, Linear or a run fails, every step is one whole
\* operation of a user on one round, or changes no round.
THEOREM WebhookImplementsRound ==
  ASSUME {"store", "linear", "crash"} \cap Faulty = {}
  PROVE  Spec /\ []Apart => ImplementsRound
BY WebhookApart, ApartImplementsRound, PTL

\* Then, unless the store, Linear or a run fails, a card that says no estimate
\* was saved is that of a round that wrote none.
THEOREM WebhookCancelHonest ==
  ASSUME {"store", "linear", "crash"} \cap Faulty = {}
  PROVE  Spec /\ []Apart => []CancelHonest
BY WebhookApart, ApartCancelHonest, PTL

\* Then, unless the store, Slack or a run fails, the card of an open round
\* shows what the store holds between two requests about its issue.
THEOREM WebhookBoardMatchesStore ==
  ASSUME {"store", "slack", "crash"} \cap Faulty = {}
  PROVE  Spec /\ []Apart => []BoardMatchesStore
BY WebhookApart, ApartBoardMatchesStore, PTL

\* Then Set takes what the card of the round puts forward: the selection if
\* the card offers it, otherwise the point it recommends.
THEOREM WebhookSetTakesShown ==
  ASSUME {"store", "slack", "crash"} \cap Faulty = {}
  PROVE  Spec /\ []Apart => SetTakesShown
BY WebhookApart, ApartSetTakesShown, PTL
=============================================================================
