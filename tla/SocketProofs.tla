----------------------------- MODULE SocketProofs -----------------------------
(***************************************************************************)
(* Socket Mode.  There is one worker, so its runs keep apart and all that  *)
(* was proved of such runs holds of it, for any users, issues, rounds and  *)
(* events, with the events that Slack sends again when their card changed. *)
(***************************************************************************)
EXTENDS Socket, SerialPromises, SequenceTheorems

\* The events that wait, and those that come again, were sent by users.
LEMMA QueueStep ==
  ASSUME QueuePicked, [SocketNext]_socketVars
  PROVE  QueuePicked'
<1>1. CASE Press
  <2>1. PICK r \in Request : Sendable(r) /\ queue' = Append(queue, r)
    BY <1>1 DEF Press
  <2>2. Picked(r)
    BY <2>1 DEF Sendable, Picked
  <2> QED
    BY <2>1, <2>2, AppendProperties DEF QueuePicked
<1>2. ASSUME NEW w \in Workers, Dispatch(w) PROVE QueuePicked'
  <2>1. PICK r : r = Head(queue)
    OBVIOUS
  <2>2. queue \in Seq(Request) /\ queue # << >>
    BY <1>2 DEF Dispatch, QueuePicked
  <2>3. /\ r \in Request /\ Picked(r) /\ Tail(queue) \in Seq(Request)
        /\ \A n \in DOMAIN Tail(queue) : Picked(Tail(queue)[n])
    <3>1. Len(queue) \in Nat \ {0} /\ 1 \in DOMAIN queue
      BY <2>2, EmptySeq
    <3> QED
      BY <2>1, <2>2, <3>1, HeadTailProperties DEF QueuePicked
  <2>4. CASE queue' = Tail(queue)
    BY <2>3, <2>4 DEF QueuePicked
  <2>5. CASE queue' = Append(Tail(queue), r)
    BY <2>3, <2>5, AppendProperties DEF QueuePicked
  <2> QED
    BY <1>2, <2>1, <2>4, <2>5 DEF Dispatch
<1>3. CASE queue' = queue \/ queue' = << >>
  <2>1. << >> \in Seq(Request) /\ DOMAIN << >> = {}
    OBVIOUS
  <2> QED
    BY <1>3, <2>1 DEF QueuePicked
<1> QED
  BY <1>1, <1>2, <1>3 DEF SocketNext, Handle, Restart, socketVars

\* What the loop does is to run its worker on one event after the other.
LEMMA SocketMoves ==
  ASSUME QueuePicked, [SocketNext]_socketVars
  PROVE  [HandlerNext]_vars
<1>1. ASSUME NEW w \in Workers, Dispatch(w) PROVE HandlerNext
  <2>1. queue \in Seq(Request) /\ queue # << >>
    BY <1>1 DEF Dispatch, QueuePicked
  <2>2. Len(queue) \in Nat \ {0} /\ 1 \in DOMAIN queue
    BY <2>1, EmptySeq
  <2>3. Head(queue) \in Request /\ Picked(Head(queue))
    BY <2>1, <2>2, HeadTailProperties DEF QueuePicked
  <2> QED
    BY <1>1, <2>3 DEF Dispatch, HandlerNext
<1>2. ASSUME NEW w \in Workers, Handle(w) PROVE HandlerNext
  BY <1>2 DEF Handle, HandlerNext
<1>3. ASSUME NEW w \in Workers, Restart(w) PROVE [HandlerNext]_vars
  BY <1>3 DEF Restart, HandlerNext
<1> QED
  BY <1>1, <1>2, <1>3 DEF SocketNext, Press, socketVars, vars

\* Whatever Slack sends again and whenever the process starts again, the loop
\* only runs the handler on requests of users.
THEOREM SocketIsHandler == SocketSpec => HandlerSpec
<1>1. SocketInit => Init /\ QueuePicked
  BY DEF SocketInit, QueuePicked
<1>2. QueuePicked /\ [SocketNext]_socketVars => QueuePicked' /\ [HandlerNext]_vars
  BY QueueStep, SocketMoves
<1> QED
  BY <1>1, <1>2, PTL DEF SocketSpec, HandlerSpec

\* It runs it on one of them at a time.
THEOREM SocketKeepsApart == SocketSpec => ApartSpec
<1>1. Apart
  BY OneWorker DEF Apart
<1> QED
  BY <1>1, SocketIsHandler, PTL DEF ApartSpec

\* The worker always holds what the store has, a closed round stays closed and
\* the last writer of an issue is known.
THEOREM SocketInvariant == SocketSpec => []SerialInv
BY SocketKeepsApart, ApartInvariant, PTL

\* What holds of the handler side by side holds of it one request at a time,
\* also of the requests that Slack sends again when their card has changed.
THEOREM SocketHandlerSafety ==
  SocketSpec =>
    []/\ TypeOK
      /\ FinalWasSaved
      /\ OnlyOwnPicks
      /\ VotesOnScale
      /\ SessionHasCard
BY SocketIsHandler, HandlerInvariant, IInvSays, PTL

\* A round that was closed is never open again.
THEOREM SocketClosedStaysClosed == SocketSpec => []ClosedStaysClosed
BY SocketKeepsApart, ApartClosedStaysClosed, PTL

\* A vote is confirmed to its user only when it is in the store.
THEOREM SocketNoticeTruthful == SocketSpec => []NoticeTruthful
BY SocketKeepsApart, ApartNoticeTruthful, PTL

\* At rest, the final card of the round that wrote last names what Linear has.
THEOREM SocketFinalMatchesLinear == SocketSpec => []FinalMatchesLinear
BY SocketKeepsApart, ApartFinalMatchesLinear, PTL

\* A card that says how its round ended says so for good.
THEOREM SocketClosingCardIsLast == SocketSpec => ClosingCardIsLast
BY SocketKeepsApart, ApartClosingCardIsLast, PTL

\* A vote is cast, changed or retracted only by a request of its user.
THEOREM SocketVotesOnlyByOwner == SocketSpec => VotesOnlyByOwner
BY SocketKeepsApart, ApartVotesOnlyByOwner, PTL

\* A repeated, late or half-handled event brings no vote into view either:
\* only the rendering of a reveal does.
THEOREM SocketHiddenUntilReveal == SocketSpec => HiddenUntilReveal
BY SocketIsHandler, HandlerHiddenUntilReveal, PTL

\* One request at a time implements the rounds of Round: every step is one
\* whole operation of a user on one round, or changes no round.
THEOREM SocketImplementsRound ==
  ASSUME {"store", "linear", "crash"} \cap Faulty = {}
  PROVE  SocketSpec => ImplementsRound
BY SocketKeepsApart, ApartImplementsRound, PTL

\* For any value of Faulty: the store goes through whole operations of users,
\* and estimates are points of open rounds.
THEOREM SocketSurvivesFaults == SocketSpec => SurvivesFaults
BY SocketKeepsApart, ApartSurvivesFaults, PTL

\* As long as the store and Linear answer and the process does not stop, a
\* card that says no estimate was saved is that of a round that wrote none,
\* whatever Slack loses or repeats.
THEOREM SocketCancelHonest ==
  ASSUME {"store", "linear", "crash"} \cap Faulty = {}
  PROVE  SocketSpec => []CancelHonest
BY SocketKeepsApart, ApartCancelHonest, PTL

\* As long as the store and Slack answer and the process does not stop, the
\* cards of the open rounds show what the store holds between two events.
THEOREM SocketBoardMatchesStore ==
  ASSUME {"store", "slack", "crash"} \cap Faulty = {}
  PROVE  SocketSpec => []BoardMatchesStore
BY SocketKeepsApart, ApartBoardMatchesStore, PTL

\* Then Set takes what the card of the round puts forward: the selection if
\* the card offers it, otherwise the point it recommends.
THEOREM SocketSetTakesShown ==
  ASSUME {"store", "slack", "crash"} \cap Faulty = {}
  PROVE  SocketSpec => SetTakesShown
BY SocketKeepsApart, ApartSetTakesShown, PTL
=============================================================================
