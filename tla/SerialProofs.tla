------------------------------ MODULE SerialProofs ------------------------------
(***************************************************************************)
(* Why runs that do not overlap on an issue keep their promises: what a    *)
(* worker loaded is still in the store when it writes, whatever runs on    *)
(* other issues meanwhile and whichever calls fail, for any number of      *)
(* workers, users, issues and rounds.  WebhookProofs and SocketProofs draw *)
(* the theorems of the two deployments.                                    *)
(***************************************************************************)
EXTENDS Serial, PokerHandlerProofs

\* The part of SerialInv that is about the outside.
RoundsInv == ClosedStaysClosed /\ ClosedCards /\ LastWriter

\* A step leaves the outside alone.
LEMMA RoundsStutter ==
  ASSUME RoundsInv, UNCHANGED outside
  PROVE  RoundsInv'
BY DEF outside, RoundsInv, ClosedStaysClosed, ClosedCards, LastWriter, Closing,
       Open

\* What is asked of all workers but w.
OthersCurrent(w) ==
  \A v \in Workers \ {w} : Current(pc[v], req[v], sess[v])

\* A step of worker w moves no other worker.
LocalTo(w) ==
  \A v \in Workers \ {w} : pc'[v] = pc[v] /\ req'[v] = req[v] /\ sess'[v] = sess[v]

\* A worker that returned owes nothing.
LEMMA FinishCurrent ==
  ASSUME LocalType, NEW w \in Workers, Finish(w), OthersCurrent(w)'
  PROVE  WorkersCurrent'
<1>1. pc'[w] = "idle"
  BY DEF LocalType, Finish
<1>2. Current(pc[w], req[w], sess[w])'
  BY <1>1 DEF Current
<1> QED
  BY <1>2 DEF WorkersCurrent, OthersCurrent

\* A worker that goes on is current if its next call finds what it needs.
LEMMA CarryCurrent ==
  ASSUME LocalType, NEW w \in Workers, NEW call, NEW s, NEW r,
         pc' = [pc EXCEPT ![w] = call],
         req' = [req EXCEPT ![w] = r],
         sess' = [sess EXCEPT ![w] = s],
         Current(call, r, s)', OthersCurrent(w)'
  PROVE  WorkersCurrent'
<1>1. pc'[w] = call /\ req'[w] = r /\ sess'[w] = s
  BY DEF LocalType
<1>2. Current(pc[w], req[w], sess[w])'
  BY <1>1 DEF Current
<1> QED
  BY <1>2 DEF WorkersCurrent, OthersCurrent

\* Carry leaves the request as it is.
LEMMA CarryRequest ==
  ASSUME LocalType, NEW w \in Workers, NEW call, NEW s, Carry(w, s, call)
  PROVE  /\ pc' = [pc EXCEPT ![w] = call]
         /\ req' = [req EXCEPT ![w] = req[w]]
         /\ sess' = [sess EXCEPT ![w] = s]
BY DEF Carry, LocalType

\* What the invariant says of a worker past the load.
LEMMA AtSerial ==
  ASSUME SerialInv, NEW w \in Workers, pc[w] \notin {"idle", "load", "post"},
         NEW r, NEW s, r = req[w], s = sess[w]
  PROVE  /\ r \in Request /\ r.issue \in Issues
         /\ s \in Session /\ s # NoSession /\ OwnVotes(s)
         /\ s.ts \in Cards /\ board[s.ts] # NoCard /\ board[s.ts].issue = r.issue
         /\ Current(pc[w], r, s)
         /\ Ready(pc[w], r, s)
<1>1. IInv /\ Current(pc[w], r, s)
  BY DEF SerialInv, WorkersCurrent
<1> QED
  BY <1>1, AtWrite, AtCall

\* A worker that returns, having changed nothing.
LEMMA FinishSerial ==
  ASSUME SerialInv, NEW w \in Workers, OthersCurrent(w)', Finish(w), UNCHANGED outside
  PROVE  WorkersCurrent' /\ RoundsInv'
BY IInvParts, FinishCurrent, RoundsStutter DEF SerialInv, RoundsInv

\* A worker that goes on, having changed nothing.
LEMMA CarrySerial ==
  ASSUME SerialInv, NEW w \in Workers, OthersCurrent(w)', NEW call, NEW s,
         Carry(w, s, call), UNCHANGED outside, Current(call, req[w], s)
  PROVE  WorkersCurrent' /\ RoundsInv'
<1>1. LocalType /\ RoundsInv
  BY IInvParts DEF SerialInv, RoundsInv
<1>2. PICK r : r = req[w]
  OBVIOUS
<1>3. Current(call, r, s)'
  BY <1>2 DEF Current, outside, Open, Closing
<1> QED
  BY <1>1, <1>2, <1>3, CarryRequest, CarryCurrent, RoundsStutter

\* A change keeps the card, and the votes of all users but its own.
LEMMA UpdatedKeeps ==
  ASSUME NEW r \in Request, NEW s \in Session, NEW t, Updated(r, s, t)
  PROVE  /\ t.ts = s.ts
         /\ r.act = "vote" => t.votes[r.user] = r.point
         /\ \A u \in Users : t.votes[u] # s.votes[u]
              => u = r.user /\ r.act \in {"vote", "retract"}
<1>1. s.votes \in [Users -> MaybePoint] /\ r.user \in Users
  BY DEF Session, Votes, Request
<1>2. CASE r.act = "vote" /\ t = CastVote(s, r.user, r.point)
  BY <1>1, <1>2 DEF CastVote, Session
<1>3. CASE r.act = "retract" /\ t = DropVote(s, r.user)
  BY <1>1, <1>3 DEF DropVote, Session
<1>4. CASE \E status : r.act # "vote" /\ t = WithStatus(s, status)
  BY <1>1, <1>4 DEF WithStatus, Session
<1> QED
  BY <1>2, <1>3, <1>4 DEF Updated

\* What is chosen is on the scale of the session, or there is nothing.
LEMMA ChosenOnScale ==
  ASSUME NEW s \in Session, NEW p
  PROVE  ChosenEstimate(p, s) \in s.scale \cup {NoPoint}
<1>1. s.scale \in SUBSET Points
  BY PointsAssumption DEF Session
<1> QED
  BY <1>1, ConsensusType DEF ChosenEstimate

----------------------------------------------------------------------------
\* FetchIssue and the loads: nothing outside changes, and the worker holds
\* what the store has, with the one change it is about to save.
LEMMA LoadSerial ==
  ASSUME SerialInv, NEW w \in Workers, OthersCurrent(w)',
         \/ FetchIssue(w) \/ VoteLoaded(w) \/ RetractLoaded(w)
         \/ RevealLoaded(w) \/ ContinueLoaded(w) \/ SetLoaded(w)
         \/ CancelLoaded(w)
  PROVE  WorkersCurrent' /\ RoundsInv'
<1>1. PICK s, r : s = store[req[w].issue] /\ r = req[w]
  OBVIOUS
<1>2. IInv /\ LocalType
  BY IInvParts DEF SerialInv
<1>3. CASE FetchIssue(w)
  <2>1. PICK t : /\ Carry(w, t, "post") /\ UNCHANGED outside
                 /\ t.status = "voting" /\ t.votes = NoVotes
    BY <1>3 DEF FetchIssue, NewSession
  <2>2. Current("post", req[w], t)
    BY <2>1 DEF Current
  <2> QED
    BY <2>1, <2>2, CarrySerial
<1>4. ASSUME NEW act, Loaded(w, act, s)
      PROVE  /\ s \in Session /\ s # NoSession /\ s = store[r.issue]
             /\ r \in Request /\ r.act = act /\ Open(r.issue)
  BY <1>1, <1>2, <1>4, LoadedFacts, AbsenceAssumption DEF Open, Loaded
<1>5. CASE VoteLoaded(w)
  <2>1. Loaded(w, "vote", s) /\ UNCHANGED outside
    BY <1>1, <1>5 DEF VoteLoaded
  <2>2. CASE Finish(w)
    BY <2>1, <2>2, FinishSerial
  <2>3. CASE /\ r.point \in s.scale
             /\ Carry(w, CastVote(s, r.user, r.point), "save")
    <3>1. PICK t : t = CastVote(s, r.user, r.point)
      OBVIOUS
    <3>2. Updated(r, s, t)
      BY <1>4, <2>1, <2>3, <3>1 DEF Updated
    <3>3. Current("save", req[w], t)
      BY <1>1, <1>4, <2>1, <3>2 DEF Current
    <3> QED
      BY <2>1, <2>3, <3>1, <3>3, CarrySerial
  <2> QED
    BY <1>1, <1>5, <2>2, <2>3 DEF VoteLoaded, Contains
<1>6. CASE RetractLoaded(w)
  <2>1. Loaded(w, "retract", s) /\ UNCHANGED outside
    BY <1>1, <1>6 DEF RetractLoaded
  <2>2. CASE Carry(w, s, "notice")
    <3>1. Current("notice", req[w], s)
      BY <1>1, <1>4, <2>1 DEF Current
    <3> QED
      BY <2>1, <2>2, <3>1, CarrySerial
  <2>3. CASE /\ s.votes[r.user] # NoPoint
             /\ Carry(w, DropVote(s, r.user), "save")
    <3>1. PICK t : t = DropVote(s, r.user)
      OBVIOUS
    <3>2. Updated(r, s, t)
      BY <1>4, <2>1, <2>3, <3>1 DEF Updated
    <3>3. Current("save", req[w], t)
      BY <1>1, <1>4, <2>1, <3>2 DEF Current
    <3> QED
      BY <2>1, <2>3, <3>1, <3>3, CarrySerial
  <2> QED
    BY <1>1, <1>6, <2>2, <2>3 DEF RetractLoaded
<1>7. CASE RevealLoaded(w) \/ ContinueLoaded(w)
  <2>1. PICK act, status :
          /\ <<act, status>> \in {<<"reveal", "revealed">>, <<"continue", "voting">>}
          /\ Loaded(w, act, s) /\ UNCHANGED outside
          /\ Carry(w, WithStatus(s, status), "save")
    BY <1>1, <1>7 DEF RevealLoaded, ContinueLoaded
  <2>2. PICK t : t = WithStatus(s, status)
    OBVIOUS
  <2>3. Updated(r, s, t)
    BY <1>4, <2>1, <2>2 DEF Updated
  <2>4. Current("save", req[w], t)
    BY <1>1, <1>4, <2>1, <2>3 DEF Current
  <2> QED
    BY <2>1, <2>2, <2>4, CarrySerial
<1>8. CASE SetLoaded(w)
  <2>1. PICK chosen : chosen = ChosenEstimate(r.point, s)
    OBVIOUS
  <2>2. PICK call \in {"render", "estimate"} :
          /\ Loaded(w, "set", s) /\ UNCHANGED outside
          /\ call = "estimate" => chosen # NoPoint
          /\ pc' = [pc EXCEPT ![w] = call]
          /\ req' = [req EXCEPT ![w].point = chosen]
          /\ sess' = [sess EXCEPT ![w] = s]
    BY <1>1, <1>8, <2>1 DEF SetLoaded
  <2>3. PICK q : q = [r EXCEPT !.point = chosen]
    OBVIOUS
  <2>4. req' = [req EXCEPT ![w] = q]
    BY <1>1, <2>2, <2>3
  <2>5. /\ q.act = "set" /\ q.issue = r.issue /\ q.point = chosen
        /\ chosen \in s.scale \cup {NoPoint}
    BY <1>4, <2>1, <2>2, <2>3, ChosenOnScale DEF Request
  <2>6. Current(call, q, s)'
    BY <1>4, <2>2, <2>5 DEF Current, outside
  <2> QED
    BY <1>2, <2>2, <2>4, <2>6, CarryCurrent, RoundsStutter DEF SerialInv, RoundsInv
<1>9. CASE CancelLoaded(w)
  <2>1. Loaded(w, "cancel", s) /\ UNCHANGED outside /\ Carry(w, s, "delete")
    BY <1>1, <1>9 DEF CancelLoaded
  <2>2. Current("delete", req[w], s)
    BY <1>1, <1>4, <2>1 DEF Current
  <2> QED
    BY <2>1, <2>2, CarrySerial
<1> QED
  BY <1>3, <1>5, <1>6, <1>7, <1>8, <1>9

----------------------------------------------------------------------------
\* PostCard takes a card that no round has had.
LEMMA PostSerial ==
  ASSUME SerialInv, NEW w \in Workers, OthersCurrent(w)', PostCard(w)
  PROVE  WorkersCurrent' /\ RoundsInv'
<1>1. IInv /\ LocalType /\ RoundsInv /\ OutsideType
  BY IInvParts DEF SerialInv, RoundsInv, OutsideInv
<1>2. pc[w] = "post" /\ UNCHANGED <<store, linear, saved, closed>>
  BY DEF PostCard
<1>3. CASE Finish(w) /\ UNCHANGED board
  BY <1>2, <1>3, FinishSerial DEF outside
<1>4. ASSUME NEW c \in Cards, NEW card, board[c] = NoCard,
             card # NoCard, card.kind = "voting",
             board' = [board EXCEPT ![c] = card],
             \/ Finish(w)
             \/ \E s : /\ s.ts = c /\ s.status = "voting" /\ s.votes = NoVotes
                      /\ Carry(w, s, "create")
      PROVE  WorkersCurrent' /\ RoundsInv'
  <2>1. c \notin closed /\ \A i \in Issues : Open(i) => store[i].ts # c
    BY <1>1, <1>4 DEF RoundsInv, ClosedCards, IInv, SessionHasCard
  <2>2. RoundsInv'
    <3>1. ClosedStaysClosed'
      BY <1>1, <1>2 DEF RoundsInv, ClosedStaysClosed, Open
    <3>2. ClosedCards'
      BY <1>1, <1>2, <1>4 DEF RoundsInv, ClosedCards, Closing, OutsideType
    <3>3. LastWriter'
      BY <1>1, <1>2, <1>4 DEF RoundsInv, LastWriter, OutsideType
    <3> QED
      BY <3>1, <3>2, <3>3 DEF RoundsInv
  <2>3. CASE Finish(w)
    BY <1>1, <2>2, <2>3, FinishCurrent
  <2>4. ASSUME NEW s, s.ts = c, s.status = "voting", s.votes = NoVotes,
               Carry(w, s, "create")
        PROVE  WorkersCurrent'
    <3>1. PICK r : r = req[w]
      OBVIOUS
    <3>2. Current("create", r, s)'
      BY <1>2, <2>1, <2>4 DEF Current, Open
    <3> QED
      BY <1>1, <2>4, <3>1, <3>2, CarryRequest, CarryCurrent
  <2> QED
    BY <1>4, <2>2, <2>3, <2>4
<1>5. PICK s, r : s = sess[w] /\ r = req[w]
  OBVIOUS
<1>6. s \in Session /\ r \in Request
  BY <1>1, <1>2, <1>5, AtCall
<1>7. s.status = "voting" /\ s.votes = NoVotes
  BY <1>2, <1>5 DEF SerialInv, WorkersCurrent, Current
<1>8. ASSUME NEW c \in Cards, NEW reply \in Replies("slack"), board[c] = NoCard,
             board' = [board EXCEPT ![c] = VotingCard(r.issue, s)],
             IF reply = "ok" THEN Carry(w, [s EXCEPT !.ts = c], "create")
             ELSE Finish(w)
      PROVE  WorkersCurrent' /\ RoundsInv'
  <2>1. VotingCard(r.issue, s) # NoCard /\ VotingCard(r.issue, s).kind = "voting"
    <3>1. VotingCard(r.issue, s) \in Card
      BY <1>6, PointsAssumption
         DEF VotingCard, Card, Kinds, MaybePoint, Session, Request
    <3> QED
      BY <3>1, AbsenceAssumption DEF VotingCard
  <2>2. PICK t : t = [s EXCEPT !.ts = c]
    OBVIOUS
  <2>3. t.ts = c /\ t.status = "voting" /\ t.votes = NoVotes
    BY <1>6, <1>7, <2>2 DEF Session
  <2> QED
    BY <1>4, <1>8, <2>1, <2>2, <2>3
<1> QED
  BY <1>2, <1>3, <1>5, <1>8 DEF PostCard

\* The session saved is that of a round that was not closed.
LEMMA SaveRounds ==
  ASSUME SerialInv, NEW i \in Issues, NEW s, s.ts \notin closed,
         store' = store \/ store' = [store EXCEPT ![i] = s],
         UNCHANGED <<board, linear, saved, closed>>
  PROVE  RoundsInv'
<1>1. RoundsInv /\ OutsideType
  BY IInvParts DEF SerialInv, RoundsInv, OutsideInv
<1>2. ClosedStaysClosed'
  BY <1>1 DEF RoundsInv, ClosedStaysClosed, Open, OutsideType
<1> QED
  BY <1>1, <1>2 DEF RoundsInv, ClosedCards, Closing, LastWriter

\* CreateSession.
LEMMA CreateSerial ==
  ASSUME SerialInv, NEW w \in Workers, OthersCurrent(w)', CreateSession(w)
  PROVE  WorkersCurrent' /\ RoundsInv'
<1>1. PICK r, s : r = req[w] /\ s = sess[w]
  OBVIOUS
<1>2. /\ pc[w] = "create" /\ Finish(w)
      /\ store' = store \/ store' = [store EXCEPT ![r.issue] = s]
      /\ UNCHANGED <<board, linear, saved, closed>>
  BY <1>1 DEF CreateSession, Saving
<1>3. r.issue \in Issues /\ s.ts \notin closed
  BY <1>1, <1>2, AtSerial DEF Current
<1>4. LocalType
  BY IInvParts DEF SerialInv
<1> QED
  BY <1>2, <1>3, <1>4, SaveRounds, FinishCurrent

\* Save: the round it loaded is still the one in the store.
LEMMA SaveSerial ==
  ASSUME SerialInv, NEW w \in Workers, OthersCurrent(w)', Save(w)
  PROVE  WorkersCurrent' /\ RoundsInv'
<1>1. PICK r, s : r = req[w] /\ s = sess[w]
  OBVIOUS
<1>2. /\ pc[w] = "save"
      /\ UNCHANGED <<board, linear, saved, closed>>
      /\ \/ /\ Finish(w)
            /\ store' = store \/ store' = [store EXCEPT ![r.issue] = s]
         \/ Goto(w, "render") /\ store' = [store EXCEPT ![r.issue] = s]
  BY <1>1 DEF Save, Saving, GotoIfOk
<1>3. /\ r.issue \in Issues /\ Open(r.issue) /\ store[r.issue].ts = s.ts
      /\ r.act = "vote" => s.votes[r.user] = r.point
  <2>1. /\ r \in Request /\ r.issue \in Issues
        /\ Open(r.issue) /\ Updated(r, store[r.issue], s)
    <3>1. Current("save", r, s) /\ r \in Request /\ r.issue \in Issues
      BY <1>1, <1>2, AtSerial
    <3> QED
      BY <3>1 DEF Current
  <2>2. store[r.issue] \in Session
    BY <2>1, IInvParts DEF SerialInv, OutsideInv, OutsideType, Open
  <2> QED
    BY <2>1, <2>2, UpdatedKeeps
<1>4. LocalType /\ OutsideType /\ ClosedStaysClosed
  BY IInvParts DEF SerialInv, OutsideInv
<1>5. RoundsInv'
  BY <1>2, <1>3, <1>4, SaveRounds DEF ClosedStaysClosed
<1>6. CASE Finish(w)
  BY <1>4, <1>5, <1>6, FinishCurrent
<1>7. CASE Goto(w, "render") /\ store' = [store EXCEPT ![r.issue] = s]
  <2>1. store'[r.issue] = s
    BY <1>3, <1>4, <1>7 DEF OutsideType
  <2>2. Current("render", r, s)'
    BY <1>3, <2>1 DEF Current
  <2> QED
    BY <1>1, <1>4, <1>5, <1>7, <2>2, CarryRequest, CarryCurrent DEF Goto
<1> QED
  BY <1>2, <1>6, <1>7

\* Render: the card of an open round never said how the round ended.
LEMMA RenderSerial ==
  ASSUME SerialInv, NEW w \in Workers, OthersCurrent(w)', Render(w)
  PROVE  /\ WorkersCurrent' /\ RoundsInv'
         /\ \A c \in Cards : Closing(c) => board'[c] = board[c]
<1>1. PICK r, s : r = req[w] /\ s = sess[w]
  OBVIOUS
<1>2. /\ pc[w] = "render" /\ UNCHANGED <<store, linear, saved, closed>>
      /\ \/ board' = board
         \/ board' = [board EXCEPT ![s.ts] = SessionCard(r.issue, s)]
      /\ Goto(w, "notice") \/ Finish(w)
  BY <1>1 DEF Render, GotoIfOk
<1>3. /\ r.issue \in Issues /\ s \in Session /\ s # NoSession /\ OwnVotes(s)
      /\ s.ts \in Cards /\ board[s.ts].issue = r.issue
      /\ Current("render", r, s) /\ store[r.issue] = s
  <2>1. /\ Current(pc[w], r, s) /\ Ready(pc[w], r, s)
        /\ r \in Request /\ r.issue \in Issues
        /\ s \in Session /\ s # NoSession /\ OwnVotes(s)
        /\ s.ts \in Cards /\ board[s.ts] # NoCard
        /\ board[s.ts].issue = r.issue
    BY <1>1, <1>2, AtSerial
  <2> QED
    BY <1>2, <2>1 DEF Current
<1>4. LocalType /\ OutsideType /\ RoundsInv
  BY IInvParts DEF SerialInv, OutsideInv, RoundsInv
<1>5. s.ts \notin closed /\ ~Closing(s.ts)
  BY <1>3, <1>4 DEF RoundsInv, ClosedStaysClosed, ClosedCards, Open
<1>6. PICK card : card = SessionCard(r.issue, s)
  OBVIOUS
<1>7. /\ card # NoCard /\ card.issue = r.issue
      /\ card.kind \in {"summary", "voting"}
  BY <1>3, <1>6, SessionCardType DEF SessionCard, SummaryCard, VotingCard
<1>8. RoundsInv'
  <2>1. ClosedStaysClosed'
    BY <1>2, <1>4 DEF RoundsInv, ClosedStaysClosed, Open
  <2>2. ClosedCards'
    BY <1>2, <1>4, <1>6, <1>7 DEF RoundsInv, ClosedCards, Closing, OutsideType
  <2>3. LastWriter'
    BY <1>2, <1>3, <1>4, <1>6, <1>7 DEF RoundsInv, LastWriter, OutsideType
  <2> QED
    BY <2>1, <2>2, <2>3 DEF RoundsInv
<1>9. \A c \in Cards : Closing(c) => board'[c] = board[c]
  BY <1>2, <1>4, <1>5 DEF OutsideType
<1>10. CASE Finish(w)
  BY <1>4, <1>8, <1>9, <1>10, FinishCurrent
<1>11. CASE Goto(w, "notice")
  <2>1. Current("notice", r, s)'
    BY <1>2, <1>3 DEF Current
  <2> QED
    BY <1>1, <1>4, <1>8, <1>9, <1>11, <2>1, CarryRequest, CarryCurrent DEF Goto
<1> QED
  BY <1>2, <1>10, <1>11

\* SetEstimate: the round that writes is open, so its card is not final.
LEMMA EstimateSerial ==
  ASSUME SerialInv, NEW w \in Workers, OthersCurrent(w)', SetEstimate(w)
  PROVE  WorkersCurrent' /\ RoundsInv'
<1>1. PICK r, s : r = req[w] /\ s = sess[w]
  OBVIOUS
<1>2. PICK new : new = [point |-> r.point, card |-> s.ts]
  OBVIOUS
<1>3. /\ pc[w] = "estimate" /\ UNCHANGED <<store, board, closed>>
      /\ \/ /\ Finish(w)
            /\ linear' = linear \/ linear' = [linear EXCEPT ![r.issue] = new]
         \/ Goto(w, "delete") /\ linear' = [linear EXCEPT ![r.issue] = new]
  BY <1>1, <1>2 DEF SetEstimate, Writing, GotoIfOk
<1>4. /\ r.issue \in Issues /\ s # NoSession
      /\ s.ts \in Cards /\ board[s.ts] # NoCard /\ board[s.ts].issue = r.issue
      /\ store[r.issue] = s
  <2>1. /\ Current(pc[w], r, s) /\ Ready(pc[w], r, s)
        /\ r \in Request /\ r.issue \in Issues
        /\ s \in Session /\ s # NoSession /\ OwnVotes(s)
        /\ s.ts \in Cards /\ board[s.ts] # NoCard
        /\ board[s.ts].issue = r.issue
    BY <1>1, <1>3, AtSerial
  <2> QED
    BY <1>3, <2>1 DEF Current
<1>5. LocalType /\ OutsideType /\ RoundsInv
  BY IInvParts DEF SerialInv, OutsideInv, RoundsInv
<1>6. board[s.ts].kind # "final"
  BY <1>4, <1>5 DEF RoundsInv, ClosedStaysClosed, ClosedCards, Closing, Open
<1>7. RoundsInv'
  <2>1. ClosedStaysClosed' /\ ClosedCards'
    BY <1>3, <1>5 DEF RoundsInv, ClosedStaysClosed, ClosedCards, Closing, Open
  <2>2. LastWriter'
    BY <1>2, <1>3, <1>4, <1>5, <1>6 DEF RoundsInv, LastWriter, OutsideType
  <2> QED
    BY <2>1, <2>2 DEF RoundsInv
<1>8. CASE Finish(w)
  BY <1>5, <1>7, <1>8, FinishCurrent
<1>9. CASE Goto(w, "delete") /\ linear' = [linear EXCEPT ![r.issue] = new]
  <2>1. linear'[r.issue] = new /\ store'[r.issue] = s
    BY <1>3, <1>4, <1>5, <1>9 DEF OutsideType
  <2>2. Current("delete", r, s)'
    BY <1>2, <2>1 DEF Current
  <2> QED
    BY <1>1, <1>5, <1>7, <1>9, <2>2, CarryRequest, CarryCurrent DEF Goto
<1> QED
  BY <1>3, <1>8, <1>9

\* DeleteSession closes the round in the store and no other.
LEMMA DeleteSerial ==
  ASSUME SerialInv, NEW w \in Workers, OthersCurrent(w)', DeleteSession(w)
  PROVE  WorkersCurrent' /\ RoundsInv'
<1>1. PICK r, s : r = req[w] /\ s = sess[w]
  OBVIOUS
<1>2. /\ pc[w] = "delete" /\ UNCHANGED <<board, linear, saved>>
      /\ \/ Finish(w) /\ UNCHANGED <<store, closed>>
         \/ /\ store' = [store EXCEPT ![r.issue] = NoSession]
            /\ closed' = closed \cup {s.ts}
            /\ Finish(w) \/ Goto(w, "close")
  BY <1>1 DEF DeleteSession, Deleting, GotoIfOk
<1>3. /\ r.issue \in Issues /\ s # NoSession
      /\ s.ts \in Cards /\ board[s.ts] # NoCard /\ board[s.ts].issue = r.issue
      /\ store[r.issue] = s /\ Current("delete", r, s)
  BY <1>1, <1>2, AtSerial DEF Current
<1>4. LocalType /\ OutsideType /\ RoundsInv /\ SessionHasCard
  BY IInvParts DEF SerialInv, OutsideInv, RoundsInv
<1>5. CASE Finish(w) /\ UNCHANGED <<store, closed>>
  BY <1>2, <1>5, FinishSerial DEF outside
<1>6. CASE /\ store' = [store EXCEPT ![r.issue] = NoSession]
           /\ closed' = closed \cup {s.ts}
           /\ Finish(w) \/ Goto(w, "close")
  <2>1. ClosedStaysClosed'
    <3> SUFFICES ASSUME NEW i \in Issues, store'[i] # NoSession
                 PROVE  store'[i].ts \notin closed'
      BY DEF ClosedStaysClosed, Open
    <3>1. i # r.issue /\ store'[i] = store[i]
      BY <1>3, <1>4, <1>6 DEF OutsideType
    <3>2. store[i].ts # s.ts
      BY <1>3, <1>4, <3>1 DEF SessionHasCard, Open
    <3> QED
      BY <1>4, <1>6, <3>1, <3>2 DEF RoundsInv, ClosedStaysClosed, Open
  <2>2. ClosedCards'
    BY <1>2, <1>3, <1>4, <1>6 DEF RoundsInv, ClosedCards, Closing
  <2>3. LastWriter'
    BY <1>2, <1>4 DEF RoundsInv, LastWriter
  <2>4. RoundsInv'
    BY <2>1, <2>2, <2>3 DEF RoundsInv
  <2>5. CASE Finish(w)
    BY <1>4, <2>4, <2>5, FinishCurrent
  <2>6. CASE Goto(w, "close")
    <3>1. s.ts \in closed' /\ ~Closing(s.ts)
      BY <1>3, <1>4, <1>6
         DEF RoundsInv, ClosedStaysClosed, ClosedCards, Open
    <3>2. Current("close", r, s)'
      BY <1>2, <1>3, <3>1 DEF Current, Closing
    <3> QED
      BY <1>1, <1>4, <2>4, <2>6, <3>2, CarryRequest, CarryCurrent DEF Goto
  <2> QED
    BY <1>6, <2>5, <2>6
<1> QED
  BY <1>2, <1>5, <1>6

\* CloseCard: the final card names the estimate Linear has.
LEMMA CloseSerial ==
  ASSUME SerialInv, NEW w \in Workers, OthersCurrent(w)', CloseCard(w)
  PROVE  /\ WorkersCurrent' /\ RoundsInv'
         /\ \A c \in Cards : Closing(c) => board'[c] = board[c]
<1>1. PICK r, s : r = req[w] /\ s = sess[w]
  OBVIOUS
<1>2. PICK card : card = ClosingCard(r)
  OBVIOUS
<1>3. /\ pc[w] = "close" /\ Finish(w) /\ UNCHANGED <<store, linear, saved, closed>>
      /\ board' = board \/ board' = [board EXCEPT ![s.ts] = card]
  BY <1>1, <1>2 DEF CloseCard
<1>4. /\ r \in Request /\ s.ts \in Cards
      /\ s.ts \in closed /\ ~Closing(s.ts)
      /\ board[s.ts].issue = r.issue
      /\ r.act \in {"set", "cancel"}
      /\ r.act = "set" => linear[r.issue] = [point |-> r.point, card |-> s.ts]
  <2>1. /\ Current(pc[w], r, s) /\ Ready(pc[w], r, s)
        /\ r \in Request /\ r.issue \in Issues
        /\ s \in Session /\ s # NoSession /\ OwnVotes(s)
        /\ s.ts \in Cards /\ board[s.ts] # NoCard
        /\ board[s.ts].issue = r.issue
    BY <1>1, <1>3, AtSerial
  <2> QED
    BY <1>3, <2>1 DEF Current, Ready
<1>5. LocalType /\ OutsideType /\ RoundsInv
  BY IInvParts DEF SerialInv, OutsideInv, RoundsInv
<1>6. /\ card # NoCard /\ card.issue = r.issue
      /\ card.kind = "final" => r.act = "set" /\ card.point = r.point
  <2>1. card \in Card
    BY <1>2, <1>4
       DEF ClosingCard, CancelledCard, FinalCard, Card, Kinds, NoVotes,
           MaybePoint, Request
  <2> QED
    BY <1>2, <1>4, <2>1, AbsenceAssumption
       DEF ClosingCard, CancelledCard, FinalCard
<1>7. RoundsInv'
  <2>1. ClosedStaysClosed'
    BY <1>3, <1>5 DEF RoundsInv, ClosedStaysClosed, Open
  <2>2. ClosedCards'
    BY <1>3, <1>4, <1>5, <1>6 DEF RoundsInv, ClosedCards, Closing, OutsideType
  <2>3. LastWriter'
    BY <1>3, <1>4, <1>5, <1>6 DEF RoundsInv, LastWriter, OutsideType
  <2> QED
    BY <2>1, <2>2, <2>3 DEF RoundsInv
<1>8. \A c \in Cards : Closing(c) => board'[c] = board[c]
  BY <1>3, <1>4, <1>5 DEF OutsideType
<1> QED
  BY <1>3, <1>5, <1>7, <1>8, FinishCurrent

----------------------------------------------------------------------------
\* One call of the handler.
LEMMA HandlerSerial ==
  ASSUME SerialInv, NEW w \in Workers, OthersCurrent(w)', HandlerStep(w)
  PROVE  WorkersCurrent' /\ RoundsInv'
<1>1. CASE Refuse(w) \/ IgnoreSelect(w) \/ LoadNothing(w) \/ Notify(w)
  BY <1>1, FinishSerial DEF Refuse, IgnoreSelect, LoadNothing, Notify
<1>2. CASE \/ FetchIssue(w) \/ VoteLoaded(w) \/ RetractLoaded(w)
           \/ RevealLoaded(w) \/ ContinueLoaded(w) \/ SetLoaded(w)
           \/ CancelLoaded(w)
  BY <1>2, LoadSerial
<1>3. CASE PostCard(w) \/ CreateSession(w) \/ Save(w) \/ Render(w)
  BY <1>3, PostSerial, CreateSerial, SaveSerial, RenderSerial
<1>4. CASE SetEstimate(w) \/ DeleteSession(w) \/ CloseCard(w)
  BY <1>4, EstimateSerial, DeleteSerial, CloseSerial
<1> QED
  BY <1>1, <1>2, <1>3, <1>4 DEF HandlerStep

----------------------------------------------------------------------------
(***************************************************************************)
(* The other workers.  A step of a worker touches its own issue only, so a *)
(* worker on another issue still holds what it needs.                      *)
(***************************************************************************)
\* The step changes nothing that is about another issue.
Only(i) ==
  /\ \A j \in Issues \ {i} : store'[j] = store[j] /\ linear'[j] = linear[j]
  /\ \A c \in Cards : board[c] # NoCard /\ board[c].issue # i =>
       board'[c] = board[c] /\ (c \in closed' <=> c \in closed)

\* A step that moves one worker.
LEMMA OneMoves ==
  ASSUME LocalType, NEW w \in Workers,
         \/ Finish(w)
         \/ \E call, s : Carry(w, s, call)
         \/ \E call, r, s : /\ pc' = [pc EXCEPT ![w] = call]
                            /\ req' = [req EXCEPT ![w] = r]
                            /\ sess' = [sess EXCEPT ![w] = s]
  PROVE  LocalTo(w)
BY DEF LocalType, Finish, Carry, LocalTo

\* One call of the handler is made by a worker that has a request, about the
\* issue of that request.
LEMMA OneIssue ==
  ASSUME IInv, NEW w \in Workers, HandlerStep(w)
  PROVE  ~Idle(w) /\ LocalTo(w) /\ Only(req[w].issue)
<1>1. LocalType /\ OutsideType
  BY IInvParts DEF OutsideInv
<1>2. PICK r, s : r = req[w] /\ s = sess[w]
  OBVIOUS
<1>3. CASE \/ Refuse(w) \/ FetchIssue(w) \/ IgnoreSelect(w) \/ LoadNothing(w)
           \/ VoteLoaded(w) \/ RetractLoaded(w) \/ RevealLoaded(w)
           \/ ContinueLoaded(w) \/ CancelLoaded(w) \/ Notify(w)
  <2>1. /\ pc[w] \in {"load", "notice"} /\ UNCHANGED outside
        /\ Finish(w) \/ \E call, t : Carry(w, t, call)
    BY <1>3
       DEF Refuse, FetchIssue, IgnoreSelect, LoadNothing, VoteLoaded,
           RetractLoaded, RevealLoaded, ContinueLoaded, CancelLoaded, Notify,
           Loaded, Loading
  <2> QED
    BY <1>1, <2>1, OneMoves DEF Only, outside, Idle
<1>4. CASE SetLoaded(w)
  <2>1. /\ pc[w] = "load" /\ UNCHANGED outside
        /\ \A v \in Workers \ {w} :
             pc'[v] = pc[v] /\ req'[v] = req[v] /\ sess'[v] = sess[v]
    BY <1>1, <1>4 DEF SetLoaded, Loaded, Loading, LocalType
  <2> QED
    BY <2>1 DEF Only, outside, Idle, LocalTo
<1>5. CASE PostCard(w)
  <2>1. /\ pc[w] = "post" /\ UNCHANGED <<store, linear, saved, closed>>
        /\ \/ board' = board
           \/ \E c \in Cards : \E card :
                board[c] = NoCard /\ board' = [board EXCEPT ![c] = card]
        /\ Finish(w) \/ \E call, t : Carry(w, t, call)
    BY <1>5 DEF PostCard
  <2>2. \A c \in Cards : board[c] # NoCard => board'[c] = board[c]
    BY <1>1, <2>1 DEF OutsideType
  <2> QED
    BY <1>1, <2>1, <2>2, OneMoves DEF Only, Idle
<1>6. CASE CreateSession(w) \/ Save(w)
  <2>1. /\ pc[w] \in {"create", "save"} /\ UNCHANGED <<board, linear, saved, closed>>
        /\ store' = store \/ store' = [store EXCEPT ![r.issue] = s]
        /\ Finish(w) \/ \E call, t : Carry(w, t, call)
    BY <1>2, <1>6 DEF CreateSession, Save, Saving, GotoIfOk, Goto
  <2> QED
    BY <1>1, <1>2, <2>1, OneMoves DEF Only, Idle, OutsideType
<1>7. CASE Render(w) \/ CloseCard(w)
  <2>1. PICK card :
          /\ pc[w] \in {"render", "close"} /\ UNCHANGED <<store, linear, saved, closed>>
          /\ board' = board \/ board' = [board EXCEPT ![s.ts] = card]
          /\ Finish(w) \/ \E call, t : Carry(w, t, call)
    BY <1>2, <1>7 DEF Render, CloseCard, GotoIfOk, Goto
  <2>2. board[s.ts].issue = r.issue
    BY <1>2, <2>1, AtWrite
  <2> QED
    BY <1>1, <1>2, <2>1, <2>2, OneMoves DEF Only, Idle, OutsideType
<1>8. CASE SetEstimate(w)
  <2>1. PICK new :
          /\ pc[w] = "estimate" /\ UNCHANGED <<store, board, closed>>
          /\ linear' = linear \/ linear' = [linear EXCEPT ![r.issue] = new]
          /\ Finish(w) \/ \E call, t : Carry(w, t, call)
    BY <1>2, <1>8 DEF SetEstimate, Writing, GotoIfOk, Goto
  <2> QED
    BY <1>1, <1>2, <2>1, OneMoves DEF Only, Idle, OutsideType
<1>9. CASE DeleteSession(w)
  <2>1. /\ pc[w] = "delete" /\ UNCHANGED <<board, linear>>
        /\ store' = store \/ store' = [store EXCEPT ![r.issue] = NoSession]
        /\ closed' = closed \/ closed' = closed \cup {s.ts}
        /\ Finish(w) \/ \E call, t : Carry(w, t, call)
    BY <1>2, <1>9 DEF DeleteSession, Deleting, GotoIfOk, Goto
  <2>2. board[s.ts].issue = r.issue
    BY <1>2, <2>1, AtWrite
  <2> QED
    BY <1>1, <1>2, <2>1, <2>2, OneMoves DEF Only, Idle, OutsideType
<1> QED
  BY <1>3, <1>4, <1>5, <1>6, <1>7, <1>8, <1>9 DEF HandlerStep

\* The workers on other issues do not notice the step.
LEMMA OthersStay ==
  ASSUME SerialInv, SessionHasCard', Apart, NEW w \in Workers, ~Idle(w),
         LocalTo(w), Only(req[w].issue)
  PROVE  OthersCurrent(w)'
<1> SUFFICES ASSUME NEW v \in Workers \ {w}
             PROVE  Current(pc[v], req[v], sess[v])'
  BY DEF OthersCurrent
<1>1. PICK call, r, s, i : call = pc[v] /\ r = req[v] /\ s = sess[v] /\ i = req[w].issue
  OBVIOUS
<1>2. pc'[v] = call /\ req'[v] = r /\ sess'[v] = s
  BY <1>1 DEF LocalTo
<1>3. Current(call, r, s)
  BY <1>1 DEF SerialInv, WorkersCurrent
<1>4. SUFFICES ASSUME call \notin {"idle", "load", "post"}
               PROVE  Current(call, r, s)'
  <2>1. call \in {"idle", "load", "post"} => Current(call, r, s)'
    BY <1>3 DEF Current
  <2> QED
    BY <1>2, <2>1 DEF Current
<1>5. /\ r.issue \in Issues /\ r.issue # i
      /\ s.ts \in Cards /\ board[s.ts] # NoCard /\ board[s.ts].issue = r.issue
  BY <1>1, <1>4, AtSerial DEF Apart, Idle
<1>6. /\ store'[r.issue] = store[r.issue] /\ linear'[r.issue] = linear[r.issue]
      /\ board'[s.ts] = board[s.ts] /\ (s.ts \in closed' <=> s.ts \in closed)
  BY <1>1, <1>5 DEF Only
<1>7. CASE call = "create"
  <2>1. \A j \in Issues : store'[j] # NoSession => store'[j].ts # s.ts
    <3> SUFFICES ASSUME NEW j \in Issues, store'[j] # NoSession
                 PROVE  store'[j].ts # s.ts
      OBVIOUS
    <3>1. CASE j # i
      BY <1>1, <1>3, <1>7, <3>1 DEF Current, Open, Only
    <3>2. CASE j = i
      BY <1>5, <1>6, <3>2 DEF SessionHasCard, Open
    <3> QED
      BY <3>1, <3>2
  <2>2. /\ s.status = "voting" /\ s.votes = NoVotes /\ s.ts \notin closed'
    BY <1>3, <1>6, <1>7 DEF Current
  <2> QED
    BY <1>7, <2>1, <2>2 DEF Current, Open
<1>8. CASE call # "create"
  BY <1>3, <1>4, <1>6, <1>8 DEF Current, Open, Closing
<1> QED
  BY <1>7, <1>8

\* The same of one call of the handler.
LEMMA OthersStep ==
  ASSUME SerialInv, Apart, NEW w \in Workers, HandlerStep(w)
  PROVE  IInv' /\ OthersCurrent(w)'
<1>1. IInv /\ IInv'
  BY HandlerInv DEF SerialInv
<1> QED
  BY <1>1, OneIssue, OthersStay DEF IInv

----------------------------------------------------------------------------
\* The invariant is inductive as long as runs keep apart.
LEMMA SerialStep ==
  ASSUME SerialInv, Apart, NEW w \in Workers, HandlerStep(w)
  PROVE  SerialInv'
BY OthersStep, HandlerSerial DEF SerialInv, RoundsInv

\* A run that starts has loaded nothing yet, whatever it is about.
LEMMA BeginSerial ==
  ASSUME SerialInv, NEW w \in Workers, NEW r \in Request, Picked(r), Begin(w, r)
  PROVE  SerialInv'
<1>1. IInv /\ LocalType /\ RoundsInv
  BY IInvParts DEF SerialInv, RoundsInv
<1>2. IInv' /\ RoundsInv'
  BY <1>1, BeginInv, RoundsStutter DEF Begin, Picked
<1>3. WorkersCurrent'
  <2> SUFFICES ASSUME NEW v \in Workers PROVE Current(pc[v], req[v], sess[v])'
    BY DEF WorkersCurrent
  <2>1. CASE v = w
    <3>1. pc'[w] = "load"
      BY <1>1 DEF Begin, LocalType
    <3> QED
      BY <2>1, <3>1 DEF Current
  <2>2. CASE v # w
    <3>1. pc'[v] = pc[v] /\ req'[v] = req[v] /\ sess'[v] = sess[v]
      BY <1>1, <2>2 DEF Begin, LocalType
    <3>2. Current(pc[v], req[v], sess[v])
      BY DEF SerialInv, WorkersCurrent
    <3> QED
      BY <3>1, <3>2 DEF Current, Begin, outside, Open, Closing
  <2> QED
    BY <2>1, <2>2
<1> QED
  BY <1>2, <1>3 DEF SerialInv, RoundsInv

\* Nothing changed.
LEMMA StutterSerial ==
  ASSUME SerialInv, UNCHANGED vars
  PROVE  SerialInv'
<1>1. IInv' /\ RoundsInv'
  BY StutterInv, RoundsStutter DEF vars, outside, SerialInv, RoundsInv
<1>2. WorkersCurrent'
  BY DEF SerialInv, vars, WorkersCurrent, Current, Open, Closing
<1> QED
  BY <1>1, <1>2 DEF SerialInv, RoundsInv

\* A run that is cut off owes nothing, and the others go on.
LEMMA CrashSerial ==
  ASSUME SerialInv, NEW w \in Workers, Crash(w)
  PROVE  SerialInv'
<1>1. IInv /\ LocalType
  BY IInvParts DEF SerialInv
<1>2. OthersCurrent(w)'
  <2> SUFFICES ASSUME NEW v \in Workers \ {w}
               PROVE  Current(pc[v], req[v], sess[v])'
    BY DEF OthersCurrent
  <2>1. pc'[v] = pc[v] /\ req'[v] = req[v] /\ sess'[v] = sess[v]
    BY <1>1 DEF Crash, Finish, LocalType
  <2>2. Current(pc[v], req[v], sess[v])
    BY DEF SerialInv, WorkersCurrent
  <2> QED
    BY <2>1, <2>2 DEF Current, Crash, outside, Open, Closing
<1>3. WorkersCurrent' /\ RoundsInv'
  BY <1>2, FinishSerial DEF Crash
<1> QED
  BY <1>1, <1>3, CrashInv DEF SerialInv, RoundsInv

LEMMA InitSerial == ASSUME Init PROVE SerialInv
<1>1. IInv
  BY InitInv
<1>2. WorkersCurrent
  BY DEF Init, WorkersCurrent, Current
<1>3. ClosedStaysClosed /\ ClosedCards /\ LastWriter
  BY DEF Init, ClosedStaysClosed, ClosedCards, LastWriter, Closing, Open
<1> QED
  BY <1>1, <1>2, <1>3 DEF SerialInv

\* What the invariant says to users: a confirmed vote is in the store, and at
\* rest the final card of the round that wrote last names what Linear has.
LEMMA SerialSays ==
  ASSUME SerialInv
  PROVE  NoticeTruthful /\ FinalMatchesLinear
<1>1. ASSUME NEW w \in Workers, pc[w] = "notice", req[w].act = "vote"
      PROVE  store[req[w].issue].votes[req[w].user] = req[w].point
  <2>1. Current("notice", req[w], sess[w])
    BY <1>1 DEF SerialInv, WorkersCurrent
  <2> QED
    BY <1>1, <2>1 DEF Current
<1>2. NoticeTruthful
  BY <1>1 DEF NoticeTruthful
<1>3. FinalMatchesLinear
  BY DEF SerialInv, LastWriter, FinalMatchesLinear
<1> QED
  BY <1>2, <1>3

----------------------------------------------------------------------------
\* Only the steps that render a card change cards, and none changes one that
\* says how its round ended.
LEMMA ClosingStays ==
  ASSUME SerialInv, Apart, NEW w \in Workers, HandlerStep(w) \/ Crash(w)
  PROVE  \A c \in Cards : Closing(c) => board'[c] = board[c]
<1>1. CASE PostCard(w)
  <2>1. OutsideType
    BY IInvParts DEF SerialInv, OutsideInv
  <2> QED
    BY <1>1, <2>1 DEF PostCard, Closing, OutsideType
<1>2. CASE Render(w) \/ CloseCard(w)
  <2>1. OthersCurrent(w)'
    BY <1>2, OthersStep DEF HandlerStep
  <2> QED
    BY <1>2, <2>1, RenderSerial, CloseSerial
<1>3. CASE UNCHANGED board
  BY <1>3
<1> QED
  BY <1>1, <1>2, <1>3
     DEF HandlerStep, Crash, outside, Refuse, FetchIssue, CreateSession,
         IgnoreSelect, LoadNothing, VoteLoaded, RetractLoaded, RevealLoaded,
         ContinueLoaded, SetLoaded, CancelLoaded, Save, Notify, SetEstimate,
         DeleteSession

\* A session of the store is changed under its own card by Save only: a new
\* round has a card of its own.
LEMMA VotesStay ==
  ASSUME SerialInv, NEW w \in Workers, HandlerStep(w) \/ Crash(w),
         NEW i \in Issues, NEW u \in Users, Open(i), store'[i] # NoSession,
         store'[i].ts = store[i].ts, store'[i].votes[u] # store[i].votes[u]
  PROVE  pc[w] = "save" /\ req[w].user = u /\ req[w].act \in {"vote", "retract"}
<1>1. OutsideType
  BY IInvParts DEF SerialInv, OutsideInv
<1>2. PICK r, s : r = req[w] /\ s = sess[w]
  OBVIOUS
<1>3. CASE CreateSession(w)
  <2>1. pc[w] = "create" /\ store' \in {store, [store EXCEPT ![r.issue] = s]}
    BY <1>2, <1>3 DEF CreateSession, Saving
  <2>2. Current("create", r, s) /\ r.issue \in Issues
    BY <1>2, <2>1, AtSerial
  <2> QED
    BY <1>1, <2>1, <2>2 DEF Current, OutsideType
<1>4. CASE DeleteSession(w)
  <2>1. pc[w] = "delete" /\ store' \in {store, [store EXCEPT ![r.issue] = NoSession]}
    BY <1>2, <1>4 DEF DeleteSession, Deleting
  <2> QED
    BY <1>1, <2>1 DEF OutsideType
<1>5. CASE Save(w)
  <2>1. pc[w] = "save" /\ store' \in {store, [store EXCEPT ![r.issue] = s]}
    BY <1>2, <1>5 DEF Save, Saving
  <2>2. Current("save", r, s) /\ r \in Request /\ r.issue \in Issues
    BY <1>2, <2>1, AtSerial
  <2>3. Open(r.issue) /\ Updated(r, store[r.issue], s)
    BY <2>2 DEF Current
  <2>4. i = r.issue /\ store'[i] = s
    BY <1>1, <2>1, <2>2 DEF OutsideType
  <2>5. store[r.issue] \in Session
    BY <1>1, <2>2, <2>3 DEF OutsideType, Open
  <2>6. u = r.user /\ r.act \in {"vote", "retract"}
    BY <2>2, <2>3, <2>4, <2>5, UpdatedKeeps
  <2> QED
    BY <1>2, <2>1, <2>6
<1>6. CASE UNCHANGED store
  BY <1>6
<1> QED
  BY <1>3, <1>4, <1>5, <1>6
     DEF HandlerStep, Crash, outside, Refuse, FetchIssue, PostCard,
         IgnoreSelect, LoadNothing, VoteLoaded, RetractLoaded, RevealLoaded,
         ContinueLoaded, SetLoaded, CancelLoaded, Render, Notify, SetEstimate,
         CloseCard

----------------------------------------------------------------------------
\* Whichever calls fail, a run that is alone with its issue holds what the store
\* has; a closed round stays closed and the last writer of an issue is known.
THEOREM ApartInvariant == ApartSpec => []SerialInv
<1>1. Init => SerialInv
  BY InitSerial
<1>2. SerialInv /\ Apart /\ [HandlerNext]_vars => SerialInv'
  <2> SUFFICES ASSUME SerialInv, Apart, [HandlerNext]_vars PROVE SerialInv'
    OBVIOUS
  <2>1. ASSUME NEW w \in Workers, HandlerStep(w) PROVE SerialInv'
    BY <2>1, SerialStep
  <2>2. ASSUME NEW w \in Workers, NEW r \in Request, Picked(r), Begin(w, r)
        PROVE  SerialInv'
    BY <2>2, BeginSerial
  <2>3. ASSUME NEW w \in Workers, Crash(w) PROVE SerialInv'
    BY <2>3, CrashSerial
  <2> QED
    BY <2>1, <2>2, <2>3, StutterSerial DEF HandlerNext
<1> QED
  BY <1>1, <1>2, PTL DEF ApartSpec, HandlerSpec

\* A round that was closed is never open again.
THEOREM ApartClosedStaysClosed == ApartSpec => []ClosedStaysClosed
<1>1. SerialInv => ClosedStaysClosed
  BY DEF SerialInv
<1> QED
  BY <1>1, ApartInvariant, PTL

\* A vote is confirmed to its user only when it is in the store.
THEOREM ApartNoticeTruthful == ApartSpec => []NoticeTruthful
<1>1. SerialInv => NoticeTruthful
  BY SerialSays
<1> QED
  BY <1>1, ApartInvariant, PTL

\* At rest, the final card of the round that wrote last names what Linear has.
THEOREM ApartFinalMatchesLinear == ApartSpec => []FinalMatchesLinear
<1>1. SerialInv => FinalMatchesLinear
  BY SerialSays
<1> QED
  BY <1>1, ApartInvariant, PTL

\* A card that says how its round ended says so for good.
THEOREM ApartClosingCardIsLast == ApartSpec => ClosingCardIsLast
<1> DEFINE Stays == \A c \in Cards :
      board[c] # NoCard /\ board[c].kind \in {"final", "cancelled"} =>
        board'[c] = board[c]
<1>1. SerialInv /\ Apart /\ [HandlerNext]_vars => [Stays]_vars
  <2> SUFFICES ASSUME SerialInv, Apart, HandlerNext PROVE Stays
    OBVIOUS
  <2>1. ASSUME NEW w \in Workers, HandlerStep(w) \/ Crash(w) PROVE Stays
    BY <2>1, ClosingStays DEF Closing
  <2>2. ASSUME NEW w \in Workers, NEW r, Begin(w, r) PROVE Stays
    BY <2>2 DEF Begin, outside
  <2> QED
    BY <2>1, <2>2 DEF HandlerNext
<1> QED
  BY <1>1, ApartInvariant, PTL DEF ApartSpec, HandlerSpec, ClosingCardIsLast

\* A vote is cast, changed or retracted only by a request of its user.
THEOREM ApartVotesOnlyByOwner == ApartSpec => VotesOnlyByOwner
<1> DEFINE Owned == \A i \in Issues, u \in Users :
      /\ Open(i) /\ store'[i] # NoSession
      /\ store'[i].ts = store[i].ts
      /\ store'[i].votes[u] # store[i].votes[u]
      => \E w \in Workers :
           /\ pc[w] = "save" /\ req[w].user = u
           /\ req[w].act \in {"vote", "retract"}
<1>1. SerialInv /\ [HandlerNext]_vars => [Owned]_vars
  <2> SUFFICES ASSUME SerialInv, HandlerNext PROVE Owned
    OBVIOUS
  <2>1. ASSUME NEW w \in Workers, HandlerStep(w) \/ Crash(w) PROVE Owned
    BY <2>1, VotesStay
  <2>2. ASSUME NEW w \in Workers, NEW r, Begin(w, r) PROVE Owned
    BY <2>2 DEF Begin, outside
  <2> QED
    BY <2>1, <2>2 DEF HandlerNext
<1> QED
  BY <1>1, ApartInvariant, PTL DEF ApartSpec, HandlerSpec, VotesOnlyByOwner
=============================================================================
