----------------------------- MODULE SerialPromises -----------------------------
(***************************************************************************)
(* What runs that do not overlap on an issue implement, and promise as     *)
(* long as some services do not fail.  As long as the store, Linear and    *)
(* the process do not fail, every step of the handler is an operation on a *)
(* round of Round, whole, or changes no round; when they fail too, the one *)
(* thing that comes apart is an estimate from the end of its round.        *)
(***************************************************************************)
EXTENDS SerialProofs

\* The worker has written the estimate and is about to delete the session.
Closes(w) == pc[w] = "delete" /\ req[w].act = "set"

\* Services that do not fail only answer "ok".
LEMMA Reliable ==
  ASSUME NEW service, service \notin Faulty
  PROVE  Replies(service) = {"ok"}
BY DEF Replies

\* Where Finish, Carry and Goto take the worker.
LEMMA Moves ==
  ASSUME LocalType, NEW w \in Workers
  PROVE  /\ Finish(w) => pc'[w] = "idle"
         /\ \A call, s : Carry(w, s, call) =>
              pc'[w] = call /\ sess'[w] = s /\ req'[w] = req[w]
         /\ \A call : Goto(w, call) =>
              pc'[w] = call /\ sess'[w] = sess[w] /\ req'[w] = req[w]
BY DEF LocalType, Finish, Carry, Goto

\* A worker that takes a request, and no other, moves.
LEMMA Begins ==
  ASSUME LocalType, NEW w \in Workers, NEW r, Begin(w, r)
  PROVE  /\ LocalTo(w) /\ UNCHANGED outside
         /\ pc[w] = "idle" /\ pc'[w] = "load"
BY DEF LocalType, Begin, Idle, LocalTo

\* What one worker has in hand is not about the issue of another's request.
LEMMA CardsApart ==
  ASSUME SerialInv, Apart, NEW v \in Workers, NEW w \in Workers, v # w,
         pc[v] \notin {"idle", "load", "post"}, ~Idle(w)
  PROVE  /\ board[sess[v].ts].issue # req[w].issue
         /\ req[v].issue # req[w].issue
BY AtSerial DEF Apart, Idle

----------------------------------------------------------------------------
(***************************************************************************)
(* Rounds.                                                                 *)
(***************************************************************************)
\* A session is a round, and never the absence of one.
LEMMA BareFacts ==
  ASSUME NEW s \in Session
  PROVE  Bare(s) # NoSession
BY BareAssumption DEF Bare, Session

\* A vote changes a round as it changes the session.
LEMMA BareVote ==
  ASSUME NEW s \in Session, NEW u, NEW p
  PROVE  Bare(CastVote(s, u, p)) = Abstract!WithVote(Bare(s), u, p)
<1>1. PICK votes : votes = [s.votes EXCEPT ![u] = p]
  OBVIOUS
<1>2. CastVote(s, u, p) = [s EXCEPT !.votes = votes, !.status = "voting"]
  BY <1>1 DEF CastVote, Session
<1>3. Bare(CastVote(s, u, p)) =
        [status |-> "voting", votes |-> votes, scale |-> s.scale]
  BY <1>2 DEF Bare, Session
<1> QED
  BY <1>1, <1>3 DEF Bare, Abstract!WithVote

\* A vote, a retraction, a reveal or a continuation, on the round alone.
Operation(old, new) ==
  \/ \E u \in Users, p \in Points :
       p \in old.scale /\ new = Abstract!WithVote(old, u, p)
  \/ \E u \in Users :
       old.votes[u] # NoPoint /\ new = Abstract!WithVote(old, u, NoPoint)
  \/ \E status \in {"revealed", "voting"} : new = [old EXCEPT !.status = status]

\* What Save writes is one of them, made to the session in the store.
LEMMA UpdatedOperates ==
  ASSUME NEW r \in Request, NEW s, NEW t \in Session, Updated(r, t, s)
  PROVE  Operation(Bare(t), Bare(s))
<1>1. r.user \in Users /\ t.scale \subseteq Points
  BY PointsAssumption DEF Request, Session
<1>2. /\ Bare(t).scale = t.scale /\ Bare(t).votes = t.votes
  BY DEF Bare
<1>3. CASE r.act = "vote" /\ r.point \in t.scale /\ s = CastVote(t, r.user, r.point)
  BY <1>1, <1>2, <1>3, BareVote DEF Operation
<1>4. CASE /\ r.act = "retract" /\ t.votes[r.user] # NoPoint
           /\ s = DropVote(t, r.user)
  <2>1. s = CastVote(t, r.user, NoPoint)
    BY <1>4 DEF DropVote, CastVote
  <2> QED
    BY <1>1, <1>2, <1>4, <2>1, BareVote DEF Operation
<1>5. ASSUME NEW status \in {"revealed", "voting"}, s = WithStatus(t, status)
      PROVE  Operation(Bare(t), Bare(s))
  <2>1. Bare(s) = [Bare(t) EXCEPT !.status = status]
    BY <1>5 DEF WithStatus, Bare, Session
  <2> QED
    BY <2>1 DEF Operation
<1> QED
  BY <1>3, <1>4, <1>5 DEF Updated

\* Under both mappings such a change of one open round is a step of Round.
LEMMA OperationIsStep ==
  ASSUME NEW i \in Issues, NEW old, NEW new, old # NoSession,
         Operation(old, new), UNCHANGED Estimates
  PROVE  /\ Rounds[i] = old /\ Rounds' = [Rounds EXCEPT ![i] = new]
              => Abstract!RoundNext
         /\ Stored[i] = old /\ Stored' = [Stored EXCEPT ![i] = new]
              => Surviving!RoundNext
<1>1. ASSUME Rounds[i] = old, Rounds' = [Rounds EXCEPT ![i] = new]
      PROVE  Abstract!RoundNext
  <2>1. CASE \E u \in Users, p \in Points :
               p \in old.scale /\ new = Abstract!WithVote(old, u, p)
    BY <1>1, <2>1 DEF Abstract!RoundNext, Abstract!Vote, Abstract!IsOpen
  <2>2. CASE \E u \in Users :
               old.votes[u] # NoPoint /\ new = Abstract!WithVote(old, u, NoPoint)
    BY <1>1, <2>2 DEF Abstract!RoundNext, Abstract!Retract, Abstract!IsOpen
  <2>3. ASSUME NEW status, new = [old EXCEPT !.status = status]
        PROVE  Rounds' = [Rounds EXCEPT ![i].status = status]
    BY <1>1, <2>3 DEF Rounds
  <2>4. CASE \E status \in {"revealed", "voting"} :
               new = [old EXCEPT !.status = status]
    BY <1>1, <2>3, <2>4
       DEF Abstract!RoundNext, Abstract!Reveal, Abstract!Continue, Abstract!IsOpen
  <2> QED
    BY <2>1, <2>2, <2>4 DEF Operation
<1>2. ASSUME Stored[i] = old, Stored' = [Stored EXCEPT ![i] = new]
      PROVE  Surviving!RoundNext
  <2>1. CASE \E u \in Users, p \in Points :
               p \in old.scale /\ new = Abstract!WithVote(old, u, p)
    BY <1>2, <2>1
       DEF Surviving!RoundNext, Surviving!Vote, Surviving!IsOpen,
           Surviving!WithVote, Abstract!WithVote
  <2>2. CASE \E u \in Users :
               old.votes[u] # NoPoint /\ new = Abstract!WithVote(old, u, NoPoint)
    BY <1>2, <2>2
       DEF Surviving!RoundNext, Surviving!Retract, Surviving!IsOpen,
           Surviving!WithVote, Abstract!WithVote
  <2>3. ASSUME NEW status, new = [old EXCEPT !.status = status]
        PROVE  Stored' = [Stored EXCEPT ![i].status = status]
    BY <1>2, <2>3 DEF Stored
  <2>4. CASE \E status \in {"revealed", "voting"} :
               new = [old EXCEPT !.status = status]
    BY <1>2, <2>3, <2>4
       DEF Surviving!RoundNext, Surviving!Reveal, Surviving!Continue,
           Surviving!IsOpen
  <2> QED
    BY <2>1, <2>2, <2>4 DEF Operation
<1> QED
  BY <1>1, <1>2
----------------------------------------------------------------------------
(***************************************************************************)
(* What a step of one worker does to the rounds.                           *)
(***************************************************************************)
\* Only the round of issue i changes.
LEMMA OneRound ==
  ASSUME NEW i \in Issues, NEW v, RoundOf(i)' = v,
         \A j \in Issues \ {i} : RoundOf(j)' = RoundOf(j)
  PROVE  Rounds' = [Rounds EXCEPT ![i] = v]
BY DEF Rounds

\* A worker that neither comes from an estimate nor goes on to delete.
LEMMA NeverCloses ==
  ASSUME LocalType, NEW w \in Workers, ~Closes(w),
         \/ Finish(w)
         \/ \E call, s : call # "delete" /\ Carry(w, s, call)
  PROVE  LocalTo(w) /\ ~Closes(w)'
<1>1. pc'[w] # "delete"
  BY DEF LocalType, Finish, Carry
<1> QED
  BY <1>1, OneMoves DEF Closes

\* Such a worker has no part in what is being settled.
LEMMA SettlingStays ==
  ASSUME NEW w \in Workers, LocalTo(w), ~Closes(w), ~Closes(w)'
  PROVE  \A i \in Issues : Settling(i)' <=> Settling(i)
BY DEF LocalTo, Closes, Settling

\* Nobody else settles the issue of a worker's request.
LEMMA NotSettling ==
  ASSUME Apart, NEW w \in Workers, ~Idle(w), ~Closes(w)
  PROVE  ~Settling(req[w].issue)
BY DEF Apart, Idle, Closes, Settling

\* A step that leaves the store and Linear alone changes no round.
LEMMA NoRoundChange ==
  ASSUME UNCHANGED <<store, linear>>, NEW w \in Workers, LocalTo(w),
         ~Closes(w), ~Closes(w)'
  PROVE  UNCHANGED <<Rounds, Estimates>>
<1>1. \A i \in Issues : RoundOf(i)' = RoundOf(i)
  BY SettlingStays DEF RoundOf, Open, Bare
<1> QED
  BY <1>1 DEF Rounds, Estimates

\* A step that replaces the session of its issue replaces its round, whether
\* the round counts as over while its session is there or not.
LEMMA StoreRound ==
  ASSUME OutsideType, NEW i \in Issues, NEW v \in Session \cup {NoSession},
         store' = [store EXCEPT ![i] = v]
  PROVE  /\ Stored' = [Stored EXCEPT ![i] =
                         IF v = NoSession THEN NoSession ELSE Bare(v)]
         /\ \A w \in Workers :
              /\ Apart /\ ~Idle(w) /\ req[w].issue = i
              /\ LocalTo(w) /\ ~Closes(w) /\ ~Closes(w)'
              => Rounds' = [Rounds EXCEPT ![i] =
                              IF v = NoSession THEN NoSession ELSE Bare(v)]
<1>1. \A j \in Issues : store'[j] = IF j = i THEN v ELSE store[j]
  BY DEF OutsideType
<1>2. Stored' = [Stored EXCEPT ![i] =
                   IF v = NoSession THEN NoSession ELSE Bare(v)]
  BY <1>1 DEF Stored, Open, Bare
<1>3. ASSUME NEW w \in Workers, Apart, ~Idle(w), req[w].issue = i,
             LocalTo(w), ~Closes(w), ~Closes(w)'
      PROVE  Rounds' = [Rounds EXCEPT ![i] =
                          IF v = NoSession THEN NoSession ELSE Bare(v)]
  <2>1. ~Settling(i) /\ \A j \in Issues : Settling(j)' <=> Settling(j)
    BY <1>3, NotSettling, SettlingStays
  <2>2. RoundOf(i)' = IF v = NoSession THEN NoSession ELSE Bare(v)
    BY <1>1, <2>1 DEF RoundOf, Open, Bare
  <2>3. \A j \in Issues \ {i} : RoundOf(j)' = RoundOf(j)
    BY <1>1, <2>1 DEF RoundOf, Open, Bare
  <2> QED
    BY <2>2, <2>3, OneRound
<1> QED
  BY <1>2, <1>3

\* The round of an open issue, by itself and as its worker sees it.
LEMMA OpenRound ==
  ASSUME OutsideType, NEW i \in Issues, Open(i)
  PROVE  /\ store[i] \in Session /\ Bare(store[i]) # NoSession
         /\ Stored[i] = Bare(store[i])
         /\ \A w \in Workers :
              Apart /\ ~Idle(w) /\ ~Closes(w) /\ req[w].issue = i
                => Rounds[i] = Bare(store[i])
<1>1. store[i] \in Session
  BY DEF OutsideType, Open
<1> QED
  BY <1>1, BareFacts, NotSettling DEF Rounds, RoundOf, Stored

----------------------------------------------------------------------------
(***************************************************************************)
(* The steps that change a round.                                          *)
(***************************************************************************)
\* CreateSession starts a round, in the place of an open one or not.
LEMMA CreateStarts ==
  ASSUME SerialInv, Apart, NEW w \in Workers, CreateSession(w),
         Saving(req[w].issue, sess[w])
  PROVE  Abstract!RoundNext /\ Surviving!RoundNext
<1>1. PICK r, s : r = req[w] /\ s = sess[w]
  OBVIOUS
<1>2. /\ pc[w] = "create" /\ Finish(w) /\ UNCHANGED linear
      /\ store' = [store EXCEPT ![r.issue] = s]
  BY <1>1 DEF CreateSession, Saving
<1>3. /\ r.issue \in Issues /\ s \in Session /\ s # NoSession
      /\ s.status = "voting" /\ s.votes = NoVotes
  <2>1. /\ Current("create", r, s)
        /\ r.issue \in Issues /\ s \in Session /\ s # NoSession
    BY <1>1, <1>2, AtSerial
  <2> QED
    BY <2>1 DEF Current
<1>4. OutsideType /\ LocalType
  BY IInvParts DEF SerialInv, OutsideInv
<1>5. ~Idle(w) /\ LocalTo(w) /\ ~Closes(w) /\ ~Closes(w)'
  BY <1>2, <1>4, NeverCloses DEF Closes, Idle
<1>6. /\ Rounds' = [Rounds EXCEPT ![r.issue] = Bare(s)]
      /\ Stored' = [Stored EXCEPT ![r.issue] = Bare(s)]
  BY <1>1, <1>2, <1>3, <1>4, <1>5, StoreRound
<1>7. /\ s.scale \in Scales
      /\ Bare(s) = Abstract!Fresh(s.scale) /\ Bare(s) = Surviving!Fresh(s.scale)
  BY <1>3 DEF Session, Bare, NoVotes, Abstract!Fresh, Surviving!Fresh
<1>8. UNCHANGED Estimates
  BY <1>2 DEF Estimates
<1>9. Abstract!Start(r.issue) /\ Surviving!Start(r.issue)
  BY <1>6, <1>7, <1>8 DEF Abstract!Start, Surviving!Start
<1> QED
  BY <1>3, <1>9 DEF Abstract!RoundNext, Surviving!RoundNext

\* Save is the operation its request stands for.
LEMMA SaveOperates ==
  ASSUME SerialInv, Apart, NEW w \in Workers, Save(w),
         Saving(req[w].issue, sess[w])
  PROVE  Abstract!RoundNext /\ Surviving!RoundNext
<1>1. PICK r, s : r = req[w] /\ s = sess[w]
  OBVIOUS
<1>2. /\ pc[w] = "save" /\ UNCHANGED linear
      /\ Goto(w, "render") \/ Finish(w)
      /\ store' = [store EXCEPT ![r.issue] = s]
  BY <1>1 DEF Save, Saving, GotoIfOk
<1>3. PICK i, t : i = r.issue /\ t = store[i]
  OBVIOUS
<1>4. /\ r \in Request /\ i \in Issues /\ s \in Session /\ s # NoSession
      /\ Open(i) /\ Updated(r, t, s)
  BY <1>1, <1>2, <1>3, AtSerial DEF Current
<1>5. OutsideType /\ LocalType
  BY IInvParts DEF SerialInv, OutsideInv
<1>6. ~Idle(w) /\ LocalTo(w) /\ ~Closes(w) /\ ~Closes(w)'
  BY <1>2, <1>5, NeverCloses DEF Closes, Goto, Idle
<1>7. /\ Rounds' = [Rounds EXCEPT ![i] = Bare(s)]
      /\ Stored' = [Stored EXCEPT ![i] = Bare(s)]
  BY <1>1, <1>2, <1>3, <1>4, <1>5, <1>6, StoreRound
<1>8. /\ Rounds[i] = Bare(t) /\ Stored[i] = Bare(t)
      /\ Bare(t) # NoSession /\ t \in Session
  BY <1>1, <1>3, <1>4, <1>5, <1>6, OpenRound
<1>9. Operation(Bare(t), Bare(s)) /\ UNCHANGED Estimates
  BY <1>2, <1>4, <1>8, UpdatedOperates DEF Estimates
<1> QED
  BY <1>4, <1>7, <1>8, <1>9, OperationIsStep

\* SetEstimate settles the round: the session left behind is no round.
LEMMA EstimateSettles ==
  ASSUME SerialInv, Apart, NEW w \in Workers, SetEstimate(w),
         Replies("linear") = {"ok"}
  PROVE  Abstract!RoundNext
<1>1. PICK r, s, i : r = req[w] /\ s = sess[w] /\ i = r.issue
  OBVIOUS
<1>2. /\ pc[w] = "estimate" /\ Goto(w, "delete") /\ UNCHANGED store
      /\ linear' = [linear EXCEPT ![i] = [point |-> r.point, card |-> s.ts]]
  BY <1>1 DEF SetEstimate, Writing, GotoIfOk
<1>3. /\ i \in Issues /\ s \in Session /\ s # NoSession /\ store[i] = s
      /\ r.point \in s.scale /\ r.act = "set" /\ r.point \in Points
  <2>1. /\ i \in Issues /\ s \in Session /\ s # NoSession
        /\ Current("estimate", r, s) /\ Ready("estimate", r, s)
    BY <1>1, <1>2, AtSerial
  <2> QED
    BY <1>1, <2>1 DEF Current, Ready
<1>4. OutsideType /\ LocalType
  BY IInvParts DEF SerialInv, OutsideInv
<1>5. LocalTo(w) /\ pc'[w] = "delete" /\ req'[w] = r
  BY <1>1, <1>2, <1>4, Moves, OneMoves DEF Goto
<1>6. Rounds' = [Rounds EXCEPT ![i] = NoSession]
  <2>1. Settling(i)' /\ \A j \in Issues \ {i} : Settling(j)' <=> Settling(j)
    BY <1>1, <1>2, <1>3, <1>5 DEF Settling, LocalTo
  <2>2. RoundOf(i)' = NoSession /\ \A j \in Issues \ {i} : RoundOf(j)' = RoundOf(j)
    BY <1>2, <1>3, <2>1 DEF RoundOf, Open, Bare
  <2> QED
    BY <1>3, <2>2, OneRound
<1>7. Estimates' = [Estimates EXCEPT ![i] = r.point]
  BY <1>2, <1>3, <1>4 DEF Estimates, OutsideType
<1>8. Rounds[i] = Bare(s) /\ Bare(s) # NoSession
  BY <1>1, <1>2, <1>3, <1>4, OpenRound DEF Open, Closes, Idle
<1>9. Abstract!Settle(i, r.point)
  BY <1>3, <1>6, <1>7, <1>8 DEF Abstract!Settle, Abstract!IsOpen, Bare
<1> QED
  BY <1>3, <1>9 DEF Abstract!RoundNext

\* DeleteSession cancels the round, or tidies up after a round that is over.
LEMMA DeleteCancels ==
  ASSUME SerialInv, Apart, NEW w \in Workers, DeleteSession(w),
         Replies("store") = {"ok"}
  PROVE  Abstract!RoundNext \/ UNCHANGED <<Rounds, Estimates>>
<1>1. PICK r, s, i : r = req[w] /\ s = sess[w] /\ i = r.issue
  OBVIOUS
<1>2. /\ pc[w] = "delete" /\ Goto(w, "close") /\ UNCHANGED linear
      /\ store' = [store EXCEPT ![i] = NoSession]
  BY <1>1 DEF DeleteSession, Deleting, GotoIfOk
<1>3. /\ i \in Issues /\ s # NoSession /\ store[i] = s
      /\ r.act \in {"set", "cancel"}
  <2>1. /\ i \in Issues /\ s # NoSession
        /\ Current("delete", r, s) /\ Ready("delete", r, s)
    BY <1>1, <1>2, AtSerial
  <2> QED
    BY <1>1, <2>1 DEF Current, Ready
<1>4. OutsideType /\ LocalType
  BY IInvParts DEF SerialInv, OutsideInv
<1>5. LocalTo(w) /\ pc'[w] = "close"
  BY <1>2, <1>4, Moves, OneMoves DEF Goto
<1>6. UNCHANGED Estimates
  BY <1>2 DEF Estimates
<1>7. CASE r.act = "cancel"
  <2>1. ~Idle(w) /\ ~Closes(w) /\ ~Closes(w)'
    BY <1>1, <1>2, <1>5, <1>7 DEF Closes, Idle
  <2>2. Rounds' = [Rounds EXCEPT ![i] = NoSession]
    BY <1>1, <1>2, <1>3, <1>4, <1>5, <2>1, StoreRound
  <2>3. Abstract!IsOpen(i)
    BY <1>1, <1>3, <1>4, <2>1, OpenRound DEF Open, Abstract!IsOpen
  <2> QED
    BY <1>3, <1>6, <2>2, <2>3 DEF Abstract!RoundNext, Abstract!Cancel
<1>8. CASE r.act = "set"
  <2>1. Settling(i) /\ \A j \in Issues \ {i} : Settling(j)' <=> Settling(j)
    BY <1>1, <1>2, <1>5, <1>8 DEF Settling, LocalTo
  <2>2. RoundOf(i) = NoSession /\ RoundOf(i)' = NoSession
    BY <1>2, <1>3, <1>4, <2>1 DEF RoundOf, Open, OutsideType
  <2>3. \A j \in Issues \ {i} : RoundOf(j)' = RoundOf(j)
    BY <1>2, <1>4, <2>1 DEF RoundOf, Open, OutsideType, Bare
  <2> QED
    BY <1>6, <2>2, <2>3 DEF Rounds
<1> QED
  BY <1>3, <1>7, <1>8

\* The loads of a request and the renderings change no round.
LEMMA OthersStutter ==
  ASSUME SerialInv, NEW w \in Workers,
         \/ Refuse(w) \/ FetchIssue(w) \/ PostCard(w)
         \/ IgnoreSelect(w) \/ LoadNothing(w)
         \/ VoteLoaded(w) \/ RetractLoaded(w) \/ RevealLoaded(w)
         \/ ContinueLoaded(w) \/ SetLoaded(w) \/ CancelLoaded(w)
         \/ Render(w) \/ Notify(w) \/ CloseCard(w)
  PROVE  UNCHANGED <<Rounds, Estimates>>
<1>1. IInv /\ LocalType
  BY IInvParts DEF SerialInv
<1>2. ASSUME UNCHANGED <<store, linear>>, ~Closes(w),
             \/ Finish(w)
             \/ \E call, s : call # "delete" /\ Carry(w, s, call)
      PROVE  UNCHANGED <<Rounds, Estimates>>
  BY <1>1, <1>2, NeverCloses, NoRoundChange
<1>3. CASE Refuse(w) \/ IgnoreSelect(w) \/ LoadNothing(w) \/ Notify(w) \/ CloseCard(w)
  BY <1>2, <1>3
     DEF Refuse, IgnoreSelect, LoadNothing, Notify, CloseCard, Loading, Closes,
         outside
<1>4. CASE FetchIssue(w) \/ PostCard(w)
  BY <1>2, <1>4 DEF FetchIssue, PostCard, Loading, Closes, outside
<1>5. CASE VoteLoaded(w) \/ RetractLoaded(w) \/ RevealLoaded(w) \/ ContinueLoaded(w)
  BY <1>2, <1>5
     DEF VoteLoaded, RetractLoaded, RevealLoaded, ContinueLoaded, Loaded, Loading,
         Closes, outside
<1>6. CASE Render(w)
  BY <1>2, <1>6 DEF Render, GotoIfOk, Goto, Closes
<1>7. CASE SetLoaded(w)
  <2>1. pc[w] = "load" /\ pc'[w] # "delete" /\ UNCHANGED <<store, linear>>
    BY <1>1, <1>7 DEF SetLoaded, Loaded, Loading, LocalType, outside
  <2>2. LocalTo(w)
    BY <1>1, <1>7, OneIssue DEF HandlerStep
  <2> QED
    BY <2>1, <2>2, NoRoundChange DEF Closes
<1>8. CASE CancelLoaded(w)
  <2>1. /\ pc[w] = "load" /\ req[w].act = "cancel" /\ req' = req
        /\ UNCHANGED <<store, linear>>
    BY <1>8 DEF CancelLoaded, Loaded, Loading, Carry, outside
  <2>2. LocalTo(w)
    BY <1>1, <1>8, OneIssue DEF HandlerStep
  <2> QED
    BY <2>1, <2>2, NoRoundChange DEF Closes
<1> QED
  BY <1>3, <1>4, <1>5, <1>6, <1>7, <1>8

\* One call of the handler.
LEMMA HandlerImplements ==
  ASSUME SerialInv, Apart, {"store", "linear"} \cap Faulty = {},
         NEW w \in Workers, HandlerStep(w)
  PROVE  Abstract!RoundNext \/ UNCHANGED <<Rounds, Estimates>>
<1>1. Replies("store") = {"ok"} /\ Replies("linear") = {"ok"}
  BY Reliable
<1>2. CASE CreateSession(w)
  BY <1>1, <1>2, CreateStarts DEF CreateSession
<1>3. CASE Save(w)
  BY <1>1, <1>3, SaveOperates DEF Save
<1>4. CASE SetEstimate(w) \/ DeleteSession(w)
  BY <1>1, <1>4, EstimateSettles, DeleteCancels
<1>5. CASE \/ Refuse(w) \/ FetchIssue(w) \/ PostCard(w)
           \/ IgnoreSelect(w) \/ LoadNothing(w)
           \/ VoteLoaded(w) \/ RetractLoaded(w) \/ RevealLoaded(w)
           \/ ContinueLoaded(w) \/ SetLoaded(w) \/ CancelLoaded(w)
           \/ Render(w) \/ Notify(w) \/ CloseCard(w)
  BY <1>5, OthersStutter
<1> QED
  BY <1>2, <1>3, <1>4, <1>5 DEF HandlerStep

\* A request that is taken up has changed no round yet.
LEMMA BeginStutters ==
  ASSUME LocalType, NEW w \in Workers, NEW r, Begin(w, r)
  PROVE  UNCHANGED <<Rounds, Estimates>>
BY Begins, NoRoundChange DEF Closes, outside

\* Nothing changed.
LEMMA RoundsStay ==
  ASSUME UNCHANGED vars
  PROVE  UNCHANGED <<Rounds, Stored, Estimates>>
BY DEF vars, Rounds, Stored, Estimates, RoundOf, Settling, Open, Bare

\* No round is open at first.
LEMMA InitRounds ==
  ASSUME Init
  PROVE  Abstract!RoundInit /\ Surviving!RoundInit
BY DEF Init, Abstract!RoundInit, Surviving!RoundInit, Rounds, Stored,
       Estimates, RoundOf, Open

----------------------------------------------------------------------------
(***************************************************************************)
(* When any call may fail.                                                 *)
(***************************************************************************)
\* An estimate that reached Linear is a point of the round that is open.
LEMMA EstimateWrites ==
  ASSUME SerialInv, NEW w \in Workers, pc[w] = "estimate", UNCHANGED store,
         Writing(req[w].issue, sess[w].ts, req[w].point)
  PROVE  Surviving!FaultyRoundNext
<1>1. PICK r, s, i : r = req[w] /\ s = sess[w] /\ i = r.issue
  OBVIOUS
<1>2. /\ i \in Issues /\ s \in Session /\ s # NoSession /\ store[i] = s
      /\ r.point \in s.scale /\ r.point \in Points
  <2>1. /\ i \in Issues /\ s \in Session /\ s # NoSession
        /\ Current("estimate", r, s) /\ Ready("estimate", r, s)
    BY <1>1, AtSerial
  <2> QED
    BY <1>1, <2>1 DEF Current, Ready
<1>3. Estimates' = [Estimates EXCEPT ![i] = r.point]
  <2>1. OutsideType
    BY IInvParts DEF SerialInv, OutsideInv
  <2> QED
    BY <1>1, <1>2, <2>1 DEF Estimates, OutsideType, Writing
<1>4. Stored[i] = Bare(s) /\ Stored[i] # NoSession /\ UNCHANGED Stored
  BY <1>2, BareFacts DEF Stored, Open, Bare
<1>5. Surviving!Write(i, r.point)
  BY <1>2, <1>3, <1>4 DEF Surviving!Write, Surviving!IsOpen, Bare
<1> QED
  BY <1>2, <1>5 DEF Surviving!FaultyRoundNext

\* A session that is deleted ends its round, whether it is cancelled or set.
LEMMA DeleteEnds ==
  ASSUME SerialInv, NEW w \in Workers, pc[w] = "delete", UNCHANGED linear,
         Deleting(req[w].issue)
  PROVE  Surviving!RoundNext
<1>1. PICK s, i : s = sess[w] /\ i = req[w].issue
  OBVIOUS
<1>2. i \in Issues /\ s # NoSession /\ store[i] = s
  <2>1. i \in Issues /\ s # NoSession /\ Current("delete", req[w], s)
    BY <1>1, AtSerial
  <2> QED
    BY <1>1, <2>1 DEF Current
<1>3. OutsideType
  BY IInvParts DEF SerialInv, OutsideInv
<1>4. Stored' = [Stored EXCEPT ![i] = NoSession]
  BY <1>1, <1>2, <1>3, StoreRound DEF Deleting
<1>5. Stored[i] # NoSession /\ UNCHANGED Estimates
  BY <1>2, <1>3, OpenRound DEF Open, Estimates
<1>6. Surviving!Cancel(i)
  BY <1>4, <1>5 DEF Surviving!Cancel, Surviving!IsOpen
<1> QED
  BY <1>2, <1>6 DEF Surviving!RoundNext

\* A call that fails, or has no business with the store and Linear, changes
\* nothing; any other is an operation, whole.
LEMMA HandlerSurvives ==
  ASSUME SerialInv, Apart, NEW w \in Workers, HandlerStep(w)
  PROVE  Surviving!FaultyRoundNext \/ UNCHANGED <<Stored, Estimates>>
<1>1. ASSUME UNCHANGED <<store, linear>> PROVE UNCHANGED <<Stored, Estimates>>
  BY <1>1 DEF Stored, Estimates, Open, Bare
<1>2. CASE CreateSession(w)
  BY <1>1, <1>2, CreateStarts DEF CreateSession, Surviving!FaultyRoundNext
<1>3. CASE Save(w)
  BY <1>1, <1>3, SaveOperates DEF Save, Surviving!FaultyRoundNext
<1>4. CASE SetEstimate(w)
  BY <1>1, <1>4, EstimateWrites DEF SetEstimate
<1>5. CASE DeleteSession(w)
  BY <1>1, <1>5, DeleteEnds DEF DeleteSession, Surviving!FaultyRoundNext
<1> QED
  BY <1>1, <1>2, <1>3, <1>4, <1>5
     DEF HandlerStep, outside, Refuse, FetchIssue, PostCard, IgnoreSelect,
         LoadNothing, VoteLoaded, RetractLoaded, RevealLoaded, ContinueLoaded,
         SetLoaded, CancelLoaded, Render, Notify, CloseCard

\* Taking up a request, and losing one, change neither.
LEMMA OutsideSurvives ==
  ASSUME UNCHANGED outside
  PROVE  UNCHANGED <<Stored, Estimates>>
BY DEF outside, Stored, Estimates, Open, Bare
\* A session is rendered by a card that has its buttons.
LEMMA RenderingIsOpen ==
  ASSUME NEW i, NEW s
  PROVE  /\ SessionCard(i, s).kind \in {"voting", "summary"}
         /\ VotingCard(i, s).kind = "voting"
BY DEF SessionCard, SummaryCard, VotingCard

----------------------------------------------------------------------------
(***************************************************************************)
(* "Estimation cancelled. No estimate was saved."                          *)
(***************************************************************************)
\* A round that wrote an estimate is closed, or is about to be.
WritersClose ==
  \A c \in Cards, p \in Points : <<c, p>> \in saved =>
    \/ c \in closed
    \/ \E w \in Workers :
         pc[w] = "delete" /\ req[w].act = "set" /\ sess[w].ts = c

\* A round that is being cancelled has written none.
CancelsUnwritten ==
  \A w \in Workers, p \in Points :
    pc[w] \in {"delete", "close"} /\ req[w].act = "cancel" =>
      <<sess[w].ts, p>> \notin saved

HonestInv == WritersClose /\ CancelsUnwritten /\ CancelHonest

\* A step that neither closes a round nor starts to.
LEMMA HonestQuiet ==
  ASSUME HonestInv, NEW w \in Workers, LocalTo(w),
         pc[w] # "delete", pc'[w] \notin {"delete", "close"},
         UNCHANGED <<saved, closed>>,
         \A c \in Cards : board'[c] = board[c] \/ board'[c].kind # "cancelled"
  PROVE  HonestInv'
<1>1. WritersClose'
  BY DEF HonestInv, WritersClose, LocalTo
<1>2. CancelsUnwritten'
  BY DEF HonestInv, CancelsUnwritten, LocalTo
<1>3. CancelHonest'
  BY DEF HonestInv, CancelHonest
<1> QED
  BY <1>1, <1>2, <1>3 DEF HonestInv

\* PostCard and Render: no card they render is a cancelled one.
LEMMA HonestRender ==
  ASSUME SerialInv, HonestInv, NEW w \in Workers, PostCard(w) \/ Render(w)
  PROVE  HonestInv'
<1>1. LocalType /\ OutsideType
  BY IInvParts DEF SerialInv, OutsideInv
<1>2. /\ pc[w] \in {"post", "render"}
      /\ pc'[w] \in {"create", "notice", "idle"}
      /\ UNCHANGED <<saved, closed>>
  BY <1>1, Moves DEF PostCard, Render, GotoIfOk
<1>3. PICK r, s : r = req[w] /\ s = sess[w]
  OBVIOUS
<1>4. \/ board' = board
      \/ \E c, card : /\ card.kind \in {"voting", "summary"}
                      /\ board' = [board EXCEPT ![c] = card]
  <2>1. \/ board' = board
        \/ \E c : board' = [board EXCEPT ![c] = VotingCard(r.issue, s)]
        \/ \E c : board' = [board EXCEPT ![c] = SessionCard(r.issue, s)]
    BY <1>3 DEF PostCard, Render
  <2>2. PICK voting, card :
          voting = VotingCard(r.issue, s) /\ card = SessionCard(r.issue, s)
    OBVIOUS
  <2>3. voting.kind = "voting" /\ card.kind \in {"voting", "summary"}
    BY <2>2, RenderingIsOpen
  <2> QED
    BY <2>1, <2>2, <2>3
<1>5. \A c \in Cards : board'[c] = board[c] \/ board'[c].kind # "cancelled"
  BY <1>1, <1>4 DEF OutsideType
<1>6. LocalTo(w)
  BY OneIssue DEF SerialInv, HandlerStep
<1> QED
  BY <1>2, <1>5, <1>6, HonestQuiet

\* A round that is open, and whose estimate is not being written, has none.
LEMMA OpenUnwritten ==
  ASSUME SerialInv, HonestInv, Apart, NEW w \in Workers,
         ~Idle(w), pc[w] # "delete",
         NEW i \in Issues, Open(i), req[w].issue = i, NEW p \in Points
  PROVE  <<store[i].ts, p>> \notin saved
<1>1. store[i].ts \in Cards \ closed /\ board[store[i].ts].issue = i
  BY IInvParts DEF SerialInv, OutsideInv, SessionHasCard, ClosedStaysClosed
<1>2. ASSUME NEW v \in Workers, pc[v] = "delete" PROVE sess[v].ts # store[i].ts
  BY <1>1, <1>2, CardsApart
<1> QED
  BY <1>1, <1>2 DEF HonestInv, WritersClose

\* CancelLoaded: the round it is about to end is open.
LEMMA HonestCancel ==
  ASSUME SerialInv, HonestInv, Apart, NEW w \in Workers, CancelLoaded(w)
  PROVE  HonestInv'
<1>1. PICK r, s : r = req[w] /\ s = store[r.issue]
  OBVIOUS
<1>2. /\ Loaded(w, "cancel", s) /\ Carry(w, s, "delete")
      /\ UNCHANGED <<board, saved, closed>>
  BY <1>1 DEF CancelLoaded, outside
<1>3. IInv /\ LocalType
  BY IInvParts DEF SerialInv
<1>4. r.issue \in Issues /\ Open(r.issue) /\ pc[w] = "load"
  <2>1. r \in Request /\ s # NoSession /\ pc[w] = "load"
    BY <1>1, <1>2, <1>3, LoadedFacts, AbsenceAssumption DEF Loaded, Loading
  <2> QED
    BY <1>1, <2>1 DEF Open, Request
<1>5. \A p \in Points : <<s.ts, p>> \notin saved
  BY <1>1, <1>4, OpenUnwritten DEF Idle
<1>6. pc'[w] = "delete" /\ sess'[w] = s /\ LocalTo(w)
  BY <1>2, <1>3, Moves, OneMoves
<1>7. WritersClose'
  BY <1>2, <1>4, <1>6 DEF HonestInv, WritersClose, LocalTo
<1>8. CancelsUnwritten'
  BY <1>2, <1>5, <1>6 DEF HonestInv, CancelsUnwritten, LocalTo
<1>9. CancelHonest'
  BY <1>2 DEF HonestInv, CancelHonest
<1> QED
  BY <1>7, <1>8, <1>9 DEF HonestInv

\* SetEstimate: the round that writes is open, so its card is not cancelled,
\* and goes on to be closed.
LEMMA HonestEstimate ==
  ASSUME SerialInv, HonestInv, Apart, NEW w \in Workers, SetEstimate(w),
         "linear" \notin Faulty
  PROVE  HonestInv'
<1>1. PICK r, s : r = req[w] /\ s = sess[w]
  OBVIOUS
<1>2. /\ pc[w] = "estimate" /\ Goto(w, "delete")
      /\ saved' = saved \cup {<<s.ts, r.point>>}
      /\ UNCHANGED <<board, closed>>
  BY <1>1, Reliable DEF SetEstimate, GotoIfOk, Writing
<1>3. /\ r.act = "set" /\ r.issue \in Issues /\ s # NoSession
      /\ s.ts \in Cards /\ board[s.ts] # NoCard /\ store[r.issue] = s
      /\ board[s.ts].issue = r.issue
  <2>1. /\ Current("estimate", r, s) /\ Ready("estimate", r, s)
        /\ r.issue \in Issues /\ s # NoSession
        /\ s.ts \in Cards /\ board[s.ts] # NoCard
        /\ board[s.ts].issue = r.issue
    BY <1>1, <1>2, AtSerial
  <2> QED
    BY <2>1 DEF Current, Ready
<1>4. LocalType /\ ~Closing(s.ts)
  BY <1>3, IInvParts DEF SerialInv, ClosedStaysClosed, ClosedCards, Open
<1>5. pc'[w] = "delete" /\ sess'[w] = s /\ req'[w] = r /\ LocalTo(w)
  BY <1>1, <1>2, <1>4, Moves, OneMoves DEF Goto
<1>6. WritersClose'
  <2> SUFFICES ASSUME NEW c \in Cards, NEW p \in Points, <<c, p>> \in saved'
               PROVE  \/ c \in closed
                      \/ s.ts = c
                      \/ \E v \in Workers \ {w} :
                           pc[v] = "delete" /\ req[v].act = "set" /\ sess[v].ts = c
    BY <1>2, <1>3, <1>5 DEF WritersClose, LocalTo
  <2>1. CASE <<c, p>> \in saved
    BY <1>2, <2>1 DEF HonestInv, WritersClose
  <2>2. CASE <<c, p>> = <<s.ts, r.point>>
    BY <2>2
  <2> QED
    BY <1>2, <2>1, <2>2
<1>7. CancelsUnwritten'
  <2> SUFFICES ASSUME NEW v \in Workers \ {w}, NEW p \in Points,
                      pc[v] \in {"delete", "close"}, req[v].act = "cancel"
               PROVE  <<sess[v].ts, p>> \notin saved'
    BY <1>3, <1>5 DEF CancelsUnwritten, LocalTo
  <2>1. sess[v].ts # s.ts
    BY <1>1, <1>2, <1>3, CardsApart DEF Idle
  <2> QED
    BY <1>2, <2>1 DEF HonestInv, CancelsUnwritten
<1>8. CancelHonest'
  BY <1>2, <1>3, <1>4 DEF HonestInv, CancelHonest, Closing
<1> QED
  BY <1>6, <1>7, <1>8 DEF HonestInv

\* DeleteSession closes the round that wrote.
LEMMA HonestDelete ==
  ASSUME SerialInv, HonestInv, NEW w \in Workers, DeleteSession(w),
         "store" \notin Faulty
  PROVE  HonestInv'
<1>1. /\ pc[w] = "delete" /\ Goto(w, "close") /\ UNCHANGED <<board, saved>>
      /\ closed' = closed \cup {sess[w].ts}
  BY Reliable DEF DeleteSession, GotoIfOk
<1>2. /\ pc'[w] = "close" /\ sess'[w] = sess[w] /\ req'[w] = req[w]
      /\ LocalTo(w)
  BY <1>1, Moves, OneMoves, IInvParts DEF SerialInv, Goto
<1>3. WritersClose'
  BY <1>1, <1>2 DEF HonestInv, WritersClose, LocalTo
<1>4. CancelsUnwritten'
  BY <1>1, <1>2 DEF HonestInv, CancelsUnwritten, LocalTo
<1>5. CancelHonest'
  BY <1>1 DEF HonestInv, CancelHonest
<1> QED
  BY <1>3, <1>4, <1>5 DEF HonestInv

\* CloseCard: the card it cancels is that of a round that wrote nothing.
LEMMA HonestClose ==
  ASSUME SerialInv, HonestInv, NEW w \in Workers, CloseCard(w)
  PROVE  HonestInv'
<1>1. PICK r, s : r = req[w] /\ s = sess[w]
  OBVIOUS
<1>2. PICK card : card = ClosingCard(r)
  OBVIOUS
<1>3. /\ pc[w] = "close" /\ Finish(w) /\ UNCHANGED <<saved, closed>>
      /\ board' = board \/ board' = [board EXCEPT ![s.ts] = card]
  BY <1>1, <1>2 DEF CloseCard
<1>4. LocalType /\ OutsideType
  BY IInvParts DEF SerialInv, OutsideInv
<1>5. pc'[w] = "idle" /\ LocalTo(w)
  BY <1>3, <1>4, Moves, OneMoves
<1>6. WritersClose' /\ CancelsUnwritten'
  BY <1>3, <1>5 DEF HonestInv, WritersClose, CancelsUnwritten, LocalTo
<1>7. card.kind = "cancelled" => \A p \in Points : <<s.ts, p>> \notin saved
  BY <1>1, <1>2, <1>3
     DEF HonestInv, CancelsUnwritten, ClosingCard, CancelledCard, FinalCard
<1>8. CancelHonest'
  BY <1>3, <1>4, <1>7 DEF HonestInv, CancelHonest, OutsideType
<1> QED
  BY <1>6, <1>8 DEF HonestInv

\* One call of the handler.
LEMMA HonestStep ==
  ASSUME SerialInv, HonestInv, Apart, NEW w \in Workers, HandlerStep(w),
         "store" \notin Faulty, "linear" \notin Faulty
  PROVE  HonestInv'
<1>1. LocalType /\ LocalTo(w)
  BY IInvParts, OneIssue DEF SerialInv
<1>2. CASE \/ Refuse(w) \/ FetchIssue(w) \/ IgnoreSelect(w) \/ LoadNothing(w)
           \/ VoteLoaded(w) \/ RetractLoaded(w) \/ RevealLoaded(w)
           \/ ContinueLoaded(w) \/ SetLoaded(w)
  <2>1. pc[w] = "load" /\ UNCHANGED outside
    BY <1>2 DEF Refuse, FetchIssue, IgnoreSelect, LoadNothing, VoteLoaded,
                RetractLoaded, RevealLoaded, ContinueLoaded, SetLoaded,
                Loaded, Loading
  <2>2. pc'[w] \in {"idle", "post", "save", "notice", "render", "estimate"}
    BY <1>1, <1>2, Moves
       DEF Refuse, FetchIssue, IgnoreSelect, LoadNothing, VoteLoaded,
           RetractLoaded, RevealLoaded, ContinueLoaded, SetLoaded, LocalType
  <2> QED
    BY <1>1, <2>1, <2>2, HonestQuiet DEF outside
<1>3. CASE CreateSession(w) \/ Save(w) \/ Notify(w)
  <2>1. /\ pc[w] \in {"create", "save", "notice"}
        /\ UNCHANGED <<board, saved, closed>>
        /\ Finish(w) \/ Goto(w, "render")
    BY <1>3 DEF CreateSession, Save, Notify, GotoIfOk, outside
  <2> QED
    BY <1>1, <2>1, Moves, HonestQuiet
<1>4. CASE PostCard(w) \/ Render(w)
  BY <1>4, HonestRender
<1>5. CASE \/ CancelLoaded(w) \/ SetEstimate(w)
           \/ DeleteSession(w) \/ CloseCard(w)
  BY <1>5, HonestCancel, HonestEstimate, HonestDelete, HonestClose
<1> QED
  BY <1>2, <1>3, <1>4, <1>5 DEF HandlerStep

\* Taking up a request closes nothing.
LEMMA HonestBegin ==
  ASSUME LocalType, HonestInv, NEW w \in Workers, NEW r, Begin(w, r)
  PROVE  HonestInv'
BY Begins, HonestQuiet DEF outside

\* Nothing changed.
LEMMA HonestStutter ==
  ASSUME HonestInv, UNCHANGED vars
  PROVE  HonestInv'
BY DEF vars, HonestInv, WritersClose, CancelsUnwritten, CancelHonest

LEMMA InitHonest == ASSUME Init PROVE HonestInv
BY DEF Init, HonestInv, WritersClose, CancelsUnwritten, CancelHonest

----------------------------------------------------------------------------
(***************************************************************************)
(* The card of every open round shows what the store holds.                *)
(***************************************************************************)
\* A card is out of date only while a worker is about to render it.
Shown(i) == board[store[i].ts] = SessionCard(i, store[i])
Due(i)   == \E w \in Workers : pc[w] = "render" /\ req[w].issue = i

ShownOrDue == \A i \in Issues : Open(i) => Shown(i) \/ Due(i)

\* The card that was posted shows the round that is about to be saved.
PostedShown ==
  \A w \in Workers :
    pc[w] = "create" => board[sess[w].ts] = SessionCard(req[w].issue, sess[w])

MatchInv == ShownOrDue /\ PostedShown

\* An issue is shown or due as before if nothing about it changed.
LEMMA ShownStays ==
  ASSUME NEW w \in Workers, LocalTo(w), NEW i \in Issues,
         Shown(i) \/ Due(i), pc[w] # "render" \/ req[w].issue # i,
         store'[i] = store[i], board'[store[i].ts] = board[store[i].ts]
  PROVE  Shown(i)' \/ Due(i)'
BY DEF Shown, Due, LocalTo, SessionCard, SummaryCard, VotingCard

\* A step that changes neither the store nor a card.
LEMMA MatchQuiet ==
  ASSUME MatchInv, NEW w \in Workers, LocalTo(w),
         pc[w] # "render", pc'[w] # "create",
         UNCHANGED <<store, board>>
  PROVE  MatchInv'
<1>1. ShownOrDue'
  BY ShownStays DEF MatchInv, ShownOrDue, Open
<1>2. PostedShown'
  BY DEF MatchInv, PostedShown, SessionCard, SummaryCard, VotingCard, LocalTo
<1> QED
  BY <1>1, <1>2 DEF MatchInv

\* A step that changes the card c of no open round.
LEMMA MatchOther ==
  ASSUME OutsideType, SessionHasCard, MatchInv, NEW w \in Workers, LocalTo(w),
         pc[w] # "render", UNCHANGED store, NEW c \in Cards, NEW card,
         board' = board \/ board' = [board EXCEPT ![c] = card],
         \A i \in Issues : Open(i) => store[i].ts # c
  PROVE  ShownOrDue'
<1>1. \A i \in Issues : Open(i) => board'[store[i].ts] = board[store[i].ts]
  BY DEF OutsideType, SessionHasCard
<1> QED
  BY <1>1, ShownStays DEF MatchInv, ShownOrDue, Open

\* A card that another worker posted is not touched by a step on another issue.
LEMMA PostedStays ==
  ASSUME SerialInv, MatchInv, Apart, NEW w \in Workers, HandlerStep(w),
         pc'[w] # "create" \/
           board'[sess'[w].ts] = SessionCard(req'[w].issue, sess'[w])
  PROVE  PostedShown'
<1>1. ~Idle(w) /\ LocalTo(w) /\ Only(req[w].issue)
  BY OneIssue DEF SerialInv
<1>2. ASSUME NEW v \in Workers \ {w}, pc[v] = "create"
      PROVE  board'[sess[v].ts] = SessionCard(req[v].issue, sess[v])
  <2>1. sess[v].ts \in Cards /\ board[sess[v].ts] # NoCard
    BY <1>2, AtSerial
  <2>2. board'[sess[v].ts] = board[sess[v].ts]
    BY <1>1, <1>2, <2>1, CardsApart DEF Only
  <2> QED
    BY <1>2, <2>2 DEF MatchInv, PostedShown
<1> QED
  BY <1>1, <1>2
     DEF PostedShown, LocalTo, SessionCard, SummaryCard, VotingCard

\* PostCard: the new card is no other round's, and shows the new one.
LEMMA MatchPost ==
  ASSUME SerialInv, MatchInv, Apart, NEW w \in Workers, PostCard(w),
         "slack" \notin Faulty
  PROVE  MatchInv'
<1>1. LocalType /\ OutsideType /\ SessionHasCard
  BY IInvParts DEF SerialInv, OutsideInv
<1>2. PICK r, s : r = req[w] /\ s = sess[w]
  OBVIOUS
<1>3. PICK card : card = VotingCard(r.issue, s)
  OBVIOUS
<1>4. /\ pc[w] = "post" /\ UNCHANGED store
      /\ \/ Finish(w) /\ UNCHANGED board
         \/ \E c \in Cards : /\ board[c] = NoCard
                             /\ board' = [board EXCEPT ![c] = card]
                             /\ Carry(w, [s EXCEPT !.ts = c], "create")
  BY <1>2, <1>3, Reliable DEF PostCard
<1>5. CASE Finish(w) /\ UNCHANGED board
  BY <1>1, <1>4, <1>5, Moves, OneMoves, MatchQuiet
<1>6. ASSUME NEW c \in Cards, board[c] = NoCard,
             board' = [board EXCEPT ![c] = card],
             Carry(w, [s EXCEPT !.ts = c], "create")
      PROVE  MatchInv'
  <2>1. PICK t : t = [s EXCEPT !.ts = c]
    OBVIOUS
  <2>2. pc'[w] = "create" /\ sess'[w] = t /\ req'[w] = r
    BY <1>1, <1>2, <1>6, <2>1, Moves
  <2>3. s \in Session /\ s.status = "voting"
    BY <1>1, <1>2, <1>4, AtCall DEF SerialInv, WorkersCurrent, Current
  <2>4. board'[t.ts] = SessionCard(r.issue, t)
    BY <1>1, <1>3, <1>6, <2>1, <2>3
       DEF OutsideType, Session, SessionCard, VotingCard
  <2>5. PostedShown'
    BY <2>2, <2>4, PostedStays DEF HandlerStep
  <2>6. ShownOrDue'
    <3>1. LocalTo(w)
      BY <1>1, <1>6, OneMoves
    <3> QED
      BY <1>1, <1>4, <1>6, <3>1, MatchOther DEF SessionHasCard
  <2> QED
    BY <2>5, <2>6 DEF MatchInv
<1> QED
  BY <1>4, <1>5, <1>6

\* CreateSession: the card of the new round shows it already.
LEMMA MatchCreate ==
  ASSUME SerialInv, MatchInv, Apart, NEW w \in Workers, CreateSession(w),
         "store" \notin Faulty
  PROVE  MatchInv'
<1>1. LocalType /\ OutsideType
  BY IInvParts DEF SerialInv, OutsideInv
<1>2. PICK r, s : r = req[w] /\ s = sess[w]
  OBVIOUS
<1>3. /\ pc[w] = "create" /\ Finish(w) /\ UNCHANGED board
      /\ store' = [store EXCEPT ![r.issue] = s]
  BY <1>2, Reliable DEF CreateSession, Saving
<1>4. board[s.ts] = SessionCard(r.issue, s) /\ r.issue \in Issues
  BY <1>2, <1>3, AtSerial DEF MatchInv, PostedShown
<1>5. pc'[w] = "idle" /\ LocalTo(w)
  BY <1>1, <1>3, Moves, OneMoves
<1>6. ShownOrDue'
  <2> SUFFICES ASSUME NEW i \in Issues, store'[i] # NoSession
               PROVE  Shown(i)' \/ Due(i)'
    BY DEF ShownOrDue, Open
  <2>1. CASE i = r.issue
    <3>1. store'[i] = s /\ board'[s.ts] = SessionCard(i, s)
      BY <1>1, <1>3, <1>4, <2>1 DEF OutsideType
    <3> QED
      BY <3>1 DEF Shown, SessionCard, SummaryCard, VotingCard
  <2>2. CASE i # r.issue
    <3>1. store'[i] = store[i]
      BY <1>1, <1>3, <2>2 DEF OutsideType
    <3> QED
      BY <1>3, <1>5, <3>1, ShownStays DEF MatchInv, ShownOrDue, Open
  <2> QED
    BY <2>1, <2>2
<1>7. PostedShown'
  BY <1>5, PostedStays DEF HandlerStep
<1> QED
  BY <1>6, <1>7 DEF MatchInv

\* Save: the card of its round is rendered next.
LEMMA MatchSave ==
  ASSUME SerialInv, MatchInv, Apart, NEW w \in Workers, Save(w), "store" \notin Faulty
  PROVE  MatchInv'
<1>1. LocalType /\ OutsideType
  BY IInvParts DEF SerialInv, OutsideInv
<1>2. PICK r, s : r = req[w] /\ s = sess[w]
  OBVIOUS
<1>3. /\ pc[w] = "save" /\ Goto(w, "render") /\ UNCHANGED board
      /\ store' = [store EXCEPT ![r.issue] = s]
  BY <1>2, Reliable DEF Save, Saving, GotoIfOk
<1>4. pc'[w] = "render" /\ req'[w] = r /\ LocalTo(w)
  BY <1>1, <1>2, <1>3, Moves, OneMoves DEF Goto
<1>5. ShownOrDue'
  <2> SUFFICES ASSUME NEW i \in Issues, i # r.issue, store'[i] # NoSession
               PROVE  Shown(i)' \/ Due(i)'
    BY <1>4 DEF ShownOrDue, Open, Due
  <2>1. store'[i] = store[i]
    BY <1>1, <1>3 DEF OutsideType
  <2> QED
    BY <1>3, <1>4, <2>1, ShownStays DEF MatchInv, ShownOrDue, Open
<1>6. PostedShown'
  BY <1>4, PostedStays DEF HandlerStep
<1> QED
  BY <1>5, <1>6 DEF MatchInv

\* Render: what is rendered is what the store holds.
LEMMA MatchRender ==
  ASSUME SerialInv, MatchInv, Apart, NEW w \in Workers, Render(w),
         "slack" \notin Faulty
  PROVE  MatchInv'
<1>1. LocalType /\ OutsideType /\ SessionHasCard
  BY IInvParts DEF SerialInv, OutsideInv
<1>2. PICK r, s : r = req[w] /\ s = sess[w]
  OBVIOUS
<1>3. PICK card : card = SessionCard(r.issue, s)
  OBVIOUS
<1>4. /\ pc[w] = "render" /\ UNCHANGED store
      /\ board' = [board EXCEPT ![s.ts] = card]
      /\ Goto(w, "notice") \/ Finish(w)
  BY <1>2, <1>3, Reliable DEF Render, GotoIfOk
<1>5. s.ts \in Cards /\ board[s.ts].issue = r.issue /\ store[r.issue] = s
  <2>1. /\ Current("render", r, s)
        /\ s.ts \in Cards /\ board[s.ts].issue = r.issue
    BY <1>2, <1>4, AtSerial
  <2> QED
    BY <2>1 DEF Current
<1>6. pc'[w] \in {"notice", "idle"} /\ LocalTo(w)
  BY <1>1, <1>4, Moves, OneMoves DEF Goto
<1>7. ShownOrDue'
  <2> SUFFICES ASSUME NEW i \in Issues, store[i] # NoSession
               PROVE  Shown(i)' \/ Due(i)'
    BY <1>4 DEF ShownOrDue, Open
  <2>1. CASE i = r.issue
    <3>1. store'[i] = s /\ board'[s.ts] = SessionCard(i, s)
      BY <1>1, <1>3, <1>4, <1>5, <2>1 DEF OutsideType
    <3> QED
      BY <3>1 DEF Shown, SessionCard, SummaryCard, VotingCard
  <2>2. CASE i # r.issue
    <3>1. store[i].ts # s.ts
      BY <1>1, <1>5, <2>2 DEF SessionHasCard, Open
    <3>2. board'[store[i].ts] = board[store[i].ts]
      BY <1>1, <1>4, <3>1 DEF OutsideType, SessionHasCard, Open
    <3> QED
      BY <1>2, <1>4, <1>6, <2>2, <3>2, ShownStays DEF MatchInv, ShownOrDue, Open
  <2> QED
    BY <2>1, <2>2
<1>8. PostedShown'
  BY <1>6, PostedStays DEF HandlerStep
<1> QED
  BY <1>7, <1>8 DEF MatchInv

\* DeleteSession: there is one open round less.
LEMMA MatchDelete ==
  ASSUME SerialInv, MatchInv, Apart, NEW w \in Workers, DeleteSession(w)
  PROVE  MatchInv'
<1>1. LocalType /\ OutsideType
  BY IInvParts DEF SerialInv, OutsideInv
<1>2. /\ pc[w] = "delete" /\ UNCHANGED board
      /\ store' = store \/ store' = [store EXCEPT ![req[w].issue] = NoSession]
      /\ Finish(w) \/ Goto(w, "close")
  BY DEF DeleteSession, Deleting, GotoIfOk
<1>3. pc'[w] \in {"close", "idle"} /\ LocalTo(w)
  BY <1>1, <1>2, Moves, OneMoves DEF Goto
<1>4. ShownOrDue'
  <2> SUFFICES ASSUME NEW i \in Issues, store'[i] # NoSession
               PROVE  Shown(i)' \/ Due(i)'
    BY DEF ShownOrDue, Open
  <2>1. store'[i] = store[i]
    BY <1>1, <1>2 DEF OutsideType
  <2> QED
    BY <1>2, <1>3, <2>1, ShownStays DEF MatchInv, ShownOrDue, Open
<1>5. PostedShown'
  BY <1>3, PostedStays DEF HandlerStep
<1> QED
  BY <1>4, <1>5 DEF MatchInv

\* CloseCard: the round of the card is not open.
LEMMA MatchClose ==
  ASSUME SerialInv, MatchInv, Apart, NEW w \in Workers, CloseCard(w)
  PROVE  MatchInv'
<1>1. LocalType /\ OutsideType /\ SessionHasCard /\ ClosedStaysClosed
  BY IInvParts DEF SerialInv, OutsideInv
<1>2. PICK r, s : r = req[w] /\ s = sess[w]
  OBVIOUS
<1>3. PICK card : card = ClosingCard(r)
  OBVIOUS
<1>4. /\ pc[w] = "close" /\ Finish(w) /\ UNCHANGED store
      /\ board' = board \/ board' = [board EXCEPT ![s.ts] = card]
  BY <1>2, <1>3 DEF CloseCard
<1>5. s.ts \in Cards /\ s.ts \in closed
  <2>1. s.ts \in Cards /\ Current("close", r, s)
    BY <1>2, <1>4, AtSerial
  <2> QED
    BY <2>1 DEF Current
<1>6. pc'[w] = "idle" /\ LocalTo(w)
  BY <1>1, <1>4, Moves, OneMoves
<1>7. ShownOrDue'
  BY <1>1, <1>4, <1>5, <1>6, MatchOther DEF ClosedStaysClosed
<1>8. PostedShown'
  BY <1>6, PostedStays DEF HandlerStep
<1> QED
  BY <1>7, <1>8 DEF MatchInv

\* One call of the handler.
LEMMA MatchStep ==
  ASSUME SerialInv, MatchInv, Apart, NEW w \in Workers, HandlerStep(w),
         "store" \notin Faulty, "slack" \notin Faulty
  PROVE  MatchInv'
<1>1. LocalType /\ LocalTo(w)
  BY IInvParts, OneIssue DEF SerialInv
<1>2. CASE \/ Refuse(w) \/ FetchIssue(w) \/ IgnoreSelect(w) \/ LoadNothing(w)
           \/ VoteLoaded(w) \/ RetractLoaded(w) \/ RevealLoaded(w)
           \/ ContinueLoaded(w) \/ SetLoaded(w) \/ CancelLoaded(w)
  <2>1. pc[w] = "load" /\ UNCHANGED outside
    BY <1>2 DEF Refuse, FetchIssue, IgnoreSelect, LoadNothing, VoteLoaded,
                RetractLoaded, RevealLoaded, ContinueLoaded, SetLoaded,
                CancelLoaded, Loaded, Loading
  <2>2. pc'[w] # "create"
    BY <1>1, <1>2, Moves
       DEF Refuse, FetchIssue, IgnoreSelect, LoadNothing, VoteLoaded,
           RetractLoaded, RevealLoaded, ContinueLoaded, SetLoaded,
           CancelLoaded, LocalType
  <2> QED
    BY <1>1, <2>1, <2>2, MatchQuiet DEF outside
<1>3. CASE Notify(w) \/ SetEstimate(w)
  <2>1. /\ pc[w] \in {"notice", "estimate"} /\ UNCHANGED <<store, board>>
        /\ Finish(w) \/ Goto(w, "delete")
    BY <1>3 DEF Notify, SetEstimate, GotoIfOk, outside
  <2> QED
    BY <1>1, <2>1, Moves, MatchQuiet
<1>4. CASE \/ PostCard(w) \/ CreateSession(w) \/ Save(w) \/ Render(w)
           \/ DeleteSession(w) \/ CloseCard(w)
  BY <1>4, MatchPost, MatchCreate, MatchSave, MatchRender, MatchDelete,
     MatchClose
<1> QED
  BY <1>2, <1>3, <1>4 DEF HandlerStep

\* Taking up a request shows nothing.
LEMMA MatchBegin ==
  ASSUME LocalType, MatchInv, NEW w \in Workers, NEW r, Begin(w, r)
  PROVE  MatchInv'
BY Begins, MatchQuiet DEF outside

\* Nothing changed.
LEMMA MatchStutter ==
  ASSUME MatchInv, UNCHANGED vars
  PROVE  MatchInv'
BY DEF vars, MatchInv, ShownOrDue, Shown, Due, PostedShown, Open, SessionCard,
       SummaryCard, VotingCard

LEMMA InitMatch == ASSUME Init PROVE MatchInv
BY DEF Init, MatchInv, ShownOrDue, PostedShown, Open

\* Between two events on an issue nothing is about to be rendered.
LEMMA MatchSays == MatchInv => BoardMatchesStore
BY DEF MatchInv, ShownOrDue, Shown, Due, BoardMatchesStore, Idle

\* At a load nothing is due: the card is the rendering of the session that
\* is loaded, so the choice is made from what the card puts forward.
LEMMA SetShows ==
  ASSUME SerialInv, MatchInv, Apart, "store" \notin Faulty,
         NEW w \in Workers, HandlerStep(w),
         Loading(w, "set"), Open(req[w].issue)
  PROVE  TakesShown(w)
<1>1. PICK r, s, chosen : /\ r = req[w] /\ s = store[r.issue]
                          /\ chosen = ChosenEstimate(r.point, s)
  OBVIOUS
<1>2. SetLoaded(w)
  BY DEF HandlerStep, Loading, Open, Refuse, FetchIssue, PostCard, CreateSession,
         IgnoreSelect, LoadNothing, VoteLoaded, RetractLoaded, RevealLoaded,
         ContinueLoaded, CancelLoaded, Loaded, Save, Render, Notify, SetEstimate,
         DeleteSession, CloseCard
<1>3. /\ s \in Session /\ OnScale(s) /\ r \in Request /\ r.issue \in Issues
  <2>1. IInv /\ Loaded(w, "set", s)
    BY <1>1, <1>2 DEF SerialInv, SetLoaded
  <2> QED
    BY <1>1, <2>1, LoadedFacts DEF Request
<1>4. /\ pc'[w] = IF chosen = NoPoint THEN "render" ELSE "estimate"
      /\ req'[w].point = chosen
  BY <1>1, <1>2, <1>3, IInvParts DEF SetLoaded, SerialInv, LocalType, Request
<1>5. board[s.ts] = SessionCard(r.issue, s)
  <2>1. ~Due(r.issue)
    BY <1>1 DEF Due, Apart, Idle, Loading
  <2> QED
    BY <1>1, <1>3, <2>1 DEF MatchInv, ShownOrDue, Shown
<1>6. s.scale \in SUBSET Points /\ NoPoint \notin s.scale
  BY <1>3, PointsAssumption, SentinelAssumption DEF Session
<1>7. CASE r.point \in s.scale
  <2>1. chosen = r.point /\ chosen # NoPoint
    BY <1>1, <1>6, <1>7 DEF ChosenEstimate
  <2>2. SessionCard(r.issue, s).scale = s.scale
    BY DEF SessionCard, SummaryCard, VotingCard
  <2> QED
    BY <1>1, <1>4, <1>5, <1>7, <2>1, <2>2 DEF TakesShown
<1>8. CASE r.point \notin s.scale
  <2>1. chosen = Consensus(s.scale, s.votes)
    BY <1>1, <1>8 DEF ChosenEstimate
  <2>2. chosen = NoPoint <=> s.votes = NoVotes
    <3>1. chosen = NoPoint <=> \A u \in Users : s.votes[u] \notin s.scale
      BY <1>6, <2>1, ConsensusExists
    <3>2. \A u \in Users : s.votes[u] \notin s.scale <=> s.votes[u] = NoPoint
      BY <1>3, <1>6 DEF OnScale
    <3>3. s.votes \in [Users -> MaybePoint]
      BY <1>3 DEF Session, Votes
    <3>4. s.votes = NoVotes <=> \A u \in Users : s.votes[u] = NoPoint
      BY <3>3 DEF NoVotes
    <3> QED
      BY <3>1, <3>2, <3>4
  <2>3. SessionCard(r.issue, s).scale = s.scale
    BY DEF SessionCard, SummaryCard, VotingCard
  <2>4. SessionCard(r.issue, s).kind = "summary" =>
          /\ SessionCard(r.issue, s).shown = s.votes
          /\ chosen # NoPoint => SessionCard(r.issue, s).point = chosen
    BY <2>1 DEF SessionCard, SummaryCard, VotingCard
  <2> QED
    BY <1>1, <1>4, <1>5, <1>8, <2>2, <2>3, <2>4 DEF TakesShown
<1> QED
  BY <1>7, <1>8

----------------------------------------------------------------------------
(***************************************************************************)
(* The theorems.                                                           *)
(***************************************************************************)
\* Runs that keep apart implement the rounds of Round: every step is one whole
\* operation of a user on one round, or changes no round.
THEOREM ApartImplementsRound ==
  ASSUME {"store", "linear", "crash"} \cap Faulty = {}
  PROVE  ApartSpec => ImplementsRound
<1>1. Init => Abstract!RoundInit
  BY InitRounds
<1>2. SerialInv /\ Apart /\ [HandlerNext]_vars
        => [Abstract!RoundNext]_(Abstract!roundVars)
  <2> SUFFICES ASSUME SerialInv, Apart, [HandlerNext]_vars
               PROVE  Abstract!RoundNext \/ UNCHANGED <<Rounds, Estimates>>
    BY DEF Abstract!roundVars
  <2>1. ASSUME NEW w \in Workers, HandlerStep(w)
        PROVE  Abstract!RoundNext \/ UNCHANGED <<Rounds, Estimates>>
    BY <2>1, HandlerImplements
  <2>2. ASSUME NEW w \in Workers, NEW r, Begin(w, r)
        PROVE  UNCHANGED <<Rounds, Estimates>>
    BY <2>2, BeginStutters, IInvParts DEF SerialInv
  <2>3. CASE UNCHANGED vars
    BY <2>3, RoundsStay
  <2> QED
    BY <2>1, <2>2, <2>3 DEF HandlerNext, Crash
<1> QED
  BY <1>1, <1>2, ApartInvariant, PTL
     DEF ApartSpec, HandlerSpec, ImplementsRound, Abstract!RoundSpec

\* For any value of Faulty: the store goes through whole operations of users,
\* and estimates are points of open rounds.
THEOREM ApartSurvivesFaults == ApartSpec => SurvivesFaults
<1>1. Init => Surviving!RoundInit
  BY InitRounds
<1>2. SerialInv /\ Apart /\ [HandlerNext]_vars
        => [Surviving!FaultyRoundNext]_(Surviving!roundVars)
  <2> SUFFICES ASSUME SerialInv, Apart, [HandlerNext]_vars
               PROVE  Surviving!FaultyRoundNext \/ UNCHANGED <<Stored, Estimates>>
    BY DEF Surviving!roundVars
  <2>1. ASSUME NEW w \in Workers, HandlerStep(w)
        PROVE  Surviving!FaultyRoundNext \/ UNCHANGED <<Stored, Estimates>>
    BY <2>1, HandlerSurvives
  <2>2. ASSUME NEW w \in Workers, NEW r, Begin(w, r) \/ Crash(w)
        PROVE  UNCHANGED <<Stored, Estimates>>
    BY <2>2, OutsideSurvives DEF Begin, Crash
  <2>3. CASE UNCHANGED vars
    BY <2>3, RoundsStay
  <2> QED
    BY <2>1, <2>2, <2>3 DEF HandlerNext
<1> QED
  BY <1>1, <1>2, ApartInvariant, PTL
     DEF ApartSpec, HandlerSpec, SurvivesFaults, Surviving!FaultyRoundSpec

\* As long as the store and Linear answer and no run is cut off, a card that
\* says no estimate was saved is that of a round that wrote none, whatever
\* Slack loses or repeats.
THEOREM ApartCancelHonest ==
  ASSUME {"store", "linear", "crash"} \cap Faulty = {}
  PROVE  ApartSpec => []CancelHonest
<1>1. Init => HonestInv
  BY InitHonest
<1>2. SerialInv /\ HonestInv /\ Apart /\ [HandlerNext]_vars => HonestInv'
  <2> SUFFICES ASSUME SerialInv, HonestInv, Apart, [HandlerNext]_vars
               PROVE  HonestInv'
    OBVIOUS
  <2>1. ASSUME NEW w \in Workers, HandlerStep(w) PROVE HonestInv'
    BY <2>1, HonestStep
  <2>2. ASSUME NEW w \in Workers, NEW r, Begin(w, r) PROVE HonestInv'
    BY <2>2, HonestBegin, IInvParts DEF SerialInv
  <2> QED
    BY <2>1, <2>2, HonestStutter DEF HandlerNext, Crash
<1>3. HonestInv => CancelHonest
  BY DEF HonestInv
<1> QED
  BY <1>1, <1>2, <1>3, ApartInvariant, PTL DEF ApartSpec, HandlerSpec

\* As long as the store and Slack answer and no run is cut off, no card of an
\* open round is out of date but for a rendering under way.
LEMMA ApartMatch ==
  ASSUME {"store", "slack", "crash"} \cap Faulty = {}
  PROVE  ApartSpec => []MatchInv
<1>1. Init => MatchInv
  BY InitMatch
<1>2. SerialInv /\ MatchInv /\ Apart /\ [HandlerNext]_vars => MatchInv'
  <2> SUFFICES ASSUME SerialInv, MatchInv, Apart, [HandlerNext]_vars
               PROVE  MatchInv'
    OBVIOUS
  <2>1. ASSUME NEW w \in Workers, HandlerStep(w) PROVE MatchInv'
    BY <2>1, MatchStep
  <2>2. ASSUME NEW w \in Workers, NEW r, Begin(w, r) PROVE MatchInv'
    BY <2>2, MatchBegin, IInvParts DEF SerialInv
  <2> QED
    BY <2>1, <2>2, MatchStutter DEF HandlerNext, Crash
<1> QED
  BY <1>1, <1>2, ApartInvariant, PTL DEF ApartSpec, HandlerSpec

\* Then the card of an open round shows what the store holds between two
\* events on its issue.
THEOREM ApartBoardMatchesStore ==
  ASSUME {"store", "slack", "crash"} \cap Faulty = {}
  PROVE  ApartSpec => []BoardMatchesStore
BY ApartMatch, MatchSays, PTL

\* Then Set takes what the card of the round puts forward.
THEOREM ApartSetTakesShown ==
  ASSUME {"store", "slack", "crash"} \cap Faulty = {}
  PROVE  ApartSpec => SetTakesShown
<1> DEFINE Takes == \A w \in Workers :
      Loading(w, "set") /\ Open(req[w].issue) /\ pc'[w] # "load" => TakesShown(w)
<1>1. SerialInv /\ MatchInv /\ Apart /\ [HandlerNext]_vars => [Takes]_vars
  <2> SUFFICES ASSUME SerialInv, MatchInv, Apart, HandlerNext,
                      NEW w \in Workers, Loading(w, "set"),
                      Open(req[w].issue), pc'[w] # "load"
               PROVE  TakesShown(w)
    OBVIOUS
  <2>1. IInv /\ LocalType
    BY IInvParts DEF SerialInv
  <2>2. ASSUME NEW v \in Workers, NEW r, Begin(v, r) PROVE FALSE
    BY <2>1, <2>2 DEF Begin, Idle, Loading, LocalType
  <2>3. ASSUME NEW v \in Workers, v # w, HandlerStep(v) PROVE FALSE
    <3>1. LocalTo(v)
      BY <2>1, <2>3, OneIssue
    <3> QED
      BY <2>3, <3>1 DEF LocalTo, Loading
  <2> QED
    BY <2>2, <2>3, SetShows DEF HandlerNext, Crash
<1> QED
  BY <1>1, ApartInvariant, ApartMatch, PTL DEF ApartSpec, HandlerSpec, SetTakesShown
=============================================================================
