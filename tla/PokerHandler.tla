---------------------------- MODULE PokerHandler ----------------------------
(***************************************************************************)
(* The estimation rounds of package handler: what one request does, call   *)
(* by call, to the session store, to the Slack message of the round (its   *)
(* card) and to the estimate in Linear.                                    *)
(*                                                                         *)
(* A worker is one run of HandleSlashCommand or HandleInteraction.  Its    *)
(* program counter names the outside call it is about to make, and each    *)
(* action makes one such call together with the code up to the next one,   *)
(* so everything another worker can slip in between two calls is there.    *)
(* How requests reach the workers is left to the two deployments: module   *)
(* Webhook runs workers side by side, module Socket runs a single one.     *)
(*                                                                         *)
(* A point stands for its label and its value, which determine each other  *)
(* (ScaleWellFormed in Scale); titles, links, channels and wording are     *)
(* left out.  Users, NoPoint and the recommended point come from module    *)
(* Recommendation.                                                         *)
(***************************************************************************)
EXTENDS Recommendation

CONSTANTS
  Issues,      \* Linear issues
  Cards,       \* messages Slack can post: the bound on rounds
  Points,      \* estimates, as the value written to Linear
  Scales,      \* scales a team may have: sets of points
  Hand,        \* Hand[u]: the points user u ever votes for
  Used,        \* the commands and buttons users make use of
  Workers,     \* concurrent runs of the handler
  Faulty,      \* what may go wrong: "store", "slack", "linear", "ack", "crash"
  Hidden,      \* shown for a vote while voting: a mention without its point
  NoCard,      \* no message
  NoSession,   \* store.ErrNotFound, and the local variable before a load
  NoRequest    \* what an idle worker holds

ASSUME UsersAssumption == IsFiniteSet(Users) /\ Users # {}
ASSUME PointsAssumption ==
  /\ Points \subseteq Nat
  /\ Scales \subseteq SUBSET Points
  /\ Hand \in [Users -> SUBSET Points]
ASSUME SentinelAssumption ==
  /\ NoPoint \notin Points
  /\ Hidden \notin Points \cup {NoPoint}
  /\ NoCard \notin Cards

VARIABLES
  store,       \* store[i]: the session saved under issue i
  board,       \* board[c]: what the channel shows in card c
  linear,      \* linear[i]: the estimate of issue i, and the card of the
               \*   round that wrote it
  saved,       \* history: pairs <<c, p>>, the round of card c wrote p
  closed,      \* history: cards of the rounds whose session was deleted
  pc, req, sess \* per worker: next call, request, the local *PokerSession

outside == <<store, board, linear, saved, closed>>
local   == <<pc, req, sess>>
vars    == <<store, board, linear, saved, closed, pc, req, sess>>

MaybePoint == Points \cup {NoPoint}
Votes      == [Users -> MaybePoint]
NoVotes    == [u \in Users |-> NoPoint]

Session ==
  [ts : Cards \cup {NoCard}, status : {"voting", "revealed"},
   votes : Votes, scale : Scales]

Kinds == {"voting", "summary", "final", "cancelled"}

\* A card: the votes it shows and the point it puts forward, which is the
\* preselected option of a summary and the estimate of a final card.
Card ==
  [issue : Issues, kind : Kinds, shown : [Users -> MaybePoint \cup {Hidden}],
   scale : SUBSET Points, point : MaybePoint]

Acts == {"chipin", "vote", "retract", "reveal", "continue", "set", "cancel",
         "select"}

\* A slash command or a click.  The payload of a click names the card it was
\* made on; the handler routes by issue and never reads it.
Request ==
  [act : Acts, user : Users, issue : Issues, point : MaybePoint,
   card : Cards \cup {NoCard}]

\* The markers of absence are not values of the types they complete.
ASSUME AbsenceAssumption ==
  NoSession \notin Session /\ NoCard \notin Card /\ NoRequest \notin Request

Calls == {"load", "post", "create", "save", "render", "notice", "estimate",
          "delete", "close"}

----------------------------------------------------------------------------
\* Scale[0], the first point of the scale.
FirstPoint(scale) == AnyOf({p \in scale : \A q \in scale : p <= q})

\* Mutant: without a selection the first point is taken, not the consensus.
ChosenOrFirst(selection, s) ==
  IF selection \in s.scale THEN selection ELSE FirstPoint(s.scale)

\* chosenEstimate: the selection of the dropdown if it is on the scale of the
\* session, otherwise the consensus, which may be none.
ChosenEstimate(selection, s) ==
  IF selection \in s.scale THEN selection ELSE Consensus(s.scale, s.votes)

\* The updates of the loaded session.
NewSession(scale) ==
  [ts |-> NoCard, status |-> "voting", votes |-> NoVotes, scale |-> scale]

\* The handler reads the user of a vote and of a retraction only: one user
\* stands for all in the other requests.
AnyUser == CHOOSE u \in Users : TRUE

\* Mutants: the vote is put down to the user who started the round; a vote,
\* and a retraction, leave a revealed round revealed.
CastForAny(s, u, p)  == [s EXCEPT !.votes[AnyUser] = p, !.status = "voting"]
CastRevealed(s, u, p) == [s EXCEPT !.votes[u] = p]
DropRevealed(s, u)    == [s EXCEPT !.votes[u] = NoPoint]

CastVote(s, u, p) == [s EXCEPT !.votes[u] = p, !.status = "voting"]
DropVote(s, u)    == [s EXCEPT !.votes[u] = NoPoint, !.status = "voting"]

\* Mutant: a change of status starts from an empty vote map.
FreshStatus(s, status) == [s EXCEPT !.status = status, !.votes = NoVotes]

WithStatus(s, status) == [s EXCEPT !.status = status]

\* Mutant: the label of a vote is not looked up on the session's scale.
ContainsAny(s, p) == TRUE

Contains(s, p) == p \in s.scale

\* The four renderings of a session.
VotingCard(i, s) ==
  [issue |-> i, kind |-> "voting",
   shown |-> [u \in Users |-> IF s.votes[u] = NoPoint THEN NoPoint ELSE Hidden],
   scale |-> s.scale, point |-> NoPoint]

SummaryCard(i, s) ==
  LET consensus == Consensus(s.scale, s.votes)
  IN  [issue |-> i, kind |-> "summary", shown |-> s.votes, scale |-> s.scale,
       point |-> IF consensus # NoPoint THEN consensus ELSE FirstPoint(s.scale)]

CancelledCard(i) ==
  [issue |-> i, kind |-> "cancelled", shown |-> NoVotes, scale |-> {},
   point |-> NoPoint]

FinalCard(i, p) ==
  [issue |-> i, kind |-> "final", shown |-> NoVotes, scale |-> {}, point |-> p]

\* render: the card for the session's current status.
SessionCard(i, s) ==
  IF s.status = "revealed" THEN SummaryCard(i, s) ELSE VotingCard(i, s)

----------------------------------------------------------------------------
\* The buttons of a card.  A click on Set carries the selection of the
\* dropdown, or none when Slack sent no state for it.
Offers(card, act, p) ==
  \/ /\ card.kind = "voting"
     /\ \/ act = "vote" /\ p \in card.scale
        \/ act \in {"reveal", "retract", "cancel"} /\ p = NoPoint
  \/ /\ card.kind = "summary"
     /\ \/ act = "set" /\ p \in card.scale \cup {NoPoint}
        \/ act \in {"continue", "cancel", "select"} /\ p = NoPoint

\* What users can send now: /chipin on an issue, or a click on a button some
\* card shows.  The handler may get to it when the card has changed.
Sendable(r) ==
  /\ r.act \in Used
  /\ r.act \notin {"vote", "retract"} => r.user = AnyUser
  /\ r.act = "vote" => r.point \in Hand[r.user]
  /\ \/ r.act = "chipin" /\ r.card = NoCard /\ r.point = NoPoint
     \/ /\ r.card \in Cards
        /\ board[r.card] # NoCard
        /\ r.issue = board[r.card].issue
        /\ Offers(board[r.card], r.act, r.point)

\* What the outside calls do when they take effect: SaveSession replaces the
\* row of the issue or inserts one, DeleteSession removes it if it is there,
\* SetEstimate writes a point for the round of card c.
Saving(i, s) == store' = [store EXCEPT ![i] = s]
Deleting(i)  == store' = [store EXCEPT ![i] = NoSession]
Writing(i, c, p) ==
  /\ linear' = [linear EXCEPT ![i] = [point |-> p, card |-> c]]
  /\ saved' = saved \cup {<<c, p>>}

\* The answers an outside call may get.  A call that is "lost" took effect
\* but the handler is told it failed (a timeout, a cancelled request context).
\* No call takes effect after its answer: that a write to Linear can is shown
\* in module LinearClient and left out here.
Replies(service) ==
  {"ok"} \cup (IF service \in Faulty THEN {"failed", "lost"} ELSE {})

Idle(w) == pc[w] = "idle"

\* The handler returns.
Finish(w) ==
  /\ pc' = [pc EXCEPT ![w] = "idle"]
  /\ req' = [req EXCEPT ![w] = NoRequest]
  /\ sess' = [sess EXCEPT ![w] = NoSession]

\* The handler goes on to a call with session s in hand.
Carry(w, s, call) ==
  /\ pc' = [pc EXCEPT ![w] = call]
  /\ sess' = [sess EXCEPT ![w] = s]
  /\ UNCHANGED req

Goto(w, call) == Carry(w, sess[w], call)

\* Mutants: errors are dropped; the error check is the wrong way round.
GotoAnyway(w, reply, call) == Goto(w, call)
StopIfOk(w, reply, call) == IF reply = "ok" THEN Finish(w) ELSE Goto(w, call)

\* The next call when the last one succeeded, the end of the run otherwise.
GotoIfOk(w, reply, call) == IF reply = "ok" THEN Goto(w, call) ELSE Finish(w)

Init ==
  /\ store = [i \in Issues |-> NoSession]
  /\ board = [c \in Cards |-> NoCard]
  /\ linear = [i \in Issues |-> [point |-> NoPoint, card |-> NoCard]]
  /\ saved = {}
  /\ closed = {}
  /\ pc = [w \in Workers |-> "idle"]
  /\ req = [w \in Workers |-> NoRequest]
  /\ sess = [w \in Workers |-> NoSession]

\* An idle worker takes a request.
Begin(w, r) ==
  /\ Idle(w)
  /\ pc' = [pc EXCEPT ![w] = "load"]
  /\ req' = [req EXCEPT ![w] = r]
  /\ UNCHANGED <<outside, sess>>

----------------------------------------------------------------------------
(***************************************************************************)
(* HandleSlashCommand.                                                     *)
(***************************************************************************)
\* Worker w is about to load what a request of kind act needs.
Loading(w, act) == pc[w] = "load" /\ req[w].act = act

\* No identifier, an issue Linear does not find or return, or a team that
\* does not estimate: the user gets an ephemeral answer and nothing changes.
Refuse(w) ==
  /\ Loading(w, "chipin")
  /\ Finish(w)
  /\ UNCHANGED outside

\* Mutant: the session is saved before the card is posted.
FetchSaveFirst(w) ==
  /\ Loading(w, "chipin")
  /\ \E scale \in Scales : Carry(w, NewSession(scale), "create")
  /\ UNCHANGED outside

\* FetchIssue and ScaleFor.  The scale is the team's today, not that of an
\* earlier round.
FetchIssue(w) ==
  /\ Loading(w, "chipin")
  /\ \E scale \in Scales : Carry(w, NewSession(scale), "post")
  /\ UNCHANGED outside

\* PostMessage.  The session is not in the store yet: the buttons of the
\* card can be clicked before it is.
PostCard(w) ==
  /\ pc[w] = "post"
  /\ \/ \E c \in Cards, reply \in Replies("slack") :
          /\ board[c] = NoCard
          /\ reply # "failed"
          /\ board' = [board EXCEPT ![c] = VotingCard(req[w].issue, sess[w])]
          /\ IF reply = "ok"
             THEN Carry(w, [sess[w] EXCEPT !.ts = c], "create")
             ELSE Finish(w)
     \/ /\ "slack" \in Faulty \/ \A c \in Cards : board[c] # NoCard
        /\ Finish(w)
        /\ UNCHANGED board
  /\ UNCHANGED <<store, linear, saved, closed>>

\* SaveSession, which overwrites a round of the same issue still open.
CreateSession(w) ==
  /\ pc[w] = "create"
  /\ \E reply \in Replies("store") :
       IF reply = "failed" THEN UNCHANGED store ELSE Saving(req[w].issue, sess[w])
  /\ Finish(w)
  /\ UNCHANGED <<board, linear, saved, closed>>

----------------------------------------------------------------------------
(***************************************************************************)
(* HandleInteraction: load the session, then act on the copy.              *)
(***************************************************************************)
\* A selection in the dropdown returns before the store is read.
IgnoreSelect(w) ==
  /\ Loading(w, "select")
  /\ Finish(w)
  /\ UNCHANGED outside

\* GetSession finds nothing (a stale click, ignored) or fails.
LoadNothing(w) ==
  /\ pc[w] = "load"
  /\ req[w].act \notin {"chipin", "select"}
  /\ store[req[w].issue] = NoSession \/ "store" \in Faulty
  /\ Finish(w)
  /\ UNCHANGED outside

\* GetSession returned session s to worker w, whose request is of kind act.
Loaded(w, act, s) ==
  /\ Loading(w, act)
  /\ s # NoSession
  /\ s = store[req[w].issue]

VoteLoaded(w) ==
  LET s == store[req[w].issue]
      r == req[w]
  IN  /\ Loaded(w, "vote", s)
      /\ IF Contains(s, r.point)
         THEN Carry(w, CastVote(s, r.user, r.point), "save")
         ELSE Finish(w)
      /\ UNCHANGED outside

RetractLoaded(w) ==
  LET s == store[req[w].issue]
      u == req[w].user
  IN  /\ Loaded(w, "retract", s)
      /\ IF s.votes[u] = NoPoint
         THEN Carry(w, s, "notice")
         ELSE Carry(w, DropVote(s, u), "save")
      /\ UNCHANGED outside

RevealLoaded(w) ==
  LET s == store[req[w].issue]
  IN  /\ Loaded(w, "reveal", s)
      /\ Carry(w, WithStatus(s, "revealed"), "save")
      /\ UNCHANGED outside

ContinueLoaded(w) ==
  LET s == store[req[w].issue]
  IN  /\ Loaded(w, "continue", s)
      /\ Carry(w, WithStatus(s, "voting"), "save")
      /\ UNCHANGED outside

\* With nothing to estimate the card is only rendered again.  From here on
\* the request's point is the chosen one.
SetLoaded(w) ==
  LET s == store[req[w].issue]
      chosen == ChosenEstimate(req[w].point, s)
  IN  /\ Loaded(w, "set", s)
      /\ pc' = [pc EXCEPT ![w] = IF chosen = NoPoint THEN "render" ELSE "estimate"]
      /\ req' = [req EXCEPT ![w].point = chosen]
      /\ sess' = [sess EXCEPT ![w] = s]
      /\ UNCHANGED outside

\* Mutant: the card is closed, the session is left in the store.
CancelKeeping(w) ==
  LET s == store[req[w].issue]
  IN  /\ Loaded(w, "cancel", s)
      /\ Carry(w, s, "close")
      /\ UNCHANGED outside

CancelLoaded(w) ==
  LET s == store[req[w].issue]
  IN  /\ Loaded(w, "cancel", s)
      /\ Carry(w, s, "delete")
      /\ UNCHANGED outside

----------------------------------------------------------------------------
(***************************************************************************)
(* saveAndRender, finalize and cancel.                                     *)
(***************************************************************************)
\* SaveSession writes the whole session back, whatever the store holds now.
Save(w) ==
  /\ pc[w] = "save"
  /\ \E reply \in Replies("store") :
       /\ IF reply = "failed" THEN UNCHANGED store
          ELSE Saving(req[w].issue, sess[w])
       /\ GotoIfOk(w, reply, "render")
  /\ UNCHANGED <<board, linear, saved, closed>>

\* UpdateMessage with worker w's own copy.  A vote and a retraction then tell
\* their user what happened.
Render(w) ==
  /\ pc[w] = "render"
  /\ \E reply \in Replies("slack") :
       /\ board' = IF reply = "failed" THEN board
                   ELSE [board EXCEPT ![sess[w].ts] =
                                        SessionCard(req[w].issue, sess[w])]
       /\ IF req[w].act \in {"vote", "retract"}
          THEN GotoIfOk(w, reply, "notice")
          ELSE Finish(w)
  /\ UNCHANGED <<store, linear, saved, closed>>

\* privateNotice: an ephemeral message, kept by no one.
Notify(w) ==
  /\ pc[w] = "notice"
  /\ Finish(w)
  /\ UNCHANGED outside

\* Mutant: finalize returns after the write to Linear.
WriteOnly(w) ==
  /\ pc[w] = "estimate"
  /\ Writing(req[w].issue, sess[w].ts, req[w].point)
  /\ Finish(w)
  /\ UNCHANGED <<store, board, closed>>

SetEstimate(w) ==
  /\ pc[w] = "estimate"
  /\ \E reply \in Replies("linear") :
       /\ IF reply = "failed"
          THEN UNCHANGED <<linear, saved>>
          ELSE Writing(req[w].issue, sess[w].ts, req[w].point)
       /\ GotoIfOk(w, reply, "delete")
  /\ UNCHANGED <<store, board, closed>>

\* DeleteSession, by issue: deleting a missing session is not an error.
DeleteSession(w) ==
  /\ pc[w] = "delete"
  /\ \E reply \in Replies("store") :
       /\ IF reply = "failed"
          THEN UNCHANGED <<store, closed>>
          ELSE /\ Deleting(req[w].issue)
               /\ closed' = closed \cup {sess[w].ts}
       /\ GotoIfOk(w, reply, "close")
  /\ UNCHANGED <<board, linear, saved>>

\* The last UpdateMessage: the card says how the round ended.
ClosingCard(r) ==
  IF r.act = "cancel" THEN CancelledCard(r.issue) ELSE FinalCard(r.issue, r.point)

\* Mutant: the session is saved once more after the card is closed.
CloseAndSave(w) ==
  /\ pc[w] = "close"
  /\ Saving(req[w].issue, sess[w])
  /\ Finish(w)
  /\ UNCHANGED <<board, linear, saved, closed>>

CloseCard(w) ==
  /\ pc[w] = "close"
  /\ \E reply \in Replies("slack") :
       board' = IF reply = "failed" THEN board
                ELSE [board EXCEPT ![sess[w].ts] = ClosingCard(req[w])]
  /\ Finish(w)
  /\ UNCHANGED <<store, linear, saved, closed>>

\* The process dies or its worker is stopped between two calls.  What was
\* done stays done; the request is not taken up again.
Crash(w) ==
  /\ "crash" \in Faulty
  /\ ~Idle(w)
  /\ Finish(w)
  /\ UNCHANGED outside

\* One call of the handler run of worker w.
HandlerStep(w) ==
  \/ Refuse(w) \/ FetchIssue(w) \/ PostCard(w) \/ CreateSession(w)
  \/ IgnoreSelect(w) \/ LoadNothing(w)
  \/ VoteLoaded(w) \/ RetractLoaded(w) \/ RevealLoaded(w) \/ ContinueLoaded(w)
  \/ SetLoaded(w) \/ CancelLoaded(w)
  \/ Save(w) \/ Render(w) \/ Notify(w)
  \/ SetEstimate(w) \/ DeleteSession(w) \/ CloseCard(w)

\* The next step of worker w makes a call of the Slack client, or may make
\* one (the answer to a refused command, the permalink before the session is
\* saved).  SlackAPI takes no context and its client has no timeout, so such
\* a call need not return.
AwaitsSlack(w) ==
  \/ pc[w] \in {"post", "create", "render", "notice", "close"}
  \/ Loading(w, "chipin")

\* A step that comes in the end: a call of the store, or of Linear, which its
\* client bounds, and the code around it.
Prompt(w) == ~AwaitsSlack(w) /\ HandlerStep(w)

\* A vote is one of the user's own picks.
Picked(r) == r.act = "vote" => r.point \in Hand[r.user]

\* All that a deployment can do to its workers: one takes a request that some
\* user may have sent at some time, makes a call or is cut off.
HandlerNext ==
  \E w \in Workers :
    \/ \E r \in Request : Picked(r) /\ Begin(w, r)
    \/ HandlerStep(w)
    \/ Crash(w)

\* Any deployment.  Both are shown to be of this form.
HandlerSpec == Init /\ [][HandlerNext]_vars

----------------------------------------------------------------------------
(***************************************************************************)
(* Invariants of the handler, whatever runs side by side and whichever     *)
(* calls fail.  They are stated here and checked under both deployments.   *)
(***************************************************************************)
Open(i) == store[i] # NoSession

\* The variables hold what the code's do.
TypeOK ==
  /\ store \in [Issues -> Session \cup {NoSession}]
  /\ board \in [Cards -> Card \cup {NoCard}]
  /\ linear \in [Issues -> [point : MaybePoint, card : Cards \cup {NoCard}]]
  /\ saved \subseteq (Cards \X Points)
  /\ closed \subseteq Cards
  /\ pc \in [Workers -> Calls \cup {"idle"}]
  /\ req \in [Workers -> Request \cup {NoRequest}]
  /\ sess \in [Workers -> Session \cup {NoSession}]

\* A card says "Estimate p saved to Linear" only if its round did write p
\* (finalize: Linear first, the card last).
FinalWasSaved ==
  \A c \in Cards :
    board[c] # NoCard /\ board[c].kind = "final" => <<c, board[c].point>> \in saved

\* No vote is stored or revealed under the name of a user who did not pick
\* it: every stored or shown vote is one of the user's own picks.
OnlyOwnPicks ==
  /\ \A i \in Issues, u \in Users :
       Open(i) => store[i].votes[u] \in Hand[u] \cup {NoPoint}
  /\ \A c \in Cards, u \in Users :
       board[c] # NoCard => board[c].shown[u] \in Hand[u] \cup {NoPoint, Hidden}

\* Every vote of an open round is a point of that round's scale, even when a
\* button of an earlier round with another scale was clicked: Consensus may
\* count them all (the Contains check of the vote case).
VotesOnScale ==
  \A i \in Issues, u \in Users :
    Open(i) => store[i].votes[u] \in store[i].scale \cup {NoPoint}

\* The card of an open round is in the channel and is about the same issue,
\* so every open round can be acted on (post first, save second).
SessionHasCard ==
  \A i \in Issues :
    Open(i) => /\ store[i].ts \in Cards
               /\ board[store[i].ts] # NoCard
               /\ board[store[i].ts].issue = i

\* Votes come into view only by a reveal: a step that puts a vote on a card
\* that did not show it is the rendering of a Reveal click.  No vote,
\* retraction, continuation or late rendering of one does it (handler.go:
\* "hidden until reveal").
Exposes(c, u) ==
  /\ board'[c] # NoCard
  /\ board'[c].shown[u] \in Points
  /\ board[c] = NoCard \/ board[c].shown[u] # board'[c].shown[u]

RevealShows ==
  \A c \in Cards, u \in Users :
    Exposes(c, u) =>
      \E w \in Workers : pc[w] = "render" /\ req[w].act = "reveal"
                           /\ sess[w].ts = c /\ pc'[w] = "idle"

HiddenUntilReveal == [][RevealShows]_vars

----------------------------------------------------------------------------
(***************************************************************************)
(* The inductive invariant behind them: the state outside as above, and at *)
(* each call a worker holds what the call needs.                           *)
(***************************************************************************)
OwnVotes(s) == \A u \in Users : s.votes[u] \in Hand[u] \cup {NoPoint}
OnScale(s)  == \A u \in Users : s.votes[u] \in s.scale \cup {NoPoint}

\* A worker about to make this call may hold request r and session s.
Ready(call, r, s) ==
  /\ call = "idle" <=> r = NoRequest
  /\ call \in {"idle", "load"} <=> s = NoSession
  /\ call \in {"post", "create"} => r.act = "chipin"
  /\ call \notin {"idle", "load"} => OwnVotes(s) /\ OnScale(s)
  /\ call \notin {"idle", "load", "post"} =>
       s.ts \in Cards /\ board[s.ts] # NoCard /\ board[s.ts].issue = r.issue
  /\ call # "idle" /\ r.act = "vote" => r.point \in Hand[r.user]
  /\ call = "estimate" => r.act = "set" /\ r.point \in Points
  /\ call \in {"delete", "close"} => r.act \in {"set", "cancel"}
  /\ call \in {"delete", "close"} /\ r.act = "set" => <<s.ts, r.point>> \in saved

WorkersReady == \A w \in Workers : Ready(pc[w], req[w], sess[w])

IInv ==
  /\ TypeOK
  /\ WorkersReady
  /\ FinalWasSaved
  /\ OnlyOwnPicks
  /\ VotesOnScale
  /\ SessionHasCard

\* What HiddenUntilReveal needs besides: unless the request is a reveal, the
\* session a worker is about to save or to render hides its votes, or it has
\* none.
Hides(call, r, s) ==
  call \in {"save", "render"} /\ r.act # "reveal" =>
    s.status = "voting" \/ s.votes = NoVotes

WorkersHide == \A w \in Workers : Hides(pc[w], req[w], sess[w])

----------------------------------------------------------------------------
(***************************************************************************)
(* What the documents and the cards themselves say of a round.  As long as *)
(* the requests about an issue are handled one at a time, they keep these  *)
(* promises (module Serial); side by side they break them (module          *)
(* Webhook).                                                               *)
(***************************************************************************)
\* A round that was closed is not open again ("Cancel deletes the session
\* without writing").
ClosedStaysClosed ==
  \A i \in Issues : Open(i) => store[i].ts \notin closed

\* A card that says how its round ended says so for good: no later rendering
\* brings the buttons back or changes the estimate.
ClosingCardIsLast ==
  [][\A c \in Cards :
       board[c] # NoCard /\ board[c].kind \in {"final", "cancelled"} =>
         board'[c] = board[c]]_vars

\* A click on the card of a round whose session was deleted is ignored: no
\* request that came from it goes on to write ("Stale clicks on a deleted
\* session are ignored").
StaleClickIgnored ==
  \A w \in Workers : pc[w] \in {"save", "estimate"} => req[w].card \notin closed

\* The notice "Your vote: *p* - hidden until reveal" is true when it is sent:
\* if the round is still open and its user has no other request under way,
\* the vote stored for the user is p.
NoticeTruthful ==
  \A w \in Workers :
    LET r == req[w]
    IN  /\ pc[w] = "notice"
        /\ r.act = "vote"
        /\ Open(r.issue)
        /\ store[r.issue].ts = sess[w].ts
        /\ \A v \in Workers \ {w} : Idle(v) \/ req[v].user # r.user
        => store[r.issue].votes[r.user] = r.point

\* A vote of an open round is cast, changed or retracted only by a request
\* of the user it belongs to.
VotesOnlyByOwner ==
  [][\A i \in Issues, u \in Users :
       /\ Open(i) /\ store'[i] # NoSession
       /\ store'[i].ts = store[i].ts
       /\ store'[i].votes[u] # store[i].votes[u]
       => \E w \in Workers :
            /\ pc[w] = "save" /\ req[w].user = u
            /\ req[w].act \in {"vote", "retract"}]_vars

\* Once all is quiet, the final card of the round that wrote an issue last
\* names the estimate Linear has (finalBlocks: "Estimate *p* saved"), if no
\* write to Linear takes effect later than its call returns.
FinalMatchesLinear ==
  \A i \in Issues :
    LET c == linear[i].card
    IN  /\ \A w \in Workers : Idle(w)
        /\ c # NoCard
        /\ board[c].kind = "final"
        => board[c].point = linear[i].point

\* A card that says "Estimation cancelled. No estimate was saved." is that of
\* a round that wrote none.
CancelHonest ==
  \A c \in Cards :
    board[c] # NoCard /\ board[c].kind = "cancelled" =>
      \A p \in Points : <<c, p>> \notin saved
=============================================================================
