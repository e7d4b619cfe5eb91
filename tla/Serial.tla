------------------------------- MODULE Serial -------------------------------
(***************************************************************************)
(* Handler runs that do not overlap on an issue.  Requests about different *)
(* issues may still run side by side; what the model calls an issue is     *)
(* what the store has a row for.  Socket Mode is of this kind, because it  *)
(* has one worker; the HTTP deployment is as long as no two requests about *)
(* one issue happen to be handled at the same time.  The definitions here  *)
(* are the invariant of such runs, and what they implement.                *)
(***************************************************************************)
EXTENDS PokerHandler

\* No two runs under way are about the same issue.
Apart ==
  \A v, w \in Workers :
    v # w /\ ~Idle(v) /\ ~Idle(w) => req[v].issue # req[w].issue

\* Any deployment, as long as its runs keep apart.
ApartSpec == HandlerSpec /\ []Apart

\* Between two events on an issue the card of its open round shows what the
\* store holds: no click leaves the channel behind (saveAndRender).
BoardMatchesStore ==
  \A i \in Issues :
    Open(i) /\ (\A w \in Workers : Idle(w) \/ req[w].issue # i)
      => board[store[i].ts] = SessionCard(i, store[i])

\* Set takes what the card of the round puts forward (PLAN.md: "defaulting to
\* the consensus if untouched"): a point selected among those it offers, or
\* without one the point it recommends, also for a selection made on a card
\* of an earlier round with another scale.  It takes nothing only if the card
\* shows no vote.  Two renderings are read, the one made before the click
\* (summaryBlocks) and the session loaded after it (chosenEstimate).
TakesShown(w) ==
  LET i     == req[w].issue
      card  == board[store[i].ts]
      takes == pc'[w] = "estimate"
  IN  IF req[w].point \in card.scale
      THEN takes /\ req'[w].point = req[w].point
      ELSE card.kind = "summary" =>
             IF card.shown = NoVotes
             THEN ~takes
             ELSE takes /\ req'[w].point = card.point

SetTakesShown ==
  [][\A w \in Workers :
       Loading(w, "set") /\ Open(req[w].issue) /\ pc'[w] # "load"
         => TakesShown(w)]_vars

----------------------------------------------------------------------------
(***************************************************************************)
(* The inductive invariant.  Nothing comes between a load and the calls    *)
(* that follow it: what a worker holds is still what the store has, up to  *)
(* the change it is about to save.                                         *)
(***************************************************************************)
Closing(c) == board[c] # NoCard /\ board[c].kind \in {"final", "cancelled"}

\* t is session s as the request changes it.
Updated(r, s, t) ==
  \/ r.act = "vote" /\ r.point \in s.scale /\ t = CastVote(s, r.user, r.point)
  \/ r.act = "retract" /\ s.votes[r.user] # NoPoint /\ t = DropVote(s, r.user)
  \/ r.act = "reveal" /\ t = WithStatus(s, "revealed")
  \/ r.act = "continue" /\ t = WithStatus(s, "voting")

\* Session s of request r against the store, before the worker makes a call.
Current(call, r, s) ==
  /\ call \in {"post", "create"} => s.status = "voting" /\ s.votes = NoVotes
  /\ call = "create" =>
       s.ts \notin closed /\ \A i \in Issues : Open(i) => store[i].ts # s.ts
  /\ call = "save" => Open(r.issue) /\ Updated(r, store[r.issue], s)
  /\ call \in {"render", "notice", "estimate", "delete"} => store[r.issue] = s
  /\ call \in {"render", "notice"} /\ r.act = "vote"
       => s.votes[r.user] = r.point
  /\ call = "estimate" => r.point \in s.scale
  /\ call = "close" => s.ts \in closed /\ ~Closing(s.ts)
  /\ call \in {"delete", "close"} /\ r.act = "set"
       => linear[r.issue] = [point |-> r.point, card |-> s.ts]

WorkersCurrent == \A w \in Workers : Current(pc[w], req[w], sess[w])

\* A round that was closed has a card; only such cards say how a round ended.
ClosedCards ==
  /\ \A c \in closed : board[c] # NoCard
  /\ \A c \in Cards : Closing(c) => c \in closed

\* The card of the round that wrote an issue last is about that issue, and
\* names the estimate Linear has when it names one.
LastWriter ==
  \A i \in Issues :
    LET c == linear[i].card
    IN  c # NoCard =>
          /\ board[c] # NoCard
          /\ board[c].issue = i
          /\ board[c].kind = "final" => board[c].point = linear[i].point

SerialInv ==
  /\ IInv
  /\ WorkersCurrent
  /\ ClosedStaysClosed
  /\ ClosedCards
  /\ LastWriter

----------------------------------------------------------------------------
(***************************************************************************)
(* Runs that do not overlap implement Round.  The cards and the workers    *)
(* are forgotten; a round is over as soon as its estimate is in Linear,    *)
(* though the handler has yet to delete the session.                       *)
(***************************************************************************)
\* A round without its card: what Round keeps of a session.
Bare(s) == [status |-> s.status, votes |-> s.votes, scale |-> s.scale]

ASSUME BareAssumption ==
  NoSession \notin [status : {"voting", "revealed"}, votes : Votes, scale : Scales]

Settling(i) ==
  \E w \in Workers :
    pc[w] = "delete" /\ req[w].act = "set" /\ req[w].issue = i

RoundOf(i) == IF Open(i) /\ ~Settling(i) THEN Bare(store[i]) ELSE NoSession

Rounds    == [i \in Issues |-> RoundOf(i)]
Estimates == [i \in Issues |-> linear[i].point]

Abstract ==
  INSTANCE Round WITH NoRound <- NoSession, round <- Rounds, estimate <- Estimates

\* Whatever Slack loses or sends twice, as long as the store and Linear
\* answer, the sessions and the estimates change as Round says: every step is
\* one whole operation or changes no round.  An event that is handled twice
\* is two operations: a repeated /chipin starts a second round.
ImplementsRound == Abstract!RoundSpec

\* When the store, Linear and the process fail as well, a round is over only
\* when its session is deleted.
Stored == [i \in Issues |-> IF Open(i) THEN Bare(store[i]) ELSE NoSession]

Surviving ==
  INSTANCE Round WITH NoRound <- NoSession, round <- Stored, estimate <- Estimates

\* Whichever calls fail or are lost, are cut off or come twice, the store goes
\* through whole operations of users on open rounds, never a mixture of two,
\* and an estimate is a point of the open round it is written for; the one
\* thing a failure can do is to leave a round open whose estimate is written.
\* A lost write to Linear is one made before the handler goes on (Replies).
SurvivesFaults == Surviving!FaultyRoundSpec
=============================================================================
