-------------------------- MODULE PokerHandlerProofs --------------------------
(***************************************************************************)
(* The inductive invariant of the handler.  Every lemma about a step holds *)
(* for any number of workers and any faults, so the theorems at the end    *)
(* hold of every deployment; WebhookProofs and SocketProofs show that the  *)
(* two there are are of this form.                                         *)
(***************************************************************************)
EXTENDS PokerHandler, FiniteSetTheorems, WellFoundedInduction, TLAPS

\* A step may post cards and write estimates; it takes none of them back and
\* leaves a card with its issue.
Grows ==
  /\ \A c \in Cards : board[c] # NoCard =>
       board'[c] # NoCard /\ board'[c].issue = board[c].issue
  /\ saved \subseteq saved'

\* What an interleaved step of the other workers leaves true of a worker:
\* readiness depends on the outside only through cards and saved estimates.
LEMMA ReadyStable ==
  ASSUME Grows, NEW call, NEW r, NEW s, Ready(call, r, s)
  PROVE  Ready(call, r, s)'
BY DEF Grows, Ready, OwnVotes, OnScale

\* A consensus or first point is a point of the scale, or there is none.
LEMMA AnyOfType ==
  ASSUME NEW S
  PROVE  AnyOf(S) \in S \cup {NoPoint}
BY DEF AnyOf

\* The consensus is a point of the scale, or there is none.
LEMMA ConsensusType ==
  ASSUME NEW scale \in SUBSET Points, NEW votes
  PROVE  Consensus(scale, votes) \in scale \cup {NoPoint}
<1>1. Leaders(scale, votes) \subseteq scale
  BY DEF Leaders
<1> QED
  BY <1>1, AnyOfType DEF Consensus

\* A finite set of numbers that is not empty has a greatest element: of the
\* sets of elements from one of them on, there is a smallest one.
LEMMA MaxExists ==
  ASSUME NEW S, S \subseteq Int, IsFiniteSet(S), S # {}
  PROVE  \E m \in S : \A k \in S : k <= m
<1> DEFINE From(k) == {x \in S : k <= x}
           T == {From(k) : k \in S}
<1>1. IsWellFoundedOn(StrictSubsetOrdering(S), SUBSET S)
  BY FS_StrictSubsetOrderingWellFounded, FS_FiniteSubsetsOfFinite
<1>2. T \subseteq SUBSET S /\ T # {}
  OBVIOUS
<1>3. PICK A \in T : \A B \in T : ~(<<B, A>> \in StrictSubsetOrdering(S))
  <2> HIDE DEF T
  <2> QED
    BY <1>1, <1>2, WFMin
<1>4. PICK m \in S : A = From(m)
  OBVIOUS
<1>5. ASSUME NEW k \in S PROVE k <= m
  <2>1. From(k) \in T /\ From(k) \in SUBSET S /\ From(m) \in SUBSET S
    OBVIOUS
  <2>2. ~(From(k) \subseteq From(m) /\ From(k) # From(m))
    BY <1>3, <1>4, <2>1 DEF StrictSubsetOrdering
  <2>3. ASSUME m < k PROVE FALSE
    <3>1. \A x \in From(k) : x \in From(m)
      BY <2>3
    <3>2. m \notin From(k) /\ m \in From(m)
      BY <2>3
    <3> QED
      BY <2>2, <3>1, <3>2
  <2> QED
    BY <2>3
<1> QED
  BY <1>5

\* The values of a function on a finite set are finitely many.
LEMMA FiniteImage ==
  ASSUME NEW S, IsFiniteSet(S), NEW f
  PROVE  IsFiniteSet({f[x] : x \in S})
<1> DEFINE g == [x \in S |-> f[x]]
<1>1. g \in Surjection(S, {f[x] : x \in S})
  BY DEF Surjection
<1> QED
  BY <1>1, FS_Surjection

\* A tally counts users, and is not zero once one of them chose the point.
LEMMA TallyCounts ==
  ASSUME NEW votes, NEW p
  PROVE  /\ Tally(votes, p) \in Nat
         /\ Tally(votes, p) = 0 <=> \A u \in Users : votes[u] # p
<1>1. IsFiniteSet({u \in Users : votes[u] = p})
  BY UsersAssumption, FS_Subset
<1> QED
  BY <1>1, FS_CardinalityType, FS_EmptySet DEF Tally

\* As soon as one user chose a point of the scale, one point leads: the
\* greatest of those with the greatest tally.
LEMMA LeadersExist ==
  ASSUME NEW scale, scale \subseteq Int, NEW votes,
         NEW u \in Users, votes[u] \in scale
  PROVE  Leaders(scale, votes) # {}
<1> DEFINE V == {v \in Users : votes[v] \in scale}
           count == [v \in V |-> Tally(votes, votes[v])]
           Counts == {count[v] : v \in V}
<1>1. IsFiniteSet(V) /\ u \in V
  BY UsersAssumption, FS_Subset
<1>2. IsFiniteSet(Counts) /\ Counts \subseteq Int /\ Counts # {}
  <2>1. IsFiniteSet(Counts)
    BY <1>1, FiniteImage
  <2>2. \A v \in V : count[v] \in Nat
    BY TallyCounts
  <2>3. count[u] \in Counts
    BY <1>1
  <2> HIDE DEF count
  <2> QED
    BY <2>1, <2>2, <2>3
<1>3. PICK m \in Counts : \A k \in Counts : k <= m
  BY <1>2, MaxExists
<1> DEFINE Top == {v \in V : count[v] = m}
           Best == {votes[v] : v \in Top}
<1>4. IsFiniteSet(Best) /\ Best \subseteq Int /\ Best # {}
  <2>1. IsFiniteSet(Top)
    BY <1>1, FS_Subset
  <2>2. IsFiniteSet(Best)
    BY <2>1, FiniteImage
  <2> QED
    BY <2>2
<1>5. PICK p \in Best : \A q \in Best : q <= p
  BY <1>4, MaxExists
<1>6. p \in scale /\ Tally(votes, p) = m /\ m > 0 /\ m \in Nat
  <2>1. PICK v \in Top : p = votes[v]
    BY <1>5
  <2>2. Tally(votes, p) = m /\ p \in scale
    BY <2>1
  <2>3. Tally(votes, p) \in Nat /\ Tally(votes, p) # 0
    BY <2>1, TallyCounts
  <2> QED
    BY <2>2, <2>3
<1>7. ASSUME NEW q \in scale
      PROVE  \/ Tally(votes, q) < m
             \/ Tally(votes, q) = m /\ q <= p
  <2>1. CASE \A v \in Users : votes[v] # q
    BY <1>6, <2>1, TallyCounts
  <2>2. CASE \E v \in Users : votes[v] = q
    <3>1. PICK v \in V : votes[v] = q
      BY <2>2
    <3>2. Tally(votes, q) \in Counts /\ Tally(votes, q) <= m
      BY <1>3, <3>1
    <3>3. Tally(votes, q) = m => q \in Best
      BY <3>1
    <3>4. Tally(votes, q) \in Nat
      BY TallyCounts
    <3>5. Tally(votes, q) = m => q <= p
      BY <1>5, <3>3
    <3> HIDE DEF Counts, Best
    <3> QED
      BY <1>6, <3>2, <3>4, <3>5
  <2> QED
    BY <2>1, <2>2
<1> QED
  BY <1>6, <1>7 DEF Leaders

\* There is no consensus exactly when no user chose a point of the scale.
LEMMA ConsensusExists ==
  ASSUME NEW scale \in SUBSET Points, NEW votes
  PROVE  Consensus(scale, votes) = NoPoint <=> \A u \in Users : votes[u] \notin scale
<1>1. scale \subseteq Int /\ NoPoint \notin scale
  <2>1. \A p \in scale : p \in Points
    OBVIOUS
  <2>2. \A p \in Points : p \in Nat
    BY PointsAssumption
  <2> QED
    BY <2>1, <2>2, SentinelAssumption
<1>2. CASE \E u \in Users : votes[u] \in scale
  <2>1. Leaders(scale, votes) # {} /\ Leaders(scale, votes) \subseteq scale
    BY <1>1, <1>2, LeadersExist DEF Leaders
  <2> QED
    BY <1>1, <1>2, <2>1 DEF Consensus, AnyOf
<1>3. CASE \A u \in Users : votes[u] \notin scale
  <2>1. ASSUME NEW p \in scale PROVE Tally(votes, p) = 0
    BY <1>3, TallyCounts
  <2>2. Leaders(scale, votes) = {}
    BY <2>1 DEF Leaders
  <2> QED
    BY <1>3, <2>2 DEF Consensus, AnyOf
<1> QED
  BY <1>2, <1>3

\* The estimate chosen for a session is a point, or there is none.
LEMMA ChosenType ==
  ASSUME NEW s \in Session, NEW p \in MaybePoint
  PROVE  ChosenEstimate(p, s) \in MaybePoint
<1>1. s.scale \in SUBSET Points
  BY PointsAssumption DEF Session
<1>2. Consensus(s.scale, s.votes) \in s.scale \cup {NoPoint}
  BY <1>1, ConsensusType
<1> QED
  BY <1>1, <1>2 DEF ChosenEstimate, MaybePoint

\* The rendering of a session shows only its own votes, if any.
LEMMA SessionCardType ==
  ASSUME NEW i \in Issues, NEW s \in Session, OwnVotes(s)
  PROVE  /\ SessionCard(i, s) \in Card
         /\ SessionCard(i, s) # NoCard
         /\ SessionCard(i, s).issue = i
         /\ SessionCard(i, s).kind # "final"
         /\ \A u \in Users :
              SessionCard(i, s).shown[u] \in Hand[u] \cup {NoPoint, Hidden}
<1>1. s.scale \in SUBSET Points /\ s.votes \in [Users -> MaybePoint]
  BY PointsAssumption DEF Session, Votes
<1>2. Consensus(s.scale, s.votes) \in MaybePoint
  BY <1>1, ConsensusType DEF MaybePoint
<1>3. FirstPoint(s.scale) \in MaybePoint
  BY <1>1, AnyOfType DEF FirstPoint, MaybePoint
<1>4. /\ SummaryCard(i, s) \in Card
      /\ SummaryCard(i, s).issue = i
      /\ SummaryCard(i, s).kind # "final"
      /\ \A u \in Users :
           SummaryCard(i, s).shown[u] \in Hand[u] \cup {NoPoint, Hidden}
  BY <1>1, <1>2, <1>3 DEF SummaryCard, Card, Kinds, OwnVotes, MaybePoint
<1>5. /\ VotingCard(i, s) \in Card
      /\ VotingCard(i, s).issue = i
      /\ VotingCard(i, s).kind # "final"
      /\ \A u \in Users :
           VotingCard(i, s).shown[u] \in Hand[u] \cup {NoPoint, Hidden}
  BY <1>1 DEF VotingCard, Card, Kinds, MaybePoint
<1> QED
  BY <1>4, <1>5, AbsenceAssumption DEF SessionCard

----------------------------------------------------------------------------
(***************************************************************************)
(* The workers.                                                            *)
(***************************************************************************)
LocalType ==
  /\ pc \in [Workers -> Calls \cup {"idle"}]
  /\ req \in [Workers -> Request \cup {NoRequest}]
  /\ sess \in [Workers -> Session \cup {NoSession}]

OutsideType ==
  /\ store \in [Issues -> Session \cup {NoSession}]
  /\ board \in [Cards -> Card \cup {NoCard}]
  /\ linear \in [Issues -> [point : MaybePoint, card : Cards \cup {NoCard}]]
  /\ saved \subseteq (Cards \X Points)
  /\ closed \subseteq Cards

\* The part of the invariant that is about the outside.
OutsideInv ==
  OutsideType /\ FinalWasSaved /\ OnlyOwnPicks /\ VotesOnScale /\ SessionHasCard

\* The invariant, split into what the outside and what the workers owe.
LEMMA IInvParts ==
  /\ IInv <=> OutsideInv /\ LocalType /\ WorkersReady
  /\ IInv' <=> OutsideInv' /\ LocalType' /\ WorkersReady'
BY DEF IInv, TypeOK, OutsideInv, OutsideType, LocalType

\* A worker that returns leaves every worker ready.
LEMMA FinishReady ==
  ASSUME LocalType, WorkersReady, Grows, NEW w \in Workers, Finish(w)
  PROVE  LocalType' /\ WorkersReady'
<1>1. LocalType'
  BY DEF LocalType, Finish
<1>2. ASSUME NEW v \in Workers
      PROVE  Ready(pc[v], req[v], sess[v])'
  <2>1. CASE v = w
    <3>1. pc'[w] = "idle" /\ req'[w] = NoRequest /\ sess'[w] = NoSession
      BY DEF LocalType, Finish
    <3> QED
      BY <2>1, <3>1 DEF Ready
  <2>2. CASE v # w
    <3>1. pc'[v] = pc[v] /\ req'[v] = req[v] /\ sess'[v] = sess[v]
      BY <2>2 DEF LocalType, Finish
    <3>2. PICK call, r, s : call = pc[v] /\ r = req[v] /\ s = sess[v]
      OBVIOUS
    <3>3. Ready(call, r, s)'
      BY <3>2, ReadyStable DEF WorkersReady
    <3> QED
      BY <3>1, <3>2, <3>3 DEF Ready
  <2> QED
    BY <2>1, <2>2
<1> QED
  BY <1>1, <1>2 DEF WorkersReady

\* So does a worker that goes on to a call it is ready for.
LEMMA CarryReady ==
  ASSUME LocalType, WorkersReady, Grows, NEW w \in Workers,
         NEW call \in Calls, NEW s \in Session, NEW r \in Request,
         pc' = [pc EXCEPT ![w] = call],
         req' = [req EXCEPT ![w] = r],
         sess' = [sess EXCEPT ![w] = s],
         Ready(call, r, s)'
  PROVE  LocalType' /\ WorkersReady'
<1>1. LocalType'
  BY DEF LocalType
<1>2. ASSUME NEW v \in Workers
      PROVE  Ready(pc[v], req[v], sess[v])'
  <2>1. CASE v = w
    <3>1. pc'[w] = call /\ req'[w] = r /\ sess'[w] = s
      BY DEF LocalType
    <3> QED
      BY <2>1, <3>1 DEF Ready
  <2>2. CASE v # w
    <3>1. pc'[v] = pc[v] /\ req'[v] = req[v] /\ sess'[v] = sess[v]
      BY <2>2 DEF LocalType
    <3>2. PICK c, q, t : c = pc[v] /\ q = req[v] /\ t = sess[v]
      OBVIOUS
    <3>3. Ready(c, q, t)'
      BY <3>2, ReadyStable DEF WorkersReady
    <3> QED
      BY <3>1, <3>2, <3>3 DEF Ready
  <2> QED
    BY <2>1, <2>2
<1> QED
  BY <1>1, <1>2 DEF WorkersReady

\* A step that leaves the outside alone keeps its invariant.
LEMMA OutsideStutter ==
  ASSUME OutsideInv, UNCHANGED outside
  PROVE  OutsideInv' /\ Grows
BY DEF outside, OutsideInv, OutsideType, FinalWasSaved, OnlyOwnPicks,
       VotesOnScale, SessionHasCard, Open, Grows

\* A worker that returns, having changed nothing.
LEMMA FinishInv ==
  ASSUME IInv, NEW w \in Workers, Finish(w), UNCHANGED outside
  PROVE  IInv'
BY IInvParts, OutsideStutter, FinishReady

\* A worker that goes on with session s, having changed nothing.
LEMMA CarryInv ==
  ASSUME IInv, NEW w \in Workers, NEW call \in Calls, NEW s \in Session,
         Carry(w, s, call), UNCHANGED outside,
         req[w] \in Request, Ready(call, req[w], s)
  PROVE  IInv'
<1>1. OutsideInv' /\ Grows /\ LocalType /\ WorkersReady
  BY IInvParts, OutsideStutter
<1>2. PICK r \in Request : r = req[w]
  OBVIOUS
<1>3. Ready(call, r, s)'
  BY <1>1, <1>2, ReadyStable
<1>4. /\ pc' = [pc EXCEPT ![w] = call]
      /\ req' = [req EXCEPT ![w] = r]
      /\ sess' = [sess EXCEPT ![w] = s]
  BY <1>1, <1>2 DEF Carry, LocalType
<1> QED
  BY <1>1, <1>3, <1>4, CarryReady, IInvParts

----------------------------------------------------------------------------
(***************************************************************************)
(* One lemma per call of the handler that changes something.               *)
(***************************************************************************)
LEMMA InitInv == ASSUME Init PROVE IInv
<1>1. TypeOK
  BY DEF Init, TypeOK, MaybePoint, Calls
<1>2. WorkersReady
  BY DEF Init, WorkersReady, Ready
<1>3. FinalWasSaved /\ OnlyOwnPicks /\ VotesOnScale /\ SessionHasCard
  BY DEF Init, FinalWasSaved, OnlyOwnPicks, VotesOnScale, SessionHasCard, Open
<1> QED
  BY <1>1, <1>2, <1>3 DEF IInv

\* A request is one a user can send; in particular a vote is one of the
\* user's own picks.
LEMMA BeginInv ==
  ASSUME IInv, NEW w \in Workers, NEW r \in Request, Begin(w, r),
         r.act = "vote" => r.point \in Hand[r.user]
  PROVE  IInv'
<1>1. OutsideInv /\ LocalType /\ WorkersReady /\ UNCHANGED outside
  BY IInvParts DEF Begin
<1>2. OutsideInv' /\ Grows
  BY <1>1, OutsideStutter
<1>3. LocalType'
  BY <1>1 DEF Begin, LocalType, Calls
<1>4. ASSUME NEW v \in Workers
      PROVE  Ready(pc[v], req[v], sess[v])'
  <2>1. Ready(pc[v], req[v], sess[v])
    BY <1>1 DEF WorkersReady
  <2>2. sess'[v] = sess[v]
    BY DEF Begin
  <2>3. CASE v = w
    <3>1. pc'[w] = "load" /\ req'[w] = r /\ pc[w] = "idle"
      BY <1>1 DEF Begin, Idle, LocalType
    <3>2. sess[w] = NoSession
      BY <2>1, <2>3, <3>1 DEF Ready
    <3>3. r # NoRequest
      BY AbsenceAssumption
    <3> QED
      BY <2>2, <2>3, <3>1, <3>2, <3>3 DEF Ready
  <2>4. CASE v # w
    <3>1. pc'[v] = pc[v] /\ req'[v] = req[v]
      BY <1>1, <2>4 DEF Begin, LocalType
    <3>2. PICK c, q, t : c = pc[v] /\ q = req[v] /\ t = sess[v]
      OBVIOUS
    <3>3. Ready(c, q, t)'
      BY <1>2, <2>1, <3>2, ReadyStable
    <3> QED
      BY <2>2, <3>1, <3>2, <3>3 DEF Ready
  <2> QED
    BY <2>3, <2>4
<1> QED
  BY <1>2, <1>3, <1>4, IInvParts DEF WorkersReady

\* A worker at a call has a request, and a session past the load.
LEMMA AtCall ==
  ASSUME IInv, NEW w \in Workers, pc[w] # "idle"
  PROVE  /\ req[w] \in Request
         /\ Ready(pc[w], req[w], sess[w])
         /\ pc[w] # "load" => sess[w] \in Session
BY DEF IInv, TypeOK, WorkersReady, Ready

\* FetchIssue: a new session has no votes, so all of them are good.
LEMMA FetchInv ==
  ASSUME IInv, NEW w \in Workers, FetchIssue(w)
  PROVE  IInv'
<1>1. PICK scale \in Scales : Carry(w, NewSession(scale), "post")
  BY DEF FetchIssue
<1>2. PICK s : s = NewSession(scale)
  OBVIOUS
<1>3. s \in Session /\ OwnVotes(s) /\ OnScale(s)
  BY <1>2 DEF NewSession, Session, Votes, NoVotes, MaybePoint, OwnVotes, OnScale
<1>4. pc[w] = "load" /\ req[w].act = "chipin" /\ UNCHANGED outside
  BY DEF FetchIssue, Loading
<1>5. req[w] \in Request /\ Ready(pc[w], req[w], sess[w])
  BY <1>4, AtCall
<1>6. Ready("post", req[w], s)
  BY <1>3, <1>4, <1>5, AbsenceAssumption DEF Ready
<1> QED
  BY <1>1, <1>2, <1>3, <1>4, <1>5, <1>6, CarryInv DEF Calls

\* What GetSession returned: a session of the store, with its card.
LEMMA LoadedFacts ==
  ASSUME IInv, NEW w \in Workers, NEW act, NEW s, Loaded(w, act, s)
  PROVE  /\ pc[w] = "load" /\ req[w].act = act
         /\ req[w] \in Request /\ req[w] # NoRequest
         /\ s \in Session /\ OwnVotes(s) /\ OnScale(s)
         /\ s.ts \in Cards
         /\ board[s.ts] # NoCard
         /\ board[s.ts].issue = req[w].issue
         /\ act = "vote" => req[w].point \in Hand[req[w].user]
<1>1. pc[w] = "load" /\ req[w].act = act /\ s # NoSession
        /\ s = store[req[w].issue]
  BY DEF Loaded, Loading
<1>2. req[w] \in Request /\ Ready(pc[w], req[w], sess[w])
  BY <1>1, AtCall
<1>3. req[w].issue \in Issues
  BY <1>2 DEF Request
<1>4. s \in Session
  BY <1>1, <1>3 DEF IInv, TypeOK
<1>5. OwnVotes(s) /\ OnScale(s)
  BY <1>1, <1>3 DEF IInv, OnlyOwnPicks, VotesOnScale, Open, OwnVotes, OnScale
<1>6. s.ts \in Cards /\ board[s.ts] # NoCard /\ board[s.ts].issue = req[w].issue
  BY <1>1, <1>3 DEF IInv, SessionHasCard, Open
<1> QED
  BY <1>1, <1>2, <1>4, <1>5, <1>6, AbsenceAssumption DEF Ready

\* After the load a worker may carry on with a session t of the same card
\* whose votes are still the users' own and on the scale.
LEMMA LoadedCarry ==
  ASSUME IInv, NEW w \in Workers, NEW act, NEW s, Loaded(w, act, s),
         NEW t \in Session, t.ts = s.ts, OwnVotes(t), OnScale(t),
         NEW call \in {"save", "notice", "delete"},
         call = "delete" => act = "cancel",
         Carry(w, t, call), UNCHANGED outside
  PROVE  IInv'
<1>1. /\ req[w] \in Request /\ req[w] # NoRequest /\ req[w].act = act
      /\ s.ts \in Cards /\ board[s.ts] # NoCard
      /\ board[s.ts].issue = req[w].issue
      /\ act = "vote" => req[w].point \in Hand[req[w].user]
  BY LoadedFacts
<1>2. t # NoSession
  BY AbsenceAssumption
<1>3. Ready(call, req[w], t)
  BY <1>1, <1>2 DEF Ready
<1> QED
  BY <1>1, <1>3, CarryInv DEF Calls

\* VoteLoaded: the vote added is a pick of its user, and on the scale.
LEMMA VoteInv ==
  ASSUME IInv, NEW w \in Workers, VoteLoaded(w)
  PROVE  IInv'
<1>1. PICK s, r : s = store[req[w].issue] /\ r = req[w]
  OBVIOUS
<1>2. Loaded(w, "vote", s) /\ UNCHANGED outside
  BY <1>1 DEF VoteLoaded
<1>3. /\ r \in Request /\ s \in Session /\ OwnVotes(s) /\ OnScale(s)
      /\ r.point \in Hand[r.user]
  BY <1>1, <1>2, LoadedFacts
<1>4. CASE r.point \notin s.scale
  BY <1>1, <1>2, <1>4, FinishInv DEF VoteLoaded, Contains
<1>5. CASE r.point \in s.scale
  <2>1. PICK t : t = CastVote(s, r.user, r.point)
    OBVIOUS
  <2>2. r.user \in Users /\ r.point \in MaybePoint
    BY <1>3 DEF Request
  <2>3. /\ s.votes \in [Users -> MaybePoint]
        /\ t = [s EXCEPT !.votes = [s.votes EXCEPT ![r.user] = r.point],
                         !.status = "voting"]
    BY <1>3, <2>1 DEF CastVote, Session, Votes
  <2>4. t \in Session /\ t.ts = s.ts /\ t.scale = s.scale
          /\ t.votes = [s.votes EXCEPT ![r.user] = r.point]
    BY <1>3, <2>2, <2>3 DEF Session, Votes
  <2>5. OwnVotes(t) /\ OnScale(t)
    BY <1>3, <1>5, <2>2, <2>3, <2>4 DEF OwnVotes, OnScale
  <2>6. Carry(w, t, "save")
    BY <1>1, <1>5, <2>1 DEF VoteLoaded, Contains
  <2> QED
    BY <1>2, <2>4, <2>5, <2>6, LoadedCarry
<1> QED
  BY <1>4, <1>5

\* RetractLoaded: a vote is taken away, or nothing is changed.
LEMMA RetractInv ==
  ASSUME IInv, NEW w \in Workers, RetractLoaded(w)
  PROVE  IInv'
<1>1. PICK s, u : s = store[req[w].issue] /\ u = req[w].user
  OBVIOUS
<1>2. Loaded(w, "retract", s) /\ UNCHANGED outside
  BY <1>1 DEF RetractLoaded
<1>3. /\ req[w] \in Request /\ s \in Session /\ OwnVotes(s) /\ OnScale(s)
  BY <1>1, <1>2, LoadedFacts
<1>4. CASE s.votes[u] = NoPoint
  <2>1. Carry(w, s, "notice")
    BY <1>1, <1>4 DEF RetractLoaded
  <2> QED
    BY <1>2, <1>3, <2>1, LoadedCarry
<1>5. CASE s.votes[u] # NoPoint
  <2>1. PICK t : t = DropVote(s, u)
    OBVIOUS
  <2>2. u \in Users
    BY <1>1, <1>3 DEF Request
  <2>3. /\ s.votes \in [Users -> MaybePoint]
        /\ t = [s EXCEPT !.votes = [s.votes EXCEPT ![u] = NoPoint],
                         !.status = "voting"]
    BY <1>3, <2>1 DEF DropVote, Session, Votes
  <2>4. t \in Session /\ t.ts = s.ts /\ t.scale = s.scale
          /\ t.votes = [s.votes EXCEPT ![u] = NoPoint]
    BY <1>3, <2>2, <2>3 DEF Session, Votes, MaybePoint
  <2>5. OwnVotes(t) /\ OnScale(t)
    BY <1>3, <2>2, <2>3, <2>4 DEF OwnVotes, OnScale
  <2>6. Carry(w, t, "save")
    BY <1>1, <1>5, <2>1 DEF RetractLoaded
  <2> QED
    BY <1>2, <2>4, <2>5, <2>6, LoadedCarry
<1> QED
  BY <1>4, <1>5

\* Reveal and Continue change the status only.
LEMMA StatusInv ==
  ASSUME IInv, NEW w \in Workers, NEW act, NEW s, Loaded(w, act, s),
         NEW status \in {"voting", "revealed"},
         Carry(w, WithStatus(s, status), "save"), UNCHANGED outside
  PROVE  IInv'
<1>1. s \in Session /\ OwnVotes(s) /\ OnScale(s)
  BY LoadedFacts
<1>2. PICK t : t = WithStatus(s, status)
  OBVIOUS
<1>3. t \in Session /\ t.ts = s.ts /\ OwnVotes(t) /\ OnScale(t)
  BY <1>1, <1>2 DEF WithStatus, Session, OwnVotes, OnScale
<1> QED
  BY <1>2, <1>3, LoadedCarry

\* RevealLoaded changes the status only.
LEMMA RevealInv ==
  ASSUME IInv, NEW w \in Workers, RevealLoaded(w)
  PROVE  IInv'
<1>1. PICK s : s = store[req[w].issue]
  OBVIOUS
<1>2. /\ Loaded(w, "reveal", s) /\ UNCHANGED outside
      /\ Carry(w, WithStatus(s, "revealed"), "save")
  BY <1>1 DEF RevealLoaded
<1> QED
  BY <1>2, StatusInv

\* ContinueLoaded changes the status only.
LEMMA ContinueInv ==
  ASSUME IInv, NEW w \in Workers, ContinueLoaded(w)
  PROVE  IInv'
<1>1. PICK s : s = store[req[w].issue]
  OBVIOUS
<1>2. /\ Loaded(w, "continue", s) /\ UNCHANGED outside
      /\ Carry(w, WithStatus(s, "voting"), "save")
  BY <1>1 DEF ContinueLoaded
<1> QED
  BY <1>2, StatusInv

\* CancelLoaded: the session goes on to its deletion as it is.
LEMMA CancelInv ==
  ASSUME IInv, NEW w \in Workers, CancelLoaded(w)
  PROVE  IInv'
<1>1. PICK s : s = store[req[w].issue]
  OBVIOUS
<1>2. Loaded(w, "cancel", s) /\ UNCHANGED outside /\ Carry(w, s, "delete")
  BY <1>1 DEF CancelLoaded
<1> QED
  BY <1>2, LoadedFacts, LoadedCarry

\* SetLoaded: what is chosen is a point, so Linear can be told of it.
LEMMA SetInv ==
  ASSUME IInv, NEW w \in Workers, SetLoaded(w)
  PROVE  IInv'
<1>1. PICK s, chosen :
        s = store[req[w].issue] /\ chosen = ChosenEstimate(req[w].point, s)
  OBVIOUS
<1>2. Loaded(w, "set", s) /\ UNCHANGED outside
  BY <1>1 DEF SetLoaded
<1>3. /\ req[w] \in Request /\ req[w].act = "set" /\ pc[w] = "load"
      /\ s \in Session /\ OwnVotes(s) /\ OnScale(s)
      /\ s.ts \in Cards /\ board[s.ts] # NoCard
      /\ board[s.ts].issue = req[w].issue
  BY <1>2, LoadedFacts
<1>4. chosen \in MaybePoint
  BY <1>1, <1>3, ChosenType DEF Request
<1>5. PICK r, call : /\ r = [req[w] EXCEPT !.point = chosen]
                     /\ call = IF chosen = NoPoint THEN "render" ELSE "estimate"
  OBVIOUS
<1>6. r \in Request /\ r.act = "set" /\ r.issue = req[w].issue
        /\ r.point = chosen
  BY <1>3, <1>4, <1>5 DEF Request
<1>7. OutsideInv' /\ Grows /\ LocalType /\ WorkersReady
  BY <1>2, IInvParts, OutsideStutter
<1>8. /\ pc' = [pc EXCEPT ![w] = call]
      /\ req' = [req EXCEPT ![w] = r]
      /\ sess' = [sess EXCEPT ![w] = s]
  BY <1>1, <1>5, <1>7 DEF SetLoaded, LocalType
<1>9. Ready(call, r, s)
  BY <1>3, <1>4, <1>5, <1>6, AbsenceAssumption DEF Ready, MaybePoint
<1>10. Ready(call, r, s)'
  BY <1>7, <1>9, ReadyStable
<1> QED
  BY <1>3, <1>5, <1>6, <1>7, <1>8, <1>10, CarryReady, IInvParts DEF Calls

----------------------------------------------------------------------------
(***************************************************************************)
(* The effects of the outside calls.                                       *)
(***************************************************************************)
\* A session is written whose votes are good and whose card is posted.
LEMMA StoreWrite ==
  ASSUME OutsideInv, NEW i \in Issues, NEW s \in Session,
         OwnVotes(s), OnScale(s),
         s.ts \in Cards, board[s.ts] # NoCard, board[s.ts].issue = i,
         store' = [store EXCEPT ![i] = s],
         UNCHANGED <<board, linear, saved, closed>>
  PROVE  OutsideInv' /\ Grows
<1>1. OutsideType' /\ FinalWasSaved' /\ Grows
  BY DEF OutsideInv, OutsideType, FinalWasSaved, Grows
<1>2. \A j \in Issues : store'[j] = IF j = i THEN s ELSE store[j]
  BY DEF OutsideInv, OutsideType
<1>3. OnlyOwnPicks' /\ VotesOnScale' /\ SessionHasCard'
  BY <1>2 DEF OutsideInv, OnlyOwnPicks, VotesOnScale, SessionHasCard,
              Open, OwnVotes, OnScale
<1> QED
  BY <1>1, <1>3 DEF OutsideInv

\* A card is posted, or one of the same issue replaced; a final one names an
\* estimate its round saved.
LEMMA BoardWrite ==
  ASSUME OutsideInv, NEW c \in Cards, NEW card \in Card,
         board[c] # NoCard => board[c].issue = card.issue,
         \A u \in Users : card.shown[u] \in Hand[u] \cup {NoPoint, Hidden},
         card.kind = "final" => <<c, card.point>> \in saved,
         board' = [board EXCEPT ![c] = card],
         UNCHANGED <<store, linear, saved, closed>>
  PROVE  OutsideInv' /\ Grows
<1>1. OutsideType'
  BY DEF OutsideInv, OutsideType
<1>2. \A d \in Cards : board'[d] = IF d = c THEN card ELSE board[d]
  BY DEF OutsideInv, OutsideType
<1>3. card # NoCard
  BY AbsenceAssumption
<1>4. Grows
  BY <1>2, <1>3 DEF Grows
<1>5. FinalWasSaved'
  BY <1>2 DEF OutsideInv, FinalWasSaved
<1>6. OnlyOwnPicks' /\ VotesOnScale'
  BY <1>2 DEF OutsideInv, OnlyOwnPicks, VotesOnScale, Open
<1>7. SessionHasCard'
  BY <1>4 DEF OutsideInv, SessionHasCard, Open, Grows
<1> QED
  BY <1>1, <1>4, <1>5, <1>6, <1>7 DEF OutsideInv

\* Linear takes an estimate.
LEMMA LinearWrite ==
  ASSUME OutsideInv, NEW i \in Issues, NEW c \in Cards, NEW p \in Points,
         linear' = [linear EXCEPT ![i] = [point |-> p, card |-> c]],
         saved' = saved \cup {<<c, p>>},
         UNCHANGED <<store, board, closed>>
  PROVE  OutsideInv' /\ Grows
<1>1. OutsideType'
  BY DEF OutsideInv, OutsideType, MaybePoint
<1>2. Grows
  BY DEF Grows
<1> QED
  BY <1>1, <1>2 DEF OutsideInv, FinalWasSaved, OnlyOwnPicks, VotesOnScale,
                    SessionHasCard, Open

\* A session is deleted.
LEMMA DeleteWrite ==
  ASSUME OutsideInv, NEW i \in Issues, NEW c \in Cards,
         store' = [store EXCEPT ![i] = NoSession],
         closed' = closed \cup {c},
         UNCHANGED <<board, linear, saved>>
  PROVE  OutsideInv' /\ Grows
<1>1. OutsideType' /\ FinalWasSaved' /\ Grows
  BY DEF OutsideInv, OutsideType, FinalWasSaved, Grows
<1>2. \A j \in Issues : store'[j] = IF j = i THEN NoSession ELSE store[j]
  BY DEF OutsideInv, OutsideType
<1>3. OnlyOwnPicks' /\ VotesOnScale' /\ SessionHasCard'
  BY <1>2 DEF OutsideInv, OnlyOwnPicks, VotesOnScale, SessionHasCard, Open
<1> QED
  BY <1>1, <1>3 DEF OutsideInv

\* After its call a worker returns or goes on to the next.
LEMMA NextCall ==
  ASSUME IInv, OutsideInv', Grows, NEW w \in Workers,
         pc[w] \notin {"idle", "load"},
         NEW call \in Calls, NEW r, NEW s, r = req[w], s = sess[w],
         Goto(w, call) \/ Finish(w),
         Goto(w, call) => Ready(call, r, s)'
  PROVE  IInv'
<1>1. LocalType /\ WorkersReady
  BY IInvParts
<1>2. CASE Finish(w)
  BY <1>1, <1>2, FinishReady, IInvParts
<1>3. CASE Goto(w, call)
  <2>1. r \in Request /\ s \in Session
    BY AtCall
  <2>2. /\ pc' = [pc EXCEPT ![w] = call]
        /\ req' = [req EXCEPT ![w] = r]
        /\ sess' = [sess EXCEPT ![w] = s]
    BY <1>1, <1>3 DEF Goto, Carry, LocalType
  <2> QED
    BY <1>1, <1>3, <2>1, <2>2, CarryReady, IInvParts
<1> QED
  BY <1>2, <1>3

\* PostCard: the card a session gets is there and about its issue.
LEMMA PostInv ==
  ASSUME IInv, NEW w \in Workers, PostCard(w)
  PROVE  IInv'
<1>1. pc[w] = "post" /\ UNCHANGED <<store, linear, saved, closed>>
  BY DEF PostCard
<1>2. PICK r \in Request, s \in Session : r = req[w] /\ s = sess[w]
  BY <1>1, AtCall
<1>3. r.act = "chipin" /\ OwnVotes(s) /\ OnScale(s)
  BY <1>1, <1>2, AtCall DEF Ready
<1>4. OutsideInv /\ LocalType /\ WorkersReady
  BY IInvParts
<1>5. CASE Finish(w) /\ UNCHANGED board
  BY <1>1, <1>5, FinishInv DEF outside
<1>6. ASSUME NEW c \in Cards, NEW reply, board[c] = NoCard,
             board' = [board EXCEPT ![c] = VotingCard(r.issue, s)],
             IF reply = "ok" THEN Carry(w, [s EXCEPT !.ts = c], "create")
             ELSE Finish(w)
      PROVE  IInv'
  <2>1. PICK card : card = VotingCard(r.issue, s)
    OBVIOUS
  <2>2. /\ card \in Card /\ card.issue = r.issue /\ card.kind # "final"
        /\ \A u \in Users : card.shown[u] \in Hand[u] \cup {NoPoint, Hidden}
    BY <1>2, <2>1, PointsAssumption
       DEF VotingCard, Card, Kinds, MaybePoint, Request, Session
  <2>3. OutsideInv' /\ Grows
    BY <1>1, <1>4, <1>6, <2>1, <2>2, BoardWrite
  <2>4. CASE reply # "ok"
    BY <1>4, <1>6, <2>3, <2>4, FinishReady, IInvParts
  <2>5. CASE reply = "ok"
    <3>1. PICK t : t = [s EXCEPT !.ts = c]
      OBVIOUS
    <3>2. /\ t \in Session /\ t.ts = c
          /\ t.votes = s.votes /\ t.scale = s.scale
      BY <1>2, <3>1 DEF Session
    <3>3. OwnVotes(t) /\ OnScale(t)
      BY <1>3, <3>2 DEF OwnVotes, OnScale
    <3>4. /\ pc' = [pc EXCEPT ![w] = "create"]
          /\ req' = [req EXCEPT ![w] = r]
          /\ sess' = [sess EXCEPT ![w] = t]
      BY <1>2, <1>4, <1>6, <2>5, <3>1 DEF Carry, LocalType
    <3>5. board'[c] = card
      BY <1>4, <1>6, <2>1 DEF OutsideInv, OutsideType
    <3>6. Ready("create", r, t)'
      BY <1>3, <2>2, <3>2, <3>3, <3>5, AbsenceAssumption
         DEF Ready, OwnVotes, OnScale
    <3> QED
      BY <1>4, <2>3, <3>2, <3>4, <3>6, CarryReady, IInvParts DEF Calls
  <2> QED
    BY <2>4, <2>5
<1> QED
  BY <1>2, <1>5, <1>6 DEF PostCard

\* A worker about to write its session holds a good one with a posted card.
LEMMA AtWrite ==
  ASSUME IInv, NEW w \in Workers, pc[w] \notin {"idle", "load", "post"},
         NEW r, NEW s, r = req[w], s = sess[w]
  PROVE  /\ r \in Request /\ r # NoRequest /\ r.issue \in Issues
         /\ s \in Session /\ s # NoSession
         /\ OwnVotes(s) /\ OnScale(s)
         /\ s.ts \in Cards /\ board[s.ts] # NoCard /\ board[s.ts].issue = r.issue
         /\ r.act = "vote" => r.point \in Hand[r.user]
BY AtCall, AbsenceAssumption DEF Ready, Request

\* Of a write that may fail, be lost or succeed, the effect is the same.
LEMMA SaveEffect ==
  ASSUME IInv, NEW w \in Workers, pc[w] \notin {"idle", "load", "post"},
         NEW r, NEW s, r = req[w], s = sess[w],
         store' = store \/ store' = [store EXCEPT ![r.issue] = s],
         UNCHANGED <<board, linear, saved, closed>>
  PROVE  OutsideInv' /\ Grows
<1>1. /\ r.issue \in Issues /\ s \in Session /\ OwnVotes(s) /\ OnScale(s)
      /\ s.ts \in Cards /\ board[s.ts] # NoCard /\ board[s.ts].issue = r.issue
  BY AtWrite
<1>2. OutsideInv
  BY IInvParts
<1>3. CASE store' = store
  BY <1>2, <1>3, OutsideStutter DEF outside
<1>4. CASE store' = [store EXCEPT ![r.issue] = s]
  BY <1>1, <1>2, <1>4, StoreWrite
<1> QED
  BY <1>3, <1>4

\* CreateSession writes a session whose card is posted.
LEMMA CreateInv ==
  ASSUME IInv, NEW w \in Workers, CreateSession(w)
  PROVE  IInv'
<1>1. PICK r, s : r = req[w] /\ s = sess[w]
  OBVIOUS
<1>2. /\ pc[w] = "create" /\ Finish(w)
      /\ store' = store \/ store' = [store EXCEPT ![r.issue] = s]
      /\ UNCHANGED <<board, linear, saved, closed>>
  BY <1>1 DEF CreateSession, Saving
<1>3. OutsideInv' /\ Grows
  BY <1>1, <1>2, SaveEffect
<1> QED
  BY <1>2, <1>3, FinishReady, IInvParts

\* Save writes a session whose card is posted, over any other.
LEMMA SaveInv ==
  ASSUME IInv, NEW w \in Workers, Save(w)
  PROVE  IInv'
<1>1. PICK r, s : r = req[w] /\ s = sess[w]
  OBVIOUS
<1>2. /\ pc[w] = "save"
      /\ Goto(w, "render") \/ Finish(w)
      /\ store' = store \/ store' = [store EXCEPT ![r.issue] = s]
      /\ UNCHANGED <<board, linear, saved, closed>>
  BY <1>1 DEF Save, Saving, GotoIfOk
<1>3. OutsideInv' /\ Grows
  BY <1>1, <1>2, SaveEffect
<1>4. Ready("render", r, s)
  BY <1>1, <1>2, AtWrite DEF Ready
<1>5. Ready("render", r, s)'
  BY <1>3, <1>4, ReadyStable
<1> QED
  BY <1>1, <1>2, <1>3, <1>5, NextCall DEF Calls

\* Render replaces a card by one of the same issue that is not final.
LEMMA RenderInv ==
  ASSUME IInv, NEW w \in Workers, Render(w)
  PROVE  IInv'
<1>1. PICK r, s : r = req[w] /\ s = sess[w]
  OBVIOUS
<1>2. /\ pc[w] = "render" /\ UNCHANGED <<store, linear, saved, closed>>
      /\ \/ board' = board
         \/ board' = [board EXCEPT ![s.ts] = SessionCard(r.issue, s)]
      /\ Goto(w, "notice") \/ Finish(w)
  BY <1>1 DEF Render, GotoIfOk
<1>3. /\ r.issue \in Issues /\ s \in Session /\ OwnVotes(s)
      /\ s.ts \in Cards /\ board[s.ts] # NoCard /\ board[s.ts].issue = r.issue
  BY <1>1, <1>2, AtWrite
<1>4. OutsideInv
  BY IInvParts
<1>5. OutsideInv' /\ Grows
  <2>1. CASE board' = board
    BY <1>2, <1>4, <2>1, OutsideStutter DEF outside
  <2>2. CASE board' = [board EXCEPT ![s.ts] = SessionCard(r.issue, s)]
    <3>1. PICK card : card = SessionCard(r.issue, s)
      OBVIOUS
    <3>2. /\ card \in Card /\ card.issue = r.issue /\ card.kind # "final"
          /\ \A u \in Users : card.shown[u] \in Hand[u] \cup {NoPoint, Hidden}
      BY <1>3, <3>1, SessionCardType
    <3> QED
      BY <1>2, <1>3, <1>4, <2>2, <3>1, <3>2, BoardWrite
  <2> QED
    BY <1>2, <2>1, <2>2
<1>6. Ready("notice", r, s)
  BY <1>1, <1>2, AtWrite DEF Ready
<1>7. Ready("notice", r, s)'
  BY <1>5, <1>6, ReadyStable
<1> QED
  BY <1>1, <1>2, <1>5, <1>7, NextCall DEF Calls

\* SetEstimate leaves the pair a final card will need in saved.
LEMMA EstimateInv ==
  ASSUME IInv, NEW w \in Workers, SetEstimate(w)
  PROVE  IInv'
<1>1. PICK r, s : r = req[w] /\ s = sess[w]
  OBVIOUS
<1>2. pc[w] = "estimate" /\ UNCHANGED <<store, board, closed>>
  BY DEF SetEstimate
<1>3. /\ r \in Request /\ r # NoRequest /\ r.issue \in Issues
      /\ r.act = "set" /\ r.point \in Points
      /\ s \in Session /\ s # NoSession /\ OwnVotes(s) /\ OnScale(s)
      /\ s.ts \in Cards /\ board[s.ts] # NoCard /\ board[s.ts].issue = r.issue
  BY <1>1, <1>2, AtWrite, AtCall DEF Ready
<1>4. OutsideInv /\ LocalType /\ WorkersReady
  BY IInvParts
<1>5. CASE Finish(w) /\ UNCHANGED <<linear, saved>>
  BY <1>2, <1>5, FinishInv DEF outside
<1>6. CASE /\ linear' = [linear EXCEPT ![r.issue] =
                           [point |-> r.point, card |-> s.ts]]
           /\ saved' = saved \cup {<<s.ts, r.point>>}
           /\ Goto(w, "delete") \/ Finish(w)
  <2>1. OutsideInv' /\ Grows
    BY <1>2, <1>3, <1>4, <1>6, LinearWrite
  <2>2. Ready("delete", r, s)'
    BY <1>2, <1>3, <1>6 DEF Ready, OwnVotes, OnScale
  <2> QED
    BY <1>1, <1>2, <1>6, <2>1, <2>2, NextCall DEF Calls
<1> QED
  BY <1>1, <1>5, <1>6 DEF SetEstimate, Writing, GotoIfOk

\* DeleteSession takes a session away and nothing else.
LEMMA DeleteInv ==
  ASSUME IInv, NEW w \in Workers, DeleteSession(w)
  PROVE  IInv'
<1>1. PICK r, s : r = req[w] /\ s = sess[w]
  OBVIOUS
<1>2. pc[w] = "delete" /\ UNCHANGED <<board, linear, saved>>
  BY DEF DeleteSession
<1>3. /\ r.issue \in Issues /\ s.ts \in Cards /\ Ready("delete", r, s)
  BY <1>1, <1>2, AtWrite, AtCall
<1>4. OutsideInv
  BY IInvParts
<1>5. CASE Finish(w) /\ UNCHANGED <<store, closed>>
  BY <1>2, <1>5, FinishInv DEF outside
<1>6. CASE /\ store' = [store EXCEPT ![r.issue] = NoSession]
           /\ closed' = closed \cup {s.ts}
           /\ Goto(w, "close") \/ Finish(w)
  <2>1. OutsideInv' /\ Grows
    BY <1>2, <1>3, <1>4, <1>6, DeleteWrite
  <2>2. Ready("close", r, s)
    BY <1>3 DEF Ready
  <2>3. Ready("close", r, s)'
    BY <2>1, <2>2, ReadyStable
  <2> QED
    BY <1>1, <1>2, <1>6, <2>1, <2>3, NextCall DEF Calls
<1> QED
  BY <1>1, <1>5, <1>6 DEF DeleteSession, Deleting, GotoIfOk

\* CloseCard: a final card names an estimate its round wrote.
LEMMA CloseInv ==
  ASSUME IInv, NEW w \in Workers, CloseCard(w)
  PROVE  IInv'
<1>1. PICK r, s : r = req[w] /\ s = sess[w]
  OBVIOUS
<1>2. /\ pc[w] = "close" /\ Finish(w) /\ UNCHANGED <<store, linear, saved, closed>>
      /\ \/ board' = board
         \/ board' = [board EXCEPT ![s.ts] = ClosingCard(r)]
  BY <1>1 DEF CloseCard
<1>3. /\ r \in Request /\ s.ts \in Cards
      /\ board[s.ts] # NoCard /\ board[s.ts].issue = r.issue
      /\ r.act \in {"set", "cancel"}
      /\ r.act = "set" => <<s.ts, r.point>> \in saved
  BY <1>1, <1>2, AtWrite, AtCall DEF Ready
<1>4. OutsideInv /\ LocalType /\ WorkersReady
  BY IInvParts
<1>5. CASE board' = board
  BY <1>2, <1>5, FinishInv DEF outside
<1>6. CASE board' = [board EXCEPT ![s.ts] = ClosingCard(r)]
  <2>1. PICK card : card = ClosingCard(r)
    OBVIOUS
  <2>2. /\ card \in Card /\ card.issue = r.issue
        /\ \A u \in Users : card.shown[u] = NoPoint
        /\ card.kind = "final" => r.act = "set" /\ card.point = r.point
    BY <1>3, <2>1 DEF ClosingCard, CancelledCard, FinalCard, Card, Kinds,
                      NoVotes, MaybePoint, Request
  <2>3. OutsideInv' /\ Grows
    BY <1>2, <1>3, <1>4, <1>6, <2>1, <2>2, BoardWrite
  <2> QED
    BY <1>2, <1>4, <2>3, FinishReady, IInvParts
<1> QED
  BY <1>2, <1>5, <1>6

----------------------------------------------------------------------------
(***************************************************************************)
(* The steps together.                                                     *)
(***************************************************************************)
LEMMA HandlerInv ==
  ASSUME IInv, NEW w \in Workers, HandlerStep(w)
  PROVE  IInv'
<1>1. CASE Refuse(w) \/ IgnoreSelect(w) \/ LoadNothing(w) \/ Notify(w)
  BY <1>1, FinishInv DEF Refuse, IgnoreSelect, LoadNothing, Notify
<1>2. CASE FetchIssue(w) \/ PostCard(w) \/ CreateSession(w)
  BY <1>2, FetchInv, PostInv, CreateInv
<1>3. CASE VoteLoaded(w) \/ RetractLoaded(w) \/ RevealLoaded(w)
             \/ ContinueLoaded(w) \/ SetLoaded(w) \/ CancelLoaded(w)
  BY <1>3, VoteInv, RetractInv, RevealInv, ContinueInv, SetInv, CancelInv
<1>4. CASE Save(w) \/ Render(w) \/ SetEstimate(w) \/ DeleteSession(w)
             \/ CloseCard(w)
  BY <1>4, SaveInv, RenderInv, EstimateInv, DeleteInv, CloseInv
<1> QED
  BY <1>1, <1>2, <1>3, <1>4 DEF HandlerStep

\* A run that stops between two calls leaves the invariant.
LEMMA CrashInv ==
  ASSUME IInv, NEW w \in Workers, Crash(w)
  PROVE  IInv'
BY FinishInv DEF Crash

\* A step of something else leaves the invariant.
LEMMA StutterInv ==
  ASSUME IInv, UNCHANGED vars
  PROVE  IInv'
<1>1. OutsideInv' /\ LocalType /\ WorkersReady /\ Grows
  BY IInvParts, OutsideStutter DEF vars, outside
<1>2. LocalType'
  BY <1>1 DEF vars, LocalType
<1>3. ASSUME NEW w \in Workers
      PROVE  Ready(pc[w], req[w], sess[w])'
  <2>1. PICK call, r, s : call = pc[w] /\ r = req[w] /\ s = sess[w]
    OBVIOUS
  <2>2. Ready(call, r, s)'
    BY <1>1, <2>1, ReadyStable DEF WorkersReady
  <2> QED
    BY <2>1, <2>2 DEF vars, Ready
<1> QED
  BY <1>1, <1>2, <1>3, IInvParts DEF WorkersReady

----------------------------------------------------------------------------
(***************************************************************************)
(* Hidden until reveal.                                                    *)
(***************************************************************************)
\* A worker that returns has no votes in hand.
LEMMA FinishHides ==
  ASSUME LocalType, WorkersHide, NEW w \in Workers, Finish(w)
  PROVE  WorkersHide'
<1>1. pc'[w] = "idle"
  BY DEF LocalType, Finish
<1>2. \A v \in Workers \ {w} :
        pc'[v] = pc[v] /\ req'[v] = req[v] /\ sess'[v] = sess[v]
  BY DEF LocalType, Finish
<1> QED
  BY <1>1, <1>2 DEF WorkersHide, Hides

\* One that goes on to a call may have them in hand if they stay hidden.
LEMMA CarryHides ==
  ASSUME LocalType, WorkersHide, NEW w \in Workers, NEW call, NEW r, NEW s,
         r = req[w], Carry(w, s, call), Hides(call, r, s)
  PROVE  WorkersHide'
<1>1. pc'[w] = call /\ req'[w] = r /\ sess'[w] = s
  BY DEF LocalType, Carry
<1>2. \A v \in Workers \ {w} :
        pc'[v] = pc[v] /\ req'[v] = req[v] /\ sess'[v] = sess[v]
  BY DEF LocalType, Carry
<1> QED
  BY <1>1, <1>2 DEF WorkersHide, Hides

\* A vote, a retraction and Continue hide the votes of the copy they save.
LEMMA LoadHides ==
  ASSUME IInv, WorkersHide, NEW w \in Workers,
         \/ VoteLoaded(w) \/ RetractLoaded(w) \/ RevealLoaded(w)
         \/ ContinueLoaded(w) \/ CancelLoaded(w)
  PROVE  WorkersHide'
<1>1. LocalType
  BY IInvParts
<1>2. PICK r, s : r = req[w] /\ s = store[r.issue]
  OBVIOUS
<1>3. s \in Session
  BY <1>2, LoadedFacts
     DEF VoteLoaded, RetractLoaded, RevealLoaded, ContinueLoaded, CancelLoaded
<1>4. CASE VoteLoaded(w)
  <2>1. CASE Finish(w)
    BY <1>1, <2>1, FinishHides
  <2>2. CASE Carry(w, CastVote(s, r.user, r.point), "save")
    <3>1. CastVote(s, r.user, r.point).status = "voting"
      BY <1>3 DEF CastVote, Session
    <3> QED
      BY <1>1, <1>2, <2>2, <3>1, CarryHides DEF Hides
  <2> QED
    BY <1>2, <1>4, <2>1, <2>2 DEF VoteLoaded
<1>5. CASE RetractLoaded(w)
  <2>1. CASE Carry(w, s, "notice")
    BY <1>1, <1>2, <2>1, CarryHides DEF Hides
  <2>2. CASE Carry(w, DropVote(s, r.user), "save")
    <3>1. DropVote(s, r.user).status = "voting"
      BY <1>3 DEF DropVote, Session
    <3> QED
      BY <1>1, <1>2, <2>2, <3>1, CarryHides DEF Hides
  <2> QED
    BY <1>2, <1>5, <2>1, <2>2 DEF RetractLoaded
<1>6. CASE RevealLoaded(w)
  <2>1. r.act = "reveal" /\ Carry(w, WithStatus(s, "revealed"), "save")
    BY <1>2, <1>6 DEF RevealLoaded, Loaded, Loading
  <2> QED
    BY <1>1, <1>2, <2>1, CarryHides DEF Hides
<1>7. CASE ContinueLoaded(w)
  <2>1. Carry(w, WithStatus(s, "voting"), "save")
    BY <1>2, <1>7 DEF ContinueLoaded
  <2>2. WithStatus(s, "voting").status = "voting"
    BY <1>3 DEF WithStatus, Session
  <2> QED
    BY <1>1, <1>2, <2>1, <2>2, CarryHides DEF Hides
<1>8. CASE CancelLoaded(w)
  <2>1. Carry(w, s, "delete")
    BY <1>2, <1>8 DEF CancelLoaded
  <2> QED
    BY <1>1, <1>2, <2>1, CarryHides DEF Hides
<1> QED
  BY <1>4, <1>5, <1>6, <1>7, <1>8

\* Set renders a session again only if there is no consensus: the votes being
\* on the scale, nobody has voted.
LEMMA SetHides ==
  ASSUME IInv, WorkersHide, NEW w \in Workers, SetLoaded(w)
  PROVE  WorkersHide'
<1>1. LocalType
  BY IInvParts
<1>2. PICK s, chosen :
        s = store[req[w].issue] /\ chosen = ChosenEstimate(req[w].point, s)
  OBVIOUS
<1>3. s \in Session /\ OnScale(s)
  BY <1>2, LoadedFacts DEF SetLoaded
<1>4. pc'[w] = (IF chosen = NoPoint THEN "render" ELSE "estimate") /\ sess'[w] = s
  BY <1>1, <1>2 DEF SetLoaded, LocalType
<1>5. ASSUME chosen = NoPoint PROVE s.votes = NoVotes
  <2>1. s.scale \in SUBSET Points /\ s.votes \in [Users -> MaybePoint]
    BY <1>3, PointsAssumption DEF Session, Votes
  <2>2. Consensus(s.scale, s.votes) = NoPoint
    BY <1>2, <1>5, <2>1, SentinelAssumption DEF ChosenEstimate
  <2>3. \A u \in Users : s.votes[u] \notin s.scale
    BY <2>1, <2>2, ConsensusExists
  <2> QED
    BY <1>3, <2>1, <2>3 DEF OnScale, NoVotes
<1>6. Hides(pc[w], req[w], sess[w])'
  BY <1>4, <1>5 DEF Hides
<1>7. \A v \in Workers \ {w} :
        pc'[v] = pc[v] /\ req'[v] = req[v] /\ sess'[v] = sess[v]
  BY <1>1 DEF SetLoaded, LocalType
<1> QED
  BY <1>6, <1>7 DEF WorkersHide, Hides

\* The handler never has votes in hand that a card should not show.
LEMMA HandlerHides ==
  ASSUME IInv, WorkersHide, NEW w \in Workers, HandlerStep(w)
  PROVE  WorkersHide'
<1>1. LocalType
  BY IInvParts
<1>2. CASE \/ Refuse(w) \/ IgnoreSelect(w) \/ LoadNothing(w) \/ Notify(w)
           \/ CreateSession(w) \/ CloseCard(w)
  BY <1>1, <1>2, FinishHides
     DEF Refuse, IgnoreSelect, LoadNothing, Notify, CreateSession, CloseCard
<1>3. CASE \/ VoteLoaded(w) \/ RetractLoaded(w) \/ RevealLoaded(w)
           \/ ContinueLoaded(w) \/ CancelLoaded(w) \/ SetLoaded(w)
  BY <1>3, LoadHides, SetHides
<1>4. ASSUME NEW call, NEW s, Carry(w, s, call), call \notin {"save", "render"}
      PROVE  WorkersHide'
  BY <1>1, <1>4, CarryHides DEF Hides
<1>5. CASE FetchIssue(w)
  BY <1>4, <1>5 DEF FetchIssue
<1>6. CASE PostCard(w)
  BY <1>1, <1>4, <1>6, FinishHides DEF PostCard
<1>7. CASE Render(w) \/ SetEstimate(w) \/ DeleteSession(w)
  BY <1>1, <1>4, <1>7, FinishHides
     DEF Render, SetEstimate, DeleteSession, GotoIfOk, Goto
<1>8. CASE Save(w)
  <2>1. PICK r, s : r = req[w] /\ s = sess[w]
    OBVIOUS
  <2>2. pc[w] = "save" /\ (Carry(w, s, "render") \/ Finish(w))
    BY <1>8, <2>1 DEF Save, GotoIfOk, Goto
  <2>3. Hides("render", r, s)
    BY <2>1, <2>2 DEF WorkersHide, Hides
  <2> QED
    BY <1>1, <2>1, <2>2, <2>3, CarryHides, FinishHides
<1> QED
  BY <1>2, <1>3, <1>5, <1>6, <1>7, <1>8 DEF HandlerStep

\* A card whose votes are hidden, or that has none, exposes no vote.
LEMMA HiddenCard ==
  ASSUME OutsideType, NEW c \in Cards, NEW card,
         board' = board \/ board' = [board EXCEPT ![c] = card],
         \A u \in Users : card.shown[u] \notin Points
  PROVE  RevealShows
<1>1. \A d \in Cards : board'[d] = board[d] \/ (d = c /\ board'[d] = card)
  BY DEF OutsideType
<1>2. ASSUME NEW d \in Cards, NEW u \in Users PROVE ~Exposes(d, u)
  BY <1>1 DEF Exposes
<1> QED
  BY <1>2 DEF RevealShows

\* A voting card shows mentions only; so does any card of a round without
\* votes.
LEMMA CardHides ==
  ASSUME NEW i, NEW s \in Session, s.status = "voting" \/ s.votes = NoVotes
  PROVE  \A u \in Users : SessionCard(i, s).shown[u] \notin Points
<1>1. CASE s.status = "voting"
  <2>1. SessionCard(i, s) = VotingCard(i, s)
    BY <1>1 DEF SessionCard
  <2> QED
    BY <2>1, SentinelAssumption DEF VotingCard
<1>2. CASE s.status # "voting" /\ s.votes = NoVotes
  <2>1. SessionCard(i, s) = SummaryCard(i, s)
    BY <1>2 DEF SessionCard, Session
  <2>2. SummaryCard(i, s).shown = NoVotes
    BY <1>2 DEF SummaryCard
  <2> QED
    BY <2>1, <2>2, SentinelAssumption DEF NoVotes
<1> QED
  BY <1>1, <1>2

\* The only step that brings a vote into view is the rendering of a reveal.
LEMMA HandlerReveals ==
  ASSUME IInv, WorkersHide, NEW w \in Workers, HandlerStep(w)
  PROVE  RevealShows
<1>1. OutsideType /\ LocalType
  BY IInvParts DEF OutsideInv
<1>2. CASE UNCHANGED board
  BY <1>2 DEF RevealShows, Exposes
<1>3. PICK r, s : r = req[w] /\ s = sess[w]
  OBVIOUS
<1>4. CASE PostCard(w)
  <2>1. pc[w] = "post" /\ s \in Session
    BY <1>3, <1>4, AtCall DEF PostCard
  <2>2. CASE \E c \in Cards : board' = [board EXCEPT ![c] = VotingCard(r.issue, s)]
    <3>1. PICK card : card = VotingCard(r.issue, s)
      OBVIOUS
    <3>2. PICK c \in Cards : board' = [board EXCEPT ![c] = card]
      BY <2>2, <3>1
    <3>3. \A u \in Users : card.shown[u] \notin Points
      BY <3>1, SentinelAssumption DEF VotingCard
    <3> QED
      BY <1>1, <3>2, <3>3, HiddenCard
  <2> QED
    BY <1>2, <1>3, <1>4, <2>2 DEF PostCard
<1>5. CASE Render(w)
  <2>1. /\ pc[w] = "render" /\ s \in Session /\ s.ts \in Cards
        /\ r \in Request
    <3>1. pc[w] = "render"
      BY <1>5 DEF Render
    <3> QED
      BY <1>3, <3>1, AtWrite
  <2>2. \/ board' = board
        \/ board' = [board EXCEPT ![s.ts] = SessionCard(r.issue, s)]
    BY <1>3, <1>5 DEF Render
  <2>3. CASE r.act = "reveal"
    <3>1. pc'[w] = "idle"
      BY <1>1, <1>3, <1>5, <2>3 DEF Render, Finish, LocalType
    <3>2. \A d \in Cards : d # s.ts => board'[d] = board[d]
      BY <1>1, <2>2 DEF OutsideType
    <3>3. ASSUME NEW d \in Cards, NEW u \in Users, Exposes(d, u)
          PROVE  d = s.ts
      BY <3>2, <3>3 DEF Exposes
    <3> QED
      BY <1>3, <2>1, <2>3, <3>1, <3>3 DEF RevealShows
  <2>4. CASE r.act # "reveal"
    <3>1. s.status = "voting" \/ s.votes = NoVotes
      BY <1>3, <2>1, <2>4 DEF WorkersHide, Hides
    <3>2. PICK card : card = SessionCard(r.issue, s)
      OBVIOUS
    <3>3. \A u \in Users : card.shown[u] \notin Points
      BY <2>1, <3>1, <3>2, CardHides
    <3> QED
      BY <1>1, <2>1, <2>2, <3>2, <3>3, HiddenCard
  <2> QED
    BY <2>3, <2>4
<1>6. CASE CloseCard(w)
  <2>1. s.ts \in Cards
    BY <1>3, <1>6, AtWrite DEF CloseCard
  <2>2. PICK card : card = ClosingCard(r)
    OBVIOUS
  <2>3. board' = board \/ board' = [board EXCEPT ![s.ts] = card]
    BY <1>3, <1>6, <2>2 DEF CloseCard
  <2>4. card.shown = NoVotes
    BY <2>2 DEF ClosingCard, CancelledCard, FinalCard
  <2>5. \A u \in Users : card.shown[u] \notin Points
    BY <2>4, SentinelAssumption DEF NoVotes
  <2> QED
    BY <1>1, <2>1, <2>3, <2>5, HiddenCard
<1> QED
  BY <1>2, <1>4, <1>5, <1>6
     DEF HandlerStep, outside, Refuse, FetchIssue, CreateSession, IgnoreSelect,
         LoadNothing, VoteLoaded, RetractLoaded, RevealLoaded, ContinueLoaded,
         SetLoaded, CancelLoaded, Save, Notify, SetEstimate, DeleteSession

\* A new request has no votes in hand, and leaves the cards alone.
LEMMA BeginHides ==
  ASSUME LocalType, WorkersHide, NEW w \in Workers, NEW r, Begin(w, r)
  PROVE  WorkersHide' /\ RevealShows
<1>1. pc'[w] = "load" /\ board' = board
  BY DEF LocalType, Begin, outside
<1>2. \A v \in Workers \ {w} :
        pc'[v] = pc[v] /\ req'[v] = req[v] /\ sess'[v] = sess[v]
  BY DEF LocalType, Begin
<1> QED
  BY <1>1, <1>2 DEF WorkersHide, Hides, RevealShows, Exposes

\* A run that stops between two calls has none any more.
LEMMA CrashHides ==
  ASSUME LocalType, WorkersHide, NEW w \in Workers, Crash(w)
  PROVE  WorkersHide' /\ RevealShows
BY FinishHides DEF Crash, outside, RevealShows, Exposes

\* A step of something else leaves hands and cards as they are.
LEMMA StutterHides ==
  ASSUME WorkersHide, UNCHANGED vars
  PROVE  WorkersHide' /\ RevealShows
BY DEF vars, WorkersHide, Hides, RevealShows, Exposes

LEMMA InitHides == ASSUME Init PROVE WorkersHide
BY DEF Init, WorkersHide, Hides

----------------------------------------------------------------------------
\* The inductive invariant of the handler holds however its runs interleave
\* and whichever calls fail.
THEOREM HandlerInvariant == HandlerSpec => []IInv
<1>1. Init => IInv
  BY InitInv
<1>2. IInv /\ [HandlerNext]_vars => IInv'
  <2> SUFFICES ASSUME IInv, [HandlerNext]_vars PROVE IInv'
    OBVIOUS
  <2>1. ASSUME NEW w \in Workers, NEW r \in Request, Picked(r), Begin(w, r)
        PROVE  IInv'
    BY <2>1, BeginInv DEF Picked
  <2>2. ASSUME NEW w \in Workers, HandlerStep(w) PROVE IInv'
    BY <2>2, HandlerInv
  <2>3. ASSUME NEW w \in Workers, Crash(w) PROVE IInv'
    BY <2>3, CrashInv
  <2>4. CASE UNCHANGED vars
    BY <2>4, StutterInv
  <2> QED
    BY <2>1, <2>2, <2>3, <2>4 DEF HandlerNext
<1> QED
  BY <1>1, <1>2, PTL DEF HandlerSpec

\* The safety invariants are its parts.
LEMMA IInvSays ==
  IInv => /\ TypeOK
          /\ FinalWasSaved
          /\ OnlyOwnPicks
          /\ VotesOnScale
          /\ SessionHasCard
BY DEF IInv

\* Whatever is voted, retracted, continued or rendered late at the same time,
\* a vote comes into view by the rendering of a reveal and by nothing else.
THEOREM HandlerHiddenUntilReveal == HandlerSpec => HiddenUntilReveal
<1>1. Init => WorkersHide
  BY InitHides
<1>2. IInv /\ WorkersHide /\ [HandlerNext]_vars => WorkersHide' /\ [RevealShows]_vars
  <2> SUFFICES ASSUME IInv, WorkersHide, [HandlerNext]_vars
               PROVE  WorkersHide' /\ RevealShows
    OBVIOUS
  <2>1. LocalType
    BY IInvParts
  <2>2. ASSUME NEW w \in Workers, NEW r, Begin(w, r) PROVE WorkersHide' /\ RevealShows
    BY <2>1, <2>2, BeginHides
  <2>3. ASSUME NEW w \in Workers, HandlerStep(w) PROVE WorkersHide' /\ RevealShows
    BY <2>3, HandlerHides, HandlerReveals
  <2>4. ASSUME NEW w \in Workers, Crash(w) PROVE WorkersHide' /\ RevealShows
    BY <2>1, <2>4, CrashHides
  <2>5. CASE UNCHANGED vars
    BY <2>5, StutterHides
  <2> QED
    BY <2>2, <2>3, <2>4, <2>5 DEF HandlerNext
<1> QED
  BY <1>1, <1>2, HandlerInvariant, PTL DEF HandlerSpec, HiddenUntilReveal
=============================================================================
