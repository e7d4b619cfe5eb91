--------------------------- MODULE ConsensusProofs ---------------------------
(***************************************************************************)
(* Consensus returns the mode of the votes, the higher point on a tie, in  *)
(* whatever order Go visits the two maps, for any scale and any votes.     *)
(***************************************************************************)
EXTENDS Consensus, Scale, FiniteSetTheorems, SequenceTheorems, TLAPS

\* The voters the first loop has been to who chose label l.
SeenFor(l) == {u \in Voters \ todo : votes[u] = l}

\* counts is the tally of the votes visited so far, those off the scale left
\* out.
CountInv ==
  phase = "count" =>
    /\ todo \subseteq Cast
    /\ best = NoLabel /\ bestCount = -1
    /\ \A l \in LabelSet :
         counts[l] = IF l \in DOMAIN scale THEN Cardinality(SeenFor(l)) ELSE 0

\* After the first loop counts is the tally of every point of the scale.
TallyInv ==
  phase # "count" =>
    \A l \in LabelSet : counts[l] = IF l \in DOMAIN scale THEN Tally(l) ELSE 0

\* l is at least as good a point as m.
NoWorse(l, m) ==
  counts[m] < counts[l] \/ (counts[m] = counts[l] /\ scale[m] <= scale[l])

\* best is the best of the labels visited, once there is one.
PickInv ==
  phase # "count" =>
    /\ todo \subseteq Counted
    /\ best = NoLabel =>
         Counted \subseteq todo /\ bestCount = -1
    /\ best # NoLabel =>
         /\ best \in Counted
         /\ bestCount = counts[best]
         /\ \A m \in Counted \ todo : NoWorse(best, m)

DoneInv == phase = "done" => todo = {}

LoopInv == TypeOK /\ CountInv /\ TallyInv /\ PickInv /\ DoneInv

\* A tally is a number: there are finitely many voters.
LEMMA FiniteVoters ==
  ASSUME NEW S \in SUBSET Voters
  PROVE  IsFiniteSet(S) /\ Cardinality(S) \in Nat
BY VotersAssumption, FS_Subset, FS_CardinalityType

\* Before the first loop nothing is visited and nothing is counted.
LEMMA LoopInit == ASSUME Init PROVE LoopInv
<1>1. TypeOK
  BY DEF Init, TypeOK, Cast
<1>2. ASSUME NEW l \in LabelSet PROVE SeenFor(l) = {}
  BY SentinelAssumption DEF Init, SeenFor, Cast
<1>3. CountInv
  BY <1>2, FS_EmptySet DEF Init, CountInv
<1> QED
  BY <1>1, <1>3 DEF LoopInv, TallyInv, PickInv, DoneInv, Init

\* A vote visited adds one to its label.
LEMMA CountStep ==
  ASSUME LoopInv, NEW u \in Voters, CountVote(u)
  PROVE  LoopInv'
<1>1. /\ TypeOK /\ CountInv /\ phase = "count" /\ u \in todo
      /\ todo' = todo \ {u}
      /\ UNCHANGED <<scale, votes, phase, best, bestCount>>
  BY DEF LoopInv, CountVote
<1>2. /\ todo \subseteq Cast
      /\ \A l \in LabelSet :
           counts[l] = IF l \in DOMAIN scale THEN Cardinality(SeenFor(l)) ELSE 0
  BY <1>1 DEF CountInv
<1>3. DOMAIN scale \subseteq LabelSet
  BY <1>1, ScalesAssumption DEF TypeOK
<1>4. \A l \in LabelSet :
        counts'[l] = IF l = votes[u] /\ l \in DOMAIN scale
                     THEN counts[l] + 1 ELSE counts[l]
  BY <1>1, <1>3 DEF CountVote, TypeOK
<1>5. TypeOK'
  BY <1>1, <1>3 DEF TypeOK, CountVote
<1>6. ASSUME NEW l \in DOMAIN scale
      PROVE  counts'[l] = Cardinality(SeenFor(l)')
  <2>1. /\ l \in LabelSet
        /\ SeenFor(l) \in SUBSET Voters
        /\ IsFiniteSet(SeenFor(l)) /\ Cardinality(SeenFor(l)) \in Nat
        /\ u \notin SeenFor(l)
    BY <1>1, <1>3, FiniteVoters DEF SeenFor
  <2>2. CASE votes[u] = l
    <3>1. SeenFor(l)' = SeenFor(l) \cup {u}
      BY <1>1, <2>2 DEF SeenFor
    <3>2. Cardinality(SeenFor(l) \cup {u}) = Cardinality(SeenFor(l)) + 1
      BY <2>1, FS_AddElement
    <3> QED
      BY <1>2, <1>4, <2>1, <2>2, <3>1, <3>2
  <2>3. CASE votes[u] # l
    <3>1. SeenFor(l)' = SeenFor(l)
      BY <1>1, <2>3 DEF SeenFor
    <3> QED
      BY <1>2, <1>4, <2>1, <2>3, <3>1
  <2> QED
    BY <2>2, <2>3
<1>7. CountInv'
  BY <1>1, <1>2, <1>4, <1>6 DEF CountInv, Cast
<1> QED
  BY <1>1, <1>5, <1>7 DEF LoopInv, TallyInv, PickInv, DoneInv

\* With every vote visited, counts is the tally.
LEMMA StartStep ==
  ASSUME LoopInv, StartPick
  PROVE  LoopInv'
<1>1. /\ TypeOK /\ CountInv /\ phase = "count" /\ todo = {}
      /\ phase' = IF Counted = {} THEN "done" ELSE "pick"
      /\ todo' = Counted
      /\ UNCHANGED <<scale, votes, counts, best, bestCount>>
  BY DEF LoopInv, StartPick
<1>2. TypeOK'
  BY <1>1 DEF TypeOK, Counted
<1>3. \A l \in LabelSet : SeenFor(l) = {u \in Voters : votes[u] = l}
  BY <1>1 DEF SeenFor
<1>4. TallyInv'
  BY <1>1, <1>3 DEF CountInv, TallyInv, Tally
<1>5. Counted' = Counted
  BY <1>1 DEF Counted
<1>6. best = NoLabel /\ bestCount = -1
  BY <1>1 DEF CountInv
<1>7. PickInv' /\ DoneInv' /\ CountInv'
  BY <1>1, <1>5, <1>6 DEF PickInv, DoneInv, CountInv
<1> QED
  BY <1>2, <1>4, <1>7 DEF LoopInv

\* A label visited takes the place of best exactly when it is better.
LEMMA PickStep ==
  ASSUME LoopInv, NEW l \in LabelSet, PickLabel(l)
  PROVE  LoopInv'
<1>1. /\ TypeOK /\ TallyInv /\ PickInv /\ phase = "pick" /\ l \in todo
      /\ todo' = todo \ {l}
      /\ UNCHANGED <<scale, votes, phase, counts>>
      /\ IF Better(l) THEN best' = l /\ bestCount' = counts[l]
         ELSE UNCHANGED <<best, bestCount>>
  BY DEF LoopInv, PickLabel
<1>2. TypeOK' /\ TallyInv' /\ CountInv' /\ DoneInv'
  BY <1>1 DEF TypeOK, TallyInv, Tally, CountInv, DoneInv
<1>3. Counted' = Counted /\ l \in Counted /\ l # NoLabel
  BY <1>1, SentinelAssumption DEF PickInv, Counted
<1>4. Counted \subseteq DOMAIN scale
  BY <1>1 DEF Counted, TallyInv
<1>5. \A m \in Counted : counts[m] \in Nat /\ counts[m] > 0 /\ scale[m] \in Nat
  BY <1>1, <1>4, ScalesAssumption DEF TypeOK, Counted
<1>6. \A m, n \in Counted : NoWorse(m, n)' <=> NoWorse(m, n)
  BY <1>1 DEF NoWorse
<1>7. PickInv'
  <2>1. CASE best = NoLabel
    <3>1. Better(l)
      BY <1>1, <1>3, <1>5, <2>1 DEF PickInv, Better
    <3>2. best' = l /\ bestCount' = counts[l] /\ Counted \ todo' = {l}
      BY <1>1, <1>3, <2>1, <3>1 DEF PickInv
    <3>3. NoWorse(l, l)
      BY <1>3, <1>5 DEF NoWorse
    <3> QED
      BY <1>1, <1>3, <1>6, <3>2, <3>3 DEF PickInv
  <2>2. CASE best # NoLabel
    <3>1. /\ best \in Counted /\ bestCount = counts[best]
          /\ \A m \in Counted \ todo : NoWorse(best, m)
      BY <1>1, <2>2 DEF PickInv
    <3>2. CASE Better(l)
      <4>1. NoWorse(l, best) /\ NoWorse(l, l)
        BY <1>3, <1>5, <3>1, <3>2 DEF Better, NoWorse
      <4>2. \A m \in Counted \ todo : NoWorse(l, m)
        BY <1>3, <1>5, <3>1, <4>1 DEF NoWorse
      <4> QED
        BY <1>1, <1>3, <1>6, <3>2, <4>1, <4>2 DEF PickInv
    <3>3. CASE ~Better(l)
      <4>1. NoWorse(best, l)
        BY <1>3, <1>5, <3>1, <3>3 DEF Better, NoWorse
      <4> QED
        BY <1>1, <1>3, <1>6, <2>2, <3>1, <3>3, <4>1 DEF PickInv
    <3> QED
      BY <3>2, <3>3
  <2> QED
    BY <2>1, <2>2
<1> QED
  BY <1>2, <1>7 DEF LoopInv

\* With every label visited, best is the best of them all.
LEMMA ReturnStep ==
  ASSUME LoopInv, Return
  PROVE  LoopInv'
<1>1. /\ phase = "pick" /\ todo = {} /\ phase' = "done"
      /\ UNCHANGED <<scale, votes, todo, counts, best, bestCount>>
  BY DEF Return
<1> QED
  BY <1>1 DEF LoopInv, TypeOK, CountInv, TallyInv, PickInv, DoneInv, Counted,
              NoWorse, Tally, Cast

\* A finished run changes nothing.
LEMMA StutterStep ==
  ASSUME LoopInv, UNCHANGED vars
  PROVE  LoopInv'
BY DEF vars, LoopInv, TypeOK, CountInv, TallyInv, PickInv, DoneInv, Counted,
       NoWorse, Tally, Cast, SeenFor

\* The counts, and the best label so far, are right after each iteration.
THEOREM ConsensusInvariant == Spec => []LoopInv
<1>1. Init => LoopInv
  BY LoopInit
<1>2. LoopInv /\ [Next]_vars => LoopInv'
  BY CountStep, StartStep, PickStep, ReturnStep, StutterStep DEF Next, Returned
<1> QED
  BY <1>1, <1>2, PTL DEF Spec

\* The order in which Go visits the maps does not show: the point returned is
\* the most voted one of the scale, the higher one on a tie, and there is none
\* exactly when no vote is on the scale.
THEOREM ConsensusCorrect == Spec => []ConsensusIsMode
<1>1. LoopInv => ConsensusIsMode
  <2> SUFFICES ASSUME LoopInv, phase = "done" PROVE ConsensusIsMode
    BY DEF ConsensusIsMode
  <2>1. TypeOK /\ TallyInv /\ PickInv /\ todo = {}
    BY DEF LoopInv, DoneInv
  <2>2. DOMAIN scale \subseteq LabelSet
    BY <2>1, ScalesAssumption DEF TypeOK
  <2>3. \A l \in DOMAIN scale : counts[l] = Tally(l) /\ Tally(l) \in Nat
                                  /\ scale[l] \in Nat
    BY <2>1, <2>2, ScalesAssumption DEF TypeOK, TallyInv
  <2>4. CASE best = NoLabel
    <3>1. Counted = {}
      BY <2>1, <2>4 DEF PickInv
    <3> QED
      BY <2>2, <2>3, <2>4, <3>1 DEF Counted, ConsensusIsMode
  <2>5. CASE best # NoLabel
    <3>1. /\ best \in LabelSet /\ counts[best] > 0
          /\ \A m \in Counted : NoWorse(best, m)
      BY <2>1, <2>5 DEF PickInv, Counted
    <3>2. best \in DOMAIN scale
      BY <2>1, <3>1 DEF TallyInv
    <3>3. ASSUME NEW m \in DOMAIN scale
          PROVE  \/ Tally(m) < Tally(best)
                 \/ Tally(m) = Tally(best) /\ scale[m] <= scale[best]
      BY <2>2, <2>3, <3>1, <3>2 DEF Counted, NoWorse
    <3> QED
      BY <2>3, <2>5, <3>1, <3>2, <3>3 DEF ConsensusIsMode, Recommended
  <2> QED
    BY <2>4, <2>5
<1> QED
  BY <1>1, ConsensusInvariant, PTL

\* Every variable of the loops keeps its type.
THEOREM ConsensusTypeOK == Spec => []TypeOK
<1>1. LoopInv => TypeOK
  BY DEF LoopInv
<1> QED
  BY <1>1, ConsensusInvariant, PTL

\* By value as by label, a point has the same voters.
LEMMA SameTally ==
  ASSUME TypeOK, NEW l \in DOMAIN scale
  PROVE  Handlers!Tally(PointVotes, scale[l]) = Tally(l)
<1>1. /\ \A m \in DOMAIN scale : scale[m] = scale[l] <=> m = l
      /\ scale[l] \in Nat /\ NoLabel # scale[l]
  BY ScalesAssumption, SentinelAssumption DEF TypeOK
<1>2. ASSUME NEW u \in Voters
      PROVE  PointVotes[u] = scale[l] <=> votes[u] = l
  BY <1>1 DEF PointVotes
<1>3. {u \in Voters : PointVotes[u] = scale[l]} = {u \in Voters : votes[u] = l}
  BY <1>2
<1> QED
  BY <1>3 DEF Handlers!Tally, Tally, Handlers!Cardinality, Cardinality

\* The loops return the handler's consensus: the theorems on estimation
\* rounds, which take it from Recommendation, are about this code.
THEOREM LoopsReturnConsensus == Spec => []ConsensusIsHandlers
<1>1. TypeOK /\ ConsensusIsMode => ConsensusIsHandlers
  <2> SUFFICES ASSUME TypeOK, ConsensusIsMode, phase = "done"
               PROVE  Handlers!Consensus(PointScale, PointVotes) =
                        IF best = NoLabel THEN NoLabel ELSE scale[best]
    BY DEF ConsensusIsHandlers
  <2>1. \A l \in DOMAIN scale :
          /\ Handlers!Tally(PointVotes, scale[l]) = Tally(l)
          /\ Tally(l) \in Nat
          /\ scale[l] \in Nat
    <3>1. \A l \in DOMAIN scale : Tally(l) \in Nat
      BY FiniteVoters DEF Tally
    <3> QED
      BY <3>1, SameTally, ScalesAssumption DEF TypeOK
  <2>2. CASE best = NoLabel
    <3>1. \A l \in DOMAIN scale : Tally(l) = 0
      BY <2>2 DEF ConsensusIsMode
    <3>2. Handlers!Leaders(PointScale, PointVotes) = {}
      BY <2>1, <3>1 DEF Handlers!Leaders, PointScale
    <3> QED
      BY <2>2, <3>2 DEF Handlers!Consensus, Handlers!AnyOf
  <2>3. CASE best # NoLabel
    <3>1. /\ best \in DOMAIN scale /\ Tally(best) > 0
          /\ \A m \in DOMAIN scale :
               \/ Tally(m) < Tally(best)
               \/ Tally(m) = Tally(best) /\ scale[m] <= scale[best]
      BY <2>3 DEF ConsensusIsMode, Recommended
    <3>2. scale[best] \in Handlers!Leaders(PointScale, PointVotes)
      BY <2>1, <3>1 DEF Handlers!Leaders, PointScale
    <3>3. ASSUME NEW p \in Handlers!Leaders(PointScale, PointVotes)
          PROVE  p = scale[best]
      <4>1. PICK l \in DOMAIN scale : p = scale[l]
        BY DEF Handlers!Leaders, PointScale
      <4>2. \/ Tally(best) < Tally(l)
            \/ Tally(best) = Tally(l) /\ scale[best] <= scale[l]
        BY <2>1, <3>1, <4>1 DEF Handlers!Leaders, PointScale
      <4> QED
        BY <2>1, <3>1, <4>1, <4>2
    <3>4. Handlers!Leaders(PointScale, PointVotes) = {scale[best]}
      BY <3>2, <3>3
    <3> QED
      BY <2>3, <3>4 DEF Handlers!Consensus, Handlers!AnyOf
  <2> QED
    BY <2>2, <2>3
<1> QED
  BY <1>1, ConsensusTypeOK, ConsensusCorrect, PTL

----------------------------------------------------------------------------
(***************************************************************************)
(* The scales.                                                             *)
(***************************************************************************)
NotEstimating == {"notUsed", "", "other"}

\* What appending the extension to a slice gives.
LEMMA FiveAndTwo ==
  ASSUME NEW a, NEW b, NEW c, NEW d, NEW e, NEW f, NEW g
  PROVE  <<a, b, c, d, e>> \o <<f, g>> = <<a, b, c, d, e, f, g>>
<1>0. PICK S : S = {a, b, c, d, e, f, g}
  OBVIOUS
<1>1. PICK s, t, v : /\ s = <<a, b, c, d, e>> /\ t = <<f, g>>
                     /\ v = <<a, b, c, d, e, f, g>>
  OBVIOUS
<1>2. /\ s \in Seq(S) /\ Len(s) = 5
      /\ t \in Seq(S) /\ Len(t) = 2
      /\ v \in Seq(S) /\ Len(v) = 7
  BY <1>0, <1>1
<1>3. PICK u : u = s \o t
  OBVIOUS
<1>4. /\ u \in Seq(S)
      /\ Len(u) = Len(s) + Len(t)
      /\ \A i \in 1..Len(s) + Len(t) :
           u[i] = IF i <= Len(s) THEN s[i] ELSE t[i - Len(s)]
  BY <1>2, <1>3, ConcatProperties
<1>5. Len(u) = 7 /\ \A i \in 1..7 : u[i] = IF i <= 5 THEN s[i] ELSE t[i - 5]
  BY <1>2, <1>4
<1>6. /\ u[1] = s[1] /\ u[2] = s[2] /\ u[3] = s[3] /\ u[4] = s[4]
      /\ u[5] = s[5] /\ u[6] = t[1] /\ u[7] = t[2]
  BY <1>5
<1>7. /\ s[1] = v[1] /\ s[2] = v[2] /\ s[3] = v[3] /\ s[4] = v[4]
      /\ s[5] = v[5] /\ t[1] = v[6] /\ t[2] = v[7]
  BY <1>1
<1>8. \A i \in 1..Len(u) : u[i] = v[i]
  <2>1. \A i \in 1..7 :
          i = 1 \/ i = 2 \/ i = 3 \/ i = 4 \/ i = 5 \/ i = 6 \/ i = 7
    OBVIOUS
  <2> QED
    BY <1>5, <1>6, <1>7, <2>1
<1>9. u = v
  BY <1>2, <1>4, <1>5, <1>8, SeqEqual
<1> QED
  BY <1>1, <1>3, <1>9

LEMMA ExtendedSlice ==
  ASSUME NEW team, NEW a, NEW b, NEW c, NEW d, NEW e, NEW f, NEW g,
         NEW size, size = IF team.extended THEN 7 ELSE 5
  PROVE  LET s == Extended(team, <<a, b, c, d, e>>, <<f, g>>)
         IN  /\ DOMAIN s = 1..size
             /\ \A i \in 1..size : s[i] = <<a, b, c, d, e, f, g>>[i]
<1>1. CASE team.extended
  BY <1>1, FiveAndTwo DEF Extended
<1>2. CASE ~team.extended
  BY <1>2 DEF Extended
<1> QED
  BY <1>1, <1>2

\* The values and the labels of an extended scale.
AllValues(type) ==
  CASE type = "exponential"            -> <<1, 2, 4, 8, 16, 32, 64>>
    [] type \in {"fibonacci", "tShirt"} -> <<1, 2, 3, 5, 8, 13, 21>>
    [] type = "linear"                 -> <<1, 2, 3, 4, 5, 6, 7>>

AllLabels(type) ==
  IF type = "tShirt" THEN <<"XS", "S", "M", "L", "XL", "XXL", "XXXL">>
  ELSE [i \in 1..7 |-> Numeral(AllValues(type)[i])]

\* Seven values in ascending order, none of them zero, and seven labels, no
\* two alike and none of them the zero's; and each size has its value.
LEMMA BaseFacts ==
  ASSUME NEW type \in EstimationTypes \ NotEstimating
  PROVE  /\ \A i \in 1..7 : AllValues(type)[i] \in Nat \ {0}
         /\ \A i, j \in 1..7 : i < j => AllValues(type)[i] < AllValues(type)[j]
         /\ \A i \in 1..7 : AllLabels(type)[i] # "0"
         /\ \A i, j \in 1..7 : i # j => AllLabels(type)[i] # AllLabels(type)[j]
         /\ type = "tShirt" =>
              \A i \in 1..7 : AllValues(type)[i] = SizeValue[AllLabels(type)[i]]
<1>1. CASE type = "exponential"
  <2>1. AllValues(type) = <<1, 2, 4, 8, 16, 32, 64>>
    BY <1>1 DEF AllValues
  <2>2. \A i \in 1..7 : AllLabels(type)[i] = Numeral(AllValues(type)[i])
    BY <1>1 DEF AllLabels
  <2> QED
    BY <1>1, <2>1, <2>2 DEF Numeral
<1>2. CASE type = "fibonacci"
  <2>1. AllValues(type) = <<1, 2, 3, 5, 8, 13, 21>>
    BY <1>2 DEF AllValues
  <2>2. \A i \in 1..7 : AllLabels(type)[i] = Numeral(AllValues(type)[i])
    BY <1>2 DEF AllLabels
  <2> QED
    BY <1>2, <2>1, <2>2 DEF Numeral
<1>3. CASE type = "tShirt"
  <2>1. /\ AllValues(type) = <<1, 2, 3, 5, 8, 13, 21>>
        /\ AllLabels(type) = <<"XS", "S", "M", "L", "XL", "XXL", "XXXL">>
    BY <1>3 DEF AllValues, AllLabels
  <2> QED
    BY <2>1 DEF SizeValue
<1>4. CASE type = "linear"
  <2>1. AllValues(type) = <<1, 2, 3, 4, 5, 6, 7>>
    BY <1>4 DEF AllValues
  <2>2. \A i \in 1..7 : AllLabels(type)[i] = Numeral(AllValues(type)[i])
    BY <1>4 DEF AllLabels
  <2> QED
    BY <1>4, <2>1, <2>2 DEF Numeral
<1> QED
  BY <1>1, <1>2, <1>3, <1>4 DEF EstimationTypes, NotEstimating

\* The base points are the first five, or all seven, of those.
LEMMA BaseShape ==
  ASSUME NEW team \in Settings, team.type \notin NotEstimating
  PROVE  /\ Values(team) # << >>
         /\ \E size \in {5, 7} :
              BasePoints(team) =
                [i \in 1..size |-> [label |-> AllLabels(team.type)[i],
                                    value |-> AllValues(team.type)[i]]]
<1>1. PICK type, size : /\ type = team.type
                        /\ size = IF team.extended THEN 7 ELSE 5
  OBVIOUS
<1>2. type \in EstimationTypes \ NotEstimating
  BY <1>1 DEF Settings
<1>3. /\ DOMAIN Values(team) = 1..size
      /\ \A i \in 1..size : Values(team)[i] = AllValues(type)[i]
  <2>1. CASE type = "exponential"
    BY <1>1, <2>1, ExtendedSlice DEF Values, AllValues
  <2>2. CASE type \in {"fibonacci", "tShirt"}
    BY <1>1, <2>2, ExtendedSlice DEF Values, AllValues
  <2>3. CASE type = "linear"
    BY <1>1, <2>3, ExtendedSlice DEF Values, AllValues
  <2> QED
    BY <1>2, <2>1, <2>2, <2>3 DEF EstimationTypes, NotEstimating
<1>4. type = "tShirt" =>
        \A i \in 1..size : Sizes(team)[i] = AllLabels(type)[i]
  BY <1>1, ExtendedSlice DEF Sizes, AllLabels
<1>5. BasePoints(team) =
        [i \in 1..size |-> [label |-> AllLabels(type)[i],
                            value |-> AllValues(type)[i]]]
  <2>1. type # "tShirt" =>
          \A i \in 1..7 : AllLabels(type)[i] = Numeral(AllValues(type)[i])
    BY DEF AllLabels
  <2>2. size \in {5, 7} /\ 1..size \subseteq 1..7
    BY <1>1
  <2> QED
    BY <1>1, <1>3, <1>4, <2>1, <2>2 DEF BasePoints
<1> QED
  BY <1>1, <1>3, <1>5

\* A scale is its base points, shifted by one where there is a zero.
LEMMA ScaleShape ==
  ASSUME NEW team \in Settings, team.type \notin NotEstimating
  PROVE  \E size \in {5, 7}, z \in {0, 1} :
           /\ z = 1 <=> team.allowZero
           /\ DOMAIN ScaleFor(team) = 1..(z + size)
           /\ z = 1 => ScaleFor(team)[1] = [label |-> "0", value |-> 0]
           /\ \A i \in 1..size :
                ScaleFor(team)[z + i] = [label |-> AllLabels(team.type)[i],
                                         value |-> AllValues(team.type)[i]]
<1>1. team.type \in EstimationTypes \ NotEstimating /\ team.allowZero \in BOOLEAN
  BY DEF Settings
<1>2. Values(team) # << >>
  BY BaseShape
<1>4. PICK base, zero : base = BasePoints(team) /\ zero = ZeroPoint(team)
  OBVIOUS
<1>5. PICK size \in {5, 7} :
        base = [i \in 1..size |-> [label |-> AllLabels(team.type)[i],
                                   value |-> AllValues(team.type)[i]]]
  BY <1>4, BaseShape
<1>6. /\ base \in Seq([label : {AllLabels(team.type)[i] : i \in 1..7},
                       value : {AllValues(team.type)[i] : i \in 1..7}])
      /\ Len(base) = size /\ base # << >>
  BY <1>5
<1>7. PICK z \in {0, 1} : z = IF team.allowZero THEN 1 ELSE 0
  OBVIOUS
<1>8. ScaleFor(team) = zero \o base
  BY <1>4 DEF ScaleFor
<1>9. /\ DOMAIN ScaleFor(team) = 1..(z + size)
      /\ z = 1 => ScaleFor(team)[1] = [label |-> "0", value |-> 0]
      /\ \A i \in 1..size : ScaleFor(team)[z + i] = base[i]
  <2>1. CASE team.allowZero
    <3>1. zero = << [label |-> "0", value |-> 0] >>
      BY <1>2, <1>4, <2>1 DEF ZeroPoint
    <3> QED
      BY <1>6, <1>7, <1>8, <2>1, <3>1
  <2>2. CASE ~team.allowZero
    <3>1. zero = << >>
      BY <1>4, <2>2 DEF ZeroPoint
    <3>2. ScaleFor(team) = base
      BY <1>6, <1>8, <3>1
    <3> QED
      BY <1>5, <1>7, <2>2, <3>2
  <2> QED
    BY <2>1, <2>2
<1>10. z = 1 <=> team.allowZero
  BY <1>7
<1>11. \A i \in 1..size :
         ScaleFor(team)[z + i] = [label |-> AllLabels(team.type)[i],
                                  value |-> AllValues(team.type)[i]]
  BY <1>5, <1>9
<1> WITNESS size \in {5, 7}, z \in {0, 1}
<1> QED
  BY <1>9, <1>10, <1>11

\* The position of the point that carries a label is the only one: Find
\* returns the point the label was taken from.
LEMMA FindPoint ==
  ASSUME NEW scl, NEW n \in Nat, DOMAIN scl = 1..n,
         \A i, j \in DOMAIN scl : i # j => scl[i].label # scl[j].label,
         NEW k \in DOMAIN scl
  PROVE  Contains(scl, scl[k].label) /\ Find(scl, scl[k].label) = scl[k]
<1> DEFINE First(i) == /\ scl[i].label = scl[k].label
                       /\ \A j \in DOMAIN scl :
                            scl[j].label = scl[k].label => i <= j
<1>1. First(k) /\ \A i \in DOMAIN scl : First(i) => i = k
  OBVIOUS
<1>2. (CHOOSE i \in DOMAIN scl : First(i)) = k
  <2> HIDE DEF First
  <2> QED
    BY <1>1
<1> QED
  BY <1>2 DEF Find, Contains

\* The scale of a team that estimates.
LEMMA ScaleFacts ==
  ASSUME NEW team \in Settings, team.type \notin NotEstimating
  PROVE  /\ \E n \in Nat \ {0} : DOMAIN ScaleFor(team) = 1..n
         /\ \A i \in DOMAIN ScaleFor(team) : ScaleFor(team)[i].value \in Nat
         /\ \A i, j \in DOMAIN ScaleFor(team) :
              i < j => ScaleFor(team)[i].value < ScaleFor(team)[j].value
         /\ \A i, j \in DOMAIN ScaleFor(team) :
              i # j => ScaleFor(team)[i].label # ScaleFor(team)[j].label
         /\ Contains(ScaleFor(team), "0") <=> team.allowZero
         /\ team.type = "tShirt" =>
              \A i \in DOMAIN ScaleFor(team) :
                \/ ScaleFor(team)[i].label = "0"
                \/ ScaleFor(team)[i].value = SizeValue[ScaleFor(team)[i].label]
<1>1. team.type \in EstimationTypes \ NotEstimating
  BY DEF Settings
<1>2. PICK scl, labels, values : /\ scl = ScaleFor(team)
                                 /\ labels = AllLabels(team.type)
                                 /\ values = AllValues(team.type)
  OBVIOUS
<1>3. PICK size \in {5, 7}, z \in {0, 1} :
        /\ z = 1 <=> team.allowZero
        /\ DOMAIN scl = 1..(z + size)
        /\ z = 1 => scl[1] = [label |-> "0", value |-> 0]
        /\ \A i \in 1..size : scl[z + i] = [label |-> labels[i], value |-> values[i]]
  BY <1>2, ScaleShape
<1>4. /\ \A i \in 1..7 : values[i] \in Nat \ {0}
      /\ \A i, j \in 1..7 : i < j => values[i] < values[j]
      /\ \A i \in 1..7 : labels[i] # "0"
      /\ \A i, j \in 1..7 : i # j => labels[i] # labels[j]
      /\ team.type = "tShirt" =>
           \A i \in 1..7 : values[i] = SizeValue[labels[i]]
  BY <1>1, <1>2, BaseFacts
<1>5. ASSUME NEW i \in DOMAIN scl
      PROVE  \/ z = 1 /\ i = 1 /\ scl[i].label = "0" /\ scl[i].value = 0
             \/ \E b \in 1..7 : /\ i = z + b
                                /\ scl[i].label = labels[b]
                                /\ scl[i].value = values[b]
  <2>1. CASE z = 1 /\ i = 1
    BY <1>3, <2>1
  <2>2. CASE ~(z = 1 /\ i = 1)
    <3>1. PICK b \in 1..size : i = z + b
      <4>1. i - z \in 1..size /\ i = z + (i - z)
        BY <1>3, <2>2
      <4> QED
        BY <4>1
    <3>2. scl[i] = [label |-> labels[b], value |-> values[b]] /\ b \in 1..7
      BY <1>3, <3>1
    <3> QED
      BY <3>1, <3>2
  <2> QED
    BY <2>1, <2>2
<1>6. \A i \in DOMAIN scl : scl[i].value \in Nat
  BY <1>4, <1>5
<1>7. ASSUME NEW i \in DOMAIN scl, NEW j \in DOMAIN scl, i < j
      PROVE  scl[i].value < scl[j].value /\ scl[i].label # scl[j].label
  <2>1. PICK b \in 1..7 : /\ j = z + b
                          /\ scl[j].label = labels[b]
                          /\ scl[j].value = values[b]
    BY <1>3, <1>5, <1>7
  <2>2. CASE i = 1 /\ scl[i].label = "0" /\ scl[i].value = 0
    BY <1>4, <2>1, <2>2
  <2>3. CASE \E a \in 1..7 : /\ i = z + a
                             /\ scl[i].label = labels[a]
                             /\ scl[i].value = values[a]
    <3>1. PICK a \in 1..7 : /\ i = z + a
                            /\ scl[i].label = labels[a]
                            /\ scl[i].value = values[a]
      BY <2>3
    <3>2. a < b
      BY <1>3, <1>7, <2>1, <3>1
    <3> QED
      BY <1>4, <2>1, <3>1, <3>2
  <2> QED
    BY <1>5, <2>2, <2>3
<1>8. ASSUME NEW i \in DOMAIN scl, NEW j \in DOMAIN scl, i # j
      PROVE  scl[i].label # scl[j].label
  <2>1. i < j \/ j < i
    BY <1>3, <1>8
  <2> QED
    BY <1>7, <2>1
<1>9. Contains(scl, "0") <=> team.allowZero
  <2>1. CASE z = 1
    BY <1>3, <2>1 DEF Contains
  <2>2. CASE z = 0
    BY <1>3, <1>4, <1>5, <2>2 DEF Contains
  <2> QED
    BY <2>1, <2>2
<1>10. \E n \in Nat \ {0} : DOMAIN scl = 1..n
  <2>1. z + size \in Nat \ {0}
    OBVIOUS
  <2> QED
    BY <1>3, <2>1
<1>11. team.type = "tShirt" =>
         \A i \in DOMAIN scl :
           scl[i].label = "0" \/ scl[i].value = SizeValue[scl[i].label]
  BY <1>4, <1>5
<1> QED
  BY <1>2, <1>6, <1>7, <1>8, <1>9, <1>10, <1>11

\* Whatever the settings of the team, its scale is fit for voting: labels
\* name one point each, in ascending order, a size stands for its Fibonacci
\* number, and only a team that does not estimate has none.
THEOREM ScalesWellFormed == ScaleWellFormed
<1> SUFFICES ASSUME NEW team \in Settings
             PROVE  LET s == ScaleFor(team)
                    IN  /\ (s = << >>) <=> (team.type \in NotEstimating)
                        /\ \A i \in DOMAIN s : s[i].value \in Nat
                        /\ \A i, j \in DOMAIN s : i < j => s[i].value < s[j].value
                        /\ \A i \in DOMAIN s :
                             Contains(s, s[i].label) /\ Find(s, s[i].label) = s[i]
                        /\ (s # << >>) => (Contains(s, "0") <=> team.allowZero)
                        /\ team.type = "tShirt" =>
                             \A i \in DOMAIN s :
                               \/ s[i].label = "0"
                               \/ s[i].value = SizeValue[s[i].label]
  BY DEF ScaleWellFormed, NotEstimating
<1>1. PICK s : s = ScaleFor(team)
  OBVIOUS
<1>2. CASE team.type \in NotEstimating
  <2>1. Values(team) = << >>
    BY <1>2 DEF NotEstimating, Values
  <2>2. BasePoints(team) = << >> /\ ZeroPoint(team) = << >>
    BY <2>1 DEF BasePoints, ZeroPoint
  <2>3. s = << >>
    BY <1>1, <2>2 DEF ScaleFor
  <2>4. DOMAIN s = {} /\ team.type # "tShirt"
    <3>1. DOMAIN s = {}
      BY <2>3
    <3> QED
      BY <1>2, <3>1 DEF NotEstimating
  <2> QED
    BY <1>1, <1>2, <2>3, <2>4 DEF NotEstimating
<1>3. CASE team.type \notin NotEstimating
  <2>1. /\ \E n \in Nat \ {0} : DOMAIN s = 1..n
        /\ \A i \in DOMAIN s : s[i].value \in Nat
        /\ \A i, j \in DOMAIN s : i < j => s[i].value < s[j].value
        /\ \A i, j \in DOMAIN s : i # j => s[i].label # s[j].label
        /\ Contains(s, "0") <=> team.allowZero
        /\ team.type = "tShirt" =>
             \A i \in DOMAIN s :
               s[i].label = "0" \/ s[i].value = SizeValue[s[i].label]
    BY <1>1, <1>3, ScaleFacts
  <2>2. s # << >>
    BY <2>1
  <2>3. \A i \in DOMAIN s : Contains(s, s[i].label) /\ Find(s, s[i].label) = s[i]
    BY <2>1, FindPoint
  <2> QED
    BY <1>1, <1>3, <2>1, <2>2, <2>3
<1> QED
  BY <1>2, <1>3

\* Such scales are what the loops of Consensus ask for: distinct labels with
\* distinct natural values, so that a tie has one higher point.
THEOREM ScalesFitConsensus ==
  ASSUME NEW team \in Settings
  PROVE  LET value == ValueOf(ScaleFor(team))
         IN  /\ \A l \in DOMAIN value : value[l] \in Nat
             /\ \A l, m \in DOMAIN value : value[l] = value[m] => l = m
<1>1. PICK s, value : s = ScaleFor(team) /\ value = ValueOf(s)
  OBVIOUS
<1>2. /\ \A i \in DOMAIN s : s[i].value \in Nat
      /\ \A i, j \in DOMAIN s : i < j => s[i].value < s[j].value
      /\ \A i \in DOMAIN s : Find(s, s[i].label) = s[i]
  BY <1>1, ScalesWellFormed DEF ScaleWellFormed
<1>3. DOMAIN s \subseteq Nat
  <2>1. CASE team.type \in NotEstimating
    <3>1. s = << >>
      BY <1>1, <2>1, ScalesWellFormed DEF ScaleWellFormed, NotEstimating
    <3> QED
      BY <3>1
  <2>2. CASE team.type \notin NotEstimating
    BY <1>1, <2>2, ScaleFacts
  <2> QED
    BY <2>1, <2>2
<1>4. \A l \in DOMAIN value :
        \E i \in DOMAIN s : s[i].label = l /\ value[l] = s[i].value
  BY <1>1, <1>2 DEF ValueOf
<1>5. ASSUME NEW l \in DOMAIN value, NEW m \in DOMAIN value, value[l] = value[m]
      PROVE  l = m
  <2>1. PICK i, j \in DOMAIN s : /\ s[i].label = l /\ value[l] = s[i].value
                                 /\ s[j].label = m /\ value[m] = s[j].value
    BY <1>4
  <2>2. i \in Nat /\ j \in Nat /\ s[i].value = s[j].value /\ s[i].value \in Nat
    BY <1>2, <1>3, <1>5, <2>1
  <2>3. ~(i < j) /\ ~(j < i)
    BY <1>2, <2>1, <2>2
  <2>4. i = j
    BY <2>2, <2>3
  <2> QED
    BY <2>1, <2>4
<1> QED
  BY <1>1, <1>2, <1>4, <1>5
=============================================================================
