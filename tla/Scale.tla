------------------------------- MODULE Scale -------------------------------
(***************************************************************************)
(* The vote scale of package poker: how a Linear team's estimation         *)
(* settings become an ordered list of points, and how a label is looked up *)
(* on it.  A point is a label, which voters see and buttons carry, and a   *)
(* value, which is written to Linear.  Every value is a whole number, so   *)
(* the float64 of the code is a natural number here.                       *)
(***************************************************************************)
EXTENDS Integers, Sequences

\* The settings of a Linear team, as FetchIssue returns them.
EstimationTypes ==
  {"exponential", "fibonacci", "linear", "tShirt", "notUsed", "", "other"}

Settings ==
  [type : EstimationTypes, extended : BOOLEAN, allowZero : BOOLEAN]

\* A slice, with more appended for a team that uses the extended scale.
Extended(team, base, more) == IF team.extended THEN base \o more ELSE base

\* The values but the optional zero, in order; none when estimation is off or
\* its type is one the code does not know (the error returns of the code).
Values(team) ==
  CASE team.type = "exponential" -> Extended(team, <<1, 2, 4, 8, 16>>, <<32, 64>>)
    [] team.type \in {"fibonacci", "tShirt"} ->
         Extended(team, <<1, 2, 3, 5, 8>>, <<13, 21>>)
    [] team.type = "linear" -> Extended(team, <<1, 2, 3, 4, 5>>, <<6, 7>>)
    [] OTHER -> << >>

\* Mutant: the extension of the sizes is put before them.
SizesPrepended(team) ==
  IF team.extended THEN <<"XXL", "XXXL", "XS", "S", "M", "L", "XL">>
                   ELSE <<"XS", "S", "M", "L", "XL">>

\* The labels of a T-shirt scale: a slice of its own, beside the values.
Sizes(team) == Extended(team, <<"XS", "S", "M", "L", "XL">>, <<"XXL", "XXXL">>)

\* FormatFloat of a value of some scale.
Numeral(value) ==
  CASE value = 1 -> "1" [] value = 2 -> "2" [] value = 3 -> "3"
    [] value = 4 -> "4" [] value = 5 -> "5" [] value = 6 -> "6"
    [] value = 7 -> "7" [] value = 8 -> "8" [] value = 13 -> "13"
    [] value = 16 -> "16" [] value = 21 -> "21" [] value = 32 -> "32"
    [] value = 64 -> "64"

\* The points of a team's scale but the optional zero.
BasePoints(team) ==
  [i \in DOMAIN Values(team) |->
     [label |-> IF team.type = "tShirt" THEN Sizes(team)[i]
                ELSE Numeral(Values(team)[i]),
      value |-> Values(team)[i]]]

ZeroPoint(team) ==
  IF team.allowZero /\ Values(team) # << >>
  THEN << [label |-> "0", value |-> 0] >> ELSE << >>

\* ScaleFor: the scale of a team.
ScaleFor(team) == ZeroPoint(team) \o BasePoints(team)

\* Labels: the labels in scale order, one vote button and one option each.
Labels(scale) == [i \in DOMAIN scale |-> scale[i].label]

\* Contains: a label is a selectable point of the scale.
Contains(scale, label) == \E i \in DOMAIN scale : scale[i].label = label

\* Find: the first point that carries the label.
Find(scale, label) ==
  scale[CHOOSE i \in DOMAIN scale :
          /\ scale[i].label = label
          /\ \A j \in DOMAIN scale : scale[j].label = label => i <= j]

\* A scale as the rest of the project sees it: the value of each label.
ValueOf(scale) ==
  [label \in {scale[i].label : i \in DOMAIN scale} |-> Find(scale, label).value]

----------------------------------------------------------------------------
\* "T-shirt sizes map to the Fibonacci numbers."
SizeValue ==
  [XS |-> 1, S |-> 2, M |-> 3, L |-> 5, XL |-> 8, XXL |-> 13, XXXL |-> 21]

\* Every scale ScaleFor builds is one on which a label names one point and a
\* tie has one higher point: labels are unique, values are whole and strictly
\* increasing, and looking a label up gives the point it came from.  Neither
\* the extension nor the zero shifts a size to the value of another one.  A
\* team with estimation off gets no scale.
ScaleWellFormed ==
  \A team \in Settings :
    LET s == ScaleFor(team)
    IN  /\ (s = << >>) <=> (team.type \in {"notUsed", "", "other"})
        /\ \A i \in DOMAIN s : s[i].value \in Nat
        /\ \A i, j \in DOMAIN s : i < j => s[i].value < s[j].value
        /\ \A i \in DOMAIN s :
             Contains(s, s[i].label) /\ Find(s, s[i].label) = s[i]
        /\ (s # << >>) => (Contains(s, "0") <=> team.allowZero)
        /\ team.type = "tShirt" =>
             \A i \in DOMAIN s :
               s[i].label = "0" \/ s[i].value = SizeValue[s[i].label]
=============================================================================
