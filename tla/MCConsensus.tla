---------------------------- MODULE MCConsensus ----------------------------
(***************************************************************************)
(* Consensus on the scales ScaleFor builds: three voters, and every label  *)
(* of every scale of one of the chosen teams plus one on none of them.     *)
(***************************************************************************)
EXTENDS Consensus, Scale

CONSTANTS V1, V2, V3
MCVoters == {V1, V2, V3}

\* The teams whose scales the loops run on: a T-shirt scale, a numeric one
\* with a zero.  The extended scales differ from these in length only.
Teams == [type : {"tShirt"}, extended : {FALSE}, allowZero : {FALSE}]
           \cup [type : {"exponential"}, extended : {FALSE}, allowZero : {TRUE}]

MCScales == {ValueOf(ScaleFor(team)) : team \in Teams}
MCLabels == (UNION {DOMAIN s : s \in MCScales}) \cup {"?"}
=============================================================================
