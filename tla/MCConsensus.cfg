SPECIFICATION Spec
CONSTANTS
  V1 = V1
  V2 = V2
  V3 = V3
  Voters <- MCVoters
  LabelSet <- MCLabels
  Scales <- MCScales
  NoVote = NoVote
  NoLabel = NoLabel
INVARIANTS
  TypeOK
  ScaleWellFormed
  ConsensusIsMode
  ConsensusIsHandlers
