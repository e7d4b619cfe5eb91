SPECIFICATION Spec
CONSTANTS
  U1 = U1
  U2 = U2
  Users = {U1, U2}
  Issues = {i1}
  Cards = {c1}
  Points = {1, 2}
  Scales <- OneScale
  Hand1 = {1}
  Hand2 = {2}
  Hand <- MCHand
  Used = {"chipin", "vote", "reveal", "continue", "set", "cancel", "select"}
  Workers = {w1, w2}
  Faulty = {"store", "slack", "linear"}
  Hidden = Hidden
  NoPoint = NoPoint
  NoCard = NoCard
  NoSession = NoSession
  NoRequest = NoRequest
SYMMETRY WorkerSymmetry
INVARIANTS
  TypeOK
  FinalWasSaved
  OnlyOwnPicks
PROPERTY
  HiddenUntilReveal
