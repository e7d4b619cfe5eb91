SPECIFICATION SocketSpec
CONSTANTS
  U1 = U1
  U2 = U2
  Users = {U1, U2}
  Issues = {i1, i2}
  Cards = {c1, c2}
  Points = {1, 2}
  Scales <- TwoScales
  Hand1 = {1, 2}
  Hand2 = {}
  Hand <- MCHand
  Used = {"chipin", "vote", "retract", "reveal", "continue", "set", "cancel"}
  Workers = {w}
  MaxQueue = 1
  Faulty = {"ack"}
  Hidden = Hidden
  NoPoint = NoPoint
  NoCard = NoCard
  NoSession = NoSession
  NoRequest = NoRequest
INVARIANTS
  BoardMatchesStore
  CancelHonest
PROPERTIES
  CancelEnds
  SetEnds
  ImplementsRound
  SetTakesShown
