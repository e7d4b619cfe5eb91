SPECIFICATION SocketSpec
CONSTANTS
  U1 = U1
  U2 = U2
  Users = {U1, U2}
  Issues = {i1}
  Cards = {c1}
  Points = {1, 2}
  Scales <- OneScale
  Hand1 = {1, 2}
  Hand2 = {2}
  Hand <- MCHand
  Used = {"chipin", "vote", "retract", "reveal", "continue", "set", "cancel", "select"}
  Workers = {w}
  MaxQueue = 2
  Faulty = {"crash"}
  Hidden = Hidden
  NoPoint = NoPoint
  NoCard = NoCard
  NoSession = NoSession
  NoRequest = NoRequest
INVARIANT
  CancelHonest
