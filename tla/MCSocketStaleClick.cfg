SPECIFICATION SocketSpec
CONSTANTS
  U1 = U1
  U2 = U2
  Users = {U1}
  Issues = {i1}
  Cards = {c1, c2}
  Points = {1, 2}
  Scales <- TwoScales
  Hand1 = {2}
  Hand2 = {}
  Hand <- MCHand
  Used = {"chipin", "vote", "cancel"}
  Workers = {w}
  MaxQueue = 1
  Faulty = {"slack"}
  Hidden = Hidden
  NoPoint = NoPoint
  NoCard = NoCard
  NoSession = NoSession
  NoRequest = NoRequest
INVARIANT
  StaleClickIgnored
