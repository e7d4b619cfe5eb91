SPECIFICATION SocketSpec
CONSTANTS
  U1 = U1
  U2 = U2
  Users = {U1, U2}
  Issues = {i1}
  Cards = {c1, c2}
  Points = {1, 2}
  Scales <- OneScale
  Hand1 = {2}
  Hand2 = {2}
  Hand <- MCHand
  Used = {"chipin", "vote", "reveal", "set", "cancel"}
  Workers = {w}
  MaxQueue = 1
  Faulty = {"store", "slack", "linear", "ack", "crash"}
  Hidden = Hidden
  NoPoint = NoPoint
  NoCard = NoCard
  NoSession = NoSession
  NoRequest = NoRequest
SYMMETRY Symmetry
INVARIANTS
  ClosedStaysClosed
  FinalMatchesLinear
  NoticeTruthful
PROPERTIES
  ClosingCardIsLast
  VotesOnlyByOwner
  SurvivesFaults
