SPECIFICATION Spec
CONSTANTS
  TextColumns = {"issue_url", "message_link", "requested_by"}
  Requests = {r1, r2}
INVARIANTS
  TypeOK
  ServesReadable
  ServesConfigured
  FailsForCause
  CleanExit
PROPERTIES
  StartEnds
  SignalEnds
