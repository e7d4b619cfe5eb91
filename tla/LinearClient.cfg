SPECIFICATION Spec
CONSTANTS
  Calls = {c1, c2}
  NoCall = NoCall
  Lifetimes = {1, 3}
  Buffer = 3
  Timeout = 1
  MaxTokens = 3
  MaxTime = 3
INVARIANTS
  TypeOK
  RetryIsFresh
  RejectedForCause
PROPERTIES
  CallsEnd
  ImplementsExchange
CHECK_DEADLOCK FALSE
