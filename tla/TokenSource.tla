----------------------------- MODULE TokenSource -----------------------------
(***************************************************************************)
(* ClientCredentialsTokenSource: one access token, cached under a mutex    *)
(* and fetched again when it is missing or about to expire.  The mutex is  *)
(* held while the token endpoint is asked.  Tokens are numbered in the     *)
(* order Linear grants them.                                               *)
(*                                                                         *)
(* The operators are the critical sections of the token source, for the    *)
(* call c that runs them; LinearClient says when it does.                  *)
(***************************************************************************)
EXTENDS Integers

CONSTANTS
  Calls,       \* calls of Client.do
  NoCall,      \* nobody holds the mutex
  Lifetimes,   \* the lifetimes Linear may give a token
  Buffer,      \* refreshBuffer
  Timeout,     \* the longest an HTTP exchange takes
  MaxTokens    \* bound on the tokens Linear grants

ASSUME NoCallAssumption == NoCall \notin Calls
ASSUME LifetimeAssumption == Lifetimes \subseteq Nat
ASSUME MaxTokensAssumption == MaxTokens \in Nat
\* Five minutes against exchanges that end after fifteen seconds.
ASSUME BufferAssumption ==
  Buffer \in Nat /\ Timeout \in Nat /\ 2 * Timeout < Buffer

VARIABLES
  now,         \* the time
  lock,        \* s.mu: the call that holds it
  token,       \* s.token: the cached token
  expiry,      \* s.expiry, by the clock of the client
  granted,     \* how many tokens Linear has granted
  born,        \* born[n]: when Linear granted token n
  life         \* life[n]: the lifetime it gave it

tokenVars == <<now, lock, token, expiry, granted, born, life>>

Tokens  == 1..MaxTokens
NoToken == 0

TokenInit ==
  /\ now = 0 /\ lock = NoCall /\ token = NoToken /\ expiry = 0 /\ granted = 0
  /\ born = [n \in Tokens |-> 0] /\ life = [n \in Tokens |-> 0]

\* Mutant: no buffer.
UsableToTheLast == token # NoToken /\ now <= expiry

\* There is a cached token and its expiry is further away than the buffer.
Usable == token # NoToken /\ now + Buffer <= expiry

\* AuthHeader answers from the cache.
UseCached == lock = NoCall /\ Usable /\ UNCHANGED tokenVars

\* AuthHeader has to ask the endpoint, and keeps the mutex meanwhile.
StartRefresh(c) ==
  /\ lock = NoCall /\ ~Usable
  /\ lock' = c
  /\ UNCHANGED <<now, token, expiry, granted, born, life>>

\* Linear's token endpoint grants a token.
Grant ==
  /\ granted < MaxTokens
  /\ granted' = granted + 1
  /\ born' = [born EXCEPT ![granted'] = now]
  /\ \E l \in Lifetimes : life' = [life EXCEPT ![granted'] = l]
  /\ UNCHANGED <<now, lock, token, expiry>>

\* Mutant: the buffer is taken off twice, here and in AuthHeader.
KeepTokenShortened(c, n) ==
  /\ lock = c /\ lock' = NoCall
  /\ token' = n /\ expiry' = now + life[n] - Buffer
  /\ UNCHANGED <<now, granted, born, life>>

\* refresh keeps token n, whose lifetime it counts from now on.
KeepToken(c, n) ==
  /\ lock = c /\ lock' = NoCall
  /\ token' = n /\ expiry' = now + life[n]
  /\ UNCHANGED <<now, granted, born, life>>

\* Mutant: an early return without the unlock.
FailRefreshLocked(c) == lock = c /\ UNCHANGED tokenVars

\* refresh fails: what was cached before stays.
FailRefresh(c) ==
  /\ lock = c /\ lock' = NoCall
  /\ UNCHANGED <<now, token, expiry, granted, born, life>>

\* Mutant: Invalidate does not wait for the mutex.
InvalidateUnlocked ==
  token' = NoToken /\ UNCHANGED <<now, lock, expiry, granted, born, life>>

\* Whatever is cached is forgotten, be it the token that was rejected or not.
Invalidate ==
  /\ lock = NoCall
  /\ token' = NoToken
  /\ UNCHANGED <<now, lock, expiry, granted, born, life>>
=============================================================================
