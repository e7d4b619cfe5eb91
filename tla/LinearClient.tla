---------------------------- MODULE LinearClient ----------------------------
(***************************************************************************)
(* Client.do over a token source: a call gets an Authorization header,     *)
(* sends its request, and after a 401 invalidates the cached token and     *)
(* sends it once more.  Calls of different handler runs share one token    *)
(* source and interleave between their network exchanges.  Linear and the  *)
(* network are the environment: a token may be revoked, an answer lost, a  *)
(* request carried out after the client has given up waiting.              *)
(***************************************************************************)
EXTENDS TokenSource

CONSTANT MaxTime   \* bound on the clock

VARIABLES
  auth,        \* "oauth", or "key": a staticToken, which is no Invalidator
  revoked,     \* tokens Linear rejected because they were revoked
  pc,          \* pc[c]: where call c is
  header,      \* header[c]: the token it sends, NoToken for the key
  elapsed,     \* elapsed[c]: how long its HTTP exchange has taken
  mark,        \* mark[c]: tokens granted when it invalidated, NoMark before
  applied,     \* applied[c]: how often Linear did what c asks
  late         \* calls whose request is under way though they have ended

callVars == <<auth, revoked, pc, header, elapsed, mark, applied, late>>
vars     == <<now, lock, token, expiry, granted, born, life, callVars>>

NoMark == -1

Init ==
  /\ TokenInit
  /\ auth \in {"key", "oauth"} /\ revoked = {} /\ late = {}
  /\ pc = [c \in Calls |-> "idle"]
  /\ header = [c \in Calls |-> NoToken]
  /\ elapsed = [c \in Calls |-> 0]
  /\ mark = [c \in Calls |-> NoMark]
  /\ applied = [c \in Calls |-> 0]

Goto(c, at) == pc' = [pc EXCEPT ![c] = at]
From(c, at, to) == pc[c] = at /\ Goto(c, to)

\* doOnce has its header: the request goes out.
Send(c, n) ==
  /\ Goto(c, "send")
  /\ header' = [header EXCEPT ![c] = n]
  /\ elapsed' = [elapsed EXCEPT ![c] = 0]
  /\ UNCHANGED <<auth, revoked, mark, applied, late>>

\* FetchIssue or SetEstimate enters do, and do enters doOnce.
Call(c) ==
  /\ From(c, "idle", "auth")
  /\ UNCHANGED <<tokenVars, auth, revoked, header, elapsed, mark, applied, late>>

AuthStatic(c) ==
  pc[c] = "auth" /\ auth = "key" /\ Send(c, NoToken) /\ UNCHANGED tokenVars

AuthCached(c) == pc[c] = "auth" /\ auth = "oauth" /\ UseCached /\ Send(c, token)

AuthRefresh(c) ==
  /\ auth = "oauth" /\ From(c, "auth", "refresh") /\ StartRefresh(c)
  /\ elapsed' = [elapsed EXCEPT ![c] = 0]
  /\ UNCHANGED <<auth, revoked, header, mark, applied, late>>

\* The endpoint grants a token; its answer is on the way.
RefreshGranted(c) ==
  /\ From(c, "refresh", "granted") /\ Grant
  /\ header' = [header EXCEPT ![c] = granted']
  /\ UNCHANGED <<auth, revoked, elapsed, mark, applied, late>>

RefreshDone(c) ==
  pc[c] = "granted" /\ KeepToken(c, header[c]) /\ Send(c, header[c])

\* No answer, an error, or an answer without a token: do returns the error.
RefreshFails(c) ==
  /\ pc[c] \in {"refresh", "granted"} /\ Goto(c, "failed") /\ FailRefresh(c)
  /\ UNCHANGED <<auth, revoked, header, elapsed, mark, applied, late>>

\* Linear accepts a token until it expires or is revoked.  That a token was
\* revoked is told when it is first rejected for it; a personal key may be
\* good or bad.
Valid(n)   == n \notin revoked /\ now < born[n] + life[n]
Accepts(c) == auth = "oauth" => Valid(header[c])

Reject(c) ==
  /\ From(c, "send", "unauthorized")
  /\ revoked' = IF auth = "oauth" /\ Valid(header[c])
                THEN revoked \cup {header[c]} ELSE revoked
  /\ UNCHANGED <<tokenVars, auth, header, elapsed, mark, applied, late>>

Apply(c) ==
  /\ From(c, "send", "applied") /\ Accepts(c)
  /\ applied' = [applied EXCEPT ![c] = @ + 1]
  /\ UNCHANGED <<tokenVars, auth, revoked, header, elapsed, mark, late>>

Answer(c) ==
  /\ From(c, "applied", "ok")
  /\ UNCHANGED <<tokenVars, auth, revoked, header, elapsed, mark, applied, late>>

\* Mutant: a broken exchange is tried again from the start.
SendFailsRetried(c) ==
  /\ pc[c] \in {"send", "applied"} /\ Goto(c, "auth")
  /\ late' \in {late, IF pc[c] = "send" THEN late \cup {c} ELSE late}
  /\ UNCHANGED <<tokenVars, auth, revoked, header, elapsed, mark, applied>>

\* The exchange breaks off, or Linear answers with an error of its own: do
\* returns an error.  A request that had not been served may be served later.
SendFails(c) ==
  /\ pc[c] \in {"send", "applied"} /\ Goto(c, "failed")
  /\ late' \in {late, IF pc[c] = "send" THEN late \cup {c} ELSE late}
  /\ UNCHANGED <<tokenVars, auth, revoked, header, elapsed, mark, applied>>

\* A 401 is answered by one retry, if there is a cached token to forget.
Retry(c) ==
  /\ auth = "oauth" /\ mark[c] = NoMark
  /\ From(c, "unauthorized", "auth") /\ Invalidate
  /\ mark' = [mark EXCEPT ![c] = granted]
  /\ UNCHANGED <<auth, revoked, header, elapsed, applied, late>>

Unauthorized(c) ==
  /\ auth = "key" \/ mark[c] # NoMark
  /\ From(c, "unauthorized", "failed")
  /\ UNCHANGED <<tokenVars, auth, revoked, header, elapsed, mark, applied, late>>

\* A request the client no longer waits for is served.
Arrive(c) ==
  /\ c \in late /\ Accepts(c)
  /\ late' = late \ {c}
  /\ applied' = [applied EXCEPT ![c] = @ + 1]
  /\ UNCHANGED <<tokenVars, auth, revoked, pc, header, elapsed, mark>>

\* Time passes, but no exchange outlasts the timeout of its http.Client.
Exchanging(c) == pc[c] \in {"refresh", "granted", "send", "applied"}

Tick ==
  /\ now < MaxTime
  /\ \A c \in Calls : Exchanging(c) => elapsed[c] < Timeout
  /\ now' = now + 1
  /\ elapsed' = [c \in Calls |-> IF Exchanging(c) THEN elapsed[c] + 1 ELSE 0]
  /\ UNCHANGED <<lock, token, expiry, granted, born, life,
                 auth, revoked, pc, header, mark, applied, late>>

Step(c) ==
  \/ AuthStatic(c) \/ AuthCached(c)
  \/ AuthRefresh(c) \/ RefreshGranted(c) \/ RefreshDone(c) \/ RefreshFails(c)
  \/ Reject(c) \/ Apply(c) \/ Answer(c) \/ SendFails(c)
  \/ Retry(c) \/ Unauthorized(c)

Next ==
  \/ \E c \in Calls : Call(c) \/ Step(c) \/ Arrive(c)
  \/ Tick

\* Exchanges end by their timeout.  A goroutine that waits for the mutex gets
\* it: after a millisecond sync.Mutex hands itself to its first waiter.
Fairness == \A c \in Calls : SF_vars(Step(c))

Spec == Init /\ [][Next]_vars /\ Fairness

----------------------------------------------------------------------------
TypeOK ==
  /\ now \in Nat /\ lock \in Calls \cup {NoCall} /\ expiry \in Nat
  /\ granted \in 0..MaxTokens /\ token \in 0..granted
  /\ born \in [Tokens -> Nat] /\ life \in [Tokens -> Nat]
  /\ auth \in {"key", "oauth"} /\ revoked \subseteq 0..granted
  /\ late \subseteq Calls
  /\ pc \in [Calls -> {"idle", "auth", "refresh", "granted", "send",
                       "unauthorized", "applied", "ok", "failed"}]
  /\ header \in [Calls -> 0..granted]
  /\ \A c \in Calls : pc[c] = "granted" => header[c] # NoToken
  /\ elapsed \in [Calls -> Nat]
  /\ mark \in [Calls -> {NoMark} \cup 0..granted]
  /\ applied \in [Calls -> Nat]

\* The second request of a call carries a token that was granted after the
\* call invalidated the cache: no refresh that was under way, and no other
\* call's 401, can put an older token in its hands (Invalidate, AuthHeader).
RetryIsFresh ==
  \A c \in Calls :
    pc[c] \in {"send", "applied", "unauthorized"} => header[c] > mark[c]

\* With OAuth a request is only ever rejected for a token that was revoked, or
\* one whose lifetime does not outlast fetching it and sending one request:
\* no request that starts shortly before the expiry races it (refreshBuffer).
RejectedForCause ==
  \A c \in Calls :
    auth = "oauth" /\ pc[c] = "unauthorized" =>
      header[c] \in revoked \/ life[header[c]] <= 2 * Timeout

\* Every call comes to an end, also when the token endpoint keeps failing and
\* others hold the mutex (do, AuthHeader).
CallsEnd == \A c \in Calls : pc[c] # "idle" ~> pc[c] \in {"ok", "failed"}

\* A call has its effect at most once, and success means that it has (do).
Status == [c \in Calls |->
             IF pc[c] \in {"idle", "ok", "failed"} THEN pc[c] ELSE "open"]

Abstract == INSTANCE Exchange WITH call <- Status, effect <- applied

ImplementsExchange == Abstract!ExchangeSpec
----------------------------------------------------------------------------
(***************************************************************************)
(* The parts of the inductive invariant.                                   *)
(***************************************************************************)
\* The mutex is held by the call that asks the token endpoint, if any.
LockHeld ==
  \A c \in Calls : lock = c <=> pc[c] \in {"refresh", "granted"}

\* A call's request takes effect once, after which it is not sent again.
Once ==
  \A c \in Calls :
    /\ applied[c] \in {0, 1}
    /\ pc[c] \in {"applied", "ok"} => applied[c] = 1
    /\ pc[c] \notin {"applied", "ok", "failed"} => applied[c] = 0
    /\ c \in late => pc[c] = "failed" /\ applied[c] = 0

\* Every token that may yet be sent was granted after every Invalidate.
Fresh ==
  \A c \in Calls :
    /\ token # NoToken => token > mark[c]
    /\ \A d \in Calls : pc[d] = "granted" => header[d] > mark[c]
    /\ auth = "key" => mark[c] = NoMark /\ pc[c] \notin {"refresh", "granted"}

\* The client's idea of an expiry is late by the time of one exchange, and a
\* token is sent while it is fresh, or early enough by the client's idea.
SentInTime(c) ==
  LET start == now - elapsed[c]  n == header[c] IN
    \/ start + Buffer <= born[n] + life[n] + Timeout
    \/ start <= born[n] + Timeout

TimedCall(c) ==
  /\ Exchanging(c) => elapsed[c] <= Timeout
  /\ pc[c] = "granted" => now <= born[header[c]] + elapsed[c]
  /\ pc[c] = "send" /\ auth = "oauth" => header[c] # NoToken /\ SentInTime(c)
  /\ pc[c] = "unauthorized" /\ auth = "oauth" =>
       /\ header[c] # NoToken
       /\ header[c] \in revoked \/ life[header[c]] <= 2 * Timeout

Timed ==
  /\ token # NoToken => expiry <= born[token] + life[token] + Timeout
  /\ \A c \in Calls : TimedCall(c)
=============================================================================
