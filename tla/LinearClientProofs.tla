------------------------- MODULE LinearClientProofs -------------------------
(***************************************************************************)
(* Proofs about LinearClient, for any calls, lifetimes and numbers of      *)
(* tokens.  Four invariants are proved one on top of the other: the types, *)
(* the mutex with the single effect, the age of the tokens, and the times. *)
(***************************************************************************)
EXTENDS LinearClient, TLAPS

\* The actions of Next, for a proof by cases.
LEMMA NextCases ==
  ASSUME Next
  PROVE  \/ \E c \in Calls :
              \/ Call(c) \/ AuthStatic(c) \/ AuthCached(c) \/ AuthRefresh(c)
              \/ RefreshGranted(c) \/ RefreshDone(c) \/ RefreshFails(c)
              \/ Reject(c) \/ Apply(c) \/ Answer(c) \/ SendFails(c)
              \/ Retry(c) \/ Unauthorized(c) \/ Arrive(c)
         \/ Tick
  BY DEF Next, Step

LEMMA ConstantsTyped ==
  /\ NoCall \notin Calls /\ Lifetimes \subseteq Nat /\ MaxTokens \in Nat
  /\ Buffer \in Nat /\ Timeout \in Nat /\ 2 * Timeout < Buffer
  BY NoCallAssumption, LifetimeAssumption, MaxTokensAssumption, BufferAssumption

\* Every variable keeps its type (LinearClient).
LEMMA TypeStep ==
  ASSUME TypeOK, [Next]_vars
  PROVE  TypeOK'
<1> USE ConstantsTyped DEF TypeOK, NoToken, NoMark, Tokens
<1>1. ASSUME NEW c \in Calls, Call(c) PROVE TypeOK'
  BY <1>1 DEF Call, From, Goto, tokenVars
<1>2. ASSUME NEW c \in Calls, AuthStatic(c) PROVE TypeOK'
  BY <1>2 DEF AuthStatic, Send, Goto, tokenVars
<1>3. ASSUME NEW c \in Calls, AuthCached(c) PROVE TypeOK'
  BY <1>3 DEF AuthCached, UseCached, Send, Goto, tokenVars
<1>4. ASSUME NEW c \in Calls, AuthRefresh(c) PROVE TypeOK'
  BY <1>4 DEF AuthRefresh, StartRefresh, From, Goto
<1>5. ASSUME NEW c \in Calls, RefreshGranted(c) PROVE TypeOK'
  <2>1. PICK l \in Lifetimes : life' = [life EXCEPT ![granted'] = l]
    BY <1>5 DEF RefreshGranted, Grant
  <2>2. granted' = granted + 1 /\ granted' \in Tokens /\ 0..granted \subseteq 0..granted'
    BY <1>5 DEF RefreshGranted, Grant
  <2>3. born' \in [Tokens -> Nat] /\ life' \in [Tokens -> Nat]
    BY <1>5, <2>1, <2>2 DEF RefreshGranted, Grant
  <2>4. /\ header' \in [Calls -> 0..granted']
        /\ mark' \in [Calls -> {NoMark} \cup 0..granted']
        /\ token' \in 0..granted' /\ revoked' \subseteq 0..granted'
    BY <1>5, <2>2 DEF RefreshGranted, Grant
  <2>5. /\ pc' = [pc EXCEPT ![c] = "granted"] /\ header' = [header EXCEPT ![c] = granted']
        /\ UNCHANGED <<now, lock, expiry, auth, elapsed, applied, late>>
    BY <1>5 DEF RefreshGranted, Grant, From, Goto
  <2>6. ASSUME NEW d \in Calls, pc'[d] = "granted" PROVE header'[d] # NoToken
    BY <2>2, <2>5, <2>6
  <2>7. pc' \in [Calls -> {"idle", "auth", "refresh", "granted", "send",
                          "unauthorized", "applied", "ok", "failed"}]
    BY <2>5
  <2>8. granted' \in 0..MaxTokens
    BY <2>2
  <2> QED
    BY <2>3, <2>4, <2>5, <2>6, <2>7, <2>8
<1>6. ASSUME NEW c \in Calls, RefreshDone(c) PROVE TypeOK'
  <2>1. header[c] \in Tokens /\ life[header[c]] \in Nat
    BY <1>6 DEF RefreshDone
  <2>2. /\ expiry' \in Nat /\ token' \in 0..granted' /\ lock' = NoCall
        /\ UNCHANGED <<now, granted, born, life, auth, revoked, mark, applied, late>>
    BY <1>6, <2>1 DEF RefreshDone, KeepToken, Send
  <2>3. /\ pc' = [pc EXCEPT ![c] = "send"] /\ header' = header
        /\ elapsed' = [elapsed EXCEPT ![c] = 0]
    BY <1>6 DEF RefreshDone, Send, Goto
  <2> QED
    BY <2>2, <2>3
<1>7. ASSUME NEW c \in Calls, RefreshFails(c) PROVE TypeOK'
  BY <1>7 DEF RefreshFails, FailRefresh, Goto
<1>8. ASSUME NEW c \in Calls, Reject(c) PROVE TypeOK'
  <2>1. revoked' \subseteq 0..granted
    BY <1>8 DEF Reject
  <2> QED
    BY <1>8, <2>1 DEF Reject, From, Goto, tokenVars
<1>9. ASSUME NEW c \in Calls, Apply(c) PROVE TypeOK'
  BY <1>9 DEF Apply, From, Goto, tokenVars
<1>10. ASSUME NEW c \in Calls, Answer(c) PROVE TypeOK'
  BY <1>10 DEF Answer, From, Goto, tokenVars
<1>11. ASSUME NEW c \in Calls, SendFails(c) PROVE TypeOK'
  BY <1>11 DEF SendFails, Goto, tokenVars
<1>12. ASSUME NEW c \in Calls, Retry(c) PROVE TypeOK'
  BY <1>12 DEF Retry, Invalidate, From, Goto
<1>13. ASSUME NEW c \in Calls, Unauthorized(c) PROVE TypeOK'
  BY <1>13 DEF Unauthorized, From, Goto, tokenVars
<1>14. ASSUME NEW c \in Calls, Arrive(c) PROVE TypeOK'
  BY <1>14 DEF Arrive, tokenVars
<1>15. CASE Tick
  BY <1>15 DEF Tick
<1>16. CASE UNCHANGED vars
  BY <1>16 DEF vars, callVars
<1> QED
  BY <1>1, <1>2, <1>3, <1>4, <1>5, <1>6, <1>7, <1>8, <1>9, <1>10, <1>11, <1>12,
     <1>13, <1>14, <1>15, <1>16, NextCases

\* Every variable of the client and of the token source keeps its type.
THEOREM ClientTypeOK == Spec => []TypeOK
<1>1. Init => TypeOK
  BY ConstantsTyped DEF Init, TokenInit, TypeOK, Tokens, NoToken, NoMark
<1>2. TypeOK /\ [Next]_vars => TypeOK'
  BY TypeStep
<1> QED
  BY <1>1, <1>2, PTL DEF Spec

\* Only the call that took the mutex asks the token endpoint.
LEMMA LockStep ==
  ASSUME TypeOK, LockHeld, [Next]_vars
  PROVE  LockHeld'
<1> USE ConstantsTyped DEF TypeOK, LockHeld, NoToken, NoMark, Tokens
<1>1. ASSUME NEW c \in Calls, Call(c) PROVE LockHeld'
  BY <1>1 DEF Call, From, Goto, tokenVars
<1>2. ASSUME NEW c \in Calls, AuthStatic(c) PROVE LockHeld'
  BY <1>2 DEF AuthStatic, Send, Goto, tokenVars
<1>3. ASSUME NEW c \in Calls, AuthCached(c) PROVE LockHeld'
  BY <1>3 DEF AuthCached, UseCached, Send, Goto, tokenVars
<1>4. ASSUME NEW c \in Calls, AuthRefresh(c) PROVE LockHeld'
  BY <1>4 DEF AuthRefresh, StartRefresh, From, Goto
<1>5. ASSUME NEW c \in Calls, RefreshGranted(c) PROVE LockHeld'
  BY <1>5 DEF RefreshGranted, Grant, From, Goto
<1>6. ASSUME NEW c \in Calls, RefreshDone(c) PROVE LockHeld'
  BY <1>6 DEF RefreshDone, KeepToken, Send, Goto
<1>7. ASSUME NEW c \in Calls, RefreshFails(c) PROVE LockHeld'
  BY <1>7 DEF RefreshFails, FailRefresh, Goto
<1>8. ASSUME NEW c \in Calls, Reject(c) PROVE LockHeld'
  BY <1>8 DEF Reject, Valid, From, Goto, tokenVars
<1>9. ASSUME NEW c \in Calls, Apply(c) PROVE LockHeld'
  BY <1>9 DEF Apply, From, Goto, tokenVars
<1>10. ASSUME NEW c \in Calls, Answer(c) PROVE LockHeld'
  BY <1>10 DEF Answer, From, Goto, tokenVars
<1>11. ASSUME NEW c \in Calls, SendFails(c) PROVE LockHeld'
  BY <1>11 DEF SendFails, Goto, tokenVars
<1>12. ASSUME NEW c \in Calls, Retry(c) PROVE LockHeld'
  BY <1>12 DEF Retry, Invalidate, From, Goto
<1>13. ASSUME NEW c \in Calls, Unauthorized(c) PROVE LockHeld'
  BY <1>13 DEF Unauthorized, From, Goto, tokenVars
<1>14. ASSUME NEW c \in Calls, Arrive(c) PROVE LockHeld'
  BY <1>14 DEF Arrive, tokenVars
<1>15. CASE Tick
  BY <1>15 DEF Tick
<1>16. CASE UNCHANGED vars
  BY <1>16 DEF vars, callVars
<1> QED
  BY <1>1, <1>2, <1>3, <1>4, <1>5, <1>6, <1>7, <1>8,
     <1>9, <1>10, <1>11, <1>12, <1>13, <1>14, <1>15, <1>16, NextCases

\* A request that took effect is not sent again.
LEMMA OnceStep ==
  ASSUME TypeOK, Once, [Next]_vars
  PROVE  Once'
<1> USE ConstantsTyped DEF TypeOK, Once, NoToken, NoMark, Tokens
<1>1. ASSUME NEW c \in Calls, Call(c) PROVE Once'
  BY <1>1 DEF Call, From, Goto, tokenVars
<1>2. ASSUME NEW c \in Calls, AuthStatic(c) PROVE Once'
  BY <1>2 DEF AuthStatic, Send, Goto, tokenVars
<1>3. ASSUME NEW c \in Calls, AuthCached(c) PROVE Once'
  BY <1>3 DEF AuthCached, UseCached, Send, Goto, tokenVars
<1>4. ASSUME NEW c \in Calls, AuthRefresh(c) PROVE Once'
  BY <1>4 DEF AuthRefresh, StartRefresh, From, Goto
<1>5. ASSUME NEW c \in Calls, RefreshGranted(c) PROVE Once'
  BY <1>5 DEF RefreshGranted, Grant, From, Goto
<1>6. ASSUME NEW c \in Calls, RefreshDone(c) PROVE Once'
  BY <1>6 DEF RefreshDone, KeepToken, Send, Goto
<1>7. ASSUME NEW c \in Calls, RefreshFails(c) PROVE Once'
  BY <1>7 DEF RefreshFails, FailRefresh, Goto
<1>8. ASSUME NEW c \in Calls, Reject(c) PROVE Once'
  BY <1>8 DEF Reject, Valid, From, Goto, tokenVars
<1>9. ASSUME NEW c \in Calls, Apply(c) PROVE Once'
  BY <1>9 DEF Apply, From, Goto, tokenVars
<1>10. ASSUME NEW c \in Calls, Answer(c) PROVE Once'
  BY <1>10 DEF Answer, From, Goto, tokenVars
<1>11. ASSUME NEW c \in Calls, SendFails(c) PROVE Once'
  BY <1>11 DEF SendFails, Goto, tokenVars
<1>12. ASSUME NEW c \in Calls, Retry(c) PROVE Once'
  BY <1>12 DEF Retry, Invalidate, From, Goto
<1>13. ASSUME NEW c \in Calls, Unauthorized(c) PROVE Once'
  BY <1>13 DEF Unauthorized, From, Goto, tokenVars
<1>14. ASSUME NEW c \in Calls, Arrive(c) PROVE Once'
  BY <1>14 DEF Arrive, tokenVars
<1>15. CASE Tick
  BY <1>15 DEF Tick
<1>16. CASE UNCHANGED vars
  BY <1>16 DEF vars, callVars
<1> QED
  BY <1>1, <1>2, <1>3, <1>4, <1>5, <1>6, <1>7, <1>8,
     <1>9, <1>10, <1>11, <1>12, <1>13, <1>14, <1>15, <1>16, NextCases

\* No token from before an Invalidate comes back.
LEMMA FreshStep ==
  ASSUME TypeOK, LockHeld, Fresh, RetryIsFresh, [Next]_vars
  PROVE  (Fresh /\ RetryIsFresh)'
<1> USE ConstantsTyped DEF TypeOK, LockHeld, Fresh, RetryIsFresh, NoToken, NoMark, Tokens
<1>1. ASSUME NEW c \in Calls, Call(c) PROVE (Fresh /\ RetryIsFresh)'
  BY <1>1 DEF Call, From, Goto, tokenVars
<1>2. ASSUME NEW c \in Calls, AuthStatic(c) PROVE (Fresh /\ RetryIsFresh)'
  BY <1>2 DEF AuthStatic, Send, Goto, tokenVars
<1>3. ASSUME NEW c \in Calls, AuthCached(c) PROVE (Fresh /\ RetryIsFresh)'
  <2>1. /\ token # NoToken /\ UNCHANGED <<token, mark, auth>>
        /\ pc' = [pc EXCEPT ![c] = "send"] /\ header' = [header EXCEPT ![c] = token]
    BY <1>3 DEF AuthCached, UseCached, Usable, Send, Goto, tokenVars
  <2>2. ASSUME NEW d \in Calls, pc'[d] \in {"send", "applied", "unauthorized"}
        PROVE  header'[d] > mark'[d]
    BY <2>1, <2>2
  <2>3. ASSUME NEW d \in Calls, pc'[d] = "granted"
        PROVE  pc[d] = "granted" /\ header'[d] = header[d]
    BY <2>1, <2>3
  <2>4. ASSUME NEW d \in Calls, auth' = "key" PROVE pc'[d] \notin {"refresh", "granted"}
    BY <2>1, <2>4
  <2> QED
    BY <2>1, <2>2, <2>3, <2>4
<1>4. ASSUME NEW c \in Calls, AuthRefresh(c) PROVE (Fresh /\ RetryIsFresh)'
  BY <1>4 DEF AuthRefresh, StartRefresh, From, Goto
<1>5. ASSUME NEW c \in Calls, RefreshGranted(c) PROVE (Fresh /\ RetryIsFresh)'
  <2>1. /\ granted' = granted + 1 /\ UNCHANGED <<token, mark, auth>> /\ auth = "oauth"
        /\ pc' = [pc EXCEPT ![c] = "granted"] /\ header' = [header EXCEPT ![c] = granted']
    BY <1>5 DEF RefreshGranted, Grant, From, Goto
  <2>2. ASSUME NEW d \in Calls, NEW e \in Calls, pc'[e] = "granted"
        PROVE  header'[e] > mark'[d]
    <3>1. mark'[d] = mark[d] /\ mark[d] \in {NoMark} \cup 0..granted
      BY <2>1
    <3>2. CASE e = c
      <4>1. header'[e] = granted + 1
        BY <2>1, <3>2
      <4> QED
        BY <3>1, <4>1
    <3>3. CASE e # c
      <4>1. header'[e] = header[e] /\ pc[e] = "granted"
        BY <2>1, <2>2, <3>3
      <4> QED
        BY <3>1, <4>1
    <3> QED
      BY <3>2, <3>3
  <2>3. ASSUME NEW d \in Calls, pc'[d] \in {"send", "applied", "unauthorized"}
        PROVE  header'[d] > mark'[d]
    BY <2>1, <2>3
  <2> QED
    BY <2>1, <2>2, <2>3
<1>6. ASSUME NEW c \in Calls, RefreshDone(c) PROVE (Fresh /\ RetryIsFresh)'
  BY <1>6 DEF RefreshDone, KeepToken, Send, Goto
<1>7. ASSUME NEW c \in Calls, RefreshFails(c) PROVE (Fresh /\ RetryIsFresh)'
  BY <1>7 DEF RefreshFails, FailRefresh, Goto
<1>8. ASSUME NEW c \in Calls, Reject(c) PROVE (Fresh /\ RetryIsFresh)'
  BY <1>8 DEF Reject, Valid, From, Goto, tokenVars
<1>9. ASSUME NEW c \in Calls, Apply(c) PROVE (Fresh /\ RetryIsFresh)'
  BY <1>9 DEF Apply, From, Goto, tokenVars
<1>10. ASSUME NEW c \in Calls, Answer(c) PROVE (Fresh /\ RetryIsFresh)'
  BY <1>10 DEF Answer, From, Goto, tokenVars
<1>11. ASSUME NEW c \in Calls, SendFails(c) PROVE (Fresh /\ RetryIsFresh)'
  BY <1>11 DEF SendFails, Goto, tokenVars
<1>12. ASSUME NEW c \in Calls, Retry(c) PROVE (Fresh /\ RetryIsFresh)'
  BY <1>12 DEF Retry, Invalidate, From, Goto
<1>13. ASSUME NEW c \in Calls, Unauthorized(c) PROVE (Fresh /\ RetryIsFresh)'
  BY <1>13 DEF Unauthorized, From, Goto, tokenVars
<1>14. ASSUME NEW c \in Calls, Arrive(c) PROVE (Fresh /\ RetryIsFresh)'
  BY <1>14 DEF Arrive, tokenVars
<1>15. CASE Tick
  BY <1>15 DEF Tick
<1>16. CASE UNCHANGED vars
  BY <1>16 DEF vars, callVars
<1> QED
  BY <1>1, <1>2, <1>3, <1>4, <1>5, <1>6, <1>7, <1>8,
     <1>9, <1>10, <1>11, <1>12, <1>13, <1>14, <1>15, <1>16, NextCases

\* Types for the arithmetic on times.
LEMMA TimesTyped ==
  ASSUME TypeOK
  PROVE  /\ now \in Nat /\ expiry \in Nat /\ Timeout \in Nat /\ Buffer \in Nat
         /\ 2 * Timeout < Buffer /\ Tokens \subseteq Nat
         /\ born \in [Tokens -> Nat] /\ life \in [Tokens -> Nat]
         /\ elapsed \in [Calls -> Nat]
         /\ token # NoToken => token \in Tokens
         /\ \A c \in Calls : header[c] # NoToken => header[c] \in Tokens
         /\ \A c \in Calls : pc[c] = "granted" => header[c] \in Tokens
  BY ConstantsTyped DEF TypeOK, Tokens, NoToken

\* What a step that leaves tokens and times alone does to the others' calls.
LEMMA OthersTimed ==
  ASSUME TypeOK, Timed, NEW d \in Calls,
         UNCHANGED <<now, token, expiry, born, life, auth>>, revoked \subseteq revoked',
         pc'[d] = pc[d], header'[d] = header[d], elapsed'[d] = elapsed[d]
  PROVE  TimedCall(d)'
  BY DEF Timed, TimedCall, SentInTime, Exchanging

\* Tokens are sent before they expire.
LEMMA TimedStep ==
  ASSUME TypeOK, Timed, [Next]_vars
  PROVE  Timed'
<1> USE ConstantsTyped, TimesTyped
<1> USE DEF TimedCall, SentInTime, Exchanging, NoToken
<1>1. ASSUME NEW c \in Calls, Call(c) PROVE Timed'
  BY <1>1 DEF TypeOK, Timed, Call, From, Goto, tokenVars
<1>2. ASSUME NEW c \in Calls, AuthStatic(c) PROVE Timed'
  BY <1>2 DEF TypeOK, Timed, AuthStatic, Send, Goto, tokenVars
<1>3. ASSUME NEW c \in Calls, AuthRefresh(c) PROVE Timed'
  BY <1>3 DEF TypeOK, Timed, AuthRefresh, StartRefresh, From, Goto
<1>4. ASSUME NEW c \in Calls, RefreshFails(c) PROVE Timed'
  BY <1>4 DEF TypeOK, Timed, RefreshFails, FailRefresh, Goto
<1>5. ASSUME NEW c \in Calls, Apply(c) PROVE Timed'
  BY <1>5 DEF TypeOK, Timed, Apply, From, Goto, tokenVars
<1>6. ASSUME NEW c \in Calls, Answer(c) PROVE Timed'
  BY <1>6 DEF TypeOK, Timed, Answer, From, Goto, tokenVars
<1>7. ASSUME NEW c \in Calls, SendFails(c) PROVE Timed'
  BY <1>7 DEF TypeOK, Timed, SendFails, Goto, tokenVars
<1>8. ASSUME NEW c \in Calls, Retry(c) PROVE Timed'
  BY <1>8 DEF TypeOK, Timed, Retry, Invalidate, From, Goto
<1>9. ASSUME NEW c \in Calls, Unauthorized(c) PROVE Timed'
  BY <1>9 DEF TypeOK, Timed, Unauthorized, From, Goto, tokenVars
<1>10. ASSUME NEW c \in Calls, Arrive(c) PROVE Timed'
  BY <1>10 DEF TypeOK, Timed, Arrive, tokenVars
<1>11. ASSUME NEW c \in Calls, AuthCached(c) PROVE Timed'
  <2>1. /\ token # NoToken /\ now + Buffer <= expiry /\ UNCHANGED <<tokenVars, auth, revoked>>
        /\ pc' = [pc EXCEPT ![c] = "send"] /\ header' = [header EXCEPT ![c] = token]
        /\ elapsed' = [elapsed EXCEPT ![c] = 0]
    BY <1>11 DEF AuthCached, UseCached, Usable, Send, Goto, tokenVars
  <2>2. now + Buffer <= born[token] + life[token] + Timeout
    BY <2>1 DEF Timed
  <2>3. pc'[c] = "send" /\ elapsed'[c] = 0 /\ header'[c] = token
    BY <2>1 DEF TypeOK
  <2>4. TimedCall(c)'
    BY <2>1, <2>2, <2>3 DEF tokenVars
  <2>5. ASSUME NEW d \in Calls, d # c PROVE TimedCall(d)'
    <3>1. pc'[d] = pc[d] /\ header'[d] = header[d] /\ elapsed'[d] = elapsed[d]
      BY <2>1, <2>5 DEF TypeOK
    <3> QED
      BY <2>1, <3>1, OthersTimed DEF tokenVars
  <2> QED
    BY <2>1, <2>4, <2>5 DEF Timed, tokenVars
<1>12. ASSUME NEW c \in Calls, RefreshGranted(c) PROVE Timed'
  <2>1. PICK l \in Lifetimes : life' = [life EXCEPT ![granted'] = l]
    BY <1>12 DEF RefreshGranted, Grant
  <2>2. /\ granted' = granted + 1 /\ granted' \in Tokens /\ born' = [born EXCEPT ![granted'] = now]
        /\ UNCHANGED <<now, token, expiry, auth, revoked, elapsed>>
        /\ pc[c] = "refresh" /\ pc' = [pc EXCEPT ![c] = "granted"]
        /\ header' = [header EXCEPT ![c] = granted']
    BY <1>12 DEF RefreshGranted, Grant, From, Goto, TypeOK, Tokens
  <2>3. ASSUME NEW n \in 0..granted, n # NoToken
        PROVE  born'[n] = born[n] /\ life'[n] = life[n]
    <3>1. n \in Tokens /\ n # granted'
      BY <2>2, <2>3 DEF TypeOK, Tokens
    <3> QED
      BY <2>1, <2>2, <3>1
  <2>4. TimedCall(c)'
    <3>1. pc'[c] = "granted" /\ header'[c] = granted' /\ elapsed'[c] <= Timeout
      BY <2>2 DEF TypeOK, Timed
    <3>2. born'[header'[c]] = now'
      BY <2>2, <3>1
    <3> QED
      BY <2>2, <3>1, <3>2
  <2>5. ASSUME NEW d \in Calls, d # c PROVE TimedCall(d)'
    <3>1. pc'[d] = pc[d] /\ header'[d] = header[d] /\ elapsed'[d] = elapsed[d]
      BY <2>2, <2>5 DEF TypeOK
    <3>2. header[d] # NoToken =>
            born'[header[d]] = born[header[d]] /\ life'[header[d]] = life[header[d]]
      BY <2>3 DEF TypeOK
    <3>3. pc[d] = "granted" => header[d] # NoToken
      BY DEF TypeOK
    <3> QED
      BY <2>2, <3>1, <3>2, <3>3 DEF Timed
  <2>6. token' # NoToken => expiry' <= born'[token'] + life'[token'] + Timeout
    BY <2>2, <2>3 DEF TypeOK, Timed
  <2> QED
    BY <2>4, <2>5, <2>6 DEF Timed
<1>13. ASSUME NEW c \in Calls, RefreshDone(c) PROVE Timed'
  <2>1. /\ pc[c] = "granted" /\ token' = header[c] /\ expiry' = now + life[header[c]]
        /\ UNCHANGED <<now, granted, born, life, auth, revoked>>
        /\ pc' = [pc EXCEPT ![c] = "send"] /\ header' = [header EXCEPT ![c] = header[c]]
        /\ elapsed' = [elapsed EXCEPT ![c] = 0]
    BY <1>13 DEF RefreshDone, KeepToken, Send, Goto
  <2>2. header[c] \in Tokens /\ now <= born[header[c]] + Timeout
    BY <2>1 DEF Timed
  <2>3. expiry' <= born'[token'] + life'[token'] + Timeout
    BY <2>1, <2>2
  <2>4. pc'[c] = "send" /\ elapsed'[c] = 0 /\ header'[c] = header[c]
    BY <2>1 DEF TypeOK
  <2>5. TimedCall(c)'
    BY <2>1, <2>2, <2>4 DEF Tokens
  <2>6. ASSUME NEW d \in Calls, d # c PROVE TimedCall(d)'
    <3>1. pc'[d] = pc[d] /\ header'[d] = header[d] /\ elapsed'[d] = elapsed[d]
      BY <2>1, <2>6 DEF TypeOK
    <3> QED
      BY <2>1, <3>1 DEF Timed
  <2> QED
    BY <2>3, <2>5, <2>6 DEF Timed
<1>14. ASSUME NEW c \in Calls, Reject(c) PROVE Timed'
  <2>1. /\ pc[c] = "send" /\ pc' = [pc EXCEPT ![c] = "unauthorized"]
        /\ revoked' = IF auth = "oauth" /\ Valid(header[c])
                      THEN revoked \cup {header[c]} ELSE revoked
        /\ UNCHANGED <<tokenVars, auth, header, elapsed>>
    BY <1>14 DEF Reject, From, Goto
  <2>2. TimedCall(c)
    BY DEF Timed
  <2>3. ASSUME auth = "oauth" PROVE header[c] \in revoked' \/ life[header[c]] <= 2 * Timeout
    <3>1. header[c] \in Tokens /\ SentInTime(c) /\ elapsed[c] <= Timeout
      BY <2>1, <2>2, <2>3
    <3>2. CASE Valid(header[c])
      BY <2>1, <2>3, <3>2
    <3>3. CASE ~Valid(header[c]) /\ header[c] \notin revoked
      <4>1. born[header[c]] + life[header[c]] <= now
        BY <3>1, <3>3 DEF Valid
      <4> QED
        BY <3>1, <4>1
    <3>4. CASE header[c] \in revoked
      BY <2>1, <3>4
    <3> QED
      BY <3>2, <3>3, <3>4
  <2>4. pc'[c] = "unauthorized"
    BY <2>1 DEF TypeOK
  <2>5. TimedCall(c)'
    BY <2>1, <2>2, <2>3, <2>4 DEF tokenVars
  <2>6. ASSUME NEW d \in Calls, d # c PROVE TimedCall(d)'
    <3>1. pc'[d] = pc[d]
      BY <2>1, <2>6 DEF TypeOK
    <3> QED
      BY <2>1, <3>1, OthersTimed DEF tokenVars
  <2> QED
    BY <2>1, <2>5, <2>6 DEF Timed, tokenVars
<1>15. CASE Tick
  <2>1. /\ now' = now + 1 /\ UNCHANGED <<token, expiry, born, life, auth, revoked, pc, header>>
        /\ \A d \in Calls : Exchanging(d) => elapsed[d] < Timeout
        /\ \A d \in Calls : Exchanging(d) => elapsed'[d] = elapsed[d] + 1
    BY <1>15 DEF Tick
  <2>2. ASSUME NEW d \in Calls PROVE TimedCall(d)'
    <3>1. TimedCall(d)
      BY DEF Timed
    <3>2. CASE Exchanging(d)
      <4>1. elapsed'[d] = elapsed[d] + 1 /\ now' - elapsed'[d] = now - elapsed[d]
        BY <2>1, <3>2
      <4> QED
        BY <2>1, <3>1, <3>2, <4>1
    <3>3. CASE ~Exchanging(d)
      BY <2>1, <3>1, <3>3
    <3> QED
      BY <3>2, <3>3
  <2> QED
    BY <2>1, <2>2 DEF Timed
<1>16. CASE UNCHANGED vars
  BY <1>16 DEF Timed, vars, callVars
<1> QED
  BY <1>1, <1>2, <1>3, <1>4, <1>5, <1>6, <1>7, <1>8,
     <1>9, <1>10, <1>11, <1>12, <1>13, <1>14, <1>15, <1>16, NextCases

\* The inductive invariant.
IInv == TypeOK /\ LockHeld /\ Once /\ Fresh /\ RetryIsFresh /\ Timed

\* The initial states satisfy it.
LEMMA InvInit == Init => IInv
<1> SUFFICES ASSUME Init PROVE IInv
  OBVIOUS
<1> USE ConstantsTyped DEF Init, TokenInit, NoToken, NoMark, Tokens
<1>1. TypeOK
  BY DEF TypeOK
<1>2. LockHeld /\ Once
  BY DEF LockHeld, Once
<1>3. Fresh /\ RetryIsFresh
  BY DEF Fresh, RetryIsFresh
<1>4. Timed
  BY DEF Timed, TimedCall, Exchanging
<1> QED
  BY <1>1, <1>2, <1>3, <1>4 DEF IInv

\* Every behaviour keeps it.
THEOREM ClientInvariant == Spec => []IInv
<1>1. IInv /\ [Next]_vars => IInv'
  BY TypeStep, LockStep, OnceStep, FreshStep, TimedStep DEF IInv
<1> QED
  BY <1>1, InvInit, PTL DEF Spec

\* A retried request carries a token that is younger than the Invalidate
\* before it (Invalidate, AuthHeader).
THEOREM RetriesAreFresh == Spec => []RetryIsFresh
<1>1. IInv => RetryIsFresh
  BY DEF IInv
<1> QED
  BY <1>1, ClientInvariant, PTL

\* With OAuth, a 401 means that the token was revoked or given a lifetime that
\* two exchanges use up: the buffer keeps expiry out of requests (AuthHeader).
THEOREM RejectionsHaveCause == Spec => []RejectedForCause
<1>1. IInv => RejectedForCause
  BY DEF IInv, Timed, TimedCall, RejectedForCause
<1> QED
  BY <1>1, ClientInvariant, PTL

\* Every step of the client is a step of Exchange, or changes nothing there.
LEMMA ExchangeStep ==
  ASSUME TypeOK, Once, [Next]_vars
  PROVE  [Abstract!ExchangeNext]_(Abstract!exchangeVars)
<1> USE DEF TypeOK, Status, Abstract!exchangeVars, Abstract!ExchangeNext
<1>1. ASSUME NEW c \in Calls, Call(c) PROVE Abstract!Ask(c)
  BY <1>1 DEF Call, From, Goto, Abstract!Ask
<1>2. ASSUME NEW c \in Calls, Apply(c) PROVE Abstract!TakeEffect(c)
  <2>1. applied[c] = 0 /\ pc[c] = "send" /\ pc' = [pc EXCEPT ![c] = "applied"]
    BY <1>2 DEF Apply, From, Goto, Once
  <2>2. applied' = [applied EXCEPT ![c] = 1]
    BY <1>2, <2>1 DEF Apply
  <2>3. Status[c] # "idle" /\ UNCHANGED Status
    BY <2>1
  <2> QED
    BY <2>1, <2>2, <2>3 DEF Abstract!TakeEffect
<1>3. ASSUME NEW c \in Calls, Arrive(c) PROVE Abstract!TakeEffect(c)
  <2>1. applied[c] = 0 /\ pc[c] = "failed" /\ UNCHANGED pc
    BY <1>3 DEF Arrive, Once
  <2>2. applied' = [applied EXCEPT ![c] = 1]
    BY <1>3, <2>1 DEF Arrive
  <2>3. Status[c] # "idle" /\ UNCHANGED Status
    BY <2>1
  <2> QED
    BY <2>1, <2>2, <2>3 DEF Abstract!TakeEffect
<1>4. ASSUME NEW c \in Calls, Answer(c) PROVE Abstract!Succeed(c)
  BY <1>4 DEF Answer, From, Goto, Once, Abstract!Succeed
<1>5. ASSUME NEW c \in Calls, SendFails(c) PROVE Abstract!Fail(c)
  BY <1>5 DEF SendFails, Goto, Abstract!Fail
<1>6. ASSUME NEW c \in Calls, RefreshFails(c) PROVE Abstract!Fail(c)
  BY <1>6 DEF RefreshFails, Goto, Abstract!Fail
<1>7. ASSUME NEW c \in Calls, Unauthorized(c) PROVE Abstract!Fail(c)
  BY <1>7 DEF Unauthorized, From, Goto, Abstract!Fail
<1>8. ASSUME NEW c \in Calls,
             \/ AuthStatic(c) \/ AuthCached(c) \/ AuthRefresh(c) \/ RefreshGranted(c)
             \/ RefreshDone(c) \/ Reject(c) \/ Retry(c)
      PROVE  UNCHANGED Abstract!exchangeVars
  BY <1>8 DEF AuthStatic, AuthCached, AuthRefresh, RefreshGranted, RefreshDone,
              Reject, Retry, Send, From, Goto
<1>9. ASSUME Tick \/ UNCHANGED vars PROVE UNCHANGED Abstract!exchangeVars
  BY <1>9 DEF Tick, vars, callVars
<1> QED
  BY <1>1, <1>2, <1>3, <1>4, <1>5, <1>6, <1>7, <1>8, <1>9, NextCases

\* A call has its effect at most once, whatever is retried, and reports no
\* success without it (do).
THEOREM ClientImplementsExchange == Spec => ImplementsExchange
<1>1. Init => Abstract!ExchangeInit
  BY DEF Init, Status, Abstract!ExchangeInit
<1>2. IInv /\ [Next]_vars => [Abstract!ExchangeNext]_(Abstract!exchangeVars)
  BY ExchangeStep DEF IInv
<1> QED
  BY <1>1, <1>2, ClientInvariant, PTL DEF Spec, ImplementsExchange, Abstract!ExchangeSpec
=============================================================================
