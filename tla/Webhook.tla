------------------------------ MODULE Webhook ------------------------------
(***************************************************************************)
(* The HTTP deployment.  net/http runs one goroutine per request, so any   *)
(* number of handler runs, up to the bound Workers, interleave at their    *)
(* outside calls; nothing in the handler or the store keeps two runs on    *)
(* the same issue apart.  The request context ends when Slack hangs up     *)
(* after three seconds: that is the loss of a store or Linear call.        *)
(***************************************************************************)
EXTENDS PokerHandler

\* handleCommand and handleInteraction: a verified request gets a goroutine.
Receive(w) == \E r \in Request : Sendable(r) /\ Begin(w, r)

Next == \E w \in Workers : Receive(w) \/ HandlerStep(w) \/ Crash(w)

\* A request that was begun is carried on, up to a call of Slack, which may
\* hang: its goroutine is scheduled, and its other calls end with the request
\* context at the latest.  Users need not send another.
Fairness == \A w \in Workers : WF_vars(Prompt(w))

Spec == Init /\ [][Next]_vars /\ Fairness

=============================================================================
