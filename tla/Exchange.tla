------------------------------ MODULE Exchange ------------------------------
(***************************************************************************)
(* What a call of the Linear client promises: its effect happens at most   *)
(* once, whatever is retried underneath; success is only reported of an    *)
(* effect that happened; a failure says nothing, for the effect may have   *)
(* happened before it or come after it.                                    *)
(***************************************************************************)
EXTENDS Naturals

CONSTANT Calls

VARIABLES
  call,        \* call[c]: "idle", "open", "ok" or "failed"
  effect       \* effect[c]: how often Linear did what c asked

exchangeVars == <<call, effect>>

ExchangeInit ==
  /\ call = [c \in Calls |-> "idle"]
  /\ effect = [c \in Calls |-> 0]

Ask(c) ==
  /\ call[c] = "idle"
  /\ call' = [call EXCEPT ![c] = "open"]
  /\ UNCHANGED effect

TakeEffect(c) ==
  /\ call[c] # "idle" /\ effect[c] = 0
  /\ effect' = [effect EXCEPT ![c] = 1]
  /\ UNCHANGED call

Succeed(c) ==
  /\ call[c] = "open" /\ effect[c] = 1
  /\ call' = [call EXCEPT ![c] = "ok"]
  /\ UNCHANGED effect

Fail(c) ==
  /\ call[c] = "open"
  /\ call' = [call EXCEPT ![c] = "failed"]
  /\ UNCHANGED effect

ExchangeNext ==
  \E c \in Calls : Ask(c) \/ TakeEffect(c) \/ Succeed(c) \/ Fail(c)

ExchangeSpec == ExchangeInit /\ [][ExchangeNext]_exchangeVars
=============================================================================
