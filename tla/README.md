# ChipIn in TLA+

ChipIn is an asynchronous planning-poker bot: `/chipin ENG-123` posts a card in
a Slack channel, people vote with its buttons, reveal, and write the chosen
estimate to Linear. The program is small; what makes it hard is that a round
lives in three places, the session store, the Slack card and the Linear issue,
that every request touches several of them one after the other with no
transaction around them, and that requests may run side by side.

This directory models the rounds call by call, the Linear client with its cached
token, and the life of the process from its configuration and the migration of
its database to its shutdown. TLC checks them on small instances under both
deployments of the program and under failures; TLAPS proves their safety for
every instance: what holds however requests are scheduled, what holds as long as
no two requests about one issue are handled at the same time (always, in Socket
Mode), that such requests implement rounds with one-step operations, that a call
of the Linear client takes effect at most once, and that every start can serve on
what earlier ones left.

## The system

| Part | State it keeps | Operations | Talks to |
|---|---|---|---|
| `internal/handler/handler.go` | none between requests; a `*PokerSession` copy during one | `HandleSlashCommand`, `HandleInteraction` (vote, retract, reveal, continue, set, cancel, select) | store, Slack, Linear |
| `internal/handler/blocks.go` | none | four renderings: voting, summary, cancelled, final | poker |
| `internal/poker` | none | `ScaleFor`, `Find`, `Contains`, `Labels`, `Consensus` | |
| `internal/store` (SQLite, Firestore) | one row or document per Linear issue | `GetSession`, `SaveSession` (upsert), `DeleteSession`; opening and migrating a database | |
| `internal/linear/linear.go` | none | `FetchIssue`, `SetEstimate`; one retry after a 401 | Linear, token source |
| `internal/linear/oauth.go` | cached token and its expiry, under a mutex held while the token endpoint is asked | `AuthHeader`, `Invalidate`, `refresh` | Linear |
| `internal/webhook` | none; one goroutine per request | `/slack/commands`, `/slack/interactions` | handler |
| `internal/socket` | the queue of the Socket Mode client | `loop`, `dispatch` | handler |
| `internal/config`, `cmd/chipin` | none after the start | `Load`; open, serve, signal, `Shutdown`, close | all |

A request comes in through one of the transports, which runs the handler to its
end. The handler loads the session, changes its own copy, and makes its outside
calls in a fixed order: save then render then a private notice; or Linear then
delete then the final card; or delete then the cancelled card. The first call
that fails ends the run. Nothing locks a session, and `SaveSession` replaces the
whole row: the store orders single calls, never a load with its save. All runs of a
process share one Linear client and with it one token.

What is hard to test, with the properties that are about it, is listed line by
line under `hazards` in `PROJECT.json`. In short:

* *interleaving*: `net/http` runs handlers side by side, so a load and the save
  that depends on it can have another run's save, delete or rendering between
  them;
* *partial failure*: any of the calls of a run may fail, or take effect and
  report a failure (a timeout, Slack hanging up after three seconds and the
  request context being cancelled), and the process may stop between two of them;
* *staleness*: a card may be out of date when it is clicked, of an earlier round
  of the same issue, or of an earlier scale of the same team;
* *delivery*: Socket Mode acknowledges an event before handling it, and Slack
  sends again what was not acknowledged;
* *calls that never return*: the Slack client has no timeout and its calls take no
  context, and in Socket Mode one goroutine handles all events;
* *retries and time*: the Linear client sends a request again after a 401, while
  other runs fetch and forget the same token, and trusts a token by its own clock;
* *restarts*: the migration alters column by column without a transaction, and a
  start may stop anywhere in it; a shutdown races the requests in flight;
* *order left open by the language*: `Consensus` ranges over two maps.

## The modules

| Module | What it is |
|---|---|
| `PokerHandler` | The handler and what it touches. Variables `store`, `board` (the cards of the channel), `linear`, per worker `pc`, `req`, `sess`, and two histories, `saved` and `closed`. `HandlerStep` is a step of one run; `HandlerSpec` is any deployment: any number of workers that take any requests at any time, and may stop. |
| `Serial` | `PokerHandler` with runs that do not overlap on an issue (`Apart`, `ApartSpec`): their invariant, and the mappings to `Round`. It adds no variable and no action. |
| `Webhook` | `PokerHandler` with many workers: the HTTP deployment, a `HandlerSpec`. |
| `Socket` | `Serial` with one worker and a queue: the Socket Mode deployment, an `ApartSpec`. |
| `Round` | The abstract specification: what a round promises, one step per operation (`RoundSpec`), and what is left of it when any call may fail (`FaultyRoundSpec`). |
| `Recommendation` | `Scale.Consensus` as one formula, the form in which `PokerHandler` uses it. |
| `Consensus` | The two loops of `Scale.Consensus`, iteration by iteration, in any order. |
| `Scale` | `ScaleFor` and the lookups, as operators. |
| `TokenSource` | The critical sections of `ClientCredentialsTokenSource`. |
| `LinearClient` | `TokenSource` with calls of `Client.do` that share it. |
| `Exchange` | The abstract specification of a call: an effect at most once. |
| `Config` | Which environments `config.Load` accepts, as operators. |
| `Migration` | `NewSQLite` statement by statement. |
| `Process` | `Config` and `Migration` in the life of the process, in both modes. |
| `PokerHandlerProofs` | Proofs about `HandlerSpec`. |
| `SerialProofs`, `SerialPromises` | Proofs about `ApartSpec`: its invariant; what it implements and promises. |
| `WebhookProofs`, `SocketProofs` | What follows for the two deployments. |
| `ConsensusProofs`, `LinearClientProofs`, `ProcessProofs` | Proofs about `Consensus` and `Scale`, `LinearClient`, `Process`. |
| `MCWebhook`, `MCSocket`, `MCConsensus` | Values of the constants for TLC. `LinearClient` and `Process` need model values only and are run as they are. |

The three state machines are kept apart and meet at their interfaces.
`LinearClient` shows what a call of Linear may do to its caller: succeed with its
effect done, fail without it, or fail with it done (`Exchange`). These are the
`Replies("linear")` of `PokerHandler`. There an effect that the handler was not
told of happens before the handler goes on. That it may also come later, after
the client gave up (`Arrive`), is in `LinearClient` and not in `PokerHandler`: what
is said of Linear under failures of it (`FinalMatchesLinear`, `SurvivesFaults`)
assumes that a write Linear has not made by the time `SetEstimate` returns is
never made. Wherever this file says that calls may fail, these are the failures
meant: a call without an effect, a call whose effect is made before it is reported
as failed, and a run that is cut off.
The end of a process, which cuts a run between two calls, is `Crash` in
`PokerHandler` and `Restart` in `Socket`.

### How PokerHandler corresponds to the code

A worker is one run of `HandleSlashCommand` or `HandleInteraction`; `pc[w]`
names the outside call it is about to make and `sess[w]` is the local `sess`.
One action makes one call and runs the code up to the next, so other workers can
come in exactly where the code can be interrupted.

| Action | Code |
|---|---|
| `Refuse`, `FetchIssue`, `PostCard`, `CreateSession` | `HandleSlashCommand`; the permalink lookup between the last two changes nothing |
| `IgnoreSelect`, `LoadNothing`, `VoteLoaded` ... `CancelLoaded` | the early returns, the load and the branches of `HandleInteraction` |
| `Save`, `Render`, `Notify` | `saveAndRender`, `render`, `privateNotice` |
| `SetEstimate`, `DeleteSession`, `CloseCard` | `finalize` and `cancel`, which share their last two calls |
| `Crash` | the run is cut short between two calls |

Each call has the outcomes of `Replies`: it works, it fails without an effect,
or it takes effect and the handler is told it failed. In a run `Faulty` says
which services may do the latter two.

Abstracted: issues, channels, titles, permalinks and texts; a point of a scale
stands for its label and its value, which `ScaleWellFormed` shows to determine
each other, and which makes `int(estimate)` in `SetEstimate` lossless; the
consensus inside the handler is the formula of `Recommendation`, which is what the
loops return (`ConsensusIsHandlers`, proved by `LoopsReturnConsensus`). Kept: who
may see which votes (`Hidden`), the preselected option, the card a round owns
(`MessageTS`), the scale a session was started with.

`saved` (which round wrote which point) and `closed` (whose session was deleted)
are histories: no action reads them.

The two repositories have the same semantics: one row or document per issue, read
whole, replaced whole and deleted without complaint when it is missing. They are
the same actions.

### How LinearClient corresponds to the code

`pc[c]` is where call `c` of `FetchIssue` or `SetEstimate` is in `do`; a call is one
request to Linear. `lock`, `token` and `expiry` are `mu`, `token` and `expiry` of the
token source. Tokens are numbered in the order Linear grants them; `born` and
`life` are what Linear knows of them.

| Action | Code |
|---|---|
| `Call` | `do` enters `doOnce` |
| `AuthStatic` | `AuthHeader` of a personal key |
| `AuthCached`, `AuthRefresh` | `AuthHeader`: the cached token has more than the buffer left, or has to be replaced |
| `RefreshGranted` | external: the token endpoint |
| `RefreshDone`, `RefreshFails` | the rest of `refresh`, and its error returns |
| `Reject`, `Apply` | external: Linear answers 401, or does what is asked |
| `Answer`, `SendFails` | `doOnce` returns the answer, or an error |
| `Retry`, `Unauthorized` | the 401 in `do`: invalidate and send once more, or give up |
| `Arrive` | external: a request is served after the client gave up |
| `Tick` | time, which the timeout of `http.Client` bounds for each exchange |

`RefreshGranted` and `RefreshDone` are two steps because the lifetime runs from the
first and the code counts it from the second. `mark` and `applied` are histories.

### How Process corresponds to the code

`phase` is where `run` is: `load`; `client` for Firestore or `schema`, `inspect`,
`read`, `alter` for SQLite; `serve`; `drain` while `Shutdown` waits; `close` for the
deferred calls; `down` between two runs. `column[c]` says what rows from before this
start have in column `c`, and `conn` is the one connection of the pool, which open
rows hold. `created`, `column` and `environ` survive a restart, the rest does not.
The environment is that of all runs of a behaviour.

| Action | Code |
|---|---|
| `Load`, `LoadFails` | `config.Load` and the branch on the mode |
| `CreateTable`, `Inspect`, `ReadColumns`, `AddColumn`, `DropColumn` | `NewSQLite` and `migrate`; `Inspect` to `ReadColumns` is the query and its rows |
| `OpenFirestore`, `OpenSQLite`, `OpenFails` | the repository is there, or the start ends |
| `Arrive`, `TurnAway`, `Accept`, `Answer` | a request: taken, rejected before the handler, handed to it, answered |
| `Signal`, `TransportFails` | `NotifyContext`; `ListenAndServe` or the Slack connection ends |
| `Drain`, `Drained`, `Deadline`, `ListenerEnds` | `runWebhook` |
| `SocketEnds` | `runSocket`: `Run` returns without waiting for the loop |
| `Exit`, `Kill` | the deferred `Close`; a crash, or a signal nobody catches |

A single process per database file is assumed, as the program does.

## What is checked

Passing runs. All but `linear_client`, where calls come to an end, check for
deadlock: an idle handler can always be sent a command and a stopped process can
be started, so a run that could not go on would show.

| Run | Instance | Shows |
|---|---|---|
| `consensus` | 3 voters, a T-shirt and a zero-based scale, an off-scale label | `ConsensusIsMode`: the loops compute the mode, the higher point on a tie. `ConsensusIsHandlers`: which is the point the handler's model takes. `ScaleWellFormed`: every scale of every team setting has unique labels and increasing values, and a T-shirt size stands for its Fibonacci number whether or not the scale is extended or has a zero |
| `webhook_faults` | 2 users with a pick each, 1 card, 2 workers, every call may fail | `FinalWasSaved`, `OnlyOwnPicks`, `HiddenUntilReveal` |
| `webhook_rounds` | 1 user, 2 cards, 2 scales, 2 workers, store failures and stopped runs | `VotesOnScale`, `SessionHasCard` |
| `socket_faults` | 2 users, 2 cards, everything may fail | `ClosedStaysClosed`, `FinalMatchesLinear`, `NoticeTruthful`, `ClosingCardIsLast`, `VotesOnlyByOwner`; `SurvivesFaults`: `Socket` implements `FaultyRoundSpec` |
| `socket_round` | 2 users, 2 issues, 2 cards, 2 scales, acknowledgements may fail | `BoardMatchesStore`, `CancelHonest`; `SetTakesShown`: what Set writes is the selection, if the round's card offers it, and otherwise the point the card recommends; under fairness `CancelEnds`, `SetEnds`; `ImplementsRound`: `Socket` implements `RoundSpec` |
| `linear_client` | 2 calls, 3 tokens with a long or a short lifetime, a clock of 3 | `RetryIsFresh`: a retry carries a token younger than the `Invalidate` before it, whoever fetched it. `RejectedForCause`: with OAuth a 401 means a revoked token or a hopeless lifetime. `CallsEnd` under fairness. `ImplementsExchange`: one effect at most, and success only with it |
| `process` | every environment, every old table over 5 columns, 2 requests per run | `ServesReadable`, `ServesConfigured`: what serves can read every row and has all it needs. `FailsForCause`: no start fails because of an earlier one. `CleanExit`: status 0 of the HTTP server loses no request. `StartEnds`, `SignalEnds` under fairness |

`consensus`, `webhook_faults`, `linear_client` and `process` also check the type
invariant of their module.

Runs that end in a violation. Each takes a sentence of the documents or of the
program's own messages and shows a run of the code that breaks it.

| Run | Broken sentence | How |
|---|---|---|
| `webhook_lost_vote` | "Your vote: *p* - hidden until reveal" (`handler.go:152`) | two votes at once: the second save overwrites the first |
| `webhook_reopened` | "Cancel deletes the session without writing. Stale clicks on a deleted session are ignored." (`PLAN.md:176`) | a vote loaded before the cancellation is saved after it |
| `webhook_two_estimates` | "Estimate *p* saved to Linear." (`blocks.go:151`) | two different estimates set at once |
| `socket_cancelled` | "Estimation cancelled. No estimate was saved." (`blocks.go:143`) | the process stops after the write to Linear; later the round is cancelled |
| `socket_stale_click` | "Stale clicks on a deleted session are ignored." (`PLAN.md:177`) | a closed round's card was not updated; a click on it acts on the next round of the issue |

The properties of the three `webhook_*` violations hold of the HTTP deployment too
as long as no two requests about one issue are handled at the same time, whichever
calls fail (`WebhookNoticeTruthful`, `WebhookClosedStaysClosed`,
`WebhookFinalMatchesLinear`): the overlap in these runs is the only way to break
them, and a lock per issue, held from the load to the last call of a run, would prevent it
within a process.
In Socket Mode there is no overlap; the `socket_*` runs check that deployment and
`SocketProofs` proves it. `CancelHonest` is checked and proved without the failures
that break it.

Two comments of `config.go` say a little else than the code and need no run: the
credentials of an OAuth application do not "take precedence over" a personal key
(lines 29-31), `Load` rejects both together (`Loaded`, `ServesConfigured`); and an
error does not name every missing variable at once (lines 53-54) when the
credentials of Linear or the mode are wrong, which return before the list is made.

### Bounds

* `Cards` bounds the rounds of a behaviour: a started round takes a card that
  was never used. One card is enough for what happens inside a round. Two give
  an old card next to an open round, which every stale click needs.
* `Workers`: every property is about one run and what slips in between its
  calls; two workers give any pair of operations in any interleaving. In
  `Socket` there is one, by `OneWorker`.
* `Users` and `Hand`: two users tell own from foreign votes; `Hand` says which
  points each ever picks, so that a run need not multiply choices its properties
  do not tell apart. The dropdown of a summary offers every point of the scale.
* `Points` 1 and 2 with the scale {1, 2}, or {1} and {1, 2} when the team changes
  its scale between rounds: a vote can be on one and off the other.
* `MaxQueue` events wait. With one, a press waits while another is being handled,
  and an event sent again competes with new ones. `socket_cancelled` has two.
* In `socket_round` one user picks 1 and 2 and the other votes for nothing: which
  user a vote is of is a question for `webhook_faults`, and that votes of several
  users are counted right for `consensus`. A selection made under the scale {1, 2}
  can reach a round with the scale {1}, a vote for 2 likewise.
* `Used` restricts the commands and buttons to those the question needs. `webhook_faults`
  and `socket_faults` leave out the retraction, which writes and fails like a vote;
  `webhook_rounds` and `socket_round` have it. `socket_faults` also leaves out
  continue, which sets a session back to voting as a vote does, and both `socket_*`
  runs the dropdown, which writes nothing and is in `webhook_faults`. The proofs
  leave out none.
* `webhook_faults` has no `"crash"`: a run that stops before or after a call leaves
  what a call that failed, or was lost, leaves. `socket_round` loses acknowledgements
  only; that `ImplementsRound` and `CancelHonest` hold also when Slack loses cards
  and notices is left to the proof.
* In `linear_client`, two calls give a refresh, a 401 and a retry that another call
  can come into; three tokens are one for each send of a call and one of the
  other's. `Timeout` 1 and `Buffer` 3 keep the order of the code's fifteen seconds
  and five minutes (`BufferAssumption`); the lifetimes 1 and 3 are one that two
  exchanges outlast and one they do not. `MaxTime` 3 is a time at which the token
  of that lifetime has expired.
* In `process`, `TextColumns` are the columns the code adds with an empty default:
  with `scale`, which has another, and the dropped `notices`, all of them. An old
  table has any of them; requests are two, one to be cut while another is answered.
* Symmetry is used for model values only (`Workers`, `Cards`, and `Users` where both
  have the same picks), and never in a run with a liveness property.

### Fairness

`Webhook` and `Socket` assume weak fairness of those steps of a worker that make
no call of Slack (`Prompt`): the Go scheduler runs every goroutine, the store
answers, and the Linear client gives up after fifteen seconds. Of the steps that
call Slack, or may (`AwaitsSlack`), nothing is assumed: the methods of `SlackAPI` take no
context (`handler.go:22-26`) and the client they belong to is made without an HTTP
timeout (`main.go:75` and `main.go:103`), so they need not return. `Socket` also assumes
weak fairness of `Dispatch`, the loop that takes the next event; its acknowledgement
is a message on the connection of the Socket Mode client, which is taken to be
sent or to fail. Nothing is assumed of users, of `Restart` or of `Crash`.

`CancelEnds` and `SetEnds` say what that leaves. A cancellation that was pressed ends
the open round of its issue, or from some time on the one worker waits for Slack
for ever. An estimate on its way to Linear ends its round in any case, because the
session is deleted before Slack is asked; its card then names the estimate for
good, unless the very update of that card never returns. Without these exceptions
both fail. They are checked without failures of the calls; with them a run may end
at any call, and the code promises nothing then.

`LinearClient` assumes strong fairness of each call's steps: an exchange ends by the
timeout of its client, and a goroutine that waits for the mutex gets it in the end
although others take it in between, because `sync.Mutex` hands itself to a waiter
that has waited for a millisecond. Of what happens to the exchange (granted,
rejected, broken off) nothing is assumed, nor that time passes.

`Process` assumes weak fairness of `Run`, the main goroutine: statements of the
database return and the ten seconds of `Shutdown` pass. Nothing is assumed of
requests, of the next start, of signals and of crashes.

## What is proved

For every number of users, issues, cards, workers, calls and requests, every scale
of natural numbers, every lifetime of a token, every set of migrated columns, and
every value of `Faulty`, unless the theorem says otherwise:

| Theorem | Says |
|---|---|
| `HandlerInvariant`, `HandlerHiddenUntilReveal` | `HandlerSpec => []IInv`, the inductive invariant, and `HandlerSpec => HiddenUntilReveal`: true in any deployment |
| `WebhookIsHandler`, `SocketIsHandler` | both deployments implement `HandlerSpec` |
| `WebhookTypeOK`, `WebhookFinalWasSaved`, `WebhookOnlyOwnPicks`, `WebhookVotesOnScale`, `WebhookSessionHasCard`, `WebhookHiddenUntilReveal`; `SocketHandlerSafety`, `SocketHiddenUntilReveal` | the properties of those names for `Spec` of `Webhook`, and for `SocketSpec` |
| `ApartInvariant` | `ApartSpec => []SerialInv`: the inductive invariant of runs that do not overlap on an issue |
| `ApartClosedStaysClosed`, `ApartNoticeTruthful`, `ApartFinalMatchesLinear`, `ApartClosingCardIsLast`, `ApartVotesOnlyByOwner` | the properties of those names for `ApartSpec` |
| `ApartSurvivesFaults` | `ApartSpec` implements `FaultyRoundSpec` |
| `ApartImplementsRound`, `ApartCancelHonest` | `ApartSpec` implements `RoundSpec`, and `[]CancelHonest`, when the store, Linear and the process do not fail |
| `ApartBoardMatchesStore`, `ApartSetTakesShown` | `[]BoardMatchesStore` and `SetTakesShown` when the store, Slack and the process do not fail |
| `SocketKeepsApart` | `SocketSpec => ApartSpec`; with it each `Apart` theorem has its `Socket` form (`SocketClosedStaysClosed` and so on) |
| `WebhookClosedStaysClosed` and so on | each `Apart` theorem for `Spec /\ []Apart` of `Webhook` |
| `ConsensusCorrect`, `LoopsReturnConsensus`, `ConsensusTypeOK` | the loops return the mode, which is the handler's formula, and keep their types |
| `ScalesWellFormed`, `ScalesFitConsensus` | `ScaleWellFormed` for every team setting; every scale of `ScaleFor` meets what `Consensus` assumes of its scales |
| `ClientTypeOK`, `RetriesAreFresh`, `RejectionsHaveCause` | `TypeOK`, `RetryIsFresh`, `RejectedForCause` of `LinearClient` |
| `ClientImplementsExchange` | `LinearClient` implements `Exchange` |
| `ProcessTypeOK`, `ServesReadableHolds`, `ServesConfiguredHolds`, `FailsForCauseHolds`, `CleanExitHolds` | the invariants of `Process` |

The proofs about the handler are done once, about the specification that says
least: `HandlerSpec` for what interleaving cannot disturb, `ApartSpec` for what it
can. A deployment inherits them by implementing that specification, which takes
one short step each: a worker of `Webhook` takes only steps of `HandlerNext`, and
one worker cannot overlap itself (`SocketKeepsApart`; the events that wait were
picked by users, `QueuePicked`).

*The handler.* None of its five invariants is inductive: what a worker will write
depends on what it holds. `IInv` adds `WorkersReady`, which says per call what its
worker holds: the session has its card posted and about the request's issue, its
votes are own picks and on its scale, a worker about to close the card of a settled
round has its pair in `saved`. The key to interleaving is the lemma
`ReadyStable`: readiness depends on the outside only through which cards are
posted, which issue a card is about, and `saved`, and these only grow (`Grows`),
so no step of another worker disturbs it. There is one lemma per action.

*Hidden until reveal.* Two requests render a revealed session: the reveal, and a
`set` that finds nothing to write. So `WorkersHide` is added: unless its request is
a reveal, what a worker is about to save or render hides its votes, or has none. For
`set` this rests on the consensus: it writes nothing only when there is none, and
then nobody has voted, because the votes are on the scale and as soon as one user
chose a point of it, some point leads (`ConsensusExists`). That some point leads is
a fact about finite sets: the tallies are a finite nonempty set of numbers
(`FiniteImage`), of which there is a greatest (`MaxExists`, by the well-foundedness
of the naturals rather than by induction on the set), and among the points that
reach it there is a greatest again (`LeadersExist`).

*Runs that do not overlap.* `SerialInv` adds to `IInv` what `Apart` makes true
(`WorkersCurrent`): before a save the round is open and what will be saved is the
stored session with the one change the request stands for (`Updated`); before any
other call it is the stored session itself; a worker about to close a card has
deleted its session, and the card does not say yet how the round ended; a worker
about to start a round has a card no session of the store has. With it go three
facts about the outside: a closed round stays closed, only the cards of closed
rounds say how they ended (`ClosedCards`), and the card of the round that wrote an
issue last names the estimate Linear has if it names one (`LastWriter`). For the
worker that moves there is one lemma per action. For the others the argument is a
frame: a step changes the row, the estimate and the cards of its own issue and no
other (`OneIssue`), the others are about other issues by `Apart`, and so what they
hold is still current (`OthersStay`). Cards are shared by all issues; that a new
card is nobody's yet is why a new round disturbs none of the others. Crashes and lost answers
are steps like the others.

*Refinement.* `ImplementsRound` maps a session to a round by dropping its card,
except between the write to Linear and the deletion, when the round is over but
its session is still there (`Settling`). `Save` is then the operation its request
stands for, by `Updated` (`UpdatedOperates`, `OperationIsStep`); `CreateSession` is
`Start`; `SetEstimate` is `Settle`; `DeleteSession` is `Cancel`, or a stutter after
`Settle`; everything else stutters, and a step of one worker leaves the rounds of
the other issues alone. If the store, Linear or the process may fail this is
false of the code, which is what `socket_cancelled` shows of a stop after the write.
What is then left is `SurvivesFaults`, where a round is what the store has:
`SetEstimate` is `Write`, the deletion `Cancel`, and all else is as before. So
failures can part an estimate from the end of its round and nothing more: no vote
is half taken and no operation is applied to a closed round. Neither refinement
speaks of repetition: the steps of `Round` do not say who asked for them, and an
event that Slack sends twice is handled twice. For a vote, a retraction, a reveal,
a continuation the second changes nothing unless another came in between; a second
`/chipin` starts a second round, and a cancellation that comes again can end it.

*Promises that failures break.* A round that wrote an estimate is closed or about
to be (`WritersClose`), so the round a cancellation loads, being open, wrote none,
and none is written before its card says so (`CancelsUnwritten`). And the card of
an open round is out of date only while a worker is about to render it
(`ShownOrDue`); the card of a new round shows it before it is saved
(`PostedShown`). When a Set is loaded, none of its issue is being rendered, so the
card is the rendering of the session that was loaded, and what is chosen from the
session can be read off the card (`SetShows`); that the card recommends a point
exactly when it shows a vote is `ConsensusExists` again.

*The Linear client.* `IInv` has four parts beside the types and `RetryIsFresh`.
`LockHeld`: the mutex is held exactly by the call that asks the token endpoint.
`Fresh`: the cached token, and one that is on its way from the endpoint, is younger
than every `Invalidate` so far; this is where holding the mutex during the refresh
counts, since no `Invalidate` can come between the grant and the store.
`Once`: what a request has done is known from where its call is, and no call sends
again after its effect; this is all the refinement needs. `Timed`: the client's
idea of an expiry is late by one exchange at most and a request in flight was
started in time, so with a buffer of more than two exchanges (`BufferAssumption`)
a rejected token was revoked or never long-lived enough.

*The process.* `ProcessInv` says where each mode can be (`Modes`), that old rows have
either what they were written with or the default of a column, that `todo` is at
every moment the difference between the table and the schema (`Migrating`), and
what an exit status stands for (`Ending`). `NothingToDo` then gives a current table
when no statement is left, and `NeverRefused` that SQLite never refuses one.
`LoadedIsComplete` is about `Load` alone: what it accepts is complete.

*Consensus.* `LoopInv` says that `counts` is the tally of the votes visited, then
of all, and that `best` is no worse than any label visited. That is where ties
matter: the argument needs points of a scale to have different values
(`ScalesAssumption`), which `ScalesFitConsensus` proves of every scale `ScaleFor`
builds. That a scale is well formed is shown slice by slice: what appending the
extension gives (`FiveAndTwo`), the base points (`BaseShape`), the shift by the zero
(`ScaleShape`). `LoopsReturnConsensus` ties the loops to the handler's model: what they
return is `Consensus` of `Recommendation`, by the uniqueness of the leader.

Assumptions are those on the constants: finitely many users and at least one,
scales are sets of natural numbers, two exchanges are shorter than the buffer, the
columns with an empty default do not include `scale`, the markers of absence are
not values.

Model-checked only: liveness (`CancelEnds`, `SetEnds`, `CallsEnd`, `StartEnds`,
`SignalEnds`), which is out of the prover's reach. Every other property of a
passing run is proved. `Apart` itself is proved about, and TLC meets it in the
`socket_*` runs, where it always holds; no run of the HTTP deployment is restricted
to it.

## Worth knowing

What the models show beyond their properties, for whoever changes the code:

* Rounds that an old database holds without a scale get `[]`. They can be read, as
  `ServesReadable` says, but no vote is on their scale; what is left is to cancel
  them or to start the round anew.
* In Socket Mode a call of Slack that never returns holds up the loop, and with it
  every round, for ever: the calls have no context and the HTTP client no timeout.
  That is the exception in `CancelEnds`. An estimate is safe from it once it is on its
  way, as `SetEnds` says. A timeout of the HTTP client would turn the hang into a
  failure, which the rest of the model covers.
* In Socket Mode, status 0 says nothing of an event that was being handled: `Run`
  returns when its context is cancelled, and the process ends with the event cut
  at any call. That is `Restart` in `Socket`, whose properties hold with it.
* A 401 makes a call forget whatever token is cached, also one another call has just
  fetched. That costs a refresh and no more: `RetryIsFresh` holds, and `CallsEnd`.

## Plan

The plan this project was built along is done: rounds in both deployments and
their abstract specification, the Linear client, the process with its
configuration and migration, and the proofs of their safety.

What could be added:

1. `PokerHandler` with writes to Linear that arrive after the client gave up.
2. Several processes on one Firestore database, in the way `Webhook` has several
   workers: their runs interleave like those of one process, so `HandlerSpec` covers them, but
   the queue of Socket Mode would have two readers and `Apart` no longer hold.

Not modelled and not planned: the parsing of issue identifiers, texts and layout of
messages, HTTP and GraphQL encodings, what makes a signature valid, connection
events of Socket Mode, logging, build and release files. They are pure functions of
text, or keep no state.
