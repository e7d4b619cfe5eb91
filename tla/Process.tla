------------------------------ MODULE Process ------------------------------
(***************************************************************************)
(* The life of the process in both modes: Load, opening the repository,    *)
(* serving, a signal, closing, and the next start on what is left in the   *)
(* database.  Socket Mode with SQLite handles one event at a time and does *)
(* not wait for it when it stops; the HTTP server with Firestore gives the *)
(* requests in flight ten seconds.                                         *)
(***************************************************************************)
EXTENDS Config, Migration

CONSTANT Requests          \* requests of one run, HTTP or Socket Mode

VARIABLES
  environ,     \* the environment variables
  request,     \* request[r]: where request r is
  receiving,   \* the listener or the Socket Mode connection works
  signalled,   \* SIGINT or SIGTERM came after NotifyContext
  exit,        \* how the process ended: "ok", "error" or "killed"
  fault        \* something outside failed in this run

procVars == <<environ, request, receiving, signalled, exit, fault>>
vars     == <<phase, dbVars, procVars>>

GCP == Mode(environ) = "gcp"

Init ==
  /\ DbInit /\ phase = "down"
  /\ environ \in Environ
  /\ request = [r \in Requests |-> "none"]
  /\ receiving = FALSE /\ signalled = FALSE /\ exit = "none" /\ fault = FALSE

Start ==
  /\ phase = "down" /\ phase' = "load"
  /\ request' = [r \in Requests |-> "none"]
  /\ receiving' = FALSE /\ signalled' = FALSE /\ exit' = "none" /\ fault' = FALSE
  /\ UNCHANGED <<dbVars, environ>>

\* run returns before anything is served; what was opened is closed.
Abort(isFault) ==
  /\ phase' = "down" /\ exit' = "error" /\ fault' = isFault
  /\ CloseDb
  /\ UNCHANGED <<environ, request, receiving, signalled>>

\* run and runSocket or runWebhook up to opening the repository.
Load ==
  /\ phase = "load" /\ Loaded(environ)
  /\ phase' = IF GCP THEN "client" ELSE "schema"
  /\ UNCHANGED <<dbVars, procVars>>

LoadFails == phase = "load" /\ ~Loaded(environ) /\ Abort(fault)

\* The repository is open: the server is built and receives.
Serve ==
  /\ phase' = "serve" /\ receiving' = TRUE
  /\ UNCHANGED <<dbVars, environ, request, signalled, exit, fault>>

OpenFirestore == phase = "client" /\ Serve
OpenSQLite    == phase = "alter" /\ todo = {} /\ Serve

MigrateStep ==
  /\ \/ CreateTable \/ Inspect \/ ReadColumns
     \/ \E c \in Columns : AddColumn(c) \/ DropColumn(c)
  /\ UNCHANGED procVars

\* For a cause outside, or because SQLite refuses the statement.  One that
\* waits for the connection does not even fail.
OpenFails ==
  \E outside \in BOOLEAN :
    /\ IF outside THEN \/ phase \in {"client", "read"}
                       \/ phase \in {"schema", "inspect", "alter"} /\ conn = "free"
                  ELSE \E c \in Columns : Refused(c)
    /\ Abort(fault \/ outside)

----------------------------------------------------------------------------
Move(r, from, to) ==
  /\ request[r] \in from
  /\ request' = [request EXCEPT ![r] = to]
  /\ UNCHANGED <<phase, dbVars, environ, receiving, signalled, exit, fault>>

InFlight == {r \in Requests : request[r] \in {"open", "handled"}}

\* The first byte of an HTTP request is read, or an event is taken.  The loop
\* of Socket Mode takes one event at a time, and may take another
\* after Run has returned.
Arrive(r) ==
  /\ \/ phase = "serve" /\ receiving
     \/ phase \in {"serve", "close"} /\ ~GCP
  /\ ~GCP => InFlight = {}
  /\ Move(r, {"none"}, "open")

\* verified or a parser says no: 401 or 400, and the handler is not called.
TurnAway(r) == phase # "down" /\ GCP /\ Move(r, {"open"}, "answered")
Accept(r)   == phase # "down" /\ Move(r, {"open"}, "handled")
\* 200 or 500; in Socket Mode the handler just returns.
Answer(r)   == phase # "down" /\ Move(r, {"handled"}, "answered")

\* The listener fails, or Slack refuses the connection for good.
TransportFails ==
  /\ phase = "serve" /\ receiving
  /\ receiving' = FALSE /\ fault' = TRUE
  /\ UNCHANGED <<phase, dbVars, environ, request, signalled, exit>>

\* NotifyContext swallows this signal and those after it.
Signal ==
  /\ phase \in {"serve", "drain"} /\ signalled' = TRUE
  /\ UNCHANGED <<phase, dbVars, environ, request, receiving, exit, fault>>

----------------------------------------------------------------------------
\* run returns; its deferred calls follow.
Return(code) ==
  /\ phase' = "close" /\ exit' = code
  /\ UNCHANGED <<dbVars, environ, request, signalled>>

\* Shutdown stops the listener and waits.
Drain ==
  /\ phase = "serve" /\ GCP /\ signalled
  /\ phase' = "drain" /\ receiving' = FALSE
  /\ UNCHANGED <<dbVars, environ, request, signalled, exit, fault>>

\* Mutant: run does not wait for Shutdown, as ListenAndServe does not.
DrainedAtOnce == phase = "drain" /\ Return("ok") /\ UNCHANGED <<receiving, fault>>

Drained ==
  /\ phase = "drain" /\ InFlight = {}
  /\ Return("ok") /\ UNCHANGED <<receiving, fault>>

\* Mutant: Shutdown has no deadline.
NoDeadline ==
  /\ phase = "drain" /\ InFlight = {}
  /\ Return("error") /\ fault' = TRUE /\ UNCHANGED receiving

\* The ten seconds are over.
Deadline ==
  /\ phase = "drain"
  /\ Return("error") /\ fault' = TRUE /\ UNCHANGED receiving

ListenerEnds ==
  /\ phase = "serve" /\ GCP /\ ~receiving
  /\ Return("error") /\ UNCHANGED <<receiving, fault>>

\* Run returns when its context is cancelled, without waiting for the loop.
SocketEnds ==
  /\ phase = "serve" /\ ~GCP /\ (signalled \/ ~receiving)
  /\ Return(IF signalled THEN "ok" ELSE "error")
  /\ receiving' = FALSE /\ UNCHANGED fault

\* What is in flight ends with the process.
Cut == request' = [r \in Requests |-> IF r \in InFlight THEN "cut" ELSE request[r]]

\* The repository is closed and the process exits.
Exit ==
  /\ phase = "close" /\ phase' = "down"
  /\ Cut /\ CloseDb
  /\ UNCHANGED <<environ, receiving, signalled, exit, fault>>

\* A crash; or a signal while none is caught.
Kill ==
  /\ phase # "down" /\ phase' = "down"
  /\ exit' = "killed"
  /\ Cut /\ CloseDb
  /\ UNCHANGED <<environ, receiving, signalled, fault>>

Run ==
  \/ Load \/ LoadFails \/ OpenFirestore \/ OpenSQLite \/ MigrateStep \/ OpenFails
  \/ Drain \/ Drained \/ Deadline \/ ListenerEnds \/ SocketEnds \/ Exit

Next ==
  \/ Start \/ Run \/ TransportFails \/ Signal \/ Kill
  \/ \E r \in Requests : Arrive(r) \/ TurnAway(r) \/ Accept(r) \/ Answer(r)

\* The main goroutine runs, its statements return, the deadline passes.
\* Nothing is assumed of requests: one may never end.
Spec == Init /\ [][Next]_vars /\ WF_vars(Run)

----------------------------------------------------------------------------
TypeOK ==
  /\ phase \in {"down", "load", "client", "schema", "inspect", "read", "alter",
                "serve", "drain", "close"}
  /\ created \in BOOLEAN /\ column \in [Columns -> Contents] /\ todo \subseteq Columns
  /\ conn = (IF phase = "read" THEN "held" ELSE "free")
  /\ environ \in Environ
  /\ request \in [Requests -> {"none", "open", "handled", "answered", "cut"}]
  /\ receiving \in BOOLEAN /\ signalled \in BOOLEAN /\ fault \in BOOLEAN
  /\ exit \in {"none", "ok", "error", "killed"}

\* A process that serves from SQLite can read every old row and write every
\* new one, wherever the starts before it stopped (NewSQLite, migrate).
ServesReadable == phase \in {"serve", "drain", "close"} /\ ~GCP => Current

\* An environment that gives the mode what it needs, and Linear credentials of
\* exactly one kind, in full.
Complete(e) ==
  /\ e.environment # "prod"
  /\ e.given \cap LinearNames \in
       {{"LINEAR_API_KEY"}, {"LINEAR_CLIENT_ID", "LINEAR_CLIENT_SECRET"}}
  /\ {"SLACK_BOT_TOKEN"} \subseteq e.given
  /\ IF e.environment = "gcp"
     THEN {"SLACK_SIGNING_SECRET", "GCP_PROJECT_ID"} \subseteq e.given
     ELSE "SLACK_APP_TOKEN" \in e.given

\* A process that serves has all its mode needs, and the Linear credentials it
\* sends were given, without a trace of the other kind (Load, newLinearClient).
ServesConfigured ==
  phase \notin {"down", "load"} =>
    /\ Complete(environ)
    /\ environ.given \cap LinearNames = LinearCredentials(environ)

\* A start ends in an error for a cause outside only: never because an earlier
\* one stopped in the middle of the migration (Load, migrate, runWebhook).
FailsForCause == exit = "error" => fault \/ ~Complete(environ)

\* An HTTP server that exits with status 0 has answered every request it took,
\* before the repository was closed (runWebhook, Shutdown).
CleanExit ==
  GCP /\ exit = "ok" => \A r \in Requests : request[r] \in {"none", "answered"}

\* A start gets to serve or ends, with the one connection it has (migrate).
StartEnds == phase = "load" ~> phase \in {"serve", "down"}

\* A signal ends the process, also when a request never ends (run).
SignalEnds == signalled ~> phase = "down"
=============================================================================
