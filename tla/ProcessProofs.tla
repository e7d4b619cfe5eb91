---------------------------- MODULE ProcessProofs ----------------------------
(***************************************************************************)
(* Proofs about Process, for any requests and any set of migrated columns: *)
(* the safety of the configuration, of the migration across crashes and    *)
(* restarts, and of the two ways of stopping.                              *)
(***************************************************************************)
EXTENDS Process, TLAPS

\* The actions of Next, for a proof by cases.
LEMMA ProcessCases ==
  ASSUME Next
  PROVE  \/ Start \/ Load \/ LoadFails \/ OpenFirestore \/ OpenSQLite
         \/ MigrateStep \/ OpenFails \/ Drain \/ Drained \/ Deadline
         \/ ListenerEnds \/ SocketEnds \/ Exit \/ TransportFails \/ Signal \/ Kill
         \/ \E r \in Requests : Arrive(r) \/ TurnAway(r) \/ Accept(r) \/ Answer(r)
  BY DEF Next, Run

\* What the steps of one request have in common.
LEMMA RequestSteps ==
  ASSUME NEW r \in Requests, Arrive(r) \/ TurnAway(r) \/ Accept(r) \/ Answer(r)
  PROVE  /\ UNCHANGED <<phase, dbVars, environ, receiving, signalled, exit, fault>>
         /\ \E to \in {"open", "handled", "answered"} :
              request' = [request EXCEPT ![r] = to]
  BY DEF Arrive, TurnAway, Accept, Answer, Move

\* The steps of MigrateStep, none of which touches the rest of the process.
LEMMA MigrationSteps ==
  ASSUME MigrateStep
  PROVE  /\ \/ CreateTable \/ Inspect \/ ReadColumns
            \/ \E c \in Columns : AddColumn(c) \/ DropColumn(c)
         /\ UNCHANGED procVars
         /\ phase \in {"schema", "inspect", "read", "alter"}
         /\ phase' \in {"inspect", "read", "alter"}
  BY DEF MigrateStep, CreateTable, Inspect, ReadColumns, AddColumn, DropColumn, Exec

----------------------------------------------------------------------------
(***************************************************************************)
(* Types.                                                                  *)
(***************************************************************************)
LEMMA ProcessTypeInit == Init => TypeOK
  BY DEF Init, DbInit, TypeOK, Contents

LEMMA ProcessTypeStep ==
  ASSUME TypeOK, [Next]_vars
  PROVE  TypeOK'
<1> USE DEF TypeOK
<1>1. CASE Start
  BY <1>1 DEF Start, dbVars
<1>2. CASE Load
  BY <1>2 DEF Load, dbVars, procVars
<1>3. CASE LoadFails
  BY <1>3 DEF LoadFails, Abort, CloseDb
<1>4. CASE OpenFirestore \/ OpenSQLite
  BY <1>4 DEF OpenFirestore, OpenSQLite, Serve, dbVars
<1>5. CASE MigrateStep
  <2>1. UNCHANGED procVars
    BY <1>5, MigrationSteps
  <2>2. CASE CreateTable
    BY <2>1, <2>2 DEF CreateTable, Exec, Schema, Contents, procVars
  <2>3. CASE Inspect
    BY <2>1, <2>3 DEF Inspect, Exec, procVars
  <2>4. CASE ReadColumns
    BY <2>1, <2>4 DEF ReadColumns, Changes, Existing, Columns, procVars
  <2>5. ASSUME NEW c \in Columns, AddColumn(c) \/ DropColumn(c) PROVE TypeOK'
    BY <2>1, <2>5 DEF AddColumn, DropColumn, Exec, Default, Contents, procVars
  <2> QED
    BY <1>5, <2>2, <2>3, <2>4, <2>5, MigrationSteps
<1>6. CASE OpenFails
  BY <1>6 DEF OpenFails, Abort, CloseDb
<1>7. CASE Drain
  BY <1>7 DEF Drain, dbVars
<1>8. CASE Drained \/ Deadline \/ ListenerEnds \/ SocketEnds
  BY <1>8 DEF Drained, Deadline, ListenerEnds, SocketEnds, Return, dbVars
<1>9. CASE Exit
  BY <1>9 DEF Exit, Cut, CloseDb
<1>10. CASE TransportFails
  BY <1>10 DEF TransportFails, dbVars
<1>11. CASE Signal
  BY <1>11 DEF Signal, dbVars
<1>12. CASE Kill
  BY <1>12 DEF Kill, Cut, CloseDb
<1>13. ASSUME NEW r \in Requests, Arrive(r) \/ TurnAway(r) \/ Accept(r) \/ Answer(r)
       PROVE  TypeOK'
  BY <1>13, RequestSteps DEF dbVars
<1>14. CASE UNCHANGED vars
  BY <1>14 DEF vars, dbVars, procVars
<1> QED
  BY <1>1, <1>2, <1>3, <1>4, <1>5, <1>6, <1>7, <1>8, <1>9, <1>10, <1>11, <1>12,
     <1>13, <1>14, ProcessCases

\* Every variable keeps its type, and only the rows of PRAGMA table_info ever
\* hold the connection.
THEOREM ProcessTypeOK == Spec => []TypeOK
  BY ProcessTypeInit, ProcessTypeStep, PTL DEF Spec

----------------------------------------------------------------------------
(***************************************************************************)
(* Configuration.                                                          *)
(***************************************************************************)
\* The checks of Load amount to Complete, and leave one kind of credentials.
LEMMA LoadedIsComplete ==
  ASSUME NEW e \in Environ
  PROVE  /\ Loaded(e) <=> Complete(e)
         /\ Loaded(e) => e.given \cap LinearNames = LinearCredentials(e)
<1> DEFINE key == "LINEAR_API_KEY"  id == "LINEAR_CLIENT_ID"
           secret == "LINEAR_CLIENT_SECRET"
<1>1. e.environment \in {"", "local", "gcp", "prod"} /\ e.given \subseteq Names
  BY DEF Environ
<1>2. /\ e.given \cap LinearNames = {key} <=>
           key \in e.given /\ id \notin e.given /\ secret \notin e.given
      /\ e.given \cap LinearNames = {id, secret} <=>
           key \notin e.given /\ id \in e.given /\ secret \in e.given
  BY DEF LinearNames
<1>3. /\ Mode(e) \in {"local", "gcp"} <=> e.environment # "prod"
      /\ Mode(e) = "gcp" <=> e.environment = "gcp"
  BY <1>1 DEF Mode
<1>4. Required(Mode(e)) \subseteq e.given <=>
        /\ "SLACK_BOT_TOKEN" \in e.given
        /\ IF e.environment = "gcp"
           THEN {"SLACK_SIGNING_SECRET", "GCP_PROJECT_ID"} \subseteq e.given
           ELSE "SLACK_APP_TOKEN" \in e.given
  BY <1>3 DEF Required
<1> QED
  BY <1>2, <1>3, <1>4 DEF Loaded, Complete, HasKey, HasClientID, HasClientSecret,
                          LinearCredentials, UsesLinearOAuth

\* Only what Load accepts gets past it, each mode on its own way.
Modes ==
  /\ phase \notin {"down", "load"} => Loaded(environ)
  /\ phase \in {"client", "drain"} => GCP
  /\ phase \in {"schema", "inspect", "read", "alter"} => ~GCP

LEMMA ModesStep ==
  ASSUME Modes, [Next]_vars
  PROVE  Modes'
<1> USE DEF Modes, GCP
<1>1. CASE Start \/ Load \/ LoadFails \/ OpenFirestore \/ OpenSQLite
  BY <1>1 DEF Start, Load, LoadFails, OpenFirestore, OpenSQLite, Serve, Abort, procVars
<1>2. CASE MigrateStep
  BY <1>2, MigrationSteps DEF procVars
<1>3. CASE OpenFails
  BY <1>3 DEF OpenFails, Abort
<1>4. CASE Drain \/ Drained \/ Deadline \/ ListenerEnds \/ SocketEnds \/ Exit
  BY <1>4 DEF Drain, Drained, Deadline, ListenerEnds, SocketEnds, Exit, Return
<1>5. CASE TransportFails \/ Signal \/ Kill
  BY <1>5 DEF TransportFails, Signal, Kill
<1>6. ASSUME NEW r \in Requests, Arrive(r) \/ TurnAway(r) \/ Accept(r) \/ Answer(r)
      PROVE  Modes'
  BY <1>6, RequestSteps
<1>7. CASE UNCHANGED vars
  BY <1>7 DEF vars, procVars
<1> QED
  BY <1>1, <1>2, <1>3, <1>4, <1>5, <1>6, <1>7, ProcessCases

----------------------------------------------------------------------------
(***************************************************************************)
(* The migration.                                                          *)
(***************************************************************************)
\* Rows only ever got the default of their column, and what is left to do is
\* what the table still lacks, though it was worked out before.
Migrating ==
  /\ \A c \in Migrated : column[c] \in {"absent", "written", Default(c)}
  /\ phase = "alter" => todo = Changes
  /\ ServesReadable

\* A table that needs no change is current.
LEMMA NothingToDo ==
  ASSUME TypeOK, Migrating, Changes = {}
  PROVE  Current
<1> USE DEF Changes, Existing, Columns
<1>1. ASSUME NEW c \in Migrated PROVE Reads(c, column[c])
  <2>1. c \in Existing
    OBVIOUS
  <2>2. column[c] \in {"written", Default(c)}
    BY <2>1 DEF Migrating
  <2> QED
    BY <2>1, <2>2 DEF Reads, Default
<1>2. ASSUME NEW c \in Obsolete PROVE column[c] = "absent"
  BY <1>2
<1> QED
  BY <1>1, <1>2 DEF Current

LEMMA MigratingStep ==
  ASSUME TypeOK, Modes, Migrating, [Next]_vars
  PROVE  Migrating'
<1>1. ASSUME UNCHANGED <<column, todo, environ>>, phase' = "alter" => phase = "alter",
             phase' \in {"serve", "drain", "close"} => phase \in {"serve", "drain", "close"}
      PROVE  Migrating'
  BY <1>1 DEF Migrating, ServesReadable, GCP, Current, Changes, Existing
<1>2. ASSUME CloseDb, phase' = "down" PROVE Migrating'
  BY <1>2 DEF CloseDb, Migrating, ServesReadable
<1>3. CASE Start \/ Load
  BY <1>1, <1>3 DEF Start, Load, dbVars, procVars
<1>4. CASE LoadFails \/ OpenFails \/ Exit \/ Kill
  BY <1>2, <1>4 DEF LoadFails, OpenFails, Exit, Kill, Abort
<1>5. CASE OpenFirestore
  BY <1>5 DEF OpenFirestore, Serve, Modes, Migrating, ServesReadable, GCP, dbVars
<1>6. CASE OpenSQLite
  <2>1. Changes = {} /\ phase' = "serve" /\ UNCHANGED <<column, todo, environ>>
    BY <1>6 DEF OpenSQLite, Serve, Migrating, dbVars
  <2>2. Current'
    BY <2>1, NothingToDo DEF Current
  <2> QED
    BY <2>1, <2>2 DEF Migrating, ServesReadable
<1>7. CASE MigrateStep
  <2>1. phase' \in {"inspect", "read", "alter"}
    BY <1>7, MigrationSteps
  <2>2. ServesReadable'
    BY <2>1 DEF ServesReadable
  <2>3. CASE CreateTable
    BY <2>2, <2>3 DEF CreateTable, Exec, Migrating, Schema, Columns
  <2>4. CASE Inspect
    BY <2>2, <2>4 DEF Inspect, Exec, Migrating
  <2>5. CASE ReadColumns
    BY <2>2, <2>5 DEF ReadColumns, Migrating, Changes, Existing
  <2>6. ASSUME NEW c \in Columns, AddColumn(c) PROVE Migrating'
    <3>1. /\ phase = "alter" /\ c \in Migrated /\ column' = [column EXCEPT ![c] = Default(c)]
          /\ todo' = todo \ {c} /\ todo = Changes
      BY <2>6 DEF AddColumn, Exec, Migrating
    <3>2. column'[c] # "absent" /\ \A d \in Columns : d # c => column'[d] = column[d]
      BY <3>1 DEF TypeOK, Default
    <3>3. Existing' = Existing \cup {c}
      BY <3>2 DEF Existing
    <3>4. c \notin Obsolete
      BY <3>1, TextColumnsAssumption DEF Migrated, Obsolete
    <3>5. todo' = Changes'
      BY <3>1, <3>3, <3>4 DEF Changes
    <3>6. \A d \in Migrated : column'[d] \in {"absent", "written", Default(d)}
      BY <3>1 DEF TypeOK, Columns, Migrating
    <3> QED
      BY <2>2, <3>5, <3>6 DEF Migrating
  <2>7. ASSUME NEW c \in Columns, DropColumn(c) PROVE Migrating'
    <3>1. /\ phase = "alter" /\ c \notin Migrated /\ column' = [column EXCEPT ![c] = "absent"]
          /\ todo' = todo \ {c} /\ todo = Changes
      BY <2>7 DEF DropColumn, Exec, Migrating
    <3>2. column'[c] = "absent" /\ \A d \in Columns : d # c => column'[d] = column[d]
      BY <3>1 DEF TypeOK
    <3>3. Existing' = Existing \ {c}
      BY <3>2 DEF Existing
    <3>4. todo' = Changes'
      BY <3>1, <3>3 DEF Changes
    <3>5. \A d \in Migrated : column'[d] \in {"absent", "written", Default(d)}
      BY <3>1, <3>2 DEF Columns, Migrating
    <3> QED
      BY <2>2, <3>4, <3>5 DEF Migrating
  <2> QED
    BY <1>7, <2>3, <2>4, <2>5, <2>6, <2>7, MigrationSteps
<1>8. CASE Drain \/ Drained \/ Deadline \/ ListenerEnds \/ SocketEnds
  BY <1>1, <1>8 DEF Drain, Drained, Deadline, ListenerEnds, SocketEnds, Return, dbVars
<1>9. CASE TransportFails \/ Signal
  BY <1>1, <1>9 DEF TransportFails, Signal, dbVars
<1>10. ASSUME NEW r \in Requests, Arrive(r) \/ TurnAway(r) \/ Accept(r) \/ Answer(r)
       PROVE  Migrating'
  BY <1>1, <1>10, RequestSteps DEF dbVars
<1>11. CASE UNCHANGED vars
  BY <1>1, <1>11 DEF vars, dbVars, procVars
<1> QED
  BY <1>3, <1>4, <1>5, <1>6, <1>7, <1>8, <1>9, <1>10, <1>11, ProcessCases

\* SQLite refuses none of the statements of a migration.
LEMMA NeverRefused ==
  ASSUME TypeOK, Migrating, NEW c \in Columns
  PROVE  ~Refused(c)
<1> SUFFICES ASSUME Refused(c) PROVE FALSE
  OBVIOUS
<1>1. c \in Changes /\ (c \in Migrated <=> column[c] # "absent")
  BY DEF Refused, Migrating
<1>2. Migrated \cap Obsolete = {}
  BY TextColumnsAssumption DEF Migrated, Obsolete
<1> QED
  BY <1>1, <1>2 DEF Changes, Existing

----------------------------------------------------------------------------
(***************************************************************************)
(* How the process ends.                                                   *)
(***************************************************************************)
\* A run has no exit status before it returns; a transport that no longer
\* works is a fault; requests are cut by the end of the process only.
Ending ==
  /\ phase \notin {"down", "close"} => exit = "none"
  /\ phase = "serve" /\ ~receiving => fault
  /\ phase # "down" => \A r \in Requests : request[r] # "cut"
  /\ FailsForCause
  /\ CleanExit

LEMMA EndingStep ==
  ASSUME TypeOK, Modes, Migrating, Ending, [Next]_vars
  PROVE  Ending'
<1> USE DEF Ending, FailsForCause, CleanExit, GCP
<1>1. CASE Start
  BY <1>1 DEF Start
<1>2. CASE Load
  BY <1>2 DEF Load, procVars
<1>3. CASE LoadFails
  <2>1. ~Complete(environ)
    BY <1>3, LoadedIsComplete DEF LoadFails, TypeOK
  <2> QED
    BY <1>3, <2>1 DEF LoadFails, Abort
<1>4. CASE OpenFirestore \/ OpenSQLite
  BY <1>4 DEF OpenFirestore, OpenSQLite, Serve
<1>5. CASE MigrateStep
  BY <1>5, MigrationSteps DEF procVars
<1>6. CASE OpenFails
  BY <1>6, NeverRefused DEF OpenFails, Abort
<1>7. CASE Drain
  BY <1>7 DEF Drain
<1>8. CASE Drained
  <2>1. \A r \in Requests : request[r] \in {"none", "answered"}
    BY <1>8 DEF Drained, InFlight, TypeOK
  <2> QED
    BY <1>8, <2>1 DEF Drained, Return
<1>9. CASE Deadline \/ ListenerEnds \/ SocketEnds
  BY <1>9 DEF Deadline, ListenerEnds, SocketEnds, Return
<1>10. CASE Exit
  <2>1. /\ phase = "close" /\ phase' = "down" /\ UNCHANGED <<environ, exit, fault>>
        /\ \A r \in Requests : request[r] \in {"none", "answered"} => request'[r] = request[r]
    BY <1>10 DEF Exit, Cut, InFlight
  <2> QED
    BY <2>1
<1>11. CASE TransportFails \/ Signal \/ Kill
  BY <1>11 DEF TransportFails, Signal, Kill
<1>12. ASSUME NEW r \in Requests, Arrive(r) \/ TurnAway(r) \/ Accept(r) \/ Answer(r)
       PROVE  Ending'
  <2>1. /\ UNCHANGED <<phase, environ, receiving, exit, fault>>
        /\ \A d \in Requests : request'[d] # "cut" \/ request'[d] = request[d]
    BY <1>12, RequestSteps DEF TypeOK
  <2>2. CASE exit = "ok" /\ GCP
    <3>1. phase \in {"down", "close"} /\ \A d \in Requests : request[d] \in {"none", "answered"}
      BY <2>2
    <3> QED
      BY <1>12, <2>2, <3>1 DEF Arrive, TurnAway, Accept, Answer, Move
  <2>3. CASE ~(exit = "ok" /\ GCP)
    BY <2>1, <2>3
  <2> QED
    BY <2>2, <2>3
<1>13. CASE UNCHANGED vars
  BY <1>13 DEF vars, procVars
<1> QED
  BY <1>1, <1>2, <1>3, <1>4, <1>5, <1>6, <1>7, <1>8, <1>9, <1>10, <1>11, <1>12,
     <1>13, ProcessCases

----------------------------------------------------------------------------
\* The inductive invariant.
ProcessInv == TypeOK /\ Modes /\ Migrating /\ Ending

\* It holds in every state of every behaviour, across all restarts.
THEOREM ProcessInvariant == Spec => []ProcessInv
<1>1. Init => ProcessInv
  <2> SUFFICES ASSUME Init PROVE ProcessInv
    OBVIOUS
  <2>1. Modes /\ Ending
    BY DEF Init, Modes, Ending, FailsForCause, CleanExit
  <2>2. Migrating
    BY DEF Init, DbInit, Migrating, ServesReadable, Columns
  <2> QED
    BY <2>1, <2>2, ProcessTypeInit DEF ProcessInv
<1>2. ProcessInv /\ [Next]_vars => ProcessInv'
  BY ProcessTypeStep, ModesStep, MigratingStep, EndingStep DEF ProcessInv
<1> QED
  BY <1>1, <1>2, PTL DEF Spec

\* Wherever earlier starts stopped, a process that serves from SQLite can read
\* every old row and write every new one (NewSQLite, migrate).
THEOREM ServesReadableHolds == Spec => []ServesReadable
<1>1. ProcessInv => ServesReadable
  BY DEF ProcessInv, Migrating
<1> QED
  BY <1>1, ProcessInvariant, PTL

\* A process that serves has all its mode needs and one kind of Linear
\* credentials, in full (Load, newLinearClient).
THEOREM ServesConfiguredHolds == Spec => []ServesConfigured
<1>1. ProcessInv => ServesConfigured
  BY LoadedIsComplete DEF ProcessInv, Modes, TypeOK, ServesConfigured
<1> QED
  BY <1>1, ProcessInvariant, PTL

\* No start fails because of what an earlier one left (migrate).
THEOREM FailsForCauseHolds == Spec => []FailsForCause
<1>1. ProcessInv => FailsForCause
  BY DEF ProcessInv, Ending
<1> QED
  BY <1>1, ProcessInvariant, PTL

\* Status 0 of the HTTP server means that every request was answered before
\* the repository was closed (runWebhook).
THEOREM CleanExitHolds == Spec => []CleanExit
<1>1. ProcessInv => CleanExit
  BY DEF ProcessInv, Ending
<1> QED
  BY <1>1, ProcessInvariant, PTL
=============================================================================
