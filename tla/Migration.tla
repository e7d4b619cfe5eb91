------------------------------ MODULE Migration ------------------------------
(***************************************************************************)
(* NewSQLite: opening a database and bringing its table up to date, one    *)
(* statement at a time, each of them atomic and none of them in a          *)
(* transaction with another.  A database may be new, or have been left by  *)
(* an earlier version, or by a start that stopped between two statements.  *)
(***************************************************************************)
CONSTANT TextColumns       \* the migrated columns with an empty default

ASSUME TextColumnsAssumption == TextColumns \cap {"scale", "notices"} = {}

VARIABLES
  phase,       \* how far run is; "schema", "inspect", "read", "alter" are here
  created,     \* there is a sessions table
  column,      \* column[c]: what an old row has in column c, "absent" without c
  todo,        \* columns migrate still has to add or drop
  conn         \* the one connection: "free", or "held" by the rows of a query

dbVars == <<created, column, todo, conn>>

Obsolete == {"notices"}
Migrated == TextColumns \cup {"scale"}
Columns  == Migrated \cup Obsolete
Contents == {"absent", "", "[]", "written"}

\* The sessions table as schema creates it; it has no rows yet.
Schema == [c \in Columns |-> IF c \in Obsolete THEN "absent" ELSE "written"]

DbInit ==
  /\ todo = {} /\ conn = "free"
  /\ \/ created = FALSE /\ column = [c \in Columns |-> "absent"]
     \/ created = TRUE /\ column \in [Columns -> {"absent", "written"}]

Exec(from, to) == phase = from /\ conn = "free" /\ phase' = to

\* CREATE TABLE IF NOT EXISTS.
CreateTable ==
  /\ Exec("schema", "inspect")
  /\ created' = TRUE
  /\ column' = IF created THEN column ELSE Schema
  /\ UNCHANGED <<todo, conn>>

\* PRAGMA table_info: its rows keep the connection.
Inspect ==
  /\ Exec("inspect", "read")
  /\ conn' = "held"
  /\ UNCHANGED <<created, column, todo>>

Existing == {c \in Columns : column[c] # "absent"}

\* Mutant: the columns there are already are not looked at.
AllChanges == Columns

\* The columns to add and the columns to drop.
Changes == (Migrated \ Existing) \cup (Obsolete \cap Existing)

\* Mutant: the rows are not read to their end, which would close them.
ReadColumnsHeld ==
  /\ phase = "read" /\ phase' = "alter"
  /\ todo' = Changes
  /\ UNCHANGED <<created, column, conn>>

\* Reading the last row frees the connection.
ReadColumns ==
  /\ phase = "read" /\ phase' = "alter"
  /\ conn' = "free"
  /\ todo' = Changes
  /\ UNCHANGED <<created, column>>

\* Mutant: every column is added with the same default.
BlankDefault(c) == ""

\* What ADD COLUMN writes into the rows there are.
Default(c) == IF c = "scale" THEN "[]" ELSE ""

\* ALTER TABLE.  The additions come in map order, then the drops.
AddColumn(c) ==
  /\ Exec("alter", "alter")
  /\ c \in todo \cap Migrated /\ column[c] = "absent"
  /\ column' = [column EXCEPT ![c] = Default(c)]
  /\ todo' = todo \ {c}
  /\ UNCHANGED <<created, conn>>

DropColumn(c) ==
  /\ Exec("alter", "alter")
  /\ todo \cap Migrated = {} /\ c \in todo /\ column[c] # "absent"
  /\ column' = [column EXCEPT ![c] = "absent"]
  /\ todo' = todo \ {c}
  /\ UNCHANGED <<created, conn>>

\* SQLite refuses to add a column that is there or drop one that is not.
Refused(c) ==
  /\ phase = "alter" /\ conn = "free" /\ c \in todo
  /\ c \in Migrated <=> column[c] # "absent"

\* The connection is closed: by the program, or with it.
CloseDb == conn' = "free" /\ todo' = {} /\ UNCHANGED <<created, column>>

\* GetSession can scan and decode a row, and SaveSession names every column.
Reads(c, content) == content # "absent" /\ (c = "scale" => content # "")
Current ==
  /\ \A c \in Migrated : Reads(c, column[c])
  /\ \A c \in Obsolete : column[c] = "absent"
=============================================================================
