----------------------------- MODULE Migrations -----------------------------
(***************************************************************************)
(* scripts/dev/apply_migrations.py on one service that replaced a mutable  *)
(* projection by an append-only history (application, feature, scoring,    *)
(* decision).  The script keeps no ledger: every run executes every file   *)
(* again, each in a transaction of its own, so a run may follow a complete *)
(* one, a killed one, or none, while the service writes.                   *)
(*                                                                         *)
(* Files 1 .. 4 stand for the initial tables, the outbox columns, the      *)
(* history table with its backfill, and the projection as a view.          *)
(***************************************************************************)
EXTENDS Naturals, FiniteSets

CONSTANTS
  Applications,
  Values,       \* what the projection shows of an application
  Times,        \* of submissions, in the order of the database's clock
  MaxRuns       \* bound of the times the script is started

ASSUME MigrationsAssumption == Times \subseteq Nat /\ MaxRuns \in Nat

VARIABLES
  relation,   \* what has the projection's name: nothing, a table or a view
  rows,       \* of the mutable projection, under either of its names
  renamed,    \* a table has the name ..._projection_legacy
  hasHistory, \* the history table exists
  written,    \* rows of the history that the service inserted
  copies,     \* rows of the history that a backfill inserted
  file,       \* the next file of the running script; 0 when none runs
  runs,       \* scripts started so far
  outcome     \* of the last file

vars == <<relation, rows, renamed, hasHistory, written, copies, file, runs, outcome>>

LastFile == 4
Row == [app : Applications, at : Times, value : Values]

\* A database that is new, or that the first two files once made.
Init ==
  /\ relation \in {"absent", "table"}
  /\ rows = {}
  /\ renamed = FALSE
  /\ hasHistory = FALSE
  /\ written = {}
  /\ copies = {}
  /\ file = 0
  /\ runs = 0
  /\ outcome = "applied"

-----------------------------------------------------------------------------
\* DISTINCT ON (application_id) ... ORDER BY submitted_at DESC: the view's row
\* of an application is one of these.
Latest(S) == {r \in S : \A q \in S : q.app = r.app => q.at <= r.at}

\* SELECT ... FROM applications
Shown == IF relation = "table" THEN rows ELSE Latest(written \union copies)

\* submission_id of a copy: md5 of the application and its time
Id(r) == <<r.app, r.at>>

\* Copies that bear the time they are made.
BackfillStamped(S) ==
  \E now \in Times : copies' = copies \union {[r EXCEPT !.at = now] : r \in S}

\* INSERT ... SELECT FROM S ON CONFLICT (submission_id) DO NOTHING.
Backfill(S) == copies' = copies \union {r \in S : Id(r) \notin {Id(c) : c \in copies}}

\* A file that raises: its transaction is rolled back and the script ends.
Raise ==
  /\ file' = 0
  /\ outcome' = "raised"
  /\ UNCHANGED <<relation, rows, renamed, hasHistory, written, copies, runs>>

Applied ==
  /\ file' = IF file = LastFile THEN 0 ELSE file + 1
  /\ outcome' = "applied"
  /\ UNCHANGED <<rows, written, runs>>

-----------------------------------------------------------------------------
(***************************************************************************)
(* The script.                                                             *)
(***************************************************************************)
Start ==
  /\ file = 0
  /\ runs < MaxRuns
  /\ file' = 1
  /\ runs' = runs + 1
  /\ UNCHANGED <<relation, rows, renamed, hasHistory, written, copies, outcome>>

\* CREATE TABLE IF NOT EXISTS: a view has the name just as well.
InitTables ==
  /\ file = 1
  /\ Applied
  /\ relation' = IF relation = "absent" THEN "table" ELSE relation
  /\ UNCHANGED <<renamed, hasHistory, copies>>

OutboxColumns ==
  /\ file = 2
  /\ Applied
  /\ UNCHANGED <<relation, renamed, hasHistory, copies>>

\* A second copy of a row that has one: the key would have to be unique.
AppendAgain ==
  /\ file = 3
  /\ IF \E r \in Shown : Id(r) \in {Id(c) : c \in copies}
     THEN Raise
     ELSE /\ Applied
          /\ hasHistory' = TRUE
          /\ copies' = copies \union Shown
          /\ UNCHANGED <<relation, renamed>>

\* The unguarded backfill: on a later run it reads the view, that is the
\* history itself.
AppendOnlyHistory ==
  /\ file = 3
  /\ IF relation = "absent"
     THEN Raise
     ELSE /\ Applied
          /\ hasHistory' = TRUE
          /\ Backfill(Shown)
          /\ UNCHANGED <<relation, renamed>>

\* Without the second backfill.
RenameOnly ==
  /\ file = 4
  /\ Applied
  /\ renamed' = (renamed \/ relation = "table")
  /\ relation' = "view"
  /\ UNCHANGED <<hasHistory, copies>>

\* The table is renamed only while it is one (relkind 'r'); what it got since
\* the last file is copied too.
CurrentProjectionView ==
  /\ file = 4
  /\ IF ~ hasHistory \/ (relation = "table" /\ renamed)
     THEN Raise
     ELSE /\ Applied
          /\ renamed' = (renamed \/ relation = "table")
          /\ IF renamed' THEN Backfill(rows) ELSE UNCHANGED copies
          /\ relation' = "view"
          /\ UNCHANGED hasHistory

\* The script dies; PostgreSQL rolls its open transaction back.
Killed ==
  /\ file # 0
  /\ file' = 0
  /\ outcome' = "killed"
  /\ UNCHANGED <<relation, rows, renamed, hasHistory, written, copies, runs>>

-----------------------------------------------------------------------------
(***************************************************************************)
(* The service beside it.                                                  *)
(***************************************************************************)
\* No two submissions of an application have the same time (microseconds).
New(r) == \A q \in written \union rows : Id(q) # Id(r)

\* persist_intake, and its like: a row of the history.
Write(r) ==
  /\ hasHistory
  /\ New(r)
  /\ written' = written \union {r}
  /\ UNCHANGED <<relation, rows, renamed, hasHistory, copies, file, runs, outcome>>

\* An instance of the release before, which fills the projection table with the
\* first row of an application.  That release is not in the repository; if it
\* also updated rows in place (the table has updated_at and override columns), a
\* change of a row that is already copied would not be copied again.
OldRelease(r) ==
  /\ relation = "table"
  /\ New(r)
  /\ \A q \in rows : q.app # r.app
  /\ rows' = rows \union {r}
  /\ UNCHANGED <<relation, renamed, hasHistory, written, copies, file, runs, outcome>>

Migrate ==
  \/ InitTables
  \/ OutboxColumns
  \/ AppendOnlyHistory
  \/ CurrentProjectionView

Next ==
  \/ Start
  \/ Migrate
  \/ Killed
  \/ \E r \in Row : Write(r) \/ OldRelease(r)

Spec == Init /\ [][Next]_vars

-----------------------------------------------------------------------------
(***************************************************************************)
(* Properties.                                                             *)
(***************************************************************************)
\* Every variable keeps its type.
TypeOK ==
  /\ relation \in {"absent", "table", "view"}
  /\ rows \subseteq Row
  /\ renamed \in BOOLEAN
  /\ hasHistory \in BOOLEAN
  /\ written \subseteq Row
  /\ copies \subseteq Row
  /\ file \in 0 .. LastFile
  /\ runs \in Nat
  /\ outcome \in {"applied", "raised", "killed"}

\* What the service stored and what the old projection held.
Originals == written \union rows

\* However often and however far the script ran, the view shows what the
\* rows that were really stored call for: no old row is left out, and no
\* copy hides a newer row.
ViewUnspoiled == relation = "view" => Shown = Latest(Originals)

\* A row has one copy at most, whether it was copied from the table, from
\* the view or from both, and a copy is never copied again.
CopiedOnce ==
  /\ copies \subseteq Originals
  /\ \A c, d \in copies : Id(c) = Id(d) => c = d

\* What a run has left, complete or not, makes no later run raise.
RerunNeverRaises == outcome # "raised"
=============================================================================
