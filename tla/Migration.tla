------------------------------ MODULE Migration ------------------------------
(***************************************************************************)
(* Schema migrations (internal/db), as several processes run them on one   *)
(* database file: a restart while the old process still runs, a newer or   *)
(* an older program, a process that dies anywhere.  SQLite gives a         *)
(* transaction the write lock at its first statement, and drops what a     *)
(* dead process had not committed.                                         *)
(***************************************************************************)
EXTENDS Naturals, Sequences, FiniteSetsExt

CONSTANTS
    Programs,     \* processes that may be started on the file
    Known,        \* Known[p]: KnownVersion() of the program p runs
    NoProgram     \* nobody holds the write lock

ASSUME MigrationAssumption ==
    /\ Known \in [Programs -> Nat]
    /\ NoProgram \notin Programs

VARIABLES
    schema,     \* versions whose statements the tables have seen, in order
    recorded,   \* versions in schema_migrations
    phase,      \* phase[p]: where p is in Migrate
    applied,    \* applied[p]: the local variable of Migrate
    writer      \* who holds the write lock, from its first statement to the end

migrationVars == <<schema, recorded, phase, applied, writer>>

Phase == {"off", "opened", "looping", "changed", "noted", "serving", "failed"}

MigrationInit ==
    /\ schema = <<>>
    /\ recorded = {}
    /\ phase = [p \in Programs |-> "off"]
    /\ applied = [p \in Programs |-> 0]
    /\ writer = NoProgram

GoTo(p, ph) == phase' = [phase EXCEPT ![p] = ph]

\* db.Open, and the statement that creates schema_migrations if need be.
Open(p) ==
    /\ phase[p] = "off"
    /\ GoTo(p, "opened")
    /\ UNCHANGED <<schema, recorded, applied, writer>>

\* currentVersion: COALESCE(MAX(version), 0).
currentVersion == Max(recorded \cup {0})

\* The version decides: a newer schema is refused, else the loop begins.
ReadVersion(p) ==
    /\ phase[p] = "opened"
    /\ applied' = [applied EXCEPT ![p] = currentVersion]
    /\ GoTo(p, IF currentVersion > Known[p] THEN "failed" ELSE "looping")
    /\ UNCHANGED <<schema, recorded, writer>>

\* The next migration to apply.
Todo(p) == applied[p] + 1

\* The statements of a migration add tables and columns, and fail where these
\* exist already.
UpFails(version) == version \in Range(schema)

\* Seeded fault: the statements of a migration are not part of the
\* transaction that records it, so they stay although it fails.
RunUpAlone(p) ==
    /\ phase[p] = "looping"
    /\ Todo(p) <= Known[p]
    /\ writer = NoProgram
    /\ schema' = IF UpFails(Todo(p)) THEN schema ELSE Append(schema, Todo(p))
    /\ writer' = p
    /\ GoTo(p, "changed")
    /\ UNCHANGED <<recorded, applied>>

\* tx.ExecContext(m.Up) takes the write lock.
RunUp(p) ==
    /\ phase[p] = "looping"
    /\ Todo(p) <= Known[p]
    /\ writer = NoProgram
    /\ IF UpFails(Todo(p))
       THEN GoTo(p, "failed") /\ UNCHANGED writer
       ELSE GoTo(p, "changed") /\ writer' = p
    /\ UNCHANGED <<schema, recorded, applied>>

\* The insert into schema_migrations, whose key is the version.
RecordVersion(p) ==
    /\ phase[p] = "changed"
    /\ IF Todo(p) \in recorded
       THEN GoTo(p, "failed") /\ writer' = NoProgram
       ELSE GoTo(p, "noted") /\ UNCHANGED writer
    /\ UNCHANGED <<schema, recorded, applied>>

\* The commit makes both visible at once.
Commit(p) ==
    /\ phase[p] = "noted"
    /\ schema' = Append(schema, Todo(p))
    /\ recorded' = recorded \cup {Todo(p)}
    /\ applied' = [applied EXCEPT ![p] = Todo(p)]
    /\ writer' = NoProgram
    /\ GoTo(p, "looping")

\* Any statement may fail (a busy database, a full disk): the transaction is
\* rolled back and the program ends.
StatementFails(p) ==
    /\ phase[p] \in {"opened", "looping", "changed", "noted"}
    /\ GoTo(p, "failed")
    /\ writer' = IF writer = p THEN NoProgram ELSE writer
    /\ UNCHANGED <<schema, recorded, applied>>

\* All migrations the program knows are applied: main goes on to serve.
Serve(p) ==
    /\ phase[p] = "looping"
    /\ Todo(p) > Known[p]
    /\ GoTo(p, "serving")
    /\ UNCHANGED <<schema, recorded, applied, writer>>

\* The process ends, whatever it was doing, and may be started again.
Die(p) ==
    /\ phase[p] # "off"
    /\ GoTo(p, "off")
    /\ writer' = IF writer = p THEN NoProgram ELSE writer
    /\ UNCHANGED <<schema, recorded, applied>>

MigrationNext ==
    \E p \in Programs :
        \/ Open(p)
        \/ ReadVersion(p)
        \/ RunUp(p)
        \/ RecordVersion(p)
        \/ Commit(p)
        \/ StatementFails(p)
        \/ Serve(p)
        \/ Die(p)

MigrationSpec == MigrationInit /\ [][MigrationNext]_migrationVars

-----------------------------------------------------------------------------
(* Properties.                                                              *)

MigrationTypeOK ==
    /\ schema \in Seq(Nat)
    /\ recorded \subseteq Nat
    /\ phase \in [Programs -> Phase]
    /\ applied \in [Programs -> Nat]
    /\ writer \in Programs \cup {NoProgram}

\* Whoever died or failed where, and however many processes migrated at once:
\* the tables have seen migrations 1 to n, each once and in order, and
\* schema_migrations lists exactly these.
SchemaMatchesRecord ==
    /\ \A i \in 1..Len(schema) : schema[i] = i
    /\ recorded = 1..Len(schema)

\* A program that serves has all the migrations it knows behind it.
ServesCompleteSchema ==
    \A p \in Programs : phase[p] = "serving" => Known[p] <= Len(schema)

\* Both: what a program serves on is a schema that is whole and recorded.
SchemaSound == SchemaMatchesRecord /\ ServesCompleteSchema
=============================================================================
