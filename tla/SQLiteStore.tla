---------------------------- MODULE SQLiteStore ----------------------------
(***************************************************************************)
(* One session in the SQLite store (internal/session/sqlite.go), opened by *)
(* several processes: the server and the commands of the CLI, one of which *)
(* imports the JSON files of the file store (import_json.go).              *)
(*                                                                         *)
(* Unlike the file store there is no live record: every operation restores *)
(* a copy from the row and Save writes the whole row.  A copy's content is *)
(* the set of operations whose update it contains.  Each statement is one  *)
(* step.  A write transaction works on an image of the database that       *)
(* Commit installs; it keeps other writers out (SQLite) and the other      *)
(* operations of its process too (one connection per process).             *)
(***************************************************************************)
EXTENDS Integers, Sequences, FiniteSets

CONSTANTS
    Task,       \* operations
    Proc,       \* processes, each with a store of its own on the one database
    Home,       \* [Task -> Proc]
    Does,       \* [Task -> SUBSET {"create", "use", "list", "history", "record",
                \*                  "save_caps", "load_caps", "import"}]
    Provider,   \* providers of a capability snapshot
    Files,      \* JSON files of the import other than the session's
    TTL,        \* life of a session
    MaxNow,     \* bound of the clock
    None

(* The life of a session, a copy of its content, its row, and the database.   *)
Life == [created : Nat, expires : Nat]
Copy == [times : Life, upd : SUBSET Task]
Row  == [cols : Life, snap : Copy]

Table == {"sessions", "provider_capabilities", "query_history"}

DatabaseState == [version : Nat, tables : SUBSET Table, row : Row \cup {None},
                  hist : Nat \cup {None}, caps : [Provider -> Task \cup {None}]]

(* An open write transaction; that of a migration belongs to no task.         *)
Transaction == [proc : Proc, task : Task \cup {None}, image : DatabaseState,
                stage : {"apply", "record"}]

ASSUME SQLiteAssumption ==
    /\ TTL \in Nat \ {0} /\ MaxNow \in Nat
    /\ Home \in [Task -> Proc]
    /\ None \notin Task \cup Proc \cup Row \cup Transaction
    /\ Files \in Seq([kind : {"other", "unreadable", "garbled", "incomplete"}])

VARIABLES
    now,      \* the clock
    db,       \* the committed database
    tx,       \* the open write transaction: its process, task and image; or None
    store,    \* [Proc -> state of its SQLiteStore]
    dir,      \* the JSON directory: a sequence of files
    known,    \* the session's random ID has been drawn
    pc, copy, at, report,   \* of each task: place, restored copy, captured time, report
    acked,    \* operations whose Save was acknowledged since the row was last
              \* absent: for properties only
    overlap,  \* two operations have run at the same time: for properties only
    loaded    \* the last capabilities a task loaded: for properties only

vars == <<now, db, tx, store, dir, known, pc, copy, at, report, acked, overlap, loaded>>
taskVars == <<pc, copy, at, report, acked, overlap, loaded>>

----------------------------------------------------------------------------
(* The database. *)

CurrentVersion == 2

\* sqliteMigrationStatements: the tables that version v adds.
MigrationStatements(v) ==
    CASE v = 1 -> {"sessions"}
      [] v = 2 -> {"provider_capabilities", "query_history"}
      [] OTHER -> {}

Tables(v) == UNION {MigrationStatements(i) : i \in 1 .. v}

Database(v, row) ==
    [version |-> v, tables |-> Tables(v), row |-> row, hist |-> None,
     caps |-> [p \in Provider |-> None]]

\* NewRecord: times of a session created at time n.
Times(n) == [created |-> n, expires |-> n + TTL]

NewCopy(n) == [times |-> Times(n), upd |-> {}]

\* The row that Save writes: the indexed columns beside the snapshot.
RowOf(c) == [cols |-> c.times, snap |-> c]

\* INSERT ... ON CONFLICT(id) DO UPDATE with every column.
UpsertRow(c) == RowOf(c)

\* decodeStoredSnapshot accepts the row.
Decodes(row) == row.cols = row.snap.times

----------------------------------------------------------------------------
(* Statements and transactions (database/sql and SQLite). *)

NoReport == [scanned |-> 0, imported |-> 0, present |-> 0, invalid |-> 0,
             expired |-> 0, skipped |-> 0, next |-> 1]

CanRead(t) == store[Home[t]] = "open" /\ (tx # None => tx.proc # Home[t])
CanWrite(t) == store[Home[t]] = "open" /\ tx = None

GoTo(t, label) == pc' = [pc EXCEPT ![t] = label]

\* Updates of the row that still count once the database is new.
Counting(new) == IF new.row = None THEN {} ELSE acked

\* A read-only step, and a statement that turns the database into new.
Reads(t) == CanRead(t) /\ UNCHANGED <<now, db, tx, store, dir, known>>
Writes(t, new) ==
    /\ CanWrite(t)
    /\ db' = new
    /\ UNCHANGED <<now, tx, store, dir, known>>

Keep == UNCHANGED <<copy, at, report, acked, overlap, loaded>>

Active(t) == pc[t] \notin {"idle", "done", "failed"}

\* The first step of an operation of this kind.
Begins(t, kind) ==
    /\ pc[t] = "idle" /\ kind \in Does[t]
    /\ overlap' = (overlap \/ \E u \in Task \ {t} : Active(u))

Init ==
    /\ now = 0
    /\ tx = None
    /\ store = [p \in Proc |-> "down"]
    /\ \E row \in {None, RowOf(NewCopy(0))} :
          \E v \in IF row = None THEN 0 .. CurrentVersion + 1 ELSE 1 .. CurrentVersion :
             db = Database(v, row)
    /\ dir \in {Files, Append(Files, [kind |-> "session", snap |-> NewCopy(0)])}
    /\ known = (db.row # None \/ Len(dir) > Len(Files))
    /\ pc = [t \in Task |-> "idle"]
    /\ copy = [t \in Task |-> None]
    /\ at = [t \in Task |-> 0]
    /\ report = [t \in Task |-> NoReport]
    /\ acked = {} /\ loaded = [p \in Provider |-> None]
    /\ overlap = FALSE

----------------------------------------------------------------------------
(* Opening a database: NewSQLiteStore, initialize, migrate. *)

\* sqliteFilesystemPath: file URIs without a local path.
PathOf == {"foreign uri", "pathless uri"}

\* rejectSymlink and validatePrivateStoreDirectory.
Symlink == {"symlink"}
SharedDirectory == {"symlinked directory", "shared directory"}

\* What prepareSQLitePath refuses.
RefusedPaths == PathOf \cup Symlink \cup SharedDirectory \cup {"directory"}

\* NewSQLiteStore of the configured file, or of a path it refuses.
Open(p, path) ==
    /\ store[p] = "down"
    /\ store' = [store EXCEPT ![p] = IF path \in RefusedPaths THEN "refused" ELSE "opening"]
    /\ UNCHANGED <<now, db, tx, dir, known, taskVars>>

\* BeginTx and the first write statement; a newer schema is refused.
BeginMigration(p) ==
    /\ store[p] = "opening" /\ tx = None
    /\ IF db.version > CurrentVersion
       THEN /\ store' = [store EXCEPT ![p] = "refused"]
            /\ UNCHANGED tx
       ELSE /\ store' = [store EXCEPT ![p] = "migrating"]
            /\ tx' = [proc |-> p, task |-> None, image |-> db, stage |-> "apply"]
    /\ UNCHANGED <<now, db, dir, known, taskVars>>

\* The transaction's image becomes new; the committed database waits for Commit.
Stage(new, stage) ==
    /\ tx' = [tx EXCEPT !.image = new, !.stage = stage]
    /\ UNCHANGED db

\* Mutant: statements outside the transaction.
StageAtOnce(new, stage) ==
    /\ tx' = [tx EXCEPT !.image = new, !.stage = stage]
    /\ db' = new

\* Statements of a transaction.
InTransaction(new, stage) == Stage(new, stage)

\* The statements of the next version, then the UPDATE of schema_version.
Migrate(p) ==
    /\ tx # None /\ tx.proc = p /\ store[p] = "migrating"
    /\ tx.image.version < CurrentVersion
    /\ LET next == tx.image.version + 1
       IN IF tx.stage = "apply"
          THEN InTransaction([tx.image EXCEPT !.tables = @ \cup MigrationStatements(next)], "record")
          ELSE InTransaction([tx.image EXCEPT !.version = next], "apply")
    /\ UNCHANGED <<now, store, dir, known, taskVars>>

CommitMigration(p) ==
    /\ tx # None /\ tx.proc = p /\ store[p] = "migrating"
    /\ tx.image.version = CurrentVersion
    /\ db' = tx.image /\ tx' = None
    /\ store' = [store EXCEPT ![p] = "cleaning"]
    /\ UNCHANGED <<now, dir, known, taskVars>>

\* What CleanupExpired leaves of the sessions at time n.
WithoutExpired(n) ==
    IF db.row # None /\ db.row.cols.expires <= n THEN [db EXCEPT !.row = None] ELSE db

\* ... and of query_history.
WithoutExpiredHistory(n) ==
    IF db.hist # None /\ db.hist <= n THEN [db EXCEPT !.hist = None] ELSE db

\* The first CleanupExpired; both tables, since no operation runs here yet.
InitialCleanup(p) ==
    /\ store[p] = "cleaning" /\ tx = None
    /\ db' = [WithoutExpired(now) EXCEPT !.hist = WithoutExpiredHistory(now).hist]
    /\ acked' = Counting(WithoutExpired(now))
    /\ store' = [store EXCEPT ![p] = "open"]
    /\ UNCHANGED <<now, tx, dir, known, pc, copy, at, report, overlap, loaded>>

\* A failing statement of initialize: roll back and close.
OpenFails(p) ==
    /\ store[p] \in {"opening", "migrating", "cleaning"}
    /\ store' = [store EXCEPT ![p] = "refused"]
    /\ tx' = IF tx # None /\ tx.proc = p THEN None ELSE tx
    /\ UNCHANGED <<now, db, dir, known, taskVars>>

----------------------------------------------------------------------------
(* Operations on the session. *)

\* Create: a new record, then Save.
Create(t) ==
    /\ Begins(t, "create") /\ ~known /\ store[Home[t]] = "open"
    /\ known' = TRUE
    /\ copy' = [copy EXCEPT ![t] = NewCopy(now)]
    /\ GoTo(t, "save")
    /\ UNCHANGED <<now, db, tx, store, dir, at, report, acked, loaded>>

\* Mutant: Restore gives a record without the stored content.
RestoreEmpty(row) == [row.snap EXCEPT !.upd = {}]

\* Restore: a copy of the stored snapshot.
Restore(row) == row.snap

\* Get for an operation that updates the session, deletes it or only reads it.
Get(t) ==
    /\ Begins(t, "use") /\ known /\ Reads(t)
    /\ UNCHANGED <<at, report, acked, loaded>>
    /\ \/ /\ db.row = None
          /\ GoTo(t, "done") /\ UNCHANGED copy
       \/ /\ db.row # None /\ db.row.cols.expires <= now
          /\ GoTo(t, "drop") /\ UNCHANGED copy
       \/ /\ db.row # None /\ db.row.cols.expires > now
          /\ IF Decodes(db.row)
             THEN /\ copy' = [copy EXCEPT ![t] = Restore(db.row)]
                  /\ \E label \in {"update", "delete", "done"} : GoTo(t, label)
             ELSE GoTo(t, "failed") /\ UNCHANGED copy

\* Get's DELETE of the expired row it has read.
DropExpired(t) ==
    /\ pc[t] = "drop"
    /\ Writes(t, [db EXCEPT !.row = None])
    /\ acked' = {}
    /\ GoTo(t, "done")
    /\ UNCHANGED <<copy, at, report, overlap, loaded>>

\* The engine operation changes its copy, then calls Save.
Update(t) ==
    /\ pc[t] = "update"
    /\ copy' = [copy EXCEPT ![t].upd = @ \cup {t}]
    /\ GoTo(t, "save")
    /\ UNCHANGED <<now, db, tx, store, dir, known, at, report, acked, overlap, loaded>>

\* Save: an expired session is deleted instead.
SaveChecks(t) ==
    /\ pc[t] = "save"
    /\ GoTo(t, IF copy[t].times.expires <= now THEN "delete" ELSE "upsert")
    /\ UNCHANGED <<now, db, tx, store, dir, known>> /\ Keep

\* Where a task goes after its Save or its Delete.
AfterSave(t) == IF report[t].scanned > 0 THEN "import" ELSE "done"

\* report.Imported++ after the Save of an import.
Counted(t) == IF AfterSave(t) = "import"
              THEN [report EXCEPT ![t].imported = @ + 1] ELSE report

\* secureFiles, which may fail after the statement has been executed.
Secured == {"ok", "failed"}

Save(t) ==
    /\ pc[t] = "upsert"
    /\ Writes(t, [db EXCEPT !.row = UpsertRow(copy[t])])
    /\ \E chmod \in Secured :
       \/ /\ chmod = "ok"
          /\ acked' = acked \cup (copy[t].upd \cap {t})
          /\ report' = Counted(t)
          /\ GoTo(t, AfterSave(t))
       \/ /\ chmod = "failed"
          /\ GoTo(t, "failed")
          /\ UNCHANGED <<acked, report>>
    /\ UNCHANGED <<copy, at, overlap, loaded>>

Delete(t) ==
    /\ pc[t] = "delete"
    /\ Writes(t, [db EXCEPT !.row = None])
    /\ acked' = {}
    /\ report' = Counted(t)
    /\ GoTo(t, AfterSave(t))
    /\ UNCHANGED <<copy, at, overlap, loaded>>

\* CleanupExpired of List and ListQueryHistory: sessions, then history.
CleanupSessions(t) ==
    /\ \E kind \in {"list", "history"} : Begins(t, kind)
    /\ Writes(t, WithoutExpired(now))
    /\ acked' = Counting(WithoutExpired(now))
    /\ at' = [at EXCEPT ![t] = now]
    /\ GoTo(t, "cleanup")
    /\ UNCHANGED <<copy, report, loaded>>

CleanupHistory(t) ==
    /\ pc[t] = "cleanup"
    /\ Writes(t, WithoutExpiredHistory(at[t]))
    /\ GoTo(t, "select") /\ Keep

\* The SELECT of List: one row that does not decode fails the whole list.
List(t) ==
    /\ pc[t] = "select" /\ "list" \in Does[t]
    /\ Reads(t)
    /\ GoTo(t, IF db.row # None /\ ~Decodes(db.row) THEN "failed" ELSE "done")
    /\ Keep

ListQueryHistory(t) ==
    /\ pc[t] = "select" /\ "history" \in Does[t]
    /\ Reads(t)
    /\ GoTo(t, "done") /\ Keep

\* RecordQuery: INSERT OR IGNORE of the session's query.
RecordQuery(t) ==
    /\ Begins(t, "record") /\ known
    /\ Writes(t, IF db.hist = None THEN [db EXCEPT !.hist = now + TTL] ELSE db)
    /\ GoTo(t, "done")
    /\ UNCHANGED <<copy, at, report, acked, loaded>>

----------------------------------------------------------------------------
(* Capabilities. *)

BeginCapabilities(t) ==
    /\ Begins(t, "save_caps") /\ CanWrite(t)
    /\ tx' = [proc |-> Home[t], task |-> t, image |-> db, stage |-> "apply"]
    /\ GoTo(t, "caps")
    /\ UNCHANGED <<now, db, store, dir, known, copy, at, report, acked, loaded>>

\* One provider's row, in the transaction.
SaveCapability(t) ==
    /\ pc[t] = "caps"
    /\ \E p \in Provider :
          /\ tx.image.caps[p] # t
          /\ InTransaction([tx.image EXCEPT !.caps[p] = t], "apply")
    /\ UNCHANGED <<now, store, dir, known, taskVars>>

CommitCapabilities(t) ==
    /\ pc[t] = "caps" /\ \A p \in Provider : tx.image.caps[p] = t
    /\ db' = tx.image /\ tx' = None
    /\ GoTo(t, "done")
    /\ UNCHANGED <<now, store, dir, known>> /\ Keep

LoadCapabilities(t) ==
    /\ Begins(t, "load_caps") /\ Reads(t)
    /\ loaded' = db.caps
    /\ GoTo(t, "done")
    /\ UNCHANGED <<copy, at, report, acked>>

----------------------------------------------------------------------------
(* ImportJSONDir. *)

Import(t) ==
    /\ Begins(t, "import") /\ store[Home[t]] = "open"
    /\ at' = [at EXCEPT ![t] = now]
    /\ GoTo(t, "import")
    /\ UNCHANGED <<now, db, tx, store, dir, known, copy, report, acked, loaded>>

\* Why a file is skipped before the store is asked: validateImportedSnapshot,
\* read and decoding errors count as invalid.
Reason(t, f) ==
    CASE f.kind \in {"unreadable", "garbled", "incomplete"} -> "invalid"
      [] f.kind = "session" /\ f.snap.times.expires <= at[t] -> "expired"
      [] OTHER -> "none"

\* The next file of the directory; other names are not counted.
ImportFile(t) ==
    /\ pc[t] = "import" /\ report[t].next <= Len(dir)
    /\ LET f == dir[report[t].next]
           read == [report[t] EXCEPT !.next = @ + 1, !.scanned = @ + 1]
       IN \/ /\ f.kind = "other"
             /\ report' = [report EXCEPT ![t].next = @ + 1]
             /\ UNCHANGED <<pc, copy>>
          \/ /\ Reason(t, f) # "none"
             /\ report' = [report EXCEPT ![t] =
                              [read EXCEPT ![Reason(t, f)] = @ + 1, !.skipped = @ + 1]]
             /\ UNCHANGED <<pc, copy>>
          \/ /\ f.kind = "session" /\ Reason(t, f) = "none"
             /\ report' = [report EXCEPT ![t] = read]
             /\ copy' = [copy EXCEPT ![t] = f.snap]
             /\ GoTo(t, "ask")
    /\ UNCHANGED <<now, db, tx, store, dir, known, at, acked, overlap, loaded>>

\* Mutant: the import saves without asking.
AbsentAlways == TRUE

\* store.Get answers not found.
Absent == db.row = None

\* store.Get of the import: present, expired, or missing.
ImportAsks(t) ==
    /\ pc[t] = "ask" /\ Reads(t)
    /\ \/ /\ Absent
          /\ GoTo(t, "save") /\ UNCHANGED report
       \/ /\ ~Absent /\ db.row.cols.expires <= now
          /\ GoTo(t, "import_drop") /\ UNCHANGED report
       \/ /\ ~Absent /\ db.row.cols.expires > now
          /\ report' = [report EXCEPT ![t].present = @ + 1, ![t].skipped = @ + 1]
          /\ GoTo(t, "import")
    /\ UNCHANGED <<copy, at, acked, overlap, loaded>>

ImportDrops(t) ==
    /\ pc[t] = "import_drop"
    /\ Writes(t, [db EXCEPT !.row = None])
    /\ acked' = {}
    /\ GoTo(t, "save")
    /\ UNCHANGED <<copy, at, report, overlap, loaded>>

ImportEnds(t) ==
    /\ pc[t] = "import" /\ report[t].next > Len(dir)
    /\ GoTo(t, "done")
    /\ UNCHANGED <<now, db, tx, store, dir, known>> /\ Keep

----------------------------------------------------------------------------
(* Failures, time, crash. *)

\* A statement fails (I/O, busy, cancelled context, closed store); a
\* transaction is rolled back.
Fails(t) ==
    /\ Active(t)
    /\ GoTo(t, "failed")
    /\ tx' = IF tx # None /\ tx.task = t THEN None ELSE tx
    /\ UNCHANGED <<now, db, store, dir, known>> /\ Keep

Tick ==
    /\ now < MaxNow
    /\ now' = now + 1
    /\ UNCHANGED <<db, tx, store, dir, known, taskVars>>

\* Close: no statement starts any more; a transaction may still end.
Close(p) ==
    /\ store[p] = "open"
    /\ store' = [store EXCEPT ![p] = "closed"]
    /\ UNCHANGED <<now, db, tx, dir, known, taskVars>>

\* The process dies or exits: its transaction and its operations are gone.
Crash(p) ==
    /\ store[p] # "down"
    /\ store' = [store EXCEPT ![p] = "down"]
    /\ tx' = IF tx # None /\ tx.proc = p THEN None ELSE tx
    /\ pc' = [t \in Task |-> IF Home[t] = p /\ pc[t] # "idle" THEN "done" ELSE pc[t]]
    /\ UNCHANGED <<now, db, dir, known>> /\ Keep

Process(p) ==
    \/ \E path \in RefusedPaths \cup {"file"} : Open(p, path)
    \/ BeginMigration(p) \/ Migrate(p) \/ CommitMigration(p) \/ InitialCleanup(p)
    \/ OpenFails(p) \/ Close(p) \/ Crash(p)

Operation(t) ==
    \/ Create(t) \/ Get(t) \/ DropExpired(t) \/ Update(t) \/ SaveChecks(t) \/ Save(t) \/ Delete(t)
    \/ CleanupSessions(t) \/ CleanupHistory(t) \/ List(t) \/ ListQueryHistory(t) \/ RecordQuery(t)
    \/ BeginCapabilities(t) \/ SaveCapability(t) \/ CommitCapabilities(t) \/ LoadCapabilities(t)
    \/ Import(t) \/ ImportFile(t) \/ ImportAsks(t) \/ ImportDrops(t) \/ ImportEnds(t)
    \/ Fails(t)

Next == (\E p \in Proc : Process(p)) \/ (\E t \in Task : Operation(t)) \/ Tick

Spec == Init /\ [][Next]_vars

----------------------------------------------------------------------------
(* Properties. *)

\* Migration and capabilities are all or nothing, whenever a process crashes or
\* a statement fails: the recorded schema version has exactly its tables, a
\* store that is open has the current one, a newer database is never opened,
\* and the stored and the loaded capabilities stem from one snapshot.
TransactionsAtomic ==
    /\ db.version <= CurrentVersion => db.tables = Tables(db.version)
    /\ \A p \in Proc : store[p] \in {"cleaning", "open", "closed"} => db.version = CurrentVersion
    /\ \A p, q \in Provider : db.caps[p] = db.caps[q] /\ loaded[p] = loaded[q]

\* Whichever operation created or replaced the row, decodeStoredSnapshot accepts
\* it, and as long as no two operations overlap, every update whose Save returned
\* nil is in the row until the session is deleted or expires, through crashes of
\* any process, restarts, migrations and imports of the session's older JSON file.
SerialUpdatesKept ==
    db.row # None => /\ Decodes(db.row)
                     /\ ~overlap => acked \subseteq db.row.snap.upd

\* An import does not replace a newer database snapshot with its JSON.  It fails
\* when the row appears between its Get and its Save.
ImportNeverReplaces ==
    [][\A t \in Task :
          pc[t] = "upsert" /\ report[t].scanned > 0 /\ db.row # None /\ db' # db
             => db.row.snap.upd \subseteq db'.row.snap.upd]_vars
============================================================================
