------------------------- MODULE SQLiteStoreProofs -------------------------
(***************************************************************************)
(* Theorems about SQLiteStore for any number of processes and operations:  *)
(* transactions are atomic whatever crashes or fails between their         *)
(* statements, and operations that do not overlap lose no update.          *)
(***************************************************************************)
EXTENDS SQLiteStore, TLAPS

\* Reports of an import, places of an operation, states of a store.
Report == [scanned : Nat, imported : Nat, present : Nat, invalid : Nat,
           expired : Nat, skipped : Nat, next : Nat \ {0}]

Label == {"idle", "save", "done", "drop", "update", "delete", "failed", "upsert", "cleanup",
          "select", "caps", "import", "ask", "import_drop"}

StoreState == {"down", "refused", "opening", "migrating", "cleaning", "open", "closed"}

(* The copy an operation works on. *)
HasCopy(label) == label \in {"update", "ask", "import_drop", "save", "upsert"}

(* The state is of the expected type; a session that is in a file or copied is *)
(* known, and has content.                                                   *)
TypeOK ==
    /\ now \in Nat /\ db \in DatabaseState /\ tx \in Transaction \cup {None}
    /\ store \in [Proc -> StoreState] /\ known \in BOOLEAN
    /\ pc \in [Task -> Label] /\ copy \in [Task -> Copy \cup {None}]
    /\ at \in [Task -> Nat] /\ report \in [Task -> Report]
    /\ acked \in SUBSET Task /\ overlap \in BOOLEAN /\ loaded \in [Provider -> Task \cup {None}]
    /\ Len(dir) \in Nat
    /\ \A i \in 1 .. Len(dir) : dir[i].kind = "session" => known /\ dir[i].snap \in Copy
    /\ \A t \in Task : HasCopy(pc[t]) => known /\ copy[t] \in Copy

(* A database has the tables of its version, and one capability snapshot.     *)
WholeSchema(d) == d.version <= CurrentVersion => d.tables = Tables(d.version)
\* All providers have their capabilities of one snapshot.
OneSnapshot(caps) == \A p, q \in Provider : caps[p] = caps[q]

(* A store past its migration has the current version.                        *)
Atomic ==
    /\ WholeSchema(db) /\ OneSnapshot(db.caps) /\ OneSnapshot(loaded)
    /\ \A p \in Proc : store[p] \in {"cleaning", "open", "closed"} => db.version = CurrentVersion

(* The open transaction belongs to the migrating store, or to the task that   *)
(* saves capabilities; nobody writes beside it, so its image differs from the *)
(* database in what it writes only.                                          *)
MigrationImage(i, stage) ==
    /\ i.caps = db.caps /\ i.version <= CurrentVersion
    /\ stage = "apply" => i.tables = Tables(i.version)
    /\ stage = "record" => i.version < CurrentVersion /\ i.tables = Tables(i.version + 1)

\* Transactions and their owners.
Transacting ==
    /\ tx # None =>
          /\ tx.image.row = db.row
          /\ tx.task = None => store[tx.proc] = "migrating" /\ MigrationImage(tx.image, tx.stage)
          /\ tx.task # None =>
                /\ pc[tx.task] = "caps" /\ tx.proc = Home[tx.task]
                /\ store[tx.proc] \in {"open", "closed"}
                /\ tx.image.version = db.version /\ tx.image.tables = db.tables
    /\ \A p \in Proc : store[p] = "migrating" => tx # None /\ tx.proc = p /\ tx.task = None
    /\ \A t \in Task : pc[t] = "caps" => tx # None /\ tx.task = t

(* Operations run one at a time until overlap says otherwise.                 *)
Alone == ~overlap => \A t, u \in Task : Active(t) /\ Active(u) => t = u

(* Without overlap, the row and the copy of the operation about to replace it *)
(* hold every acknowledged update.                                           *)
Updating(label) == label \in {"update", "save", "upsert"}

\* Rows decode; without overlap no acknowledged update is missing from the row, or from a copy about to replace it.
Kept ==
    /\ ~known => db.row = None
    /\ db.row = None => acked = {}
    /\ db.row # None => Decodes(db.row)
    /\ ~overlap => /\ db.row # None => acked \subseteq db.row.snap.upd
                   /\ \A t \in Task : Updating(pc[t]) => acked \subseteq copy[t].upd

\* The inductive invariant.
SQLiteInv == TypeOK /\ Atomic /\ Transacting /\ Alone /\ Kept
----------------------------------------------------------------------------
(* The database. *)

(* A statement changes one field of the database. *)
LEMMA WithRow ==
    ASSUME NEW d \in DatabaseState, NEW r \in Row \cup {None}, NEW x, x = [d EXCEPT !.row = r]
    PROVE  /\ x \in DatabaseState /\ x.row = r /\ x.version = d.version /\ x.tables = d.tables
           /\ x.caps = d.caps /\ x.hist = d.hist
  BY DEF DatabaseState

\* The query history.
LEMMA WithHistory ==
    ASSUME NEW d \in DatabaseState, NEW h \in Nat \cup {None}, NEW x, x = [d EXCEPT !.hist = h]
    PROVE  /\ x \in DatabaseState /\ x.row = d.row /\ x.version = d.version /\ x.tables = d.tables
           /\ x.caps = d.caps
  BY DEF DatabaseState

\* The tables of a migration.
LEMMA WithTables ==
    ASSUME NEW d \in DatabaseState, NEW T \in SUBSET Table, NEW x, x = [d EXCEPT !.tables = T]
    PROVE  /\ x \in DatabaseState /\ x.row = d.row /\ x.version = d.version /\ x.tables = T
           /\ x.caps = d.caps
  BY DEF DatabaseState

\* The schema version.
LEMMA WithVersion ==
    ASSUME NEW d \in DatabaseState, NEW v \in Nat, NEW x, x = [d EXCEPT !.version = v]
    PROVE  /\ x \in DatabaseState /\ x.row = d.row /\ x.version = v /\ x.tables = d.tables
           /\ x.caps = d.caps
  BY DEF DatabaseState

\* One provider's capability.
LEMMA WithCapability ==
    ASSUME NEW d \in DatabaseState, NEW q \in Provider, NEW t \in Task,
           NEW x, x = [d EXCEPT !.caps[q] = t]
    PROVE  /\ x \in DatabaseState /\ x.row = d.row /\ x.version = d.version /\ x.tables = d.tables
  BY DEF DatabaseState

\* The fields of a database.
LEMMA DatabaseFields ==
    ASSUME NEW d \in DatabaseState
    PROVE  /\ d.version \in Nat /\ d.tables \in SUBSET Table /\ d.row \in Row \cup {None}
           /\ d.hist \in Nat \cup {None} /\ d.caps \in [Provider -> Task \cup {None}]
  BY DEF DatabaseState

(* A row is decodable, and holds the copy it was made of. *)
LEMMA RowFields ==
    ASSUME NEW c \in Copy
    PROVE  /\ RowOf(c) \in Row /\ RowOf(c) # None /\ RowOf(c).snap = c
           /\ Decodes(RowOf(c))
  <1>1. RowOf(c) \in Row /\ RowOf(c).snap = c /\ RowOf(c).cols = c.times
    BY DEF RowOf, Row, Copy
  <1> QED
    BY <1>1, SQLiteAssumption DEF SQLiteAssumption, Decodes

(* A new session. *)
LEMMA NewCopyFields ==
    ASSUME NEW n \in Nat
    PROVE  NewCopy(n) \in Copy /\ NewCopy(n).upd = {}
  BY SQLiteAssumption DEF SQLiteAssumption, NewCopy, Times, Copy, Life

(* The next version of the schema. *)
LEMMA NextTables ==
    ASSUME NEW v \in Nat
    PROVE  /\ Tables(v) \in SUBSET Table
           /\ MigrationStatements(v + 1) \in SUBSET Table
           /\ Tables(v + 1) = Tables(v) \cup MigrationStatements(v + 1)
  <1>1. \A i : MigrationStatements(i) \in SUBSET Table
    BY DEF MigrationStatements, Table
  <1>2. 1 .. (v + 1) = (1 .. v) \cup {v + 1}
    OBVIOUS
  <1> HIDE DEF MigrationStatements
  <1> QED
    BY <1>1, <1>2 DEF Tables

(* Transactions. *)
LEMMA TransactionFields ==
    ASSUME TypeOK, tx # None
    PROVE  /\ tx \in Transaction /\ tx.proc \in Proc /\ tx.task \in Task \cup {None}
           /\ tx.image \in DatabaseState /\ tx.stage \in {"apply", "record"}
  BY DEF TypeOK, Transaction

\* A transaction that begins.
LEMMA NewTransaction ==
    ASSUME NEW p \in Proc, NEW t \in Task \cup {None}, NEW i \in DatabaseState,
           NEW s \in {"apply", "record"}, NEW x, x = [proc |-> p, task |-> t, image |-> i, stage |-> s]
    PROVE  /\ x \in Transaction /\ x # None
           /\ x.proc = p /\ x.task = t /\ x.image = i /\ x.stage = s
  <1>1. x \in Transaction
    BY DEF Transaction
  <1> QED
    BY <1>1, SQLiteAssumption DEF SQLiteAssumption

\* A statement of the open transaction.
LEMMA Staged ==
    ASSUME TypeOK, tx # None, NEW i \in DatabaseState, NEW s \in {"apply", "record"},
           InTransaction(i, s)
    PROVE  /\ tx' \in Transaction /\ tx' # None /\ tx'.proc = tx.proc /\ tx'.task = tx.task
           /\ tx'.image = i /\ tx'.stage = s /\ db' = db
  <1>1. tx' = [tx EXCEPT !.image = i, !.stage = s] /\ db' = db
    BY DEF InTransaction, Stage
  <1>2. tx' \in Transaction /\ tx'.proc = tx.proc /\ tx'.task = tx.task /\ tx'.image = i /\ tx'.stage = s
    BY <1>1, TransactionFields DEF Transaction
  <1> QED
    BY <1>1, <1>2, SQLiteAssumption DEF SQLiteAssumption

----------------------------------------------------------------------------
(* What the steps do. *)

(* A task goes somewhere, and an operation that begins notices the others.    *)
LEMMA Goes ==
    ASSUME TypeOK, NEW t \in Task, NEW l \in Label, GoTo(t, l)
    PROVE  /\ pc' \in [Task -> Label] /\ pc'[t] = l
           /\ \A u \in Task \ {t} : pc'[u] = pc[u]
  BY DEF TypeOK, GoTo

\* An operation that begins alone finds no other.
LEMMA Begun ==
    ASSUME TypeOK, NEW t \in Task, NEW kind, Begins(t, kind)
    PROVE  /\ pc[t] = "idle" /\ overlap' \in BOOLEAN
           /\ ~overlap' => ~overlap /\ \A u \in Task \ {t} : ~Active(u)
  <1>1. overlap' = (overlap \/ \E u \in Task \ {t} : Active(u)) /\ pc[t] = "idle"
    BY DEF Begins
  <1>2. (overlap \/ \E u \in Task \ {t} : Active(u)) \in BOOLEAN
    OBVIOUS
  <1> QED
    BY <1>1, <1>2, Zenon

(* An operation moves one task. *)
Moved(t) ==
    /\ UNCHANGED <<now, store, dir>>
    /\ pc' \in [Task -> Label] /\ \A u \in Task \ {t} : pc'[u] = pc[u]
    /\ overlap' \in BOOLEAN
    /\ \/ overlap' = overlap /\ Active(t)
       \/ pc[t] = "idle" /\ (~overlap' => ~overlap /\ \A u \in Task \ {t} : ~Active(u))

\* Every step of an operation moves its own task only.
LEMMA Moves ==
    ASSUME TypeOK, NEW t \in Task, Operation(t)
    PROVE  Moved(t)
  <1>1. ASSUME NEW l \in Label, GoTo(t, l), UNCHANGED <<now, store, dir>>,
               NEW kind, Begins(t, kind)
        PROVE  Moved(t)
    BY <1>1, Goes, Begun DEF Moved
  <1>2. ASSUME NEW l \in Label, GoTo(t, l), UNCHANGED <<now, store, dir, overlap>>, Active(t)
        PROVE  Moved(t)
    <2>1. overlap' \in BOOLEAN
      BY <1>2 DEF TypeOK
    <2> QED
      BY <1>2, <2>1, Goes DEF Moved
  <1>3. ASSUME UNCHANGED <<pc, now, store, dir, overlap>>, Active(t)
        PROVE  Moved(t)
    BY <1>3 DEF Moved, TypeOK
  <1>4. CASE Create(t)
    BY <1>1, <1>4 DEF Create, Label
  <1>5. CASE Get(t)
    BY <1>1, <1>5 DEF Get, Reads, Label
  <1>6. CASE CleanupSessions(t)
    BY <1>1, <1>6 DEF CleanupSessions, Writes, Label
  <1>7. CASE RecordQuery(t)
    BY <1>1, <1>7 DEF RecordQuery, Writes, Label
  <1>8. CASE BeginCapabilities(t)
    BY <1>1, <1>8 DEF BeginCapabilities, Label
  <1>9. CASE LoadCapabilities(t)
    BY <1>1, <1>9 DEF LoadCapabilities, Reads, Label
  <1>10. CASE Import(t)
    BY <1>1, <1>10 DEF Import, Label
  <1>11. CASE DropExpired(t)
    BY <1>2, <1>11 DEF DropExpired, Writes, Label, Active
  <1>12. CASE Update(t)
    BY <1>2, <1>12 DEF Update, Label, Active
  <1>13. CASE SaveChecks(t)
    BY <1>2, <1>13 DEF SaveChecks, Keep, Label, Active
  <1>14. CASE Save(t)
    BY <1>2, <1>14 DEF Save, Writes, AfterSave, Label, Active
  <1>15. CASE Delete(t)
    BY <1>2, <1>15 DEF Delete, Writes, AfterSave, Label, Active
  <1>16. CASE CleanupHistory(t)
    BY <1>2, <1>16 DEF CleanupHistory, Writes, Keep, Label, Active
  <1>17. CASE List(t)
    BY <1>2, <1>17 DEF List, Reads, Keep, Label, Active
  <1>18. CASE ListQueryHistory(t)
    BY <1>2, <1>18 DEF ListQueryHistory, Reads, Keep, Label, Active
  <1>19. CASE CommitCapabilities(t)
    BY <1>2, <1>19 DEF CommitCapabilities, Keep, Label, Active
  <1>20. CASE ImportAsks(t)
    BY <1>2, <1>20 DEF ImportAsks, Reads, Label, Active
  <1>21. CASE ImportDrops(t)
    BY <1>2, <1>21 DEF ImportDrops, Writes, Label, Active
  <1>22. CASE ImportEnds(t)
    BY <1>2, <1>22 DEF ImportEnds, Keep, Label, Active
  <1>23. CASE Fails(t)
    BY <1>2, <1>23 DEF Fails, Keep, Label, Active
  <1>24. CASE SaveCapability(t)
    BY <1>3, <1>24 DEF SaveCapability, taskVars, Active
  <1>25. CASE ImportFile(t)
    BY <1>2, <1>3, <1>25 DEF ImportFile, Label, Active
  <1> QED
    BY <1>4, <1>5, <1>6, <1>7, <1>8, <1>9, <1>10, <1>11, <1>12, <1>13, <1>14, <1>15,
       <1>16, <1>17, <1>18, <1>19, <1>20, <1>21, <1>22, <1>23, <1>24, <1>25 DEF Operation

(* What CleanupExpired leaves. *)
LEMMA Cleaned ==
    ASSUME NEW d \in DatabaseState, d = db, NEW n
    PROVE  /\ WithoutExpired(n) \in DatabaseState /\ WithoutExpiredHistory(n) \in DatabaseState
           /\ WithoutExpired(n).row \in {d.row, None} /\ WithoutExpiredHistory(n).row = d.row
           /\ \A x \in {WithoutExpired(n), WithoutExpiredHistory(n)} :
                 x.version = d.version /\ x.tables = d.tables /\ x.caps = d.caps
  <1>1. WithoutExpired(n) = d \/ WithoutExpired(n) = [d EXCEPT !.row = None]
    BY DEF WithoutExpired
  <1>2. WithoutExpiredHistory(n) = d \/ WithoutExpiredHistory(n) = [d EXCEPT !.hist = None]
    BY DEF WithoutExpiredHistory
  <1>3. /\ WithoutExpired(n) \in DatabaseState /\ WithoutExpired(n).row \in {d.row, None}
        /\ WithoutExpired(n).version = d.version /\ WithoutExpired(n).tables = d.tables
        /\ WithoutExpired(n).caps = d.caps
    BY <1>1, WithRow
  <1>4. /\ WithoutExpiredHistory(n) \in DatabaseState /\ WithoutExpiredHistory(n).row = d.row
        /\ WithoutExpiredHistory(n).version = d.version /\ WithoutExpiredHistory(n).tables = d.tables
        /\ WithoutExpiredHistory(n).caps = d.caps
    BY <1>2, WithHistory
  <1> QED
    BY <1>3, <1>4

(* The statements outside a transaction. *)
Statement(t) ==
    \/ DropExpired(t) \/ Save(t) \/ Delete(t) \/ CleanupSessions(t) \/ CleanupHistory(t)
    \/ RecordQuery(t) \/ ImportDrops(t)

(* They write the row or the history while no transaction is open.            *)
LEMMA Written ==
    ASSUME TypeOK, NEW t \in Task, Statement(t)
    PROVE  /\ tx = None /\ UNCHANGED <<tx, known, loaded>>
           /\ db' \in DatabaseState
           /\ db'.version = db.version /\ db'.tables = db.tables /\ db'.caps = db.caps
           /\ pc[t] # "caps"
           /\ \/ Save(t) /\ db'.row = RowOf(copy[t])
              \/ db'.row = db.row /\ acked' = acked
              \/ db'.row = None /\ acked' = {}
  <1>1. db \in DatabaseState
    BY DEF TypeOK
  <1>2. CASE DropExpired(t) \/ Delete(t) \/ ImportDrops(t)
    <2>1. /\ tx = None /\ UNCHANGED <<tx, known, loaded>> /\ db' = [db EXCEPT !.row = None] /\ acked' = {}
          /\ pc[t] # "caps"
      BY <1>2 DEF DropExpired, Delete, ImportDrops, Writes, CanWrite
    <2> QED
      BY <1>1, <2>1, WithRow
  <1>3. CASE Save(t)
    <2>1. /\ tx = None /\ UNCHANGED <<tx, known, loaded>> /\ db' = [db EXCEPT !.row = RowOf(copy[t])]
          /\ pc[t] = "upsert"
      BY <1>3 DEF Save, Writes, CanWrite, UpsertRow
    <2>2. RowOf(copy[t]) \in Row
      BY <2>1, RowFields DEF TypeOK, HasCopy
    <2> QED
      BY <1>1, <1>3, <2>1, <2>2, WithRow
  <1>4. CASE CleanupSessions(t)
    <2>1. /\ tx = None /\ UNCHANGED <<tx, known, loaded>> /\ db' = WithoutExpired(now)
          /\ acked' = Counting(WithoutExpired(now)) /\ pc[t] = "idle"
      BY <1>4 DEF CleanupSessions, Begins, Writes, CanWrite
    <2>2. /\ db' \in DatabaseState /\ db'.row \in {db.row, None}
          /\ db'.version = db.version /\ db'.tables = db.tables /\ db'.caps = db.caps
      BY <1>1, <2>1, Cleaned
    <2>3. acked' = IF db'.row = None THEN {} ELSE acked
      BY <2>1 DEF Counting
    <2> QED
      BY <2>1, <2>2, <2>3
  <1>5. CASE CleanupHistory(t)
    <2>1. /\ tx = None /\ UNCHANGED <<tx, known, loaded, acked>> /\ db' = WithoutExpiredHistory(at[t])
          /\ pc[t] = "cleanup"
      BY <1>5 DEF CleanupHistory, Writes, CanWrite, Keep
    <2> QED
      BY <1>1, <2>1, Cleaned
  <1>6. CASE RecordQuery(t)
    <2>1. /\ tx = None /\ UNCHANGED <<tx, known, loaded, acked>> /\ pc[t] = "idle"
          /\ db' = db \/ db' = [db EXCEPT !.hist = now + TTL]
      BY <1>6 DEF RecordQuery, Begins, Writes, CanWrite
    <2>2. now + TTL \in Nat
      BY SQLiteAssumption DEF SQLiteAssumption, TypeOK
    <2> QED
      BY <1>1, <2>1, <2>2, WithHistory
  <1> QED
    BY <1>2, <1>3, <1>4, <1>5, <1>6 DEF Statement

(* The operations that leave the database and the transaction alone.          *)
Look(t) ==
    \/ Create(t) \/ Get(t) \/ Update(t) \/ SaveChecks(t) \/ List(t) \/ ListQueryHistory(t)
    \/ LoadCapabilities(t) \/ Import(t) \/ ImportFile(t) \/ ImportAsks(t) \/ ImportEnds(t)

\* Such a step may load the capabilities, and no more.
LEMMA Looked ==
    ASSUME TypeOK, NEW t \in Task, Look(t)
    PROVE  /\ UNCHANGED <<db, tx, acked>> /\ pc[t] # "caps" /\ pc'[t] # "caps"
           /\ loaded' = loaded \/ loaded' = db.caps
  <1>1. CASE Create(t) \/ Get(t) \/ LoadCapabilities(t) \/ Import(t)
    BY <1>1 DEF TypeOK, Create, Get, LoadCapabilities, Import, Begins, Reads, GoTo
  <1>2. CASE Update(t) \/ SaveChecks(t) \/ List(t) \/ ListQueryHistory(t) \/ ImportEnds(t)
    BY <1>2 DEF TypeOK, Update, SaveChecks, List, ListQueryHistory, ImportEnds, Reads, Keep, GoTo
  <1>3. CASE ImportFile(t) \/ ImportAsks(t)
    BY <1>3 DEF TypeOK, ImportFile, ImportAsks, Reads, GoTo
  <1> QED
    BY <1>1, <1>2, <1>3 DEF Look

----------------------------------------------------------------------------
(* Types. *)

(* The counters of an import. *)
LEMMA ReportFields ==
    ASSUME NEW r \in Report
    PROVE  /\ [r EXCEPT !.imported = @ + 1] \in Report
           /\ [r EXCEPT !.present = @ + 1, !.skipped = @ + 1] \in Report
           /\ [r EXCEPT !.invalid = @ + 1, !.skipped = @ + 1] \in Report
           /\ [r EXCEPT !.expired = @ + 1, !.skipped = @ + 1] \in Report
           /\ [r EXCEPT !.next = @ + 1] \in Report
           /\ [r EXCEPT !.next = @ + 1, !.scanned = @ + 1] \in Report
  <1>1. /\ r.scanned \in Nat /\ r.imported \in Nat /\ r.present \in Nat /\ r.invalid \in Nat
        /\ r.expired \in Nat /\ r.skipped \in Nat /\ r.next \in Nat \ {0}
    BY DEF Report
  <1>2. [r EXCEPT !.imported = @ + 1] \in Report
    BY <1>1 DEF Report
  <1>3. [r EXCEPT !.present = @ + 1, !.skipped = @ + 1] \in Report
    <2> DEFINE q == [r EXCEPT !.present = r.present + 1]
    <2>1. q \in Report /\ q.skipped = r.skipped
      BY <1>1 DEF Report
    <2>2. [r EXCEPT !.present = @ + 1, !.skipped = @ + 1] = [q EXCEPT !.skipped = r.skipped + 1]
      BY <1>1 DEF Report
    <2> HIDE DEF q
    <2>3. [q EXCEPT !.skipped = r.skipped + 1] \in Report
      BY <1>1, <2>1 DEF Report
    <2> QED
      BY <2>2, <2>3
  <1>4. [r EXCEPT !.invalid = @ + 1, !.skipped = @ + 1] \in Report
    <2> DEFINE q == [r EXCEPT !.invalid = r.invalid + 1]
    <2>1. q \in Report /\ q.skipped = r.skipped
      BY <1>1 DEF Report
    <2>2. [r EXCEPT !.invalid = @ + 1, !.skipped = @ + 1] = [q EXCEPT !.skipped = r.skipped + 1]
      BY <1>1 DEF Report
    <2> HIDE DEF q
    <2>3. [q EXCEPT !.skipped = r.skipped + 1] \in Report
      BY <1>1, <2>1 DEF Report
    <2> QED
      BY <2>2, <2>3
  <1>5. [r EXCEPT !.expired = @ + 1, !.skipped = @ + 1] \in Report
    <2> DEFINE q == [r EXCEPT !.expired = r.expired + 1]
    <2>1. q \in Report /\ q.skipped = r.skipped
      BY <1>1 DEF Report
    <2>2. [r EXCEPT !.expired = @ + 1, !.skipped = @ + 1] = [q EXCEPT !.skipped = r.skipped + 1]
      BY <1>1 DEF Report
    <2> HIDE DEF q
    <2>3. [q EXCEPT !.skipped = r.skipped + 1] \in Report
      BY <1>1, <2>1 DEF Report
    <2> QED
      BY <2>2, <2>3
  <1>7. [r EXCEPT !.next = @ + 1, !.scanned = @ + 1] \in Report
    <2> DEFINE q == [r EXCEPT !.next = r.next + 1]
    <2>1. q \in Report /\ q.scanned = r.scanned
      BY <1>1 DEF Report
    <2>2. [r EXCEPT !.next = @ + 1, !.scanned = @ + 1] = [q EXCEPT !.scanned = r.scanned + 1]
      BY <1>1 DEF Report
    <2> HIDE DEF q
    <2>3. [q EXCEPT !.scanned = r.scanned + 1] \in Report
      BY <1>1, <2>1 DEF Report
    <2> QED
      BY <2>2, <2>3
  <1>6. [r EXCEPT !.next = @ + 1] \in Report
    BY <1>1 DEF Report
  <1> QED
    BY <1>2, <1>3, <1>4, <1>5, <1>6, <1>7

\* An import counts what it saved.
LEMMA CountedReports ==
    ASSUME TypeOK, NEW t \in Task
    PROVE  Counted(t) \in [Task -> Report]
  <1>1. report \in [Task -> Report] /\ [report[t] EXCEPT !.imported = @ + 1] \in Report
    BY ReportFields DEF TypeOK
  <1> QED
    BY <1>1 DEF Counted

(* The next file of the directory is counted, and copied if it is a session. *)
LEMMA FileRead ==
    ASSUME TypeOK, NEW t \in Task, ImportFile(t)
    PROVE  /\ report' \in [Task -> Report]
           /\ \/ copy' = copy /\ pc' = pc
              \/ known /\ \E c \in Copy : copy' = [copy EXCEPT ![t] = c] /\ GoTo(t, "ask")
  <1> DEFINE f == dir[report[t].next]
             read == [report[t] EXCEPT !.next = @ + 1, !.scanned = @ + 1]
  <1>1. report[t] \in Report /\ report[t].next \in 1 .. Len(dir) /\ report \in [Task -> Report]
    BY DEF TypeOK, ImportFile, Report
  <1>2. f.kind = "session" => known /\ f.snap \in Copy
    BY <1>1 DEF TypeOK
  <1>3. read \in Report /\ [report[t] EXCEPT !.next = @ + 1] \in Report
    BY <1>1, ReportFields
  <1>4. \/ report' = [report EXCEPT ![t] = [report[t] EXCEPT !.next = @ + 1]] /\ copy' = copy /\ pc' = pc
        \/ /\ Reason(t, f) # "none" /\ copy' = copy /\ pc' = pc
           /\ report' = [report EXCEPT ![t] = [read EXCEPT ![Reason(t, f)] = @ + 1, !.skipped = @ + 1]]
        \/ /\ f.kind = "session" /\ report' = [report EXCEPT ![t] = read]
           /\ copy' = [copy EXCEPT ![t] = f.snap] /\ GoTo(t, "ask")
    BY <1>1 DEF ImportFile
  <1>5. Reason(t, f) \in {"invalid", "expired", "none"}
    BY DEF Reason
  <1> HIDE DEF f, read
  <1>6. CASE /\ Reason(t, f) # "none" /\ copy' = copy /\ pc' = pc
             /\ report' = [report EXCEPT ![t] = [read EXCEPT ![Reason(t, f)] = @ + 1, !.skipped = @ + 1]]
    <2>1. [read EXCEPT ![Reason(t, f)] = @ + 1, !.skipped = @ + 1] \in Report
      BY <1>3, <1>5, <1>6, ReportFields
    <2> QED
      BY <1>1, <1>6, <2>1
  <1>7. CASE report' = [report EXCEPT ![t] = [report[t] EXCEPT !.next = @ + 1]] /\ copy' = copy /\ pc' = pc
    BY <1>1, <1>3, <1>7
  <1>8. CASE /\ f.kind = "session" /\ report' = [report EXCEPT ![t] = read]
             /\ copy' = [copy EXCEPT ![t] = f.snap] /\ GoTo(t, "ask")
    BY <1>1, <1>2, <1>3, <1>8
  <1> QED
    BY <1>4, <1>6, <1>7, <1>8

(* An operation keeps its own books. *)
Books(t) ==
    /\ copy' \in [Task -> Copy \cup {None}] /\ \A u \in Task \ {t} : copy'[u] = copy[u]
    /\ HasCopy(pc'[t]) => known' /\ copy'[t] \in Copy
    /\ at' \in [Task -> Nat] /\ report' \in [Task -> Report]

\* A drawn session ID stays.
LEMMA KnownStays ==
    ASSUME NEW t \in Task, Operation(t), known
    PROVE  known'
  BY DEF Operation, Create, Get, DropExpired, Update, SaveChecks, Save, Delete, CleanupSessions,
       CleanupHistory, List, ListQueryHistory, RecordQuery, BeginCapabilities, SaveCapability,
       CommitCapabilities, LoadCapabilities, Import, ImportFile, ImportAsks, ImportDrops, ImportEnds,
       Fails, Reads, Writes

\* Every step of an operation keeps its books.
LEMMA BooksKept ==
    ASSUME TypeOK, NEW t \in Task, Operation(t)
    PROVE  Books(t)
  <1>0. known => known'
    BY KnownStays
  <1>1. ASSUME UNCHANGED <<copy, at, report>>, HasCopy(pc'[t]) => HasCopy(pc[t]) PROVE Books(t)
    BY <1>0, <1>1 DEF Books, TypeOK
  <1>2. ASSUME NEW c \in Copy, copy' = [copy EXCEPT ![t] = c], UNCHANGED <<at, report>>, known' PROVE Books(t)
    BY <1>2 DEF Books, TypeOK
  <1>3. CASE Create(t)
    <2>1. copy' = [copy EXCEPT ![t] = NewCopy(now)] /\ UNCHANGED <<at, report>> /\ known'
      BY <1>3 DEF Create
    <2>2. NewCopy(now) \in Copy
      BY NewCopyFields DEF TypeOK
    <2> QED
      BY <1>2, <2>1, <2>2
  <1>4. CASE Get(t)
    <2>1. CASE copy' = copy /\ ~HasCopy(pc'[t])
      BY <1>1, <1>4, <2>1 DEF Get
    <2>2. CASE copy' = [copy EXCEPT ![t] = Restore(db.row)] /\ db.row # None
      <3>1. db.row \in Row
        BY <2>2, DatabaseFields DEF TypeOK
      <3>2. Restore(db.row) \in Copy
        BY <3>1 DEF Row, Restore
      <3> QED
        BY <1>0, <1>2, <1>4, <2>2, <3>2 DEF Get
    <2> QED
      BY <1>4, <2>1, <2>2 DEF Get, GoTo, HasCopy, TypeOK
  <1>5. CASE Update(t)
    <2>1. copy[t] \in Copy /\ known'
      BY <1>0, <1>5 DEF Update, TypeOK, HasCopy
    <2>2. [copy[t] EXCEPT !.upd = @ \cup {t}] \in Copy
      BY <2>1 DEF Copy
    <2>3. copy' = [copy EXCEPT ![t] = [copy[t] EXCEPT !.upd = @ \cup {t}]] /\ UNCHANGED <<at, report>>
      BY <1>5 DEF Update, TypeOK
    <2> QED
      BY <1>2, <2>1, <2>2, <2>3
  <1>6. CASE SaveChecks(t)
    BY <1>1, <1>6 DEF SaveChecks, Keep, HasCopy
  <1>7. ASSUME UNCHANGED <<copy, at>>, ~HasCopy(pc'[t]), report' = Counted(t) \/ report' = report
        PROVE  Books(t)
    <2>1. report' \in [Task -> Report]
      BY <1>7, CountedReports DEF TypeOK
    <2> QED
      BY <1>7, <2>1 DEF Books, TypeOK
  <1>8. CASE Save(t) \/ Delete(t)
    <2>1. UNCHANGED <<copy, at>> /\ (report' = Counted(t) \/ report' = report)
      BY <1>8 DEF Save, Delete
    <2>2. pc' = [pc EXCEPT ![t] = "failed"] \/ pc' = [pc EXCEPT ![t] = AfterSave(t)]
      BY <1>8 DEF Save, Delete, GoTo
    <2>3. ~HasCopy(pc'[t])
      BY <2>2 DEF AfterSave, HasCopy, TypeOK
    <2> QED
      BY <1>7, <2>1, <2>3
  <1>9. CASE CleanupSessions(t) \/ Import(t)
    <2>1. copy' = copy /\ report' = report /\ at' = [at EXCEPT ![t] = now]
          /\ (pc' = [pc EXCEPT ![t] = "cleanup"] \/ pc' = [pc EXCEPT ![t] = "import"])
      BY <1>9 DEF CleanupSessions, Import, GoTo
    <2> QED
      BY <2>1 DEF Books, HasCopy, TypeOK
  <1>10. CASE DropExpired(t) \/ CleanupHistory(t) \/ RecordQuery(t)
    BY <1>1, <1>10 DEF DropExpired, CleanupHistory, RecordQuery, Keep, GoTo, HasCopy, TypeOK
  <1>11. CASE List(t) \/ ListQueryHistory(t) \/ LoadCapabilities(t) \/ ImportEnds(t)
    BY <1>1, <1>11 DEF List, ListQueryHistory, LoadCapabilities, ImportEnds, Keep, GoTo, HasCopy, TypeOK
  <1>12. CASE BeginCapabilities(t) \/ SaveCapability(t) \/ CommitCapabilities(t) \/ Fails(t)
    BY <1>1, <1>12 DEF BeginCapabilities, SaveCapability, CommitCapabilities, Fails, Keep, GoTo, taskVars,
       HasCopy, TypeOK
  <1>13. CASE ImportFile(t)
    <2>1. at' = at /\ report' \in [Task -> Report] /\ pc[t] = "import"
      BY <1>13, FileRead DEF ImportFile
    <2>2. CASE copy' = copy /\ pc' = pc
      BY <2>1, <2>2 DEF Books, HasCopy, TypeOK
    <2>3. ASSUME NEW c \in Copy, copy' = [copy EXCEPT ![t] = c], known PROVE Books(t)
      BY <1>0, <2>1, <2>3 DEF Books, TypeOK
    <2> QED
      BY <1>13, <2>2, <2>3, FileRead
  <1>14. CASE ImportAsks(t)
    <2>1. UNCHANGED <<copy, at>> /\ pc[t] = "ask"
      BY <1>14 DEF ImportAsks
    <2>2. report' = report \/ report' = [report EXCEPT ![t].present = @ + 1, ![t].skipped = @ + 1]
      BY <1>14 DEF ImportAsks
    <2>4. report[t] \in Report /\ [report[t] EXCEPT !.present = @ + 1, !.skipped = @ + 1] \in Report
      BY ReportFields DEF TypeOK
    <2>5. report' = report \/ report' = [report EXCEPT ![t] =
                                            [report[t] EXCEPT !.present = @ + 1, !.skipped = @ + 1]]
      BY <2>2 DEF TypeOK
    <2>3. report' \in [Task -> Report]
      BY <2>4, <2>5 DEF TypeOK
    <2> QED
      BY <1>0, <2>1, <2>3 DEF Books, HasCopy, TypeOK
  <1>15. CASE ImportDrops(t)
    BY <1>1, <1>15 DEF ImportDrops, HasCopy
  <1> QED
    BY <1>3, <1>4, <1>5, <1>6, <1>8, <1>9, <1>10, <1>11, <1>12, <1>13, <1>14, <1>15, Zenon DEF Operation

----------------------------------------------------------------------------
(* What keeps the parts of the invariant. *)

(* No store is migrating and no task saves capabilities without a transaction *)
(* of its own.                                                               *)
LEMMA Owners ==
    ASSUME TypeOK, Transacting
    PROVE  /\ tx # None =>
                /\ tx.proc \in Proc /\ store[tx.proc] \in {"migrating", "open", "closed"}
                /\ store[tx.proc] = "migrating" <=> tx.task = None
           /\ \A p \in Proc : store[p] = "migrating" => tx # None /\ tx.proc = p /\ tx.task = None
           /\ \A t \in Task : pc[t] = "caps" =>
                /\ tx # None /\ tx.task = t /\ tx.task # None /\ tx.proc = Home[t]
                /\ store[Home[t]] \in {"open", "closed"}
  <1>1. None \notin Task
    BY SQLiteAssumption DEF SQLiteAssumption
  <1>2. tx # None => tx.proc \in Proc
    BY TransactionFields
  <1> QED
    BY <1>1, <1>2 DEF Transacting

(* A step of an operation beside the transaction. *)
LEMMA Beside ==
    ASSUME TypeOK, Transacting, NEW t \in Task, pc[t] # "caps", pc'[t] # "caps",
           \A u \in Task \ {t} : pc'[u] = pc[u], UNCHANGED <<tx, store>>, tx # None => db' = db
    PROVE  Transacting'
  <1>1. CASE tx = None
    BY <1>1 DEF Transacting
  <1>2. CASE tx # None
    <2>1. tx.task # t /\ tx.task \in Task \cup {None} /\ db' = db
      <3>1. tx.task = t => pc[t] = "caps"
        BY <1>2, SQLiteAssumption DEF SQLiteAssumption, Transacting
      <3>2. tx.task \in Task \cup {None}
        BY <1>2, TransactionFields
      <3> QED
        BY <1>2, <3>1, <3>2
    <2>2. tx.task # None => pc'[tx.task] = pc[tx.task]
      BY <2>1
    <2> QED
      BY <1>2, <2>1, <2>2 DEF Transacting, MigrationImage
  <1> QED
    BY <1>1, <1>2

(* A store whose transaction is not open changes its state. *)
LEMMA StoreMoves ==
    ASSUME TypeOK, Transacting, NEW p \in Proc, NEW st \in StoreState \ {"migrating"},
           store' = [store EXCEPT ![p] = st], store[p] # "migrating", UNCHANGED <<tx, pc>>,
           tx # None => db' = db /\ (tx.proc # p \/ st \in {"open", "closed"})
    PROVE  Transacting'
  <1>1. store'[p] = st /\ \A q \in Proc \ {p} : store'[q] = store[q]
    BY DEF TypeOK
  <1>2. CASE tx = None
    BY <1>1, <1>2 DEF Transacting
  <1>3. CASE tx # None
    <2>1. /\ db' = db /\ tx.proc \in Proc
          /\ tx.task = None => tx.proc # p
          /\ tx.task # None => store'[tx.proc] \in {"open", "closed"}
      BY <1>1, <1>3, Owners DEF Transacting
    <2>2. tx.task = None => store'[tx.proc] = store[tx.proc]
      BY <1>1, <2>1
    <2>3. \A q \in Proc : store'[q] = "migrating" => store[q] = "migrating"
      BY <1>1
    <2> QED
      BY <1>3, <2>1, <2>2, <2>3 DEF Transacting, MigrationImage
  <1> QED
    BY <1>2, <1>3

(* What is kept when nothing of it changes, and when the row is gone. *)
LEMMA KeptStays ==
    ASSUME Kept, acked' = acked, db'.row = db.row, known => known', ~overlap' => ~overlap,
           \A u \in Task : Updating(pc'[u]) /\ ~overlap =>
                \/ Updating(pc[u]) /\ copy[u].upd \subseteq copy'[u].upd
                \/ acked \subseteq copy'[u].upd
    PROVE  Kept'
  <1>1. /\ ~known' => db'.row = None
        /\ db'.row = None => acked' = {}
        /\ db'.row # None => Decodes(db'.row)
    BY DEF Kept
  <1>2. ~overlap' => (db'.row # None => acked' \subseteq db'.row.snap.upd)
    BY DEF Kept
  <1>3. ASSUME ~overlap', NEW u \in Task, Updating(pc'[u]) PROVE acked' \subseteq copy'[u].upd
    BY <1>3 DEF Kept
  <1> QED
    BY <1>1, <1>2, <1>3 DEF Kept

\* Nothing can be lost of a row that is gone.
LEMMA KeptGone ==
    ASSUME acked' = {}, db'.row = None
    PROVE  Kept'
  BY DEF Kept

----------------------------------------------------------------------------
(* Processes. *)

(* Opening, closing and a store that fails to open. *)
LEMMA StoreStep ==
    ASSUME SQLiteInv, NEW p \in Proc,
           (\E path \in RefusedPaths \cup {"file"} : Open(p, path)) \/ Close(p)
    PROVE  SQLiteInv'
  <1>1. PICK st \in {"refused", "opening", "closed"} :
           /\ store' = [store EXCEPT ![p] = st]
           /\ IF st = "closed" THEN store[p] = "open" ELSE store[p] = "down"
           /\ UNCHANGED <<now, db, tx, dir, known, taskVars>>
    <2>1. CASE Close(p)
      BY <2>1 DEF Close
    <2>2. ASSUME NEW path, Open(p, path)
          PROVE  \E st \in {"refused", "opening"} :
                    /\ store' = [store EXCEPT ![p] = st] /\ store[p] = "down"
                    /\ UNCHANGED <<now, db, tx, dir, known, taskVars>>
      <3>1. CASE path \in RefusedPaths
        BY <2>2, <3>1 DEF Open
      <3>2. CASE path \notin RefusedPaths
        BY <2>2, <3>2 DEF Open
      <3> QED
        BY <3>1, <3>2
    <2> QED
      BY <2>1, <2>2
  <1>2. TypeOK'
    BY <1>1 DEF SQLiteInv, TypeOK, StoreState, taskVars
  <1>3. Atomic'
    BY <1>1 DEF SQLiteInv, TypeOK, Atomic, taskVars
  <1>4. Transacting'
    <2>1. store[p] # "migrating" /\ (tx # None => tx.proc # p \/ st = "closed")
      BY <1>1, Owners DEF SQLiteInv
    <2> QED
      BY <1>1, <2>1, StoreMoves DEF SQLiteInv, StoreState, taskVars
  <1>5. Alone' /\ Kept'
    BY <1>1 DEF SQLiteInv, Alone, Active, Kept, taskVars
  <1> QED
    BY <1>2, <1>3, <1>4, <1>5 DEF SQLiteInv

(* A migration begins on a whole schema. *)
LEMMA BeginMigrationStep ==
    ASSUME SQLiteInv, NEW p \in Proc, BeginMigration(p)
    PROVE  SQLiteInv'
  <1>1. /\ store[p] = "opening" /\ tx = None /\ UNCHANGED <<now, db, dir, known, taskVars>>
        /\ \/ store' = [store EXCEPT ![p] = "refused"] /\ tx' = tx
           \/ /\ store' = [store EXCEPT ![p] = "migrating"] /\ ~(db.version > CurrentVersion)
              /\ tx' = [proc |-> p, task |-> None, image |-> db, stage |-> "apply"]
    BY DEF BeginMigration
  <1>2. /\ db \in DatabaseState /\ db.version \in Nat /\ CurrentVersion \in Nat
        /\ \A t \in Task : pc[t] # "caps"
        /\ \A q \in Proc : store[q] # "migrating"
    BY <1>1, DatabaseFields, Owners DEF SQLiteInv, TypeOK, CurrentVersion
  <1>3. CASE store' = [store EXCEPT ![p] = "refused"] /\ tx' = tx
    <2>1. TypeOK' /\ Atomic'
      BY <1>1, <1>3 DEF SQLiteInv, TypeOK, Atomic, StoreState, taskVars
    <2>2. Transacting'
      BY <1>1, <1>3, StoreMoves DEF SQLiteInv, StoreState, taskVars
    <2>3. Alone' /\ Kept'
      BY <1>1 DEF SQLiteInv, Alone, Active, Kept, taskVars
    <2> QED
      BY <2>1, <2>2, <2>3 DEF SQLiteInv
  <1>4. CASE /\ store' = [store EXCEPT ![p] = "migrating"] /\ ~(db.version > CurrentVersion)
             /\ tx' = [proc |-> p, task |-> None, image |-> db, stage |-> "apply"]
    <2>1. /\ tx' \in Transaction /\ tx' # None /\ tx'.proc = p /\ tx'.task = None
          /\ tx'.image = db /\ tx'.stage = "apply"
      BY <1>2, <1>4, NewTransaction
    <2>2. TypeOK' /\ Atomic'
      BY <1>1, <1>4, <2>1 DEF SQLiteInv, TypeOK, Atomic, StoreState, taskVars
    <2>3. db.version <= CurrentVersion /\ db.tables = Tables(db.version)
      BY <1>2, <1>4 DEF SQLiteInv, Atomic, WholeSchema
    <2>4. MigrationImage(tx.image, tx.stage)'
      BY <1>1, <2>1, <2>3 DEF MigrationImage
    <2>5. store'[p] = "migrating" /\ \A q \in Proc \ {p} : store'[q] # "migrating"
      BY <1>2, <1>4 DEF SQLiteInv, TypeOK
    <2>6. Transacting'
      BY <1>1, <1>2, <2>1, <2>4, <2>5 DEF Transacting, taskVars
    <2>7. Alone' /\ Kept'
      BY <1>1 DEF SQLiteInv, Alone, Active, Kept, taskVars
    <2> QED
      BY <2>2, <2>6, <2>7 DEF SQLiteInv
  <1> QED
    BY <1>1, <1>3, <1>4

(* A migration adds the tables of the next version, then records it. *)
LEMMA MigrateStep ==
    ASSUME SQLiteInv, NEW p \in Proc, Migrate(p)
    PROVE  SQLiteInv'
  <1> DEFINE i == tx.image
             n == i.version + 1
  <1>1. /\ tx # None /\ tx.proc = p /\ store[p] = "migrating" /\ i.version < CurrentVersion
        /\ \/ /\ tx.stage = "apply"
              /\ InTransaction([i EXCEPT !.tables = i.tables \cup MigrationStatements(n)], "record")
           \/ /\ tx.stage # "apply" /\ InTransaction([i EXCEPT !.version = n], "apply")
        /\ UNCHANGED <<now, store, dir, known, taskVars>>
    BY DEF Migrate
  <1>2. /\ i \in DatabaseState /\ i.version \in Nat /\ i.tables \in SUBSET Table /\ tx.stage \in {"apply", "record"}
        /\ tx.task = None /\ MigrationImage(i, tx.stage) /\ i.row = db.row
    <2>1. i \in DatabaseState /\ tx.stage \in {"apply", "record"}
      BY <1>1, TransactionFields DEF SQLiteInv
    <2>2. tx.task = None
      BY <1>1, Owners DEF SQLiteInv
    <2> HIDE DEF i
    <2>3. i.version \in Nat /\ i.tables \in SUBSET Table
      BY <2>1, DatabaseFields
    <2> QED
      BY <1>1, <2>1, <2>2, <2>3 DEF SQLiteInv, Transacting, i
  <1>3. \E x \in DatabaseState, s \in {"apply", "record"} :
           /\ InTransaction(x, s) /\ x.row = i.row /\ MigrationImage(x, s)
    <2> HIDE DEF i
    <2>1. CASE tx.stage = "apply"
      <3> DEFINE more == i.tables \cup MigrationStatements(n)
                 x == [i EXCEPT !.tables = more]
      <3>1. /\ i.tables = Tables(i.version) /\ more \in SUBSET Table /\ more = Tables(i.version + 1)
        BY <1>2, <2>1, NextTables DEF MigrationImage
      <3>2. x = [i EXCEPT !.tables = more]
        OBVIOUS
      <3>3. InTransaction(x, "record")
        BY <1>1, <2>1
      <3> HIDE DEF more, x
      <3>4. /\ x \in DatabaseState /\ x.row = i.row /\ x.version = i.version /\ x.tables = more
            /\ x.caps = i.caps
        <4>1. i \in DatabaseState /\ more \in SUBSET Table
          BY <1>2, <3>1
        <4>2. ASSUME NEW y, y = [i EXCEPT !.tables = more]
              PROVE  /\ y \in DatabaseState /\ y.row = i.row /\ y.version = i.version
                     /\ y.tables = more /\ y.caps = i.caps
          BY <4>1, <4>2 DEF DatabaseState
        <4> QED
          BY <3>2, <4>2
      <3>5. MigrationImage(x, "record")
        BY <1>1, <1>2, <3>1, <3>4 DEF MigrationImage
      <3> QED
        BY <3>3, <3>4, <3>5
    <2>2. CASE tx.stage = "record"
      <3> DEFINE x == [i EXCEPT !.version = n]
      <3>1. i.tables = Tables(n) /\ n \in Nat /\ n <= CurrentVersion
        BY <1>1, <1>2, <2>2 DEF MigrationImage, CurrentVersion
      <3>2. x = [i EXCEPT !.version = n]
        OBVIOUS
      <3>3. InTransaction(x, "apply")
        BY <1>1, <2>2
      <3> HIDE DEF n, x
      <3>4. /\ x \in DatabaseState /\ x.row = i.row /\ x.version = n /\ x.tables = i.tables
            /\ x.caps = i.caps
        BY <1>2, <3>1, <3>2, WithVersion
      <3>5. MigrationImage(x, "apply")
        BY <1>2, <3>1, <3>4 DEF MigrationImage
      <3> QED
        BY <3>3, <3>4, <3>5
    <2> QED
      BY <1>2, <2>1, <2>2
  <1>4. PICK x \in DatabaseState, s \in {"apply", "record"} :
           InTransaction(x, s) /\ x.row = i.row /\ MigrationImage(x, s)
    BY <1>3
  <1>5. /\ tx' \in Transaction /\ tx' # None /\ tx'.proc = p /\ tx'.task = None
        /\ tx'.image = x /\ tx'.stage = s /\ db' = db
    BY <1>1, <1>2, <1>4, Staged DEF SQLiteInv
  <1> HIDE DEF i, n
  <1>6. TypeOK' /\ Atomic' /\ Alone' /\ Kept'
    <2>1. TypeOK'
      BY <1>1, <1>5 DEF SQLiteInv, TypeOK, taskVars
    <2>2. Atomic' /\ Alone' /\ Kept'
      BY <1>1, <1>5 DEF SQLiteInv, Atomic, Alone, Active, Kept, taskVars
    <2> QED
      BY <2>1, <2>2
  <1>7. Transacting'
    <2>1. MigrationImage(tx.image, tx.stage)'
      BY <1>4, <1>5 DEF MigrationImage
    <2>2. /\ \A q \in Proc : store[q] = "migrating" => q = p
          /\ \A t \in Task : pc[t] # "caps"
      BY <1>1, <1>2, Owners DEF SQLiteInv
    <2> QED
      BY <1>1, <1>2, <1>4, <1>5, <2>1, <2>2 DEF Transacting, taskVars
  <1> QED
    BY <1>6, <1>7 DEF SQLiteInv

(* The committed schema is whole and current, its rows are those before. *)
LEMMA CommitMigrationStep ==
    ASSUME SQLiteInv, NEW p \in Proc, CommitMigration(p)
    PROVE  SQLiteInv'
  <1>1. /\ tx # None /\ tx.proc = p /\ store[p] = "migrating" /\ tx.image.version = CurrentVersion
        /\ db' = tx.image /\ tx' = None /\ store' = [store EXCEPT ![p] = "cleaning"]
        /\ UNCHANGED <<now, dir, known, taskVars>>
    BY DEF CommitMigration
  <1>2. /\ tx.image \in DatabaseState /\ tx.task = None /\ tx.stage \in {"apply", "record"}
        /\ \A q \in Proc \ {p} : store[q] # "migrating"
        /\ \A t \in Task : pc[t] # "caps"
    BY <1>1, TransactionFields, Owners DEF SQLiteInv
  <1>3. MigrationImage(tx.image, tx.stage) /\ tx.image.row = db.row
    BY <1>1, <1>2 DEF SQLiteInv, Transacting
  <1>4. db'.tables = Tables(db'.version) /\ db'.caps = db.caps /\ db'.row = db.row
    BY <1>1, <1>2, <1>3 DEF MigrationImage, CurrentVersion
  <1>5. TypeOK'
    BY <1>1, <1>2 DEF SQLiteInv, TypeOK, StoreState, taskVars
  <1>6. Atomic'
    BY <1>1, <1>4 DEF SQLiteInv, Atomic, WholeSchema, OneSnapshot, TypeOK, taskVars
  <1>7. Transacting'
    BY <1>1, <1>2 DEF Transacting, SQLiteInv, TypeOK, taskVars
  <1>8. Alone' /\ Kept'
    BY <1>1, <1>4 DEF SQLiteInv, Alone, Active, Kept, taskVars
  <1> QED
    BY <1>5, <1>6, <1>7, <1>8 DEF SQLiteInv

(* The first cleanup may drop the session. *)
LEMMA InitialCleanupStep ==
    ASSUME SQLiteInv, NEW p \in Proc, InitialCleanup(p)
    PROVE  SQLiteInv'
  <1> DEFINE d == WithoutExpired(now)
             h == WithoutExpiredHistory(now).hist
  <1>1. /\ store[p] = "cleaning" /\ tx = None /\ db' = [d EXCEPT !.hist = h]
        /\ acked' = Counting(d) /\ store' = [store EXCEPT ![p] = "open"]
        /\ UNCHANGED <<now, tx, dir, known, pc, copy, at, report, overlap, loaded>>
    BY DEF InitialCleanup
  <1>2. /\ d \in DatabaseState /\ h \in Nat \cup {None} /\ d.row \in {db.row, None}
        /\ d.version = db.version /\ d.tables = db.tables /\ d.caps = db.caps
    BY Cleaned, DatabaseFields DEF SQLiteInv, TypeOK
  <1>3. acked' = IF d.row = None THEN {} ELSE acked
    BY <1>1 DEF Counting
  <1> HIDE DEF d, h
  <1>4. /\ db' \in DatabaseState /\ db'.row = d.row /\ db'.version = db.version
        /\ db'.tables = db.tables /\ db'.caps = db.caps
    BY <1>1, <1>2, WithHistory
  <1>5. TypeOK'
    BY <1>1, <1>3, <1>4 DEF SQLiteInv, TypeOK, StoreState
  <1>6. Atomic'
    BY <1>1, <1>4 DEF SQLiteInv, Atomic, WholeSchema, OneSnapshot, TypeOK
  <1>7. Transacting'
    BY <1>1, StoreMoves DEF SQLiteInv, StoreState
  <1>8. Alone'
    BY <1>1 DEF SQLiteInv, Alone, Active
  <1>9. Kept'
    <2>1. CASE d.row = None
      BY <1>3, <1>4, <2>1, KeptGone
    <2>2. CASE d.row # None
      BY <1>1, <1>2, <1>3, <1>4, <2>2, KeptStays DEF SQLiteInv
    <2> QED
      BY <2>1, <2>2
  <1> QED
    BY <1>5, <1>6, <1>7, <1>8, <1>9 DEF SQLiteInv

(* A transaction that ends without Commit leaves the database as it was. *)
LEMMA OpenFailsStep ==
    ASSUME SQLiteInv, NEW p \in Proc, OpenFails(p)
    PROVE  SQLiteInv'
  <1>1. /\ store[p] \in {"opening", "migrating", "cleaning"}
        /\ store' = [store EXCEPT ![p] = "refused"]
        /\ tx' = IF tx # None /\ tx.proc = p THEN None ELSE tx
        /\ UNCHANGED <<now, db, dir, known, taskVars>>
    BY DEF OpenFails
  <1>2. TypeOK' /\ Atomic'
    BY <1>1 DEF SQLiteInv, TypeOK, Atomic, StoreState, taskVars
  <1>3. Transacting'
    <2>1. store'[p] = "refused" /\ \A q \in Proc \ {p} : store'[q] = store[q]
      BY <1>1 DEF SQLiteInv, TypeOK
    <2>2. CASE tx # None /\ tx.proc = p
      <3>1. /\ tx' = None /\ tx.task = None
        BY <1>1, <2>2, Owners DEF SQLiteInv
      <3>2. \A q \in Proc : store'[q] # "migrating"
        BY <2>1, <2>2, Owners DEF SQLiteInv
      <3>3. \A t \in Task : pc'[t] # "caps"
        BY <1>1, <3>1, Owners DEF SQLiteInv, taskVars
      <3> QED
        BY <3>1, <3>2, <3>3 DEF Transacting
    <2>3. CASE ~(tx # None /\ tx.proc = p)
      <3>1. tx' = tx /\ db' = db /\ pc' = pc /\ store[p] # "migrating"
        BY <1>1, <2>3, Owners DEF SQLiteInv, taskVars
      <3> QED
        BY <1>1, <2>3, <3>1, StoreMoves DEF SQLiteInv, StoreState
    <2> QED
      BY <2>2, <2>3
  <1>4. Alone' /\ Kept'
    BY <1>1 DEF SQLiteInv, Alone, Active, Kept, taskVars
  <1> QED
    BY <1>2, <1>3, <1>4 DEF SQLiteInv

\* A crash ends the transaction and the operations of its process.
LEMMA CrashStep ==
    ASSUME SQLiteInv, NEW p \in Proc, Crash(p)
    PROVE  SQLiteInv'
  <1>1. /\ store' = [store EXCEPT ![p] = "down"]
        /\ tx' = IF tx # None /\ tx.proc = p THEN None ELSE tx
        /\ pc' = [t \in Task |-> IF Home[t] = p /\ pc[t] # "idle" THEN "done" ELSE pc[t]]
        /\ UNCHANGED <<now, db, dir, known, copy, at, report, acked, overlap, loaded>>
    BY DEF Crash, Keep
  <1>2. /\ pc' \in [Task -> Label]
        /\ \A t \in Task : pc'[t] = pc[t] \/ (pc'[t] = "done" /\ Home[t] = p)
        /\ \A t \in Task : Home[t] = p => pc'[t] # "caps"
    BY <1>1 DEF SQLiteInv, TypeOK, Label
  <1>3. TypeOK'
    BY <1>1, <1>2 DEF SQLiteInv, TypeOK, StoreState, HasCopy
  <1>4. Atomic'
    BY <1>1 DEF SQLiteInv, TypeOK, Atomic
  <1>5. store'[p] = "down" /\ \A q \in Proc \ {p} : store'[q] = store[q]
    BY <1>1 DEF SQLiteInv, TypeOK
  <1>6. Transacting'
    <2>1. CASE tx = None \/ tx.proc = p
      <3>1. tx' = None
        BY <1>1, <2>1
      <3>2. \A q \in Proc : store'[q] # "migrating"
        BY <1>5, <2>1, Owners DEF SQLiteInv
      <3>3. ASSUME NEW t \in Task PROVE pc'[t] # "caps"
        <4>1. pc[t] = "caps" => Home[t] = p
          BY <2>1, Owners DEF SQLiteInv
        <4> QED
          BY <1>2, <4>1
      <3> QED
        BY <3>1, <3>2, <3>3 DEF Transacting
    <2>2. CASE tx # None /\ tx.proc # p
      <3>1. /\ tx' = tx /\ db' = db /\ tx.proc \in Proc /\ store'[tx.proc] = store[tx.proc]
            /\ tx.task \in Task \cup {None}
        BY <1>1, <1>5, <2>2, TransactionFields DEF SQLiteInv
      <3>2. tx.task # None => tx.task \in Task /\ pc'[tx.task] = "caps"
        BY <1>2, <2>2, <3>1 DEF SQLiteInv, Transacting
      <3>3. /\ \A q \in Proc : store'[q] = "migrating" => store[q] = "migrating"
            /\ \A t \in Task : pc'[t] = "caps" => pc[t] = "caps"
        BY <1>2, <1>5
      <3> QED
        BY <2>2, <3>1, <3>2, <3>3 DEF SQLiteInv, Transacting, MigrationImage
    <2> QED
      BY <2>1, <2>2
  <1>7. Alone'
    BY <1>1, <1>2 DEF SQLiteInv, Alone, Active
  <1>8. Kept'
    BY <1>1, <1>2, KeptStays DEF SQLiteInv, Updating
  <1> QED
    BY <1>3, <1>4, <1>6, <1>7, <1>8 DEF SQLiteInv

----------------------------------------------------------------------------
(* Operations. *)

(* Types and order of the operations, for the steps below. *)
LEMMA OperationFrame ==
    ASSUME SQLiteInv, NEW t \in Task, Operation(t),
           db' \in DatabaseState, tx' \in Transaction \cup {None}, known' \in BOOLEAN,
           acked' \in SUBSET Task, loaded' \in [Provider -> Task \cup {None}]
    PROVE  TypeOK' /\ Alone'
  <1>0. known => known'
    BY KnownStays DEF SQLiteInv
  <1>1. Moved(t) /\ Books(t)
    BY Moves, BooksKept DEF SQLiteInv
  <1>2. ASSUME NEW u \in Task, HasCopy(pc'[u]) PROVE known' /\ copy'[u] \in Copy
    <2>1. CASE u = t
      BY <1>1, <1>2, <2>1 DEF Books
    <2>2. CASE u # t
      <3>1. pc'[u] = pc[u] /\ copy'[u] = copy[u]
        BY <1>1, <2>2 DEF Moved, Books
      <3> QED
        BY <1>0, <1>2, <3>1 DEF SQLiteInv, TypeOK, HasCopy
    <2> QED
      BY <2>1, <2>2
  <1>3. TypeOK'
    BY <1>0, <1>1, <1>2 DEF Moved, Books, SQLiteInv, TypeOK
  <1>4. ASSUME ~overlap', NEW u \in Task, NEW v \in Task, Active(u)', Active(v)' PROVE u = v
    <2>1. CASE overlap' = overlap /\ Active(t)
      <3>1. \A w \in Task : Active(w)' => Active(w)
        BY <1>1, <2>1 DEF Moved, Active
      <3> QED
        BY <1>4, <2>1, <3>1 DEF SQLiteInv, Alone
    <2>2. CASE \A w \in Task \ {t} : ~Active(w)
      <3>1. \A w \in Task \ {t} : ~Active(w)'
        BY <1>1, <2>2 DEF Moved, Active
      <3> QED
        BY <1>4, <3>1
    <2> QED
      BY <1>1, <1>4, <2>1, <2>2 DEF Moved
  <1>5. Alone'
    BY <1>4 DEF Alone
  <1> QED
    BY <1>3, <1>5

(* Without overlap before or after, the task that moves is the only one.      *)
LEMMA OnlyOne ==
    ASSUME SQLiteInv, NEW t \in Task, Operation(t), ~overlap'
    PROVE  /\ ~overlap
           /\ \A u \in Task \ {t} : ~Active(u) /\ ~Updating(pc'[u])
  <1>1. Moved(t)
    BY Moves DEF SQLiteInv
  <1>2. ~overlap /\ \A u \in Task \ {t} : ~Active(u)
    BY <1>1 DEF Moved, SQLiteInv, Alone
  <1>3. \A u \in Task \ {t} : ~Active(u) => ~Updating(pc'[u])
    BY <1>1 DEF Moved, Active, Updating
  <1> QED
    BY <1>2, <1>3

(* A step that leaves row and acknowledgements alone, and makes no copy        *)
(* without them.                                                             *)
LEMMA KeptBy ==
    ASSUME SQLiteInv, NEW t \in Task, Operation(t), acked' = acked, db'.row = db.row, known => known',
           Updating(pc'[t]) /\ ~overlap =>
                \/ Updating(pc[t]) /\ copy[t].upd \subseteq copy'[t].upd
                \/ acked \subseteq copy'[t].upd
    PROVE  Kept'
  <1>1. ~overlap' => ~overlap /\ \A u \in Task \ {t} : ~Updating(pc'[u])
    BY OnlyOne
  <1>2. CASE ~overlap'
    BY <1>1, <1>2, KeptStays DEF SQLiteInv
  <1>3. CASE overlap'
    BY <1>3 DEF SQLiteInv, Kept
  <1> QED
    BY <1>2, <1>3

(* What the operations that only look leave. *)
LEMMA LookStep ==
    ASSUME SQLiteInv, NEW t \in Task, Look(t)
    PROVE  SQLiteInv'
  <1>1. Operation(t) /\ Moved(t) /\ Books(t)
    <2>1. Operation(t)
      BY DEF Look, Operation
    <2> QED
      BY <2>1, Moves, BooksKept DEF SQLiteInv
  <1>2. /\ UNCHANGED <<db, tx, acked, store>> /\ pc[t] # "caps" /\ pc'[t] # "caps"
        /\ loaded' = loaded \/ loaded' = db.caps
    BY <1>1, Looked DEF SQLiteInv, Moved
  <1>3. known' = known \/ known' = TRUE
    BY DEF Look, Create, Get, Update, SaveChecks, List, ListQueryHistory, LoadCapabilities, Import,
       ImportFile, ImportAsks, ImportEnds, Reads
  <1>4. db.caps \in [Provider -> Task \cup {None}]
    BY DatabaseFields DEF SQLiteInv, TypeOK
  <1>5. TypeOK' /\ Alone'
    BY <1>1, <1>2, <1>3, <1>4, OperationFrame DEF SQLiteInv, TypeOK
  <1>6. Atomic'
    BY <1>2 DEF SQLiteInv, Atomic
  <1>7. Transacting'
    BY <1>1, <1>2, Beside DEF SQLiteInv, Moved
  <1>8. Updating(pc'[t]) /\ ~overlap =>
            \/ Updating(pc[t]) /\ copy[t].upd \subseteq copy'[t].upd
            \/ acked \subseteq copy'[t].upd
    <2> SUFFICES ASSUME Updating(pc'[t]), ~overlap
                 PROVE  \/ Updating(pc[t]) /\ copy[t].upd \subseteq copy'[t].upd
                        \/ acked \subseteq copy'[t].upd
      OBVIOUS
    <2> USE DEF Updating
    <2>1. CASE Create(t)
      <3>1. ~known /\ acked = {}
        BY <2>1 DEF Create, SQLiteInv, Kept
      <3> QED
        BY <3>1
    <2>2. CASE Get(t)
      <3>1. db.row # None /\ copy' = [copy EXCEPT ![t] = Restore(db.row)]
        BY <2>2 DEF Get, GoTo, SQLiteInv, TypeOK
      <3>2. copy'[t].upd = db.row.snap.upd
        BY <3>1 DEF SQLiteInv, TypeOK, Restore
      <3> QED
        BY <3>1, <3>2 DEF SQLiteInv, Kept
    <2>3. CASE Update(t)
      <3>1. pc[t] = "update" /\ copy[t] \in Copy
        BY <2>3 DEF Update, SQLiteInv, TypeOK, HasCopy
      <3>2. copy'[t] = [copy[t] EXCEPT !.upd = @ \cup {t}]
        BY <2>3 DEF Update, SQLiteInv, TypeOK
      <3>3. copy[t].upd \subseteq copy'[t].upd
        BY <3>1, <3>2 DEF Copy
      <3> QED
        BY <3>1, <3>3
    <2>4. CASE SaveChecks(t)
      BY <2>4 DEF SaveChecks, Keep
    <2>5. CASE ImportAsks(t)
      <3>1. Absent
        BY <2>5 DEF ImportAsks, GoTo, SQLiteInv, TypeOK
      <3>2. acked = {}
        BY <3>1 DEF Absent, SQLiteInv, Kept
      <3> QED
        BY <3>2
    <2>6. ASSUME List(t) \/ ListQueryHistory(t) \/ LoadCapabilities(t) \/ Import(t) \/ ImportFile(t)
                 \/ ImportEnds(t)
          PROVE  FALSE
      <3>1. ~Updating(pc[t])
        BY <2>6 DEF List, ListQueryHistory, LoadCapabilities, Import, ImportFile, ImportEnds, Begins
      <3>2. CASE ImportFile(t)
        <4>1. pc' = pc \/ pc' = [pc EXCEPT ![t] = "ask"]
          BY <3>2, FileRead DEF SQLiteInv, GoTo
        <4> QED
          BY <3>1, <4>1 DEF SQLiteInv, TypeOK
      <3>3. CASE List(t) \/ ListQueryHistory(t) \/ LoadCapabilities(t) \/ Import(t) \/ ImportEnds(t)
        BY <3>3 DEF List, ListQueryHistory, LoadCapabilities, Import, ImportEnds, GoTo, SQLiteInv, TypeOK
      <3> QED
        BY <2>6, <3>2, <3>3
    <2> QED
      BY <2>1, <2>2, <2>3, <2>4, <2>5, <2>6 DEF Look
  <1>9. Kept'
    <2>1. known => known'
      BY <1>3
    <2> QED
      BY <1>1, <1>2, <1>8, <2>1, KeptBy
  <1> QED
    BY <1>5, <1>6, <1>7, <1>9 DEF SQLiteInv

(* A statement keeps the schema.  Save replaces the row by a copy that has all *)
(* the acknowledged updates, if nobody runs beside it.                        *)
LEMMA StatementStep ==
    ASSUME SQLiteInv, NEW t \in Task, Statement(t)
    PROVE  SQLiteInv'
  <1>1. Operation(t) /\ Moved(t) /\ Books(t)
    <2>1. Operation(t)
      BY DEF Statement, Operation
    <2> QED
      BY <2>1, Moves, BooksKept DEF SQLiteInv
  <1>2. /\ tx = None /\ UNCHANGED <<tx, known, loaded, store>>
        /\ db' \in DatabaseState
        /\ db'.version = db.version /\ db'.tables = db.tables /\ db'.caps = db.caps
        /\ pc[t] # "caps"
        /\ \/ Save(t) /\ db'.row = RowOf(copy[t])
           \/ db'.row = db.row /\ acked' = acked
           \/ db'.row = None /\ acked' = {}
    BY <1>1, Written DEF SQLiteInv, Moved
  <1>3. pc'[t] # "caps" /\ (Updating(pc'[t]) => ImportDrops(t))
    BY DEF Statement, DropExpired, Save, Delete, CleanupSessions, CleanupHistory, RecordQuery, ImportDrops,
       GoTo, AfterSave, SQLiteInv, TypeOK, Updating
  <1>4. acked' \in SUBSET Task /\ (Save(t) => acked' = acked \cup (copy[t].upd \cap {t}) \/ acked' = acked)
    <2>1. Save(t) => acked' = acked \cup (copy[t].upd \cap {t}) \/ acked' = acked
      BY DEF Save
    <2> QED
      BY <1>2, <2>1 DEF SQLiteInv, TypeOK
  <1>5. TypeOK' /\ Alone'
    BY <1>1, <1>2, <1>4, OperationFrame DEF SQLiteInv, TypeOK
  <1>6. Atomic'
    BY <1>2 DEF SQLiteInv, Atomic, WholeSchema
  <1>7. Transacting'
    BY <1>1, <1>2, <1>3, Beside DEF SQLiteInv, Moved
  <1>8. Kept'
    <2>1. CASE Save(t) /\ db'.row = RowOf(copy[t])
      <3>1. pc[t] = "upsert" /\ copy[t] \in Copy /\ known
        BY <2>1 DEF Save, SQLiteInv, TypeOK, HasCopy
      <3>2. db'.row # None /\ db'.row.snap = copy[t] /\ Decodes(db'.row)
        BY <2>1, <3>1, RowFields
      <3>3. ASSUME ~overlap'
            PROVE  /\ acked' \subseteq copy[t].upd
                   /\ \A u \in Task : ~Updating(pc'[u])
        <4>1. acked \subseteq copy[t].upd
          BY <1>1, <3>1, <3>3, OnlyOne DEF SQLiteInv, Kept, Updating
        <4>2. ~ImportDrops(t)
          BY <3>1 DEF ImportDrops
        <4> QED
          BY <1>1, <1>3, <1>4, <2>1, <3>3, <4>1, <4>2, OnlyOne
      <3>4. known' /\ known
        <4>1. known' = known
          BY <1>2
        <4> QED
          BY <3>1, <4>1
      <3> QED
        BY <3>2, <3>3, <3>4 DEF Kept
    <2>2. CASE db'.row = db.row /\ acked' = acked
      <3>1. Updating(pc'[t]) => acked' = {}
        BY <1>3 DEF ImportDrops
      <3> QED
        BY <1>1, <1>2, <2>2, <3>1, KeptBy
    <2>3. CASE db'.row = None /\ acked' = {}
      BY <2>3, KeptGone
    <2> QED
      BY <1>2, <2>1, <2>2, <2>3
  <1> QED
    BY <1>5, <1>6, <1>7, <1>8 DEF SQLiteInv

(* A capability transaction stages one provider after the other; what it       *)
(* commits is its own snapshot, on the schema it began with.                  *)
LEMMA BeginCapabilitiesStep ==
    ASSUME SQLiteInv, NEW t \in Task, BeginCapabilities(t)
    PROVE  SQLiteInv'
  <1>1. /\ Operation(t) /\ pc[t] = "idle" /\ tx = None /\ store[Home[t]] = "open"
        /\ tx' = [proc |-> Home[t], task |-> t, image |-> db, stage |-> "apply"]
        /\ GoTo(t, "caps") /\ UNCHANGED <<db, store, known, copy, acked, loaded>>
    BY DEF BeginCapabilities, Begins, CanWrite, Operation
  <1>2. /\ pc'[t] = "caps" /\ \A u \in Task \ {t} : pc'[u] = pc[u]
    BY <1>1, Goes DEF SQLiteInv, Label
  <1>3. /\ tx' \in Transaction /\ tx' # None /\ tx'.proc = Home[t] /\ tx'.task = t
        /\ tx'.image = db /\ tx'.stage = "apply"
    <2>1. Home[t] \in Proc /\ db \in DatabaseState
      BY SQLiteAssumption DEF SQLiteAssumption, SQLiteInv, TypeOK
    <2> QED
      BY <1>1, <2>1, NewTransaction
  <1>4. TypeOK' /\ Alone'
    BY <1>1, <1>3, OperationFrame DEF SQLiteInv, TypeOK
  <1>5. Atomic'
    BY <1>1 DEF SQLiteInv, Atomic
  <1>6. Transacting'
    <2>1. /\ \A q \in Proc : store[q] # "migrating"
          /\ \A u \in Task : pc[u] # "caps"
      BY <1>1, Owners DEF SQLiteInv
    <2>2. t # None
      BY SQLiteAssumption DEF SQLiteAssumption
    <2> QED
      BY <1>1, <1>2, <1>3, <2>1, <2>2 DEF Transacting
  <1>7. Kept'
    BY <1>1, <1>2, KeptBy DEF Updating
  <1> QED
    BY <1>4, <1>5, <1>6, <1>7 DEF SQLiteInv

\* One provider's row, in the transaction's image.
LEMMA SaveCapabilityStep ==
    ASSUME SQLiteInv, NEW t \in Task, SaveCapability(t)
    PROVE  SQLiteInv'
  <1> DEFINE i == tx.image
  <1>1. /\ pc[t] = "caps" /\ UNCHANGED <<store, known, pc, copy, acked, overlap, loaded>>
        /\ \E q \in Provider : InTransaction([i EXCEPT !.caps[q] = t], "apply")
    BY DEF SaveCapability, taskVars
  <1>2. /\ tx # None /\ tx.task = t /\ tx.task # None /\ tx.proc = Home[t]
        /\ i \in DatabaseState
    BY <1>1, Owners, TransactionFields DEF SQLiteInv
  <1>3. i.row = db.row /\ i.version = db.version /\ i.tables = db.tables
    BY <1>1, <1>2 DEF SQLiteInv, Transacting
  <1> HIDE DEF i
  <1>4. \E x \in DatabaseState :
           InTransaction(x, "apply") /\ x.row = i.row /\ x.version = i.version /\ x.tables = i.tables
    BY <1>1, <1>2, WithCapability
  <1>5. PICK x \in DatabaseState :
           InTransaction(x, "apply") /\ x.row = i.row /\ x.version = i.version /\ x.tables = i.tables
    BY <1>4
  <1>6. /\ tx' \in Transaction /\ tx' # None /\ tx'.proc = tx.proc /\ tx'.task = tx.task
        /\ tx'.image = x /\ db' = db
    BY <1>2, <1>5, Staged DEF SQLiteInv
  <1>7. Operation(t)
    BY DEF Operation
  <1>8. TypeOK' /\ Alone'
    BY <1>1, <1>6, <1>7, OperationFrame DEF SQLiteInv, TypeOK
  <1>9. Atomic'
    BY <1>1, <1>6 DEF SQLiteInv, Atomic
  <1>10. Transacting'
    BY <1>1, <1>2, <1>3, <1>5, <1>6 DEF SQLiteInv, Transacting
  <1>11. Kept'
    BY <1>1, <1>6, <1>7, KeptBy DEF Updating
  <1> QED
    BY <1>8, <1>9, <1>10, <1>11 DEF SQLiteInv

\* All providers are of the task's snapshot when it commits.
LEMMA CommitCapabilitiesStep ==
    ASSUME SQLiteInv, NEW t \in Task, CommitCapabilities(t)
    PROVE  SQLiteInv'
  <1>1. /\ Operation(t) /\ pc[t] = "caps" /\ db' = tx.image /\ tx' = None
        /\ \A q \in Provider : tx.image.caps[q] = t
        /\ GoTo(t, "done") /\ UNCHANGED <<store, known, copy, acked, overlap, loaded>>
    BY DEF CommitCapabilities, Keep, Operation
  <1>2. /\ pc'[t] = "done" /\ \A u \in Task \ {t} : pc'[u] = pc[u]
    BY <1>1, Goes DEF SQLiteInv, Label
  <1>3. tx # None /\ tx.task = t /\ tx.task # None
    BY <1>1, Owners DEF SQLiteInv
  <1>4. /\ db' \in DatabaseState
        /\ db'.row = db.row /\ db'.version = db.version /\ db'.tables = db.tables
    BY <1>1, <1>3, TransactionFields DEF SQLiteInv, Transacting
  <1>5. TypeOK' /\ Alone'
    BY <1>1, <1>4, OperationFrame DEF SQLiteInv, TypeOK
  <1>6. Atomic'
    BY <1>1, <1>4 DEF SQLiteInv, Atomic, WholeSchema, OneSnapshot
  <1>7. Transacting'
    <2>1. \A q \in Proc : store[q] # "migrating"
      BY <1>3, Owners DEF SQLiteInv
    <2>2. \A u \in Task \ {t} : pc[u] # "caps"
      BY <1>3, Owners DEF SQLiteInv
    <2> QED
      BY <1>1, <1>2, <2>1, <2>2 DEF Transacting
  <1>8. Kept'
    BY <1>1, <1>2, <1>4, KeptBy DEF Updating
  <1> QED
    BY <1>5, <1>6, <1>7, <1>8 DEF SQLiteInv

(* A failing operation rolls its transaction back. *)
LEMMA FailsStep ==
    ASSUME SQLiteInv, NEW t \in Task, Fails(t)
    PROVE  SQLiteInv'
  <1>1. /\ Operation(t) /\ GoTo(t, "failed")
        /\ tx' = IF tx # None /\ tx.task = t THEN None ELSE tx
        /\ UNCHANGED <<db, store, known, copy, acked, overlap, loaded>>
    BY DEF Fails, Keep, Operation
  <1>2. /\ pc'[t] = "failed" /\ \A u \in Task \ {t} : pc'[u] = pc[u]
    BY <1>1, Goes DEF SQLiteInv, Label
  <1>3. TypeOK' /\ Alone'
    BY <1>1, OperationFrame DEF SQLiteInv, TypeOK
  <1>4. Atomic'
    BY <1>1 DEF SQLiteInv, Atomic
  <1>5. Transacting'
    <2>1. CASE tx # None /\ tx.task = t
      <3>1. tx' = None
        BY <1>1, <2>1
      <3>2. \A q \in Proc : store[q] # "migrating"
        BY <2>1, Owners, SQLiteAssumption DEF SQLiteInv, SQLiteAssumption
      <3>3. \A u \in Task \ {t} : pc[u] # "caps"
        BY <2>1, Owners DEF SQLiteInv
      <3> QED
        BY <1>1, <1>2, <3>1, <3>2, <3>3 DEF Transacting
    <2>2. CASE ~(tx # None /\ tx.task = t)
      <3>1. tx' = tx /\ pc[t] # "caps"
        BY <1>1, <2>2, Owners DEF SQLiteInv
      <3> QED
        BY <1>1, <1>2, <3>1, Beside DEF SQLiteInv
    <2> QED
      BY <2>1, <2>2
  <1>6. Kept'
    BY <1>1, <1>2, KeptBy DEF Updating
  <1> QED
    BY <1>3, <1>4, <1>5, <1>6 DEF SQLiteInv

(* Time passes, or nothing happens. *)
LEMMA TickStep ==
    ASSUME SQLiteInv, Tick \/ UNCHANGED vars
    PROVE  SQLiteInv'
  <1>1. /\ now' = now + 1 \/ now' = now
        /\ UNCHANGED <<db, tx, store, dir, known, pc, copy, at, report, acked, overlap, loaded>>
    BY DEF Tick, vars, taskVars
  <1>2. now' \in Nat
    BY <1>1 DEF SQLiteInv, TypeOK
  <1>3. TypeOK' /\ Atomic'
    BY <1>1, <1>2 DEF SQLiteInv, TypeOK, Atomic
  <1>4. Transacting' /\ Alone' /\ Kept'
    BY <1>1 DEF SQLiteInv, Transacting, MigrationImage, Alone, Active, Kept
  <1> QED
    BY <1>3, <1>4 DEF SQLiteInv

----------------------------------------------------------------------------
(* The specification. *)

(* A database of version v, of the configured row. *)
LEMMA InitialDatabase ==
    ASSUME NEW v \in Nat, NEW row \in Row \cup {None}, NEW d, d = Database(v, row)
    PROVE  /\ d \in DatabaseState /\ d.row = row /\ WholeSchema(d) /\ OneSnapshot(d.caps)
  <1>1. Tables(v) \in SUBSET Table
    BY NextTables
  <1>2. /\ d.version = v /\ d.tables = Tables(v) /\ d.row = row /\ d.hist = None
        /\ d.caps = [p \in Provider |-> None]
    BY DEF Database
  <1>3. d \in DatabaseState
    BY <1>1 DEF Database, DatabaseState
  <1> QED
    BY <1>2, <1>3 DEF WholeSchema, OneSnapshot

\* The invariant holds initially.
LEMMA InitialState ==
    Init => SQLiteInv
  <1> SUFFICES ASSUME Init PROVE SQLiteInv
    OBVIOUS
  <1>1. NewCopy(0) \in Copy
    BY NewCopyFields
  <1>2. PICK row \in {None, RowOf(NewCopy(0))}, v \in Nat : db = Database(v, row)
    BY DEF Init, CurrentVersion
  <1>3. row \in Row \cup {None} /\ (row # None => Decodes(row))
    BY <1>1, <1>2, RowFields
  <1>4. db \in DatabaseState /\ db.row = row /\ WholeSchema(db) /\ OneSnapshot(db.caps)
    BY <1>2, <1>3, InitialDatabase
  <1>5. /\ now = 0 /\ tx = None /\ store = [p \in Proc |-> "down"]
        /\ pc = [t \in Task |-> "idle"] /\ copy = [t \in Task |-> None]
        /\ at = [t \in Task |-> 0] /\ report = [t \in Task |-> NoReport]
        /\ acked = {} /\ loaded = [p \in Provider |-> None] /\ overlap = FALSE
        /\ dir \in {Files, Append(Files, [kind |-> "session", snap |-> NewCopy(0)])}
    BY DEF Init
  <1>6. known = (db.row # None \/ Len(dir) > Len(Files))
    BY DEF Init
  <1>7. /\ Len(dir) \in Nat
        /\ \A i \in 1 .. Len(dir) : dir[i].kind = "session" => known /\ dir[i].snap \in Copy
    <2>1. /\ Files \in Seq([kind : {"other", "unreadable", "garbled", "incomplete"}])
          /\ Len(Files) \in Nat
          /\ \A i \in 1 .. Len(Files) : Files[i].kind # "session"
      <3> DEFINE S == [kind : {"other", "unreadable", "garbled", "incomplete"}]
      <3>1. Files \in Seq(S)
        BY SQLiteAssumption DEF SQLiteAssumption
      <3>2. \A f \in S : f.kind # "session"
        OBVIOUS
      <3>3. ASSUME NEW S1, Files \in Seq(S1)
            PROVE  Len(Files) \in Nat /\ \A i \in 1 .. Len(Files) : Files[i] \in S1
        BY <3>3
      <3>4. Len(Files) \in Nat /\ \A i \in 1 .. Len(Files) : Files[i] \in S
        BY <3>1, <3>3
      <3> QED
        BY <3>1, <3>2, <3>4
    <2>2. CASE dir = Files
      BY <2>1, <2>2
    <2>3. CASE dir = Append(Files, [kind |-> "session", snap |-> NewCopy(0)])
      <3> DEFINE s == [kind |-> "session", snap |-> NewCopy(0)]
      <3>1. s.snap = NewCopy(0)
        OBVIOUS
      <3> HIDE DEF s
      <3>2. /\ Len(dir) = Len(Files) + 1 /\ dir[Len(dir)] = s
            /\ \A i \in 1 .. Len(Files) : dir[i] = Files[i]
        BY <2>1, <2>3 DEF s
      <3>3. known
        <4>1. Len(dir) > Len(Files)
          BY <2>1, <3>2
        <4> QED
          BY <1>6, <4>1, Zenon
      <3> QED
        BY <1>1, <2>1, <3>1, <3>2, <3>3
    <2> QED
      BY <1>5, <2>2, <2>3
  <1>8. TypeOK
    <2>1. NoReport \in Report
      BY DEF NoReport, Report
    <2>2. known \in BOOLEAN
      BY <1>6
    <2> QED
      BY <1>4, <1>5, <1>7, <2>1, <2>2 DEF TypeOK, StoreState, Label, HasCopy
  <1>9. Atomic /\ Transacting /\ Alone
    BY <1>4, <1>5 DEF Atomic, OneSnapshot, Transacting, Alone, Active
  <1>10. Kept
    <2>1. ~known => db.row = None
      BY <1>6
    <2> QED
      BY <1>3, <1>4, <1>5, <2>1 DEF Kept, Updating
  <1> QED
    BY <1>8, <1>9, <1>10 DEF SQLiteInv

(* The invariant holds in every reachable state. *)
LEMMA StoreInOrder ==
    Spec => []SQLiteInv
  <1>1. ASSUME SQLiteInv, [Next]_vars PROVE SQLiteInv'
    <2>1. ASSUME NEW p \in Proc, Process(p) PROVE SQLiteInv'
      BY <1>1, <2>1, StoreStep, BeginMigrationStep, MigrateStep, CommitMigrationStep, InitialCleanupStep,
         OpenFailsStep, CrashStep DEF Process
    <2>2. ASSUME NEW t \in Task, Operation(t) PROVE SQLiteInv'
      <3>1. Look(t) \/ Statement(t) \/ BeginCapabilities(t) \/ SaveCapability(t)
            \/ CommitCapabilities(t) \/ Fails(t)
        BY <2>2 DEF Operation, Look, Statement
      <3> QED
        BY <1>1, <3>1, LookStep, StatementStep, BeginCapabilitiesStep, SaveCapabilityStep,
           CommitCapabilitiesStep, FailsStep
    <2> QED
      BY <1>1, <2>1, <2>2, TickStep DEF Next
  <1> QED
    BY <1>1, InitialState, PTL DEF Spec

(* Migrations and capability snapshots are all or nothing, whatever crashes or *)
(* fails between their statements, in any number of processes.                *)
THEOREM TransactionsStayAtomic ==
    Spec => []TransactionsAtomic
  <1>1. SQLiteInv => TransactionsAtomic
    BY DEF SQLiteInv, Atomic, WholeSchema, OneSnapshot, TransactionsAtomic
  <1> QED
    BY <1>1, StoreInOrder, PTL

(* A row always decodes, and operations that do not overlap lose no            *)
(* acknowledged update through crashes, restarts, migrations and imports.     *)
THEOREM SerialUpdatesStay ==
    Spec => []SerialUpdatesKept
  <1>1. SQLiteInv => SerialUpdatesKept
    BY DEF SQLiteInv, Kept, SerialUpdatesKept
  <1> QED
    BY <1>1, StoreInOrder, PTL
=============================================================================
