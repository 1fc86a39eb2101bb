----------------------------- MODULE FileStore -----------------------------
(***************************************************************************)
(* One session in the JSON file store (internal/session/file.go) above the *)
(* memory store (store.go), under concurrent engine operations, failing    *)
(* writes, expiry, crashes and restarts.                                   *)
(*                                                                         *)
(* The record's content is a version number; each task performs one engine *)
(* operation: it creates the session, updates it, reads it, deletes it or  *)
(* lists the sessions.  Temporary files are not loaded by a restart, so    *)
(* only their content while Save runs is kept.                             *)
(***************************************************************************)
EXTENDS Integers

CONSTANTS Task, None

ASSUME FileStoreAssumption == None \notin Task

VARIABLES
    up,       \* the process runs
    memory,   \* the record is in the memory store's map
    version,  \* content of the live record, 0 before it is created
    file,     \* version in the session's JSON file, 0 when there is none
    expired,  \* ExpiresAt has passed
    lock,     \* holder of FileStore.mu
    pc,       \* [Task -> where its operation is]
    wrote,    \* [Task -> Nat] version this task made and has to save
    buf,      \* [Task -> Nat] version marshalled for the temporary file
    acked,    \* newest version whose Save has returned nil: for properties only
    deleted   \* how far Delete has got on this session: for properties only

vars == <<up, memory, version, file, expired, lock, pc, wrote, buf, acked, deleted>>

Init ==
    /\ up = TRUE /\ memory = FALSE /\ expired = FALSE
    /\ version = 0 /\ file = 0 /\ acked = 0
    /\ lock = None
    /\ pc = [t \in Task |-> "idle"]
    /\ wrote = [t \in Task |-> 0]
    /\ buf = [t \in Task |-> 0]
    /\ deleted = "no"

\* The session's random ID has been drawn; it is drawn once.
Known == \E t \in Task : wrote[t] > 0

GoTo(t, label) == pc' = [pc EXCEPT ![t] = label]

----------------------------------------------------------------------------
(* Operations up to the store's Save. *)

\* FileStore.Create: the memory store registers the new record, then Save.
Create(t) ==
    /\ up /\ pc[t] = "idle" /\ ~Known
    /\ memory' = TRUE /\ version' = 1
    /\ wrote' = [wrote EXCEPT ![t] = 1]
    /\ GoTo(t, "save")
    /\ UNCHANGED <<up, file, expired, lock, buf, acked, deleted>>

\* FileStore.Get for an operation that will update or delete the session, or
\* that only reads it.
Get(t) ==
    /\ up /\ pc[t] = "idle" /\ Known
    /\ memory /\ ~expired
    /\ \E label \in {"update", "delete", "done"} : GoTo(t, label)
    /\ UNCHANGED <<up, memory, version, file, expired, lock, wrote, buf, acked, deleted>>

\* Get does not find the record, or drops it because it has expired.
GetMissing(t) ==
    /\ up /\ pc[t] = "idle" /\ Known
    /\ ~memory \/ expired
    /\ memory' = FALSE
    /\ GoTo(t, "remove")
    /\ UNCHANGED <<up, version, file, expired, lock, wrote, buf, acked, deleted>>

\* os.Remove in Get and List.
RemoveFile(t) ==
    /\ pc[t] = "remove"
    /\ file' = 0
    /\ GoTo(t, "done")
    /\ UNCHANGED <<up, memory, version, expired, lock, wrote, buf, acked, deleted>>

\* FileStore.List, when the memory store's cleanup takes the record out.
ListExpired(t) ==
    /\ up /\ pc[t] = "idle" /\ memory /\ expired
    /\ memory' = FALSE
    /\ GoTo(t, "remove")
    /\ UNCHANGED <<up, version, file, expired, lock, wrote, buf, acked, deleted>>

\* The engine operation changes the record it holds, then calls Save.
Update(t) ==
    /\ pc[t] = "update"
    /\ version' = version + 1
    /\ wrote' = [wrote EXCEPT ![t] = version + 1]
    /\ GoTo(t, "save")
    /\ UNCHANGED <<up, memory, file, expired, lock, buf, acked, deleted>>

\* FileStore.Delete: first the memory store, then the file, without the mutex.
DeleteMemory(t) ==
    /\ pc[t] = "delete"
    /\ memory' = FALSE
    /\ deleted' = "begun"
    /\ GoTo(t, "delete_file")
    /\ UNCHANGED <<up, version, file, expired, lock, wrote, buf, acked>>

DeleteFile(t) ==
    /\ pc[t] = "delete_file"
    /\ file' = 0
    /\ deleted' = "done"
    /\ GoTo(t, "done")
    /\ UNCHANGED <<up, memory, version, expired, lock, wrote, buf, acked>>

----------------------------------------------------------------------------
(* FileStore.Save. *)

SaveMemory(t) ==
    /\ pc[t] = "save"
    /\ memory' = TRUE
    /\ GoTo(t, "lock")
    /\ UNCHANGED <<up, version, file, expired, lock, wrote, buf, acked, deleted>>

Lock(t) ==
    /\ pc[t] = "lock" /\ lock = None
    /\ lock' = t
    /\ GoTo(t, "marshal")
    /\ UNCHANGED <<up, memory, version, file, expired, wrote, buf, acked, deleted>>

\* Mutant: the snapshot was taken before the mutex.
SnapshotEarly(t) == wrote[t]

\* Record.Snapshot: the record as it is now, others' updates included.
Snapshot(t) == version

\* Marshal the record and write it to the temporary file.
Marshal(t) ==
    /\ pc[t] = "marshal"
    /\ buf' = [buf EXCEPT ![t] = Snapshot(t)]
    /\ GoTo(t, "rename")
    /\ UNCHANGED <<up, memory, version, file, expired, lock, wrote, acked, deleted>>

\* os.Rename and Chmod succeed: Save returns nil.
Rename(t) ==
    /\ pc[t] = "rename"
    /\ file' = buf[t]
    /\ acked' = IF wrote[t] > acked THEN wrote[t] ELSE acked
    /\ lock' = None
    /\ GoTo(t, "done")
    /\ UNCHANGED <<up, memory, version, expired, wrote, buf, deleted>>

\* The final Chmod fails: an error is returned although the file is replaced.
RenameNoChmod(t) ==
    /\ pc[t] = "rename"
    /\ file' = buf[t]
    /\ lock' = None
    /\ GoTo(t, "done")
    /\ UNCHANGED <<up, memory, version, expired, wrote, buf, acked, deleted>>

\* Mutant: an error path that forgets the mutex.
UnlockNot(t) == lock' = lock

\* defer s.mu.Unlock().
Unlock(t) == lock' = None

\* Marshalling, writing, syncing or renaming fails.
SaveFails(t) ==
    /\ pc[t] \in {"marshal", "rename"}
    /\ Unlock(t)
    /\ GoTo(t, "done")
    /\ UNCHANGED <<up, memory, version, file, expired, wrote, buf, acked, deleted>>

----------------------------------------------------------------------------
(* Time, crash and restart. *)

Expire ==
    /\ ~expired /\ Known
    /\ expired' = TRUE
    /\ UNCHANGED <<up, memory, version, file, lock, pc, wrote, buf, acked, deleted>>

\* Running operations are lost with the process.
Crash ==
    /\ up
    /\ up' = FALSE /\ memory' = FALSE /\ version' = 0 /\ lock' = None
    /\ pc' = [t \in Task |-> IF pc[t] = "idle" THEN "idle" ELSE "done"]
    /\ UNCHANGED <<file, expired, wrote, buf, acked, deleted>>

\* Mutant: a restart does not read the directory.
LoadedNone == 0

\* What NewFileStore reads: the file, unless it has expired.
Loaded == IF expired THEN 0 ELSE file

\* NewFileStore: an expired file is removed, another one becomes the record.
Restart ==
    /\ ~up
    /\ up' = TRUE
    /\ memory' = (Loaded # 0)
    /\ file' = IF expired THEN 0 ELSE file
    /\ version' = Loaded
    /\ UNCHANGED <<expired, lock, pc, wrote, buf, acked, deleted>>

Operation(t) ==
    \/ Create(t) \/ Get(t) \/ GetMissing(t) \/ RemoveFile(t) \/ ListExpired(t)
    \/ Update(t) \/ DeleteMemory(t) \/ DeleteFile(t)
    \/ SaveMemory(t) \/ Lock(t) \/ Marshal(t)
    \/ Rename(t) \/ RenameNoChmod(t) \/ SaveFails(t)

Next == (\E t \in Task : Operation(t)) \/ Expire \/ Crash \/ Restart

Spec == Init /\ [][Next]_vars

\* A goroutine that has begun goes on.
FairSpec == Spec /\ \A t \in Task : WF_vars(pc[t] # "idle" /\ Operation(t))

----------------------------------------------------------------------------
(* Properties. *)

Label == {"idle", "update", "delete", "delete_file", "remove",
          "save", "lock", "marshal", "rename", "done"}

\* The store, its file and the running operations are of the expected type.
TypeOK ==
    /\ up \in BOOLEAN /\ memory \in BOOLEAN /\ expired \in BOOLEAN
    /\ version \in Nat /\ file \in Nat /\ acked \in Nat
    /\ lock \in Task \cup {None}
    /\ pc \in [Task -> Label]
    /\ wrote \in [Task -> Nat] /\ buf \in [Task -> Nat]
    /\ deleted \in {"no", "begun", "done"}

\* Until the session is deleted or expires, every update whose Save returned nil
\* is in the file, so a restart after a crash at any point brings it back.
Durable == (deleted = "no" /\ ~expired) => acked <= file

\* Save never replaces the file by an older snapshot of the record.
NewestWins == [][file' >= file \/ file' = 0]_vars

\* Every operation ends, though writes fail while the mutex is held and the
\* process crashes: no Save waits for ever.
SavesReturn == \A t \in Task : pc[t] # "idle" ~> pc[t] = "done"

----------------------------------------------------------------------------
(* The inductive invariant behind Durable and NewestWins. *)

Saving(t) == pc[t] \in {"save", "lock", "marshal", "rename"}

\* FileStore.mu is held exactly by the task between Lock and the end of Save.
MutexHeld == \A t \in Task : pc[t] \in {"marshal", "rename"} <=> lock = t

\* Before the session's ID is drawn nothing has happened.
UnknownIsFresh ==
    ~Known => /\ version = 0 /\ file = 0 /\ acked = 0 /\ ~memory
              /\ \A t \in Task : pc[t] = "idle"

\* A dead process has no running operation.
CrashedIsQuiet == ~up => \A t \in Task : pc[t] \in {"idle", "done"}

\* The live record is at least as new as the file and as what waits to be saved;
\* what is about to replace the file is at least as new as the file.
RecordNewest ==
    /\ up => file <= version
    /\ \A t \in Task : Saving(t) => wrote[t] <= version
    /\ \A t \in Task : pc[t] = "rename" =>
          file <= buf[t] /\ wrote[t] <= buf[t] /\ buf[t] <= version

\* A session that is neither deleted nor expired is missing from the memory of a
\* running store only if its creation was never saved: then the file that Get
\* and List remove does not exist.
MissingIsUnsaved ==
    (deleted = "no" /\ ~expired) =>
        /\ (up /\ ~memory) => /\ file = 0 /\ acked = 0
                              /\ \A t \in Task : pc[t] \in {"idle", "remove", "done"}
        /\ \A t \in Task : pc[t] \in {"remove", "delete_file"} => ~memory

\* What holds between any two steps: FileStore.mu belongs to the running Save,
\* no snapshot on its way to the file is older than the file, and no file that
\* exists is removed by a Get that misses.
StoreInvariant ==
    /\ TypeOK /\ MutexHeld /\ UnknownIsFresh /\ CrashedIsQuiet
    /\ RecordNewest /\ MissingIsUnsaved /\ Durable
============================================================================
