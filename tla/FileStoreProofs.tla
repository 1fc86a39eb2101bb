-------------------------- MODULE FileStoreProofs --------------------------
(***************************************************************************)
(* For any number of concurrent operations, crashes and restarts:          *)
(* acknowledged updates are durable, and the file never goes back to an    *)
(* older snapshot.                                                         *)
(***************************************************************************)
EXTENDS FileStore, TLAPS

(***************************************************************************)
(* A new, empty store satisfies the invariant.                             *)
(***************************************************************************)
LEMMA InvariantInit == Init => StoreInvariant
<1> SUFFICES ASSUME Init PROVE StoreInvariant
  OBVIOUS
<1> USE DEF Init
<1>1. TypeOK
  BY DEF TypeOK, Label
<1>2. MutexHeld
  BY FileStoreAssumption DEF MutexHeld
<1>3. UnknownIsFresh /\ CrashedIsQuiet
  BY DEF UnknownIsFresh, CrashedIsQuiet
<1>4. RecordNewest
  BY DEF RecordNewest, Saving
<1>5. MissingIsUnsaved /\ Durable
  BY DEF MissingIsUnsaved, Durable
<1> QED
  BY <1>1, <1>2, <1>3, <1>4, <1>5 DEF StoreInvariant

(***************************************************************************)
(* Every step of an operation keeps it.  Create needs UnknownIsFresh, Lock *)
(* and the ends of Save need MutexHeld, Rename needs RecordNewest, and the *)
(* removal of a file MissingIsUnsaved.                                     *)
(***************************************************************************)
LEMMA OperationStep ==
    ASSUME StoreInvariant, NEW t \in Task, Operation(t)
    PROVE  StoreInvariant'
<1> USE FileStoreAssumption
    DEF StoreInvariant, TypeOK, Label, MutexHeld, UnknownIsFresh, CrashedIsQuiet,
        RecordNewest, Saving, MissingIsUnsaved, Durable, Known, GoTo
<1>1. CASE Create(t)
  BY <1>1 DEF Create
<1>2. CASE Get(t)
  BY <1>2 DEF Get
<1>3. CASE GetMissing(t)
  BY <1>3 DEF GetMissing
<1>4. CASE RemoveFile(t)
  BY <1>4 DEF RemoveFile
<1>5. CASE ListExpired(t)
  BY <1>5 DEF ListExpired
<1>6. CASE Update(t)
  BY <1>6 DEF Update
<1>7. CASE DeleteMemory(t)
  BY <1>7 DEF DeleteMemory
<1>8. CASE DeleteFile(t)
  BY <1>8 DEF DeleteFile
<1>9. CASE SaveMemory(t)
  BY <1>9 DEF SaveMemory
<1>10. CASE Lock(t)
  BY <1>10 DEF Lock
<1>11. CASE Marshal(t)
  BY <1>11 DEF Marshal, Snapshot
<1>12. CASE Rename(t)
  BY <1>12 DEF Rename
<1>13. CASE RenameNoChmod(t)
  BY <1>13 DEF RenameNoChmod
<1>14. CASE SaveFails(t)
  BY <1>14 DEF SaveFails, Unlock
<1> QED
  BY <1>1, <1>2, <1>3, <1>4, <1>5, <1>6, <1>7, <1>8, <1>9, <1>10, <1>11, <1>12, <1>13, <1>14
  DEF Operation

(***************************************************************************)
(* Expiry only weakens what is claimed; a crash takes every running        *)
(* operation with it.                                                      *)
(***************************************************************************)
LEMMA ExpireCrashStep ==
    ASSUME StoreInvariant, Expire \/ Crash
    PROVE  StoreInvariant'
<1> USE FileStoreAssumption
    DEF StoreInvariant, TypeOK, Label, MutexHeld, UnknownIsFresh, CrashedIsQuiet,
        RecordNewest, Saving, MissingIsUnsaved, Durable, Known
<1>1. CASE Expire
  BY <1>1 DEF Expire
<1>2. CASE Crash
  BY <1>2 DEF Crash
<1> QED
  BY <1>1, <1>2

(***************************************************************************)
(* A restart loads what the file holds: the memory store lacks the record  *)
(* only when there was no file.                                            *)
(***************************************************************************)
LEMMA RestartStep ==
    ASSUME StoreInvariant, Restart
    PROVE  StoreInvariant'
<1> USE DEF StoreInvariant
<1>1. /\ file \in Nat /\ acked \in Nat /\ expired \in BOOLEAN /\ Loaded \in Nat
      /\ up' = TRUE /\ file' = Loaded /\ version' = Loaded
      /\ UNCHANGED <<expired, lock, pc, wrote, buf, acked, deleted>>
  BY DEF Restart, TypeOK, Loaded
<1>2. \A t \in Task : pc[t] \in {"idle", "done"}
  BY DEF Restart, CrashedIsQuiet
<1>3. memory' \in BOOLEAN /\ (memory' <=> Loaded # 0)
  BY ONLY Restart DEF Restart
<1>4. TypeOK'
  BY <1>1, <1>3 DEF TypeOK
<1>5. MutexHeld' /\ CrashedIsQuiet'
  BY <1>1, <1>2 DEF MutexHeld, CrashedIsQuiet
<1>6. UnknownIsFresh'
  BY <1>1, <1>3 DEF UnknownIsFresh, Known, Loaded
<1>7. RecordNewest'
  BY <1>1, <1>2 DEF RecordNewest, Saving
<1>8. MissingIsUnsaved'
  BY <1>1, <1>2, <1>3 DEF MissingIsUnsaved, Loaded, Durable
<1>9. Durable'
  BY <1>1 DEF Durable, Loaded
<1> QED
  BY <1>4, <1>5, <1>6, <1>7, <1>8, <1>9

(***************************************************************************)
(* The invariant is inductive.                                             *)
(***************************************************************************)
LEMMA InvariantStep == StoreInvariant /\ [Next]_vars => StoreInvariant'
<1> SUFFICES ASSUME StoreInvariant, [Next]_vars PROVE StoreInvariant'
  OBVIOUS
<1>1. CASE UNCHANGED vars
  BY <1>1 DEF vars, StoreInvariant, TypeOK, MutexHeld, UnknownIsFresh, CrashedIsQuiet,
      RecordNewest, Saving, MissingIsUnsaved, Durable, Known
<1>2. CASE Next
  BY <1>2, OperationStep, ExpireCrashStep, RestartStep DEF Next
<1> QED
  BY <1>1, <1>2

(***************************************************************************)
(* FileStore.mu, the snapshot taken under it and the removal of files      *)
(* cooperate as the invariant says, in every reachable state.              *)
(***************************************************************************)
THEOREM StoreConsistent == Spec => []StoreInvariant
BY InvariantInit, InvariantStep, PTL DEF Spec

(***************************************************************************)
(* FileStore.Save: until the session is deleted or expires, every update   *)
(* whose Save has returned nil is in its file, whatever other operations   *)
(* run and wherever the process crashes.                                   *)
(***************************************************************************)
THEOREM AcknowledgedIsDurable == Spec => []Durable
<1>1. StoreInvariant => Durable
  BY DEF StoreInvariant
<1> QED
  BY <1>1, StoreConsistent, PTL

(***************************************************************************)
(* FileStore.Save: the session's file is replaced only by a snapshot at    *)
(* least as new, although Saves of several operations overlap.             *)
(***************************************************************************)
THEOREM FileNeverGoesBack == Spec => NewestWins
<1>1. StoreInvariant /\ [Next]_vars => [file' >= file \/ file' = 0]_vars
  <2> SUFFICES ASSUME StoreInvariant, Next PROVE file' >= file \/ file' = 0
    BY DEF vars
  <2>1. file \in Nat
    BY DEF StoreInvariant, TypeOK
  <2>2. ASSUME NEW t \in Task, Operation(t) PROVE file' >= file \/ file' = 0
    <3>1. CASE Rename(t) \/ RenameNoChmod(t)
      BY <3>1 DEF Rename, RenameNoChmod, StoreInvariant, RecordNewest, TypeOK
    <3>2. CASE RemoveFile(t) \/ DeleteFile(t)
      BY <3>2 DEF RemoveFile, DeleteFile
    <3>3. CASE file' = file
      BY <3>3, <2>1
    <3> QED
      BY <2>2, <3>1, <3>2, <3>3
      DEF Operation, Create, Get, GetMissing, ListExpired, Update, DeleteMemory,
          SaveMemory, Lock, Marshal, SaveFails
  <2>3. CASE Expire \/ Crash \/ Restart
    BY <2>1, <2>3 DEF Expire, Crash, Restart
  <2> QED
    BY <2>2, <2>3 DEF Next
<1> QED
  BY <1>1, StoreConsistent, PTL DEF Spec, NewestWins
============================================================================
