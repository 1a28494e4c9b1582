------------------------------ MODULE SqliteLock ------------------------------
(***************************************************************************)
(* The rollback-journal lock of one SQLite database file, as the storage   *)
(* package uses it: journal_mode DELETE, deferred BEGIN (the first SELECT  *)
(* takes the read lock, the first INSERT or UPDATE upgrades it), one       *)
(* connection per process, and a busy timeout.  SQLite itself is not part  *)
(* of the repository; the actions below are the part of its protocol that  *)
(* internal/storage relies on.                                             *)
(*                                                                         *)
(* EXCLUSIVE is held only while the commit writes the file, and the commit *)
(* is one step of the models built on this module, so it needs no state.   *)
(***************************************************************************)
CONSTANT Process          \* the operating system processes that open the file

VARIABLE lock             \* the lock each process holds on the file

LockStates == {"none", "shared", "reserved", "pending"}

LockTypeOK == lock \in [Process -> LockStates]

LockInit == lock = [p \in Process |-> "none"]

Writing(p) == lock[p] \in {"reserved", "pending"}

\* A waiting writer keeps new readers out.
ReadBlocked == \E q \in Process : lock[q] = "pending"

\* A second writer is refused at once, without waiting for the busy timeout:
\* it already holds the read lock the first one is waiting for.
UpgradeBlocked(p) == \E q \in Process \ {p} : Writing(q)

\* The file can be written when nobody else reads it.
ExclusiveBlocked(p) == \E q \in Process \ {p} : lock[q] # "none"

AcquireShared(p) ==
  /\ lock[p] = "none"
  /\ ~ReadBlocked
  /\ lock' = [lock EXCEPT ![p] = "shared"]

AcquireReserved(p) ==
  /\ lock[p] = "shared"
  /\ ~UpgradeBlocked(p)
  /\ lock' = [lock EXCEPT ![p] = "reserved"]

\* A transaction whose first statement writes waits for another writer.
AcquireWrite(p) ==
  /\ lock[p] = "none"
  /\ ~ReadBlocked
  /\ ~UpgradeBlocked(p)
  /\ lock' = [lock EXCEPT ![p] = "reserved"]

AcquirePending(p) ==
  /\ lock[p] = "reserved"
  /\ lock' = [lock EXCEPT ![p] = "pending"]

Release(p) == lock' = [lock EXCEPT ![p] = "none"]

\* At most one process has begun to write.
OneWriter ==
  \A p, q \in Process : Writing(p) /\ Writing(q) => p = q
===============================================================================
