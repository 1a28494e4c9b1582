---------------------------- MODULE SchemaMigration ----------------------------
(***************************************************************************)
(* Opening state.db (Open and OpenReadOnly of internal/storage): several   *)
(* processes open a database of an earlier version at once.  Each reads    *)
(* the version before it begins the transaction that migrates, so more     *)
(* than one of them may set out to migrate; the schema they then find is   *)
(* no longer the one that version promised.                                *)
(*                                                                         *)
(* The schema is the set of what the migrations add to a database file.    *)
(***************************************************************************)
EXTENDS Integers, SqliteLock

CONSTANT MaxOpens         \* bound: how many processes open the file in all

VARIABLES version,        \* user_version, as committed
          schema,         \* what the committed schema consists of
          pc,             \* where each process is
          expected,       \* the version each process read
          staged,         \* the schema as its open transaction would leave it
          outcome,        \* how its last opening ended
          opens           \* processes started so far

vars == <<lock, version, schema, pc, expected, staged, outcome, opens>>

SchemaVersion == 3

\* What the transaction of a process adds at each of its stages.
Adds(stage) ==
  CASE stage = "tables"       -> {"state-tables", "scan-columns"}
    [] stage = "columns"      -> {"scan-columns"}
    [] stage = "calibrations" -> {"calibration-references"}

Migrations == {"tables", "columns", "calibrations"}

Everything == {"state-tables", "scan-columns", "calibration-references"}

\* The schema of each released version, and of one that is yet to come.
SchemaOf(v) ==
  CASE v = 0 -> {}
    [] v = 1 -> {"state-tables"}
    [] v = 2 -> {"state-tables", "scan-columns"}
    [] v = 3 -> Everything
    [] v = 4 -> Everything \union {"later-tables"}

Versions == 0 .. 4

\* Mutant: version 1 is taken for version 2.
WithoutColumns(v) == IF v = 0 THEN "tables" ELSE "calibrations"

FirstMigration(v) ==
  CASE v = 0 -> "tables"
    [] v = 1 -> "columns"
    [] OTHER -> "calibrations"

Init ==
  /\ version \in Versions
  /\ schema = SchemaOf(version)
  /\ LockInit
  /\ pc = [p \in Process |-> "idle"]
  /\ expected = [p \in Process |-> 0]
  /\ staged = [p \in Process |-> {}]
  /\ outcome = [p \in Process |-> "none"]
  /\ opens = 0

Goto(p, stage) == pc' = [pc EXCEPT ![p] = stage]

\* The process closes the file; a transaction it still has is rolled back.
Close(p, result) ==
  /\ Goto(p, "idle")
  /\ Release(p)
  /\ staged' = [staged EXCEPT ![p] = {}]
  /\ outcome' = [outcome EXCEPT ![p] = result]
  /\ UNCHANGED <<version, schema, expected, opens>>

Start(p, stage) ==
  /\ pc[p] = "idle"
  /\ opens < MaxOpens
  /\ opens' = opens + 1
  /\ outcome' = [outcome EXCEPT ![p] = "none"]
  /\ Goto(p, stage)
  /\ UNCHANGED <<lock, version, schema, expected, staged>>

(***************************************************************************)
(* Open: read the version, then migrate to it in one transaction.          *)
(***************************************************************************)
\* Mutant: a later version is not refused.
SupportedFromZero(v) == v >= 0

Supported(v) == v >= 0 /\ v <= SchemaVersion

\* Mutant: the version before the current one will do.
NearlyCurrent(v) == v \in {2, 3}

Current(v) == v = SchemaVersion

ReadVersion(p) ==
  /\ pc[p] = "version"
  /\ ~ReadBlocked
  /\ Supported(version)
  /\ expected' = [expected EXCEPT ![p] = version]
  /\ Goto(p, IF Current(version) THEN "open" ELSE FirstMigration(version))
  /\ UNCHANGED <<lock, version, schema, staged, outcome, opens>>

RefuseVersion(p) ==
  /\ pc[p] = "version"
  /\ ~ReadBlocked
  /\ ~Supported(version)
  /\ Close(p, "unsupported")

\* The schema a statement of process p's transaction finds.
Found(p) == IF lock[p] = "reserved" THEN staged[p] ELSE schema

\* The first statement of the transaction waits for the write lock.
Migrate(p) ==
  /\ pc[p] \in Migrations
  /\ Adds(pc[p]) \intersect Found(p) = {}
  /\ IF lock[p] = "reserved" THEN UNCHANGED lock ELSE AcquireWrite(p)
  /\ staged' = [staged EXCEPT ![p] = Found(p) \union Adds(pc[p])]
  /\ Goto(p, IF pc[p] = "calibrations" THEN "migrated" ELSE "calibrations")
  /\ UNCHANGED <<version, schema, expected, outcome, opens>>

\* A table or a column is already there.
Collide(p) ==
  /\ pc[p] \in Migrations
  /\ Adds(pc[p]) \intersect Found(p) # {}
  /\ ~ReadBlocked
  /\ Close(p, "already-exists")

RequestCommit(p) ==
  /\ pc[p] = "migrated"
  /\ AcquirePending(p)
  /\ Goto(p, "exclusive")
  /\ UNCHANGED <<version, schema, expected, staged, outcome, opens>>

Commit(p) ==
  /\ pc[p] = "exclusive"
  /\ ~ExclusiveBlocked(p)
  /\ version' = SchemaVersion
  /\ schema' = staged[p]
  /\ Release(p)
  /\ Goto(p, "open")
  /\ UNCHANGED <<expected, staged, outcome, opens>>

\* The command that opened the store has done its work.
Finish(p) ==
  /\ pc[p] = "open"
  /\ Close(p, "ok")

(***************************************************************************)
(* OpenReadOnly and ReadHistory, which never migrate.                      *)
(***************************************************************************)
Reported(v) == v \in {2, 3}

ReadVersionOnly(p) ==
  /\ pc[p] = "report-version"
  /\ ~ReadBlocked
  /\ Reported(version)
  /\ expected' = [expected EXCEPT ![p] = version]
  /\ Goto(p, "history")
  /\ UNCHANGED <<lock, version, schema, staged, outcome, opens>>

RefuseVersionOnly(p) ==
  /\ pc[p] = "report-version"
  /\ ~ReadBlocked
  /\ ~Reported(version)
  /\ Close(p, "unsupported")

\* The version is read and checked again inside the transaction, and decides whether
\* the calibration references are read too.
ReadHistory(p) ==
  /\ pc[p] = "history"
  /\ ~ReadBlocked
  /\ IF Reported(version)
     THEN /\ AcquireShared(p)
          /\ expected' = [expected EXCEPT ![p] = version]
          /\ Goto(p, "history-read")
          /\ UNCHANGED <<version, schema, staged, outcome, opens>>
     ELSE Close(p, "unsupported")

\* Mutant: the read transaction is not ended.
EndHistoryLeftOpen(p) ==
  /\ pc[p] = "history-read"
  /\ Goto(p, "idle")
  /\ UNCHANGED <<lock, version, schema, expected, staged, outcome, opens>>

EndHistory(p) ==
  /\ pc[p] = "history-read"
  /\ Close(p, "ok")

(***************************************************************************)
(* The world.                                                              *)
(***************************************************************************)
\* A read, a first write or a commit waits for a lock that others hold.
Waiting(p) ==
  \/ pc[p] \in {"version", "report-version", "history"} /\ ReadBlocked
  \/ /\ pc[p] \in Migrations
     /\ lock[p] = "none"
     /\ ReadBlocked \/ UpgradeBlocked(p)
  \/ pc[p] = "exclusive" /\ ExclusiveBlocked(p)

BusyTimeout(p) ==
  /\ Waiting(p)
  /\ Close(p, "locked")

Crash(p) ==
  /\ pc[p] # "idle"
  /\ Close(p, "none")

Step(p) ==
  \/ ReadVersion(p) \/ RefuseVersion(p) \/ Migrate(p) \/ Collide(p)
  \/ RequestCommit(p) \/ Commit(p) \/ Finish(p)
  \/ ReadVersionOnly(p) \/ RefuseVersionOnly(p) \/ ReadHistory(p) \/ EndHistory(p)

Open(p) == Start(p, "version")

OpenReadOnly(p) == Start(p, "report-version")

Next ==
  \E p \in Process :
    Open(p) \/ OpenReadOnly(p) \/ Step(p) \/ BusyTimeout(p) \/ Crash(p)

Spec == Init /\ [][Next]_vars

\* A process that has been started is run.
FairSpec == Spec /\ \A p \in Process : WF_vars(Step(p))

(***************************************************************************)
(* Properties.                                                             *)
(***************************************************************************)
Stages ==
  {"idle", "version", "migrated", "exclusive", "open", "report-version",
   "history", "history-read"} \union Migrations

Outcomes == {"none", "ok", "unsupported", "already-exists", "locked"}

TypeOK ==
  /\ LockTypeOK
  /\ version \in Versions
  /\ schema \subseteq SchemaOf(4)
  /\ pc \in [Process -> Stages]
  /\ expected \in [Process -> Versions]
  /\ staged \in [Process -> SUBSET Everything]
  /\ outcome \in [Process -> Outcomes]
  /\ opens \in Nat

\* The version in the file tells its schema, whoever died during whichever
\* migration, and however many set out to migrate.
SchemaIsOfItsVersion == schema = SchemaOf(version)

\* A command that got past Open finds everything its statements refer to; a
\* report that has read version 3 in its transaction finds the calibration
\* references, until the transaction ends.
OpenedFindsItsTables ==
  \A p \in Process :
    /\ pc[p] = "open" => schema = Everything
    /\ pc[p] = "history-read" => schema = SchemaOf(expected[p])

\* The loser of a race to migrate fails on a table or column that exists, and
\* then the migration is complete: opening the file again succeeds.
LosersFindItMigrated ==
  \A p \in Process : outcome[p] = "already-exists" => version = SchemaVersion

\* Those who open the file never wait in a circle: while one waits for a lock,
\* another holds a lock, is at work and does not itself wait.
SomeHolderRuns ==
  \A p \in Process :
    Waiting(p) =>
      \E q \in Process : lock[q] # "none" /\ pc[q] # "idle" /\ ~Waiting(q)

\* Everybody who opens the file gets an answer.
OpeningsEnd == \A p \in Process : (pc[p] # "idle") ~> (pc[p] = "idle")
===============================================================================
