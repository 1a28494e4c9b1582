-------------------------- MODULE SchemaMigrationProofs --------------------------
(***************************************************************************)
(* Proofs about SchemaMigration, for any number of processes.              *)
(*                                                                         *)
(* A process that is about to migrate has read a version, and the only     *)
(* version that can have taken its place meanwhile is the current one.     *)
(* With the write lock it has staged exactly what leads from the committed *)
(* schema to the stage it has reached, and the commit finds every other    *)
(* lock gone.                                                              *)
(***************************************************************************)
EXTENDS SchemaMigration, TLAPS

\* The locks a process may hold at each stage.
LocksOf(stage) ==
  CASE stage = "calibrations" -> {"none", "reserved"}
    [] stage = "migrated"     -> {"reserved"}
    [] stage = "exclusive"    -> {"pending"}
    [] stage = "history-read" -> {"shared"}
    [] OTHER                  -> {"none"}

\* What a process at work relies on: the version it read or the current one is
\* in the file, and its rows are those of the migrations it has gone through.
StageOK(p) ==
  /\ lock[p] \in LocksOf(pc[p])
  /\ pc[p] = "tables" => version \in {0, SchemaVersion}
  /\ pc[p] = "columns" => version \in {1, SchemaVersion}
  /\ pc[p] = "calibrations" =>
       IF lock[p] = "none" THEN version \in {2, SchemaVersion}
       ELSE staged[p] = SchemaOf(2)
  /\ pc[p] \in {"migrated", "exclusive"} => staged[p] = Everything
  /\ pc[p] = "open" => version = SchemaVersion
  /\ pc[p] = "history-read" => expected[p] = version
  /\ outcome[p] = "already-exists" => version = SchemaVersion

IInv ==
  /\ TypeOK
  /\ SchemaIsOfItsVersion
  /\ \A p \in Process : StageOK(p)

\* Process q does not move, and neither does the file.
Unmoved(q) ==
  /\ lock'[q] = lock[q] /\ pc'[q] = pc[q] /\ expected'[q] = expected[q]
  /\ staged'[q] = staged[q] /\ outcome'[q] = outcome[q]

\* A process that does not move stays as it should be while the file does not change.
LEMMA UnmovedStaysOK ==
  ASSUME NEW q \in Process, StageOK(q), Unmoved(q), UNCHANGED version
  PROVE  StageOK(q)'
BY DEF StageOK, Unmoved, SchemaVersion

\* A step of one process that leaves the file alone keeps the invariant when it
\* keeps the types and what that process relies on.
LEMMA QuietStep ==
  ASSUME IInv, NEW p \in Process, UNCHANGED <<version, schema>>, TypeOK',
         StageOK(p)', \A q \in Process \ {p} : Unmoved(q)
  PROVE  IInv'
<1>1. \A q \in Process : StageOK(q)'
  BY UnmovedStaysOK DEF IInv
<1>2. SchemaIsOfItsVersion'
  BY DEF IInv, SchemaIsOfItsVersion
<1> QED BY <1>1, <1>2 DEF IInv

\* The schemas of the versions, as sets.
LEMMA Schemas ==
  /\ SchemaOf(0) = {}
  /\ SchemaOf(1) = {"state-tables"}
  /\ SchemaOf(2) = {"state-tables", "scan-columns"}
  /\ SchemaOf(3) = {"state-tables", "scan-columns", "calibration-references"}
  /\ Everything = SchemaOf(3)
  /\ \A v \in 0..4 : SchemaOf(v) \subseteq SchemaOf(4)
BY DEF SchemaOf, Everything

\* A process that closes the file keeps nothing.
LEMMA CloseKeeps ==
  ASSUME IInv, NEW p \in Process, NEW result \in Outcomes, Close(p, result),
         result = "already-exists" => version = SchemaVersion
  PROVE  IInv'
<1>1. TypeOK'
  BY DEF IInv, TypeOK, Close, Goto, Release, LockTypeOK, LockStates, Stages
<1>2. StageOK(p)'
  BY DEF IInv, TypeOK, LockTypeOK, Close, Goto, Release, StageOK, LocksOf
<1>3. \A q \in Process \ {p} : Unmoved(q)
  BY DEF IInv, TypeOK, LockTypeOK, Close, Goto, Release, Unmoved
<1> QED BY <1>1, <1>2, <1>3, QuietStep DEF Close

\* Starting a process that opens the file.
LEMMA StartKeeps ==
  ASSUME IInv, NEW p \in Process, NEW stage \in {"version", "report-version"},
         Start(p, stage)
  PROVE  IInv'
<1>1. TypeOK'
  <2>1. opens' \in Nat
    <3>1. opens \in Nat
      BY DEF IInv, TypeOK
    <3>2. opens' = opens + 1
      BY DEF Start
    <3> QED BY <3>1, <3>2
  <2>2. stage \in Stages /\ "none" \in Outcomes
    BY DEF Stages, Outcomes
  <2> QED BY <2>1, <2>2 DEF IInv, TypeOK, Start, Goto, LockTypeOK
<1>2. StageOK(p)'
  BY DEF IInv, TypeOK, LockTypeOK, Start, Goto, StageOK, LocksOf
<1>3. \A q \in Process \ {p} : Unmoved(q)
  BY DEF IInv, TypeOK, LockTypeOK, Start, Goto, Unmoved
<1> QED BY <1>1, <1>2, <1>3, QuietStep DEF Start

\* Reading the version sets out on the migrations that lead from it.
LEMMA ReadVersionKeeps ==
  ASSUME IInv, NEW p \in Process, ReadVersion(p)
  PROVE  IInv'
<1> DEFINE next == IF Current(version) THEN "open" ELSE FirstMigration(version)
<1>1. version \in 0..3
  BY DEF IInv, TypeOK, Versions, ReadVersion, Supported, SchemaVersion
<1>2. /\ next \in Stages
      /\ next \in {"open", "tables", "columns", "calibrations"}
      /\ next = "open" => version = SchemaVersion
      /\ next = "tables" => version = 0
      /\ next = "columns" => version = 1
      /\ next = "calibrations" => version = 2
  BY <1>1 DEF Current, FirstMigration, SchemaVersion, Stages, Migrations
<1>3. pc' = [pc EXCEPT ![p] = next]
  BY DEF ReadVersion, Goto
<1> HIDE DEF next
<1>4. TypeOK'
  BY <1>2, <1>3 DEF IInv, TypeOK, ReadVersion, LockTypeOK
<1>5. StageOK(p)'
  BY <1>2, <1>3 DEF IInv, TypeOK, LockTypeOK, ReadVersion, StageOK, LocksOf
<1>6. \A q \in Process \ {p} : Unmoved(q)
  BY <1>3 DEF IInv, TypeOK, LockTypeOK, ReadVersion, Unmoved
<1> QED BY <1>4, <1>5, <1>6, QuietStep DEF ReadVersion

\* What a migration stages is the schema of the stage it leads to.
LEMMA MigrateKeeps ==
  ASSUME IInv, NEW p \in Process, Migrate(p)
  PROVE  IInv'
<1> DEFINE next == IF pc[p] = "calibrations" THEN "migrated" ELSE "calibrations"
           added == Found(p) \union Adds(pc[p])
<1>1. /\ pc[p] \in {"tables", "columns", "calibrations"}
      /\ pc' = [pc EXCEPT ![p] = next]
      /\ staged' = [staged EXCEPT ![p] = added]
      /\ next \in Stages
  BY DEF Migrate, Migrations, Goto, Stages
<1>2. /\ lock[p] \in {"none", "reserved"} /\ lock' = [lock EXCEPT ![p] = "reserved"]
      /\ pc[p] \in {"tables", "columns"} => lock[p] = "none"
  BY <1>1 DEF IInv, TypeOK, LockTypeOK, LockStates, StageOK, LocksOf, Migrate, AcquireWrite
<1>3. schema = SchemaOf(version) /\ version \in 0..4
  BY DEF IInv, SchemaIsOfItsVersion, TypeOK, Versions
<1>4. Adds(pc[p]) \intersect Found(p) = {}
  BY DEF Migrate
<1>5. /\ next = "calibrations" => added = SchemaOf(2)
      /\ next = "migrated" => added = Everything
  <2>1. CASE pc[p] = "tables"
    <3>1. version \in {0, 3} /\ Found(p) = SchemaOf(version)
      BY <1>2, <1>3, <2>1 DEF IInv, StageOK, Found, SchemaVersion
    <3>2. Adds(pc[p]) = {"state-tables", "scan-columns"}
      BY <2>1 DEF Adds
    <3>3. version = 0
      BY <1>4, <3>1, <3>2, Schemas
    <3>4. Found(p) = {}
      BY <3>1, <3>3, Schemas
    <3>5. added = SchemaOf(2)
      BY <3>2, <3>4, Schemas
    <3> QED BY <2>1, <3>5
  <2>2. CASE pc[p] = "columns"
    <3>1. version \in {1, 3} /\ Found(p) = SchemaOf(version)
      BY <1>2, <1>3, <2>2 DEF IInv, StageOK, Found, SchemaVersion
    <3>2. Adds(pc[p]) = {"scan-columns"}
      BY <2>2 DEF Adds
    <3>3. version = 1
      BY <1>4, <3>1, <3>2, Schemas
    <3> QED BY <2>2, <3>1, <3>2, <3>3, Schemas
  <2>3. CASE pc[p] = "calibrations"
    <3>1. Adds(pc[p]) = {"calibration-references"}
      BY <2>3 DEF Adds
    <3>2. Found(p) = SchemaOf(2)
      <4>1. CASE lock[p] = "reserved"
        BY <2>3, <4>1 DEF IInv, StageOK, Found
      <4>2. CASE lock[p] = "none"
        <5>1. version \in {2, 3} /\ Found(p) = SchemaOf(version)
          BY <1>3, <2>3, <4>2 DEF IInv, StageOK, Found, SchemaVersion
        <5>2. version = 2
          BY <1>4, <3>1, <5>1, Schemas
        <5> QED BY <5>1, <5>2
      <4> QED BY <1>2, <4>1, <4>2
    <3> QED BY <2>3, <3>1, <3>2, Schemas
  <2> QED BY <1>1, <2>1, <2>2, <2>3
<1>6. added \in SUBSET Everything
  BY <1>1, <1>5, Schemas
<1> HIDE DEF next, added
<1>7. TypeOK'
  BY <1>1, <1>2, <1>6 DEF IInv, TypeOK, LockTypeOK, LockStates, Migrate
<1>8. StageOK(p)'
  <2>1. /\ lock'[p] = "reserved" /\ pc'[p] = next /\ staged'[p] = added
        /\ outcome'[p] = outcome[p]
        /\ next \in {"calibrations", "migrated"}
    BY <1>1, <1>2 DEF IInv, TypeOK, LockTypeOK, Migrate, next
  <2>2. SchemaOf(2)' = SchemaOf(2) /\ version' = version
    BY DEF Migrate, SchemaOf
  <2> QED BY <1>5, <2>1, <2>2 DEF IInv, StageOK, LocksOf, SchemaVersion, Everything
<1>9. \A q \in Process \ {p} : Unmoved(q)
  BY <1>1, <1>2 DEF IInv, TypeOK, LockTypeOK, Migrate, Unmoved
<1> QED BY <1>7, <1>8, <1>9, QuietStep DEF Migrate

\* Whoever finds a table or a column finds the schema migrated: it set out on the
\* version it read, and with the write lock nobody else can have migrated since.
LEMMA CollideKeeps ==
  ASSUME IInv, NEW p \in Process, Collide(p)
  PROVE  IInv'
<1>1. /\ pc[p] \in {"tables", "columns", "calibrations"}
      /\ Adds(pc[p]) \intersect Found(p) # {}
      /\ Close(p, "already-exists")
  BY DEF Collide, Migrations
<1>2. schema = SchemaOf(version)
  BY DEF IInv, SchemaIsOfItsVersion
<1>3. version = SchemaVersion
  <2>1. CASE pc[p] = "tables"
    <3>1. version \in {0, SchemaVersion} /\ Found(p) = SchemaOf(version)
      BY <1>2, <2>1 DEF IInv, StageOK, LocksOf, Found
    <3> QED BY <1>1, <3>1, Schemas
  <2>2. CASE pc[p] = "columns"
    <3>1. version \in {1, SchemaVersion} /\ Found(p) = SchemaOf(version)
      BY <1>2, <2>2 DEF IInv, StageOK, LocksOf, Found
    <3> QED BY <1>1, <2>2, <3>1, Schemas DEF Adds
  <2>3. CASE pc[p] = "calibrations"
    <3>1. Adds(pc[p]) = {"calibration-references"}
      BY <2>3 DEF Adds
    <3>2. CASE lock[p] = "reserved"
      <4>1. Found(p) = SchemaOf(2)
        BY <2>3, <3>2 DEF IInv, StageOK, Found
      <4> QED BY <1>1, <3>1, <4>1, Schemas
    <3>3. CASE lock[p] = "none"
      <4>1. version \in {2, SchemaVersion} /\ Found(p) = SchemaOf(version)
        BY <1>2, <2>3, <3>3 DEF IInv, StageOK, Found
      <4> QED BY <1>1, <3>1, <4>1, Schemas
    <3> QED BY <2>3, <3>2, <3>3 DEF IInv, StageOK, LocksOf
  <2> QED BY <1>1, <2>1, <2>2, <2>3
<1> QED BY <1>1, <1>3, CloseKeeps DEF Outcomes

\* Asking for the commit keeps what is staged.
LEMMA RequestCommitKeeps ==
  ASSUME IInv, NEW p \in Process, RequestCommit(p)
  PROVE  IInv'
<1>1. TypeOK'
  BY DEF IInv, TypeOK, RequestCommit, AcquirePending, Goto, LockTypeOK, LockStates, Stages
<1>2. StageOK(p)'
  BY DEF IInv, TypeOK, LockTypeOK, RequestCommit, AcquirePending, Goto, StageOK, LocksOf,
         Everything
<1>3. \A q \in Process \ {p} : Unmoved(q)
  BY DEF IInv, TypeOK, LockTypeOK, RequestCommit, AcquirePending, Goto, Unmoved
<1> QED BY <1>1, <1>2, <1>3, QuietStep DEF RequestCommit

\* The commit is the only step that changes the file: nobody else holds a lock then, so
\* nobody reads the history or has staged anything, and whoever is about to migrate will
\* find the current version.
LEMMA CommitKeeps ==
  ASSUME IInv, NEW p \in Process, Commit(p)
  PROVE  IInv'
<1>1. /\ pc[p] = "exclusive" /\ staged[p] = Everything
      /\ version' = SchemaVersion /\ schema' = Everything
      /\ lock' = [lock EXCEPT ![p] = "none"] /\ pc' = [pc EXCEPT ![p] = "open"]
      /\ UNCHANGED <<expected, staged, outcome, opens>>
      /\ \A q \in Process \ {p} : lock[q] = "none"
  BY DEF IInv, StageOK, Commit, Release, Goto, ExclusiveBlocked
<1>2. TypeOK'
  <2>1. version' \in Versions
    BY <1>1 DEF SchemaVersion, Versions
  <2>2. schema' \subseteq SchemaOf(4)
    BY <1>1, Schemas
  <2>3. lock' \in [Process -> LockStates] /\ pc' \in [Process -> Stages]
    BY <1>1 DEF IInv, TypeOK, LockTypeOK, LockStates, Stages
  <2> QED BY <1>1, <2>1, <2>2, <2>3 DEF IInv, TypeOK, LockTypeOK
<1>3. SchemaIsOfItsVersion'
  <2>1. SchemaOf(SchemaVersion) = Everything
    BY Schemas DEF SchemaVersion
  <2> QED BY <1>1, <2>1 DEF SchemaIsOfItsVersion
<1>4. ASSUME NEW q \in Process PROVE StageOK(q)'
  <2>1. CASE q = p
    BY <1>1, <2>1 DEF IInv, TypeOK, LockTypeOK, StageOK, LocksOf, SchemaVersion
  <2>2. CASE q # p
    <3>1. /\ lock[q] = "none" /\ lock'[q] = "none" /\ pc'[q] = pc[q]
          /\ pc[q] \notin {"migrated", "exclusive", "history-read"}
          /\ lock[q] \in LocksOf(pc[q])
      BY <1>1, <2>2 DEF IInv, TypeOK, LockTypeOK, StageOK, LocksOf
    <3> QED BY <1>1, <3>1 DEF StageOK, SchemaVersion
  <2> QED BY <2>1, <2>2
<1> QED BY <1>2, <1>3, <1>4 DEF IInv

\* Reading the version of a report promises nothing.
LEMMA ReadVersionOnlyKeeps ==
  ASSUME IInv, NEW p \in Process, ReadVersionOnly(p)
  PROVE  IInv'
<1>1. TypeOK'
  BY DEF IInv, TypeOK, ReadVersionOnly, Goto, LockTypeOK, Stages
<1>2. StageOK(p)'
  BY DEF IInv, TypeOK, LockTypeOK, ReadVersionOnly, Goto, StageOK, LocksOf
<1>3. \A q \in Process \ {p} : Unmoved(q)
  BY DEF IInv, TypeOK, LockTypeOK, ReadVersionOnly, Goto, Unmoved
<1> QED BY <1>1, <1>2, <1>3, QuietStep DEF ReadVersionOnly

\* The transaction of a report reads the version that is in the file, or ends at once.
LEMMA ReadHistoryKeeps ==
  ASSUME IInv, NEW p \in Process, ReadHistory(p)
  PROVE  IInv'
<1>1. CASE Reported(version)
  <2>1. TypeOK'
    BY <1>1 DEF IInv, TypeOK, ReadHistory, AcquireShared, Goto, LockTypeOK, LockStates, Stages
  <2>2. StageOK(p)'
    BY <1>1 DEF IInv, TypeOK, LockTypeOK, ReadHistory, AcquireShared, Goto, StageOK, LocksOf
  <2>3. \A q \in Process \ {p} : Unmoved(q)
    BY <1>1 DEF IInv, TypeOK, LockTypeOK, ReadHistory, AcquireShared, Goto, Unmoved
  <2> QED BY <1>1, <2>1, <2>2, <2>3, QuietStep DEF ReadHistory
<1>2. CASE ~Reported(version)
  BY <1>2, CloseKeeps DEF ReadHistory, Outcomes
<1> QED BY <1>1, <1>2

\* Every step keeps the invariant.
LEMMA NextKeeps == IInv /\ [Next]_vars => IInv'
<1> SUFFICES ASSUME IInv, [Next]_vars PROVE IInv'
  OBVIOUS
<1>1. CASE UNCHANGED vars
  <2>1. TypeOK' /\ SchemaIsOfItsVersion' /\ \A q \in Process : Unmoved(q)
    BY <1>1 DEF IInv, TypeOK, LockTypeOK, SchemaIsOfItsVersion, SchemaOf, vars, Unmoved
  <2> QED BY <1>1, <2>1, UnmovedStaysOK DEF IInv, vars
<1>2. CASE Next
  <2>1. PICK p \in Process :
          Open(p) \/ OpenReadOnly(p) \/ Step(p) \/ BusyTimeout(p) \/ Crash(p)
    BY <1>2 DEF Next
  <2>2. CASE Open(p) \/ OpenReadOnly(p)
    BY <2>2, StartKeeps DEF Open, OpenReadOnly
  <2>3. CASE ReadVersion(p)
    BY <2>3, ReadVersionKeeps
  <2>4. CASE \/ RefuseVersion(p) \/ Finish(p) \/ RefuseVersionOnly(p) \/ EndHistory(p)
             \/ BusyTimeout(p) \/ Crash(p)
    BY <2>4, CloseKeeps DEF RefuseVersion, Finish, RefuseVersionOnly, EndHistory, BusyTimeout,
       Crash, Outcomes
  <2>5. CASE Migrate(p)
    BY <2>5, MigrateKeeps
  <2>6. CASE Collide(p)
    BY <2>6, CollideKeeps
  <2>7. CASE RequestCommit(p)
    BY <2>7, RequestCommitKeeps
  <2>8. CASE Commit(p)
    BY <2>8, CommitKeeps
  <2>9. CASE ReadVersionOnly(p)
    BY <2>9, ReadVersionOnlyKeeps
  <2>10. CASE ReadHistory(p)
    BY <2>10, ReadHistoryKeeps
  <2> QED BY <2>1, <2>2, <2>3, <2>4, <2>5, <2>6, <2>7, <2>8, <2>9, <2>10 DEF Step
<1> QED BY <1>1, <1>2 DEF vars

\* Before anybody opens the file, its version tells its schema.
LEMMA InitIsOK == Init => IInv
<1> SUFFICES ASSUME Init PROVE IInv
  OBVIOUS
<1>1. TypeOK
  <2>1. schema \subseteq SchemaOf(4)
    <3>1. version \in 0..4 /\ schema = SchemaOf(version)
      BY DEF Init, Versions
    <3> QED BY <3>1, Schemas
  <2>2. /\ lock \in [Process -> LockStates] /\ pc \in [Process -> Stages]
        /\ outcome \in [Process -> Outcomes]
    BY DEF Init, LockInit, LockStates, Stages, Outcomes
  <2>3. expected \in [Process -> Versions] /\ staged \in [Process -> SUBSET Everything]
    BY DEF Init, Versions
  <2> QED BY <2>1, <2>2, <2>3 DEF Init, TypeOK, LockTypeOK
<1>2. \A p \in Process : StageOK(p)
  BY DEF Init, LockInit, StageOK, LocksOf
<1> QED BY <1>1, <1>2 DEF Init, IInv, SchemaIsOfItsVersion

\* The invariant holds in every reachable state, for any number of processes that open a
\* file of any version at once (ensureSchema, sqlite.go:110).
THEOREM SchemaInvariance == Spec => []IInv
BY InitIsOK, NextKeeps, PTL DEF Spec

\* The types of the module's variables.
THEOREM SchemaTypeCorrect == Spec => []TypeOK
<1>1. IInv => TypeOK
  BY DEF IInv
<1> QED BY <1>1, SchemaInvariance, PTL

\* The version in the file always tells its schema, whoever died during a migration.
THEOREM SchemaIsOfItsVersionAlways == Spec => []SchemaIsOfItsVersion
<1>1. IInv => SchemaIsOfItsVersion
  BY DEF IInv
<1> QED BY <1>1, SchemaInvariance, PTL

\* A command that got past Open, and a report within its transaction, always find the
\* tables their statements refer to.
THEOREM OpenedFindsItsTablesAlways == Spec => []OpenedFindsItsTables
<1>1. IInv => OpenedFindsItsTables
  BY Schemas DEF IInv, StageOK, SchemaIsOfItsVersion, OpenedFindsItsTables, SchemaVersion
<1> QED BY <1>1, SchemaInvariance, PTL

\* Whoever lost the race to migrate finds the file migrated when it tries again.
THEOREM LosersFindItMigratedAlways == Spec => []LosersFindItMigrated
<1>1. IInv => LosersFindItMigrated
  BY DEF IInv, StageOK, LosersFindItMigrated
<1> QED BY <1>1, SchemaInvariance, PTL

(***************************************************************************)
(* Waiting.                                                                *)
(***************************************************************************)

\* Whoever takes the write lock finds it free.
LEMMA OneWriterKeeps ==
  ASSUME IInv, OneWriter, [Next]_vars
  PROVE  OneWriter'
<1> USE DEF IInv, TypeOK, LockTypeOK, OneWriter, Writing
<1>1. ASSUME NEW p \in Process, \/ UNCHANGED lock \/ Release(p) \/ AcquireShared(p)
                                \/ AcquireWrite(p) \/ AcquirePending(p)
      PROVE  OneWriter'
  BY <1>1 DEF Release, AcquireShared, AcquireWrite, AcquirePending, UpgradeBlocked
<1>2. ASSUME NEW p \in Process,
             Open(p) \/ OpenReadOnly(p) \/ Step(p) \/ BusyTimeout(p) \/ Crash(p)
      PROVE  \/ UNCHANGED lock \/ Release(p) \/ AcquireShared(p)
             \/ AcquireWrite(p) \/ AcquirePending(p)
  BY <1>2 DEF Open, OpenReadOnly, Start, Step, ReadVersion, RefuseVersion, Migrate, Collide,
       RequestCommit, Commit, Finish, ReadVersionOnly, RefuseVersionOnly, ReadHistory,
       EndHistory, BusyTimeout, Crash, Close
<1> QED BY <1>1, <1>2 DEF Next, vars

\* A commit that waits is kept waiting by reports, and reports go on.
LEMMA ReportsGoOn ==
  ASSUME IInv, OneWriter, NEW p \in Process, pc[p] = "exclusive", ExclusiveBlocked(p)
  PROVE  \E q \in Process : lock[q] # "none" /\ pc[q] # "idle" /\ ~Waiting(q)
<1>1. PICK q \in Process \ {p} : lock[q] # "none"
  BY DEF ExclusiveBlocked
<1>2. Writing(p)
  BY DEF IInv, StageOK, LocksOf, Writing
<1>3. ~Writing(q) /\ lock[q] \in LocksOf(pc[q])
  BY <1>1, <1>2 DEF IInv, OneWriter, StageOK
<1>4. pc[q] = "history-read"
  BY <1>1, <1>3 DEF LocksOf, Writing
<1> QED BY <1>1, <1>4 DEF Waiting, Migrations

\* Whoever has the write lock goes on, or waits to commit.
LEMMA WritersGoOn ==
  ASSUME IInv, OneWriter, NEW p \in Process, Writing(p)
  PROVE  \E q \in Process : lock[q] # "none" /\ pc[q] # "idle" /\ ~Waiting(q)
<1>1. /\ lock[p] \in {"reserved", "pending"} /\ lock[p] \in LocksOf(pc[p])
  BY DEF IInv, StageOK, Writing
<1>2. CASE pc[p] = "exclusive" /\ ExclusiveBlocked(p)
  BY <1>2, ReportsGoOn
<1>3. CASE ~(pc[p] = "exclusive" /\ ExclusiveBlocked(p))
  <2>1. pc[p] \in {"calibrations", "migrated", "exclusive"}
    BY <1>1 DEF LocksOf
  <2> QED BY <1>1, <1>3, <2>1 DEF Waiting, Migrations
<1> QED BY <1>2, <1>3

\* Any number of processes that open and migrate the file never wait in a circle.
THEOREM OpeningsDoNotWaitInACircle == Spec => []SomeHolderRuns
<1>1. Init => OneWriter
  BY DEF Init, LockInit, OneWriter, Writing
<1>2. ASSUME IInv, OneWriter, NEW p \in Process, Waiting(p)
      PROVE  \E q \in Process : lock[q] # "none" /\ pc[q] # "idle" /\ ~Waiting(q)
  <2>1. CASE pc[p] = "exclusive" /\ ExclusiveBlocked(p)
    BY <1>2, <2>1, ReportsGoOn
  <2>2. CASE ReadBlocked \/ UpgradeBlocked(p)
    BY <1>2, <2>2, WritersGoOn DEF ReadBlocked, UpgradeBlocked, Writing
  <2> QED BY <1>2, <2>1, <2>2 DEF Waiting
<1>3. IInv /\ OneWriter => SomeHolderRuns
  BY <1>2 DEF SomeHolderRuns
<1> QED BY <1>1, <1>3, OneWriterKeeps, SchemaInvariance, PTL DEF Spec
===============================================================================
