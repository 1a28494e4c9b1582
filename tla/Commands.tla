------------------------------- MODULE Commands -------------------------------
(***************************************************************************)
(* Concurrent repocue commands over one repository: init, status, refresh, *)
(* rebaseline and cue (internal/app/app.go), each a process of its own     *)
(* that opens state.db, and the working tree that changes under them.      *)
(*                                                                         *)
(* A command reads the current state in one transaction, scans the         *)
(* repository without any lock, and publishes in a second transaction that *)
(* first verifies the state it read is still current.  The rows a          *)
(* transaction writes stay private until its commit; a process that dies,  *)
(* or gives up, leaves none of them.                                       *)
(***************************************************************************)
EXTENDS StateTables, SqliteLock

CONSTANT MaxCommands      \* bound: how many commands are started in all

VARIABLES worktree,       \* what a scan would observe now
          stateFile,      \* whether state.db exists
          db,             \* the committed contents of state.db
          pc,             \* where each process is
          command,        \* the command each process runs
          seen,           \* the current state it read before its scan
          since,          \* the snapshot of cue --since
          live,           \* what its scan observed
          staged,         \* the database as its open transaction would leave it
          answer,         \* what it told its user when it ended
          started         \* commands started so far

vars == <<lock, worktree, stateFile, db, pc, command, seen, since, live,
          staged, answer, started>>

CommandNames == {"init", "status", "refresh", "rebaseline", "cue"}

Stages == {"idle", "open", "current", "current-read", "scan", "since",
           "since-read", "begin", "write", "commit", "exclusive", "print"}

Failures == {"not-initialized", "already-initialized", "concurrent-update",
             "unknown-snapshot", "locked", "constraint"}

\* The stages in which a transaction's checks have passed and it has not ended.
Publishing == {"write", "commit", "exclusive"}

NothingSeen == [epoch |-> 0, snapshot |-> NoSnapshot]

CurrentStates == [epoch : Nat, snapshot : Nat, scan : Scans]

Silent == [outcome |-> "none", snapshot |-> NoSnapshot, run |-> 0]

Answers ==
  [outcome : {"none", "ok"} \union Failures, snapshot : Nat, run : Nat]

Init ==
  /\ worktree \in Scans
  /\ stateFile = FALSE
  /\ db = EmptyDatabase
  /\ LockInit
  /\ pc = [p \in Process |-> "idle"]
  /\ command = [p \in Process |-> "status"]
  /\ seen = [p \in Process |-> NothingSeen]
  /\ since = [p \in Process |-> NoSnapshot]
  /\ live = [p \in Process |-> worktree]
  /\ staged = [p \in Process |-> EmptyDatabase]
  /\ answer = [p \in Process |-> Silent]
  /\ started = 0

Goto(p, stage) == pc' = [pc EXCEPT ![p] = stage]

\* The process ends: its memory is gone and its transaction, if it has one, is
\* rolled back.
End(p, result) ==
  /\ Goto(p, "idle")
  /\ Release(p)
  /\ staged' = [staged EXCEPT ![p] = EmptyDatabase]
  /\ seen' = [seen EXCEPT ![p] = NothingSeen]
  /\ since' = [since EXCEPT ![p] = NoSnapshot]
  /\ answer' = [answer EXCEPT ![p] = result]
  /\ UNCHANGED <<worktree, stateFile, db, command, live, started>>

Fail(p, reason) == End(p, [Silent EXCEPT !.outcome = reason])

(***************************************************************************)
(* Starting: flag parsing, locating the repository, opening the store.     *)
(***************************************************************************)
Start(p, name) ==
  /\ pc[p] = "idle"
  /\ started < MaxCommands
  /\ started' = started + 1
  /\ command' = [command EXCEPT ![p] = name]
  /\ Goto(p, IF name = "init" THEN "scan" ELSE "open")
  /\ answer' = [answer EXCEPT ![p] = Silent]
  /\ UNCHANGED <<lock, worktree, stateFile, db, seen, since, live, staged>>

\* init creates the database file; it has already scanned.
CreateStore(p) ==
  /\ pc[p] = "open"
  /\ command[p] = "init"
  /\ ~ReadBlocked
  /\ stateFile' = TRUE
  /\ Goto(p, "begin")
  /\ UNCHANGED <<lock, worktree, db, command, seen, since, live, staged, answer, started>>

OpenStore(p) ==
  /\ pc[p] = "open"
  /\ command[p] # "init"
  /\ stateFile
  /\ ~ReadBlocked
  /\ Goto(p, "current")
  /\ UNCHANGED <<lock, worktree, stateFile, db, command, seen, since, live, staged,
                 answer, started>>

\* Without a state.db, status reports so and the other commands fail.
StoreMissing(p) ==
  /\ pc[p] = "open"
  /\ command[p] # "init"
  /\ ~stateFile
  /\ Fail(p, "not-initialized")

(***************************************************************************)
(* The first read transaction.                                             *)
(***************************************************************************)
ReadCurrent(p) ==
  /\ pc[p] = "current"
  /\ db.repositories = 1
  /\ AcquireShared(p)
  /\ seen' = [seen EXCEPT ![p] = CurrentState(db)]
  /\ Goto(p, "current-read")
  /\ UNCHANGED <<worktree, stateFile, db, command, since, live, staged, answer, started>>

\* state.db exists and init has not committed.
ReadNothing(p) ==
  /\ pc[p] = "current"
  /\ db.repositories = 0
  /\ ~ReadBlocked
  /\ Fail(p, "not-initialized")

EndRead(p, from, to) ==
  /\ pc[p] = from
  /\ Release(p)
  /\ Goto(p, to)
  /\ UNCHANGED <<worktree, stateFile, db, command, seen, since, live, staged, answer, started>>

EndReadCurrent(p) == EndRead(p, "current-read", "scan")

(***************************************************************************)
(* The scan holds no lock.                                                 *)
(***************************************************************************)
AfterScan(name) ==
  CASE name = "init"   -> "open"
    [] name = "status" -> "print"
    [] name = "cue"    -> "since"
    [] OTHER           -> "begin"

Scan(p) ==
  /\ pc[p] = "scan"
  /\ live' = [live EXCEPT ![p] = worktree]
  /\ Goto(p, AfterScan(command[p]))
  /\ UNCHANGED <<lock, worktree, stateFile, db, command, seen, since, staged, answer, started>>

(***************************************************************************)
(* cue --since reads another snapshot, of any epoch.                       *)
(***************************************************************************)
ReadSince(p) ==
  /\ pc[p] = "since"
  /\ AcquireShared(p)
  /\ \E s \in DOMAIN db.snapshots : since' = [since EXCEPT ![p] = s]
  /\ Goto(p, "since-read")
  /\ UNCHANGED <<worktree, stateFile, db, command, seen, live, staged, answer, started>>

\* Mutant: the read transaction is left open when its rows have been read.
EndReadSinceLeftOpen(p) ==
  /\ pc[p] = "since-read"
  /\ Goto(p, "begin")
  /\ UNCHANGED <<lock, worktree, stateFile, db, command, seen, since, live, staged, answer,
                 started>>

EndReadSince(p) == EndRead(p, "since-read", "begin")

WithoutSince(p) ==
  /\ pc[p] = "since"
  /\ Goto(p, "begin")
  /\ UNCHANGED <<lock, worktree, stateFile, db, command, seen, since, live, staged,
                 answer, started>>

UnknownSince(p) ==
  /\ pc[p] = "since"
  /\ ~ReadBlocked
  /\ Fail(p, "unknown-snapshot")

(***************************************************************************)
(* The write transaction: verify under the read lock, upgrade, commit.     *)
(***************************************************************************)
\* Mutant: a transition does not verify what it read.
RefusalUnverified(p) ==
  IF command[p] = "init" /\ db.repositories # 0 THEN "already-initialized" ELSE "none"

\* Mutant: a transition verifies the epoch and not the snapshot.
RefusalByEpoch(p) ==
  CASE command[p] = "init" /\ db.repositories # 0 -> "already-initialized"
    [] /\ command[p] \in {"refresh", "rebaseline"}
       /\ ActiveEpoch(db) # seen[p].epoch         -> "concurrent-update"
    [] OTHER                                      -> "none"

Refusal(p) ==
  CASE command[p] = "init" /\ db.repositories # 0 -> "already-initialized"
    [] /\ command[p] \in {"refresh", "rebaseline"}
       /\ CurrentSnapshot(db) # seen[p].snapshot  -> "concurrent-update"
    [] OTHER                                      -> "none"

Begin(p) ==
  /\ pc[p] = "begin"
  /\ Refusal(p) = "none"
  /\ AcquireShared(p)
  /\ Goto(p, "write")
  /\ UNCHANGED <<worktree, stateFile, db, command, seen, since, live, staged, answer, started>>

Refuse(p) ==
  /\ pc[p] = "begin"
  /\ Refusal(p) # "none"
  /\ ~ReadBlocked
  /\ Fail(p, Refusal(p))

\* The database as process p's transaction leaves it.
Rows(p) ==
  CASE command[p] = "init"       -> Initialized(db, live[p])
    [] command[p] = "refresh"    -> Refreshed(db, seen[p], live[p])
    [] command[p] = "rebaseline" -> Rebaselined(db, seen[p], live[p])
    [] OTHER                     -> WithCueRun(db, seen[p].snapshot, since[p])

\* The rows are written, or the schema refuses one of them.
Write(p) ==
  /\ pc[p] = "write"
  /\ ~UpgradeBlocked(p)
  /\ IF ConstraintsHold(Rows(p))
     THEN /\ AcquireReserved(p)
          /\ staged' = [staged EXCEPT ![p] = Rows(p)]
          /\ Goto(p, "commit")
          /\ UNCHANGED <<worktree, stateFile, db, command, seen, since, live, answer,
                         started>>
     ELSE Fail(p, "constraint")

\* Mutant: a refused upgrade waits for the other writer.
WriteWaits(p) ==
  /\ pc[p] = "write"
  /\ UpgradeBlocked(p)
  /\ UNCHANGED vars

\* Another transaction has begun to write: the upgrade fails at once.
WriteRefused(p) ==
  /\ pc[p] = "write"
  /\ UpgradeBlocked(p)
  /\ Fail(p, "locked")

RequestCommit(p) ==
  /\ pc[p] = "commit"
  /\ AcquirePending(p)
  /\ Goto(p, "exclusive")
  /\ UNCHANGED <<worktree, stateFile, db, command, seen, since, live, staged, answer, started>>

Commit(p) ==
  /\ pc[p] = "exclusive"
  /\ ~ExclusiveBlocked(p)
  /\ db' = staged[p]
  /\ Release(p)
  /\ Goto(p, "print")
  /\ UNCHANGED <<worktree, stateFile, command, seen, since, live, staged, answer, started>>

(***************************************************************************)
(* Ending.                                                                 *)
(***************************************************************************)
\* What the command printed: its snapshot, and the run its transition recorded.
Outcome(p) ==
  LET runs == staged[p].operationRuns
      n    == Len(runs)
  IN  IF command[p] \in {"init", "refresh", "rebaseline"}
      THEN [outcome |-> "ok", snapshot |-> runs[n].snapshot, run |-> n]
      ELSE [outcome |-> "ok", snapshot |-> seen[p].snapshot, run |-> 0]

Respond(p) ==
  /\ pc[p] = "print"
  /\ End(p, Outcome(p))

\* A read or a commit waits for a lock that others hold.
Waiting(p) ==
  \/ pc[p] \in {"open", "current", "since", "begin"} /\ ReadBlocked
  \/ pc[p] = "exclusive" /\ ExclusiveBlocked(p)

\* It has waited longer than the busy timeout.
BusyTimeout(p) ==
  /\ Waiting(p)
  /\ Fail(p, "locked")

\* The process is killed, or fails outside these transactions: in Git, on a
\* file, while it opens the database (SchemaMigration), or while it measures
\* the size of the database it has just committed to.
Crash(p) ==
  /\ pc[p] # "idle"
  /\ End(p, Silent)

\* Somebody edits a file, stages it, or moves HEAD.
Edit(w) ==
  /\ worktree' = w
  /\ UNCHANGED <<lock, stateFile, db, pc, command, seen, since, live, staged, answer, started>>

Step(p) ==
  \/ CreateStore(p) \/ OpenStore(p) \/ StoreMissing(p)
  \/ ReadCurrent(p) \/ ReadNothing(p) \/ EndReadCurrent(p)
  \/ Scan(p)
  \/ ReadSince(p) \/ EndReadSince(p) \/ WithoutSince(p) \/ UnknownSince(p)
  \/ Begin(p) \/ Refuse(p) \/ Write(p) \/ WriteRefused(p)
  \/ RequestCommit(p) \/ Commit(p) \/ Respond(p)

Invoke(p) == \E name \in CommandNames : Start(p, name)

Next ==
  \/ \E p \in Process : Invoke(p) \/ Step(p) \/ BusyTimeout(p) \/ Crash(p)
  \/ \E w \in Scans : Edit(w)

Spec == Init /\ [][Next]_vars

(***************************************************************************)
(* Properties.                                                             *)
(***************************************************************************)
TypeOK ==
  /\ LockTypeOK
  /\ worktree \in Scans
  /\ stateFile \in BOOLEAN
  /\ db \in Database
  /\ pc \in [Process -> Stages]
  /\ command \in [Process -> CommandNames]
  /\ seen \in [Process -> CurrentStates \union {NothingSeen}]
  /\ since \in [Process -> Nat]
  /\ live \in [Process -> Scans]
  /\ staged \in [Process -> Database]
  /\ answer \in [Process -> Answers]
  /\ started \in Nat

\* Once init has committed, exactly one epoch is active and it is the newest;
\* every rebaseline left its predecessor superseded.
OneActiveEpoch == NewestEpochIsActive(db)

\* The snapshots form one line of history whatever commands race: a baseline
\* opens the next epoch, a refresh follows the snapshot its command started
\* from, which is the last one recorded, and records a different state.
LinearHistory == SnapshotsFormOneLine(db)

\* A stored delta is the difference of the two snapshots it joins, although it
\* was computed before the transaction that published it: from the parent as
\* the command had read it, to the state its scan observed.
DeltasJoinSnapshots == DeltasJoinParents(db)

\* What a transaction verified stays true until it commits or gives up: the
\* snapshot a refresh or rebaseline read before its scan is still the current
\* one, and an init still finds no repository.
VerifiedStaysCurrent ==
  \A p \in Process :
    pc[p] \in Publishing =>
      /\ command[p] = "init" => db.repositories = 0
      /\ command[p] \in {"refresh", "rebaseline"} =>
           /\ seen[p].snapshot = CurrentSnapshot(db)
           /\ seen[p].epoch = ActiveEpoch(db)

\* A transition reported to the user is in the database, and its snapshot
\* holds the state that command scanned, also when the transition published no
\* snapshot of its own.
AcknowledgedIsRecorded ==
  \A p \in Process :
    answer[p].run # 0 =>
      /\ answer[p].run \in DOMAIN db.operationRuns
      /\ db.operationRuns[answer[p].run].snapshot = answer[p].snapshot
      /\ db.snapshots[answer[p].snapshot].scan = live[p]

\* The verification makes the schema's uniqueness constraints redundant: no
\* command ever fails on one.
NoConstraintFailure ==
  \A p \in Process : answer[p].outcome # "constraint"

\* Commands never wait in a circle: while one waits for a lock, another holds a
\* lock and does not itself wait, so it goes on to release it.
SomeHolderRuns ==
  \A p \in Process :
    Waiting(p) =>
      \E q \in Process : lock[q] # "none" /\ pc[q] # "idle" /\ ~Waiting(q)

\* Committed history is never rewritten: rows stay where they are, and the
\* only change to one is an epoch becoming superseded.
CommittedRowsStay == [][KeepsRows(db, db')]_db

\* Every command ends: no set of commands waits on each other's locks.
CommandsEnd ==
  \A p \in Process : (pc[p] # "idle") ~> (pc[p] = "idle")

\* Under every interleaving the snapshots of the database are the log of
\* SnapshotHistory, and each process has looked at as much of it as it read.
RecordedLog ==
  [s \in DOMAIN db.snapshots |->
     [epoch  |-> db.snapshots[s].epoch,
      parent |-> db.snapshots[s].parent,
      state  |-> db.snapshots[s].scan]]

History ==
  INSTANCE SnapshotHistory WITH
    Client <- Process,
    State  <- Scans,
    log    <- RecordedLog,
    basis  <- [p \in Process |-> seen[p].snapshot]

ImplementsHistory == History!Spec

\* The operating system runs a command that has started, and nothing kills it or
\* ends its waiting.
FaultFreeNext ==
  \/ \E p \in Process : Invoke(p) \/ Step(p)
  \/ \E w \in Scans : Edit(w)

FaultFreeSpec ==
  Init /\ [][FaultFreeNext]_vars /\ \A p \in Process : WF_vars(Step(p))

\* Two writers never defeat each other: "database is locked" is only ever said
\* because of a process that has begun to write, and that process commits,
\* whatever readers and writers come after it.
WritersCommit ==
  \A p \in Process : Writing(p) ~> (answer[p].outcome = "ok")
===============================================================================
