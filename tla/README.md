# Verification of repocue

This directory holds TLA+ models of repocue, the TLC runs that check them on
small instances, and TLAPS proofs of what matters most for instances of any
size. Line numbers refer to the source tree beside it (`src/`).

Repocue keeps a *maintained state* of a Git checkout in a SQLite database,
`state.db`: epochs, snapshots of the indexed files, the deltas between them and
a record of every operation. Short-lived command-line processes read and write
it, and nothing else coordinates them. There is no daemon, and no thread inside
a process touches shared state. So the hard behaviour is between processes and
over time: several commands at once, a command that dies half way, a working
tree that changes while it is being read, and files published next to database
rows.

Contents: [inventory](#1-inventory), [modules](#2-modules),
[runs](#3-runs), [bounds](#bounds-and-why-they-are-enough),
[fairness](#fairness), [proofs](#4-proofs), [findings](#5-disagreements-between-code-and-documents),
[what is not modelled](#6-what-the-models-leave-out), [plan](#7-plan).

## 1. Inventory

### State database (`internal/storage/sqlite.go`, `internal/model`)

*State.* `user_version`; tables `repositories`, `epochs` (at most one active),
`snapshots` (a line of history, numbered in the database and in its epoch),
`snapshot_files`, `deltas` and `delta_items`, `operation_runs`, `cue_runs`, and
since version 3 `calibration_references`.

*Operations.* `Open` (creates or migrates the schema), `Initialize`, `Refresh`,
`Rebaseline`, `RecordCue` (write transactions); `Current`, `StateAt`, `Metrics`,
`OpenReadOnly`, `ReadHistory` (reads).

*Hard.* A transition is computed from a state that was read in an earlier
transaction, before a scan that takes seconds; two processes may both do that.
Transactions are deferred: they hold a read lock when they start to write, and
two such transactions could wait for each other. A process can die between any
two statements.

*Correct when* one epoch is active and it is the newest; the snapshots form one
line; each delta is the difference of the snapshots it joins; committed rows
stay; what a command reports is recorded; every command ends.

### Command line (`internal/app/app.go`)

*State.* None of its own: each command is a process over the database, the
working tree and its memory.

*Operations.* `init`, `status`, `refresh`, `rebaseline`, `cue`, `metrics`,
`calibration import`, `report`, the evaluation commands.

*Hard.* The order of the steps: `init` scans before it creates the file, the
others read the current state before they scan; `status` and `cue` never verify
afterwards.

*Correct when* every command reports either what it did or why it did nothing.

### Repository scan (`internal/repository/git.go`, `evidence.go`, `internal/snapshot/delta.go`)

*State.* The working tree, the index and HEAD, as Git and the file system tell.

*Operations.* `FullScan` (reads every indexed file), `IncrementalScan` (reuses
the stored entries of files Git calls clean), `CaptureEvidence`, `ContextFacts`,
`ValidateSnapshot`, `Diff`.

*Hard.* A scan is not atomic; it takes the Git status first and the files
afterwards. An incremental scan relies on earlier observations, so a wrong entry
stays wrong until the file is dirty again.

*Correct when* on an idle repository an incremental scan equals a full one, the
delta lists exactly the differences, and facts that passed the validation before
and after were observed on the validated snapshot.

### Repository location cache (`internal/repository/location.go`)

A hint beside the checkout that spares the Git calls of discovery, guarded by
what discovery reads. *Hard:* the guard must change whenever discovery would
answer differently. *Correct when* a cached location is the one discovery finds.

### Calibration references and reports (`internal/reporting`, `internal/storage/reporting.go`)

*State.* Rows of `calibration_references`, and the artifacts
`calibrations/<id>.json` next to the database.

*Operations.* `calibration import` (observe, read the external reports, observe
again, publish row and artifact), `report` (read only).

*Hard.* Two media are written and only one is transactional; an import may be
retried; publishers may race; the state may change while reports are read.

*Correct when* a committed reference has its artifact, says the truth about the
snapshot it is bound to, and a repeated import returns the original.

### Prompt-cache evaluation (`internal/evaluation/cache*.go`, `promptcache`, `claudeadapter`)

*State.* An output directory with a frozen schedule and one attempt directory per
step, reserved by `mkdir`.

*Operations.* `evaluate-cache prepare`, `run`, `summary`.

*Hard.* A request to a provider must not be sent twice; steps have an order; the
repository must be the frozen one; a crash leaves partial records that a summary
must not count.

*Correct when* a step is sent at most once and only after its predecessors, and the
summary tells what was sent and paid.

### Task evaluation (`internal/evaluation/task*.go`, `taskbenchmark`, `codexadapter`)

*State.* A directory per pair of attempts: a manifest, the frozen files, and an
attempt directory per arm with a start record, copies and a final record.

*Operations.* `evaluate-task` (preparation; both attempts with a runner),
`evaluate-task summary`.

*Hard.* The repository, the maintained cache, the provider's program and the
retained files may change between any two steps; evaluations fail, die and are
made again; a summary reads while they go on.

*Correct when* a completed pair ran on the frozen basis with one program, an
eligible attempt was answered as recorded, and a verdict leaves no pair out and
rests on what the provider was sent and did.

### M2 evaluation (`internal/evaluation/m2.go`, `calibration.go`, `benchmark`)

*State.* A private database, a staging directory, and report sets under names
that the state and the runner's model determine.

*Operations.* `evaluate-m2`, standard or for a calibration.

*Hard.* Nothing locks the repository, comparisons between the steps are all there
is; external programs work in it; two evaluations may race for one name.

*Correct when* all reports of a set are of one state of the repository, and a set
appears whole, once, or not at all.

### Cue rendering, task context (`internal/cue`, `internal/taskcontext`, `app/task_context.go`)

*State.* None but the memory of one `cue` command, which reads the recorded snapshot
and, for two views, the live checkout.

*Hard.* The budget includes an estimate of the text that holds the estimate;
cutting adds a hint that makes the text larger; files are edited while they are
read, and between the validations that are to notice it.

*Correct when* what is printed is of the recorded snapshot, fits, tells its own
size and what was cut, and nothing was cut needlessly or before something less
important.

### Not part of this development

Shell tools, `configure`, schemas and prose; flag parsing; HTTP and process
plumbing of the adapters.

### How the parts interact

Processes share `state.db` through SQLite's file lock, the artifacts through the
file system, and the working tree with whoever edits it. Inside a process
everything is a plain call: `app` calls `repository` for observations and
`storage` for transactions, in the order the models keep. There are no
callbacks and no messages but the provider's event stream, which one process
reads alone.

The list of hazards, each at its line and with the properties that cover it, is
in `PROJECT.json`.

## 2. Modules

| module | models | composed with |
|---|---|---|
| `SqliteLock` | the rollback-journal lock as `storage` uses it (external) | extended by all models of processes over `state.db` |
| `StateTables` | the tables, their constraints, and the rows each transition writes | extended by `Commands` |
| `Commands` | `init`, `status`, `refresh`, `rebaseline`, `cue` as racing processes, and the world | `StateTables`, `SqliteLock`; refines `SnapshotHistory` |
| `SnapshotHistory` | what the store promises: a compare-and-swap log cut into epochs (abstract) | instantiated by `Commands` |
| `SchemaMigration` | `Open`, `OpenReadOnly` and the read transaction of `ReadHistory` on a database of any version | `SqliteLock` |
| `CalibrationPublish` | `calibration import`: row and artifact | `SqliteLock` |
| `RepoScan` | full and incremental scans of a checkout that may change meanwhile, and the delta of two snapshots | stands for the step `Scan` of `Commands` |
| `CacheSteps` | `evaluate-cache prepare`, `run` and `summary` over one directory | stands alone |
| `TaskEvaluation` | `evaluate-task`, its runner, and `evaluate-task summary` over one output directory | stands alone |
| `CueViews` | one `cue` command of any view, from the snapshot to the printed text | stands for `cue` before `Begin` in `Commands`, and for `ReadFacts` of `M2Evaluation` |
| `M2Evaluation` | `evaluate-m2` up to the published report set | stands alone |
| `CommandsProofs` | what every transition makes of a healthy database, and the theorems about `Commands` | extends `Commands` |
| `RepoScanProofs` | the theorems about `RepoScan` | extends `RepoScan` |
| `CacheStepsProofs` | the theorems about `CacheSteps` | extends `CacheSteps` |
| `SchemaMigrationProofs` | the theorems about `SchemaMigration` | extends `SchemaMigration` |
| `CalibrationPublishProofs` | the theorems about `CalibrationPublish` | extends `CalibrationPublish` |
| `CueViewsProofs` | the theorems about `CueViews` | extends `CueViews` |
| `TaskEvaluationProofs` | the theorems about `TaskEvaluation` | extends `TaskEvaluation` |
| `M2EvaluationProofs` | the theorems about `M2Evaluation` | extends `M2Evaluation` |
| `MC...` | instances for TLC | |

### SqliteLock

The repository uses SQLite with `journal_mode = DELETE`, deferred `BEGIN`, one
connection per process and a busy timeout (`configure`, sqlite.go:380). The
module gives each process a lock `none`, `shared`, `reserved` or `pending`. A
first read takes `shared` unless a writer is pending. The first write upgrades
to `reserved`, and if another process has done so the upgrade *fails at once*,
because waiting could not help: SQLite does not call the busy handler there. The
commit turns `reserved` into `pending`, which keeps new readers out, and writes
the file when no other lock is left. `EXCLUSIVE` is held inside that last step.
A transaction whose first statement writes (a migration) holds nothing while it
waits, and so does wait.

### StateTables

A table whose rows are only inserted is a sequence; `nextSequence` (`MAX + 1`)
gives the row its index. A scan is abstracted to the two digests that
`Store.Refresh` compares, of the indexed files and of the Git state; the entries
of a snapshot and the items of a delta are functions of those, so a delta is
represented by the two states it is the difference of. `Initialized`,
`Refreshed`, `Rebaselined` and `WithCueRun` write the rows of the four write
transactions in the order of the code; identifiers (`epoch-...`, `snapshot-...`)
are the sequence numbers. `ConstraintsHold` is the unique indexes of the schema.

### Commands

Each process has a stage `pc`, and the stages are the places where another
process can come between:

| stage | code | actions |
|---|---|---|
| `idle` | | `Start` (flags, locating the repository) |
| `open` | `repositoryAndStore`, `openStore` | `CreateStore`, `OpenStore`, `StoreMissing` |
| `current`, `current-read` | `Store.Current` | `ReadCurrent`, `ReadNothing`, `EndReadCurrent` |
| `scan` | `FullScan`, `inspectCurrent` | `Scan` |
| `since`, `since-read` | `Store.StateAt` of `cue --since` | `ReadSince`, `EndReadSince`, `WithoutSince`, `UnknownSince` |
| `begin` | `BeginTx` and `verifyCurrentSnapshot` | `Begin`, `Refuse` |
| `write` | the INSERTs and UPDATEs | `Write`, `WriteRefused` |
| `commit`, `exclusive` | `tx.Commit` | `RequestCommit`, `Commit` |
| `print` | the answer | `Respond` |

`db` is the committed database; `staged[p]` is the database as the transaction
of `p` would leave it. Nobody sees `staged` before `Commit` copies it, and `End`
drops it: that is the rollback of a failure, a timeout or a death. A read
transaction reads in one step and keeps its lock until the next, so a commit can
come before and after it, never inside. `Edit` changes the working tree at any
moment. `BusyTimeout` ends a process that waits for a lock (`Waiting`); `Crash` ends a
process anywhere, and stands also for failures outside the transactions (Git, a
file, the size of the database file measured after the commit).

### SnapshotHistory

A log of recorded states and, for each client, how long the log was when it
looked. An entry may be added only by a client that has seen the whole log, and
within an epoch only if it differs from the newest state. `Commands` maps the
snapshot rows to the log and what each process read to its look.

### SchemaMigration

The schema of a file is the set of what the migrations add. `ensureSchema` reads
the version *before* the transaction that migrates. So two processes may both
decide to migrate, and the second finds tables or columns that exist (`Collide`).
It fails, and the properties say that this is all that happens. Reports read the
version twice, when they open the file and inside their transaction, and refuse it at
either.

### CalibrationPublish

An import binds an evidence document to the content of the working tree and to
the current snapshot. The model follows `Import` and `PublishCalibration` step by
step: read the current snapshot, capture (`CaptureBefore`), read the reports,
capture again, begin and verify, look for the row, insert, link the artifact,
read it back, commit, read the artifact. The row is named by document and
snapshot (`Ids`). The content of the artifact holds the observation of *this*
import (time, durations), so its digest differs at each import and is identified
with the import's number. `Record` is another command's commit, possible when
nobody holds a lock; that such a commit is one step is what `Commands` refines
to `SnapshotHistory`. `Remove` is somebody clearing artifacts away.

### RepoScan

Each path has a version (content and mode) in HEAD, in the index and in the
working tree. A scan asks for the status (`ReadStatus`), lists the index
(`ListIndex`), and then decides for each listed entry whether to reuse the stored
one (`Reuse`) or to read it (`Select`, `ScanEntry`); decision and reading are two
steps, as the two `Lstat` calls of the code are. `Edit`, `Stage` and `MoveHead`
change one path at any moment; a Git command that changes several is several of
them, which allows more than Git does. The scan becomes the current snapshot
(`Publish`), or is only compared or fails (`Abandon`). Other processes are left
out: `Commands` shows that `recorded` is still current when a scan is published.

Two history variables keep book of broken idleness: `changed`, the paths that
changed since the scan began, and `touched`, the paths whose recorded entry was
made while they changed. They let the properties speak of single files: one file
that is edited during a scan spoils its own entry and no other.

`FileOperation` is `fileOperation` of `internal/snapshot/delta.go`, with the
columns that are functions of path and content left out.

### CacheSteps

`prepare` freezes a schedule of requests to a paid provider in a new directory;
`run` sends the request of one step; `summary` makes an inventory of what the
runs left. They share only that directory. The model keeps of each step's
attempt whether its directory, `attempt-start.json` and `observation.json` exist,
and whether each copied file is absent, cut off or whole: the two JSON records are
renamed into place, the copies are written where they are, and a copy may be whole
although its run was told that it could not be written. The repository is what Git
tracks and what it does not: `prepare` compares its cue with the former (`MakeCue`), a
capture has both.

| stage of a run | code | actions |
|---|---|---|
| `checking` | the loop over the preceding steps, then `os.Mkdir` | `Check`, `Refuse`, `Reserve` |
| `reserved` | `attempt-start.json` | `Journal` |
| `started`, `copied` | `request.json`, `submitted-request.json` | `CopyRequest`, `CopyWire` |
| `wired` | the repository before the request | `Preflight` |
| `ready`, `sent` | the request and its reply | `Send`, `Receive` |
| `answered` | `response.json` | `KeepResponse` |
| `kept` | the repository afterwards | `Postflight` |
| `finishing` | the deferred record | `Finish` |

A failure after `attempt-start.json` is recorded by the deferred function
(`Fail`); before it, and when the record itself cannot be written, the run leaves
nothing more (`Leave`). `Die` kills a process anywhere, perhaps while it fills a
file. A reply is reduced to how much of the body came, whether it decodes,
whether all its usage counters have a price, and whether it is a successful
answer. `known` in `Receive` is whether the HTTP transport had noted the request
as written: another goroutine notes it, and the reply may be there first. `Clocks`
is what setting the wall clock does to the recorded times.

The summary takes each step in turn and each file in turn, while runs go on. The
files of a *finished* attempt are read in one step (`ReadFiles`), which is
justified by `RecordsAreFinal`: nobody writes there any more. `TotalKnown` and
`Judged` are what the summary derives. Left out are the local endpoint, the
human assessments, the comparison of prompts and counters within a pair, and all
amounts.

### TaskEvaluation

Each invocation of `evaluate-task` has a directory of its own, a *pair*, and passes
these stages:

| stage | code | actions |
|---|---|---|
| `idle`, `made` | `RunTask`: the directory, its constant files, the first manifest | `MakeDirectory`, `Announce` |
| `refresh` .. `task` | `repocue refresh`, the basis, `repocue cue` twice | `RefreshCache`, `CaptureBasis`, `CueOverview`, `CueTask` |
| `again` | the basis captured again | `PrepareOnly`, `StartPair` |
| `mkdir`, `journal` | `runTaskAttempt`: directory and start record | `MakeAttempt`, `Journal` |
| `before` | the repository, the copies of cue and prompt | `CopyInputs`, `FailCopies` |
| `launch` | the runner reads and copies its input, and asks the program's version | `ReadInputs`, `FailRunner` |
| `ready`, `sent` | the program and its event stream | `Launch`, `Answered`, `FailRunner` |
| `after` | the deferred record | `FinishAttempt` |
| `finish`, `failing` | the last manifest | `FinishPair`, `KeepFailure` |

A retained file is `absent`, `right` (what the program wrote) or `wrong` (somebody
changed it); the digest in a record remembers which of these it was taken of. So the model can ask
whether a file that *matches its digest* also is what was sent: `exchange` is the
provider's own knowledge and no file. An event stream is a sequence of kinds of
events, and `StreamIsWhole`, `Answer` and `Counted` are what `parseTaskEvents` and
the cost of its usage accept. The version of the program is the one it *told* before
it was started: it may be upgraded between `ReadInputs` and `Launch`, and neither the
runner nor any record would tell. An attempt that fails keeps what it had written, the
last file perhaps cut off (`PartlyWritten`), and a runner that fails may have printed
an observation (`FailedObservation`). `Edit`, `RefreshElsewhere`, `Upgrade`,
`AlterPairFile` and `AlterAttemptFile` are the world; `Fail` and `Die` end an
evaluation anywhere, with and without a last manifest. Retrying is another pair.

The summary lists the directories once (`Summarize`) and then reads manifest,
frozen files and attempts one after the other, while evaluations go on.
`AttemptIsIntact` is `verifyTaskAttempt`, `Line` the entry of the inventory and
`Verdict` the gate a group of pairs must pass.

### CueViews

`Compare` is the comparison every `cue` makes; `Validate` and `Recheck` are the two
validations around what the ranked and task views read (`ReadFacts`; `BeginRead`
and `EndRead`, because a file may be edited while it is read). Of a view made of
lists only the number of entries of each list counts, and `Cut` takes the last
entry of the least important list that has one. `Marshal` is the bounded
fixpoint by which an envelope states the estimate of its own size, with the
digits of the estimate. A task cue takes required items, checks the mandatory
envelope, then takes each optional item with all of its sources or not at all.

### M2Evaluation

The stages are the places where the repository may be edited in between:

| stage | code | actions |
|---|---|---|
| `scan` .. `again` | `RunM2`: scan, no-op refresh, facts, evidence, oracle, validation, evidence | `FullScan`, `NoOpRefresh`, `ReadFacts`, `TakeEvidence`, `AskOracle`, `ValidateContext`, `TakeEvidenceAgain` |
| `capture` .. `recapture` | `prepareCalibrationContext` | `Capture`, `ObserveCue`, `CaptureAgain` |
| `contexts` | the context files | `WriteContexts` |
| `before` .. `report` | the loop over the conditions, `runM2External` | `CaptureBefore`, `ValidateBasis`, `Launch`, `Answer`, `ValidateAfter`, `CompareEvidence`, `AppendReport` |
| `stat`, `staging`, `rename` | `publishM2ReportSet` | `LookForSet`, `WriteReport`, `Publish` |

A set is named for the state and the model of the runner. Runners of one model that
differ in anything else race for one name (`Identities`, `ModelOf`).

The content of the repository is a pair: what Git tracks, which all comparisons
see, and the content of untracked files, which only the captures of a calibration
see. The history variables are `contexts` and `sees` of a report (of which state
its contexts were made, and what its runner found) and `undone` (the repository
was changed and changed back between two comparisons).

## 3. Runs

| run | instance | distinct states | question |
|---|---|---|---|
| `commands` | 2 processes, 3 commands, 2 file states x 2 Git states | 893,496 | Do racing, dying and timing-out commands keep the tables sound, is what they report recorded, and do they implement the log? |
| `commands_live` | 2 processes, 3 commands, no deaths or timeouts | 76,592 | Does every command end, and does one of two racing writers always win? |
| `schema_migration` | 3 processes, 5 openings, versions 0..4 | 50,319 | Does the version always tell the schema, and does every opening end? |
| `calibration_publish` | 2 processes, 3 imports, 2 snapshots, 1 removal | 417,244 | Do row, artifact and snapshot agree? |
| `calibration_left_file` | 2 processes, 2 imports | violated | Is an import refused because of a file a failed one left? |
| `repo_scan` | 2 paths, 2 versions, 3 edits, 3 scans | 1,974,752 | What is exact of which file after a scan, and does the delta tell every difference? |
| `repo_scan_rerun` | 1 path, 2 edits, 2 scans | violated | Does a refresh of an idle repository repair what a disturbed scan recorded? |
| `cache_replies` | 2 processes, 1 step, 2 x 2 contents, every reply and clock | 72,522 | Does the summary count exactly what was sent, answered and paid? |
| `cache_schedule` | 2 processes, 2 steps, 2 replies, 2 clocks, an idle repository | 810,220 | Is each request sent once and in order, and does a summary of runs still going on last? |
| `task_evaluation` | 2 pairs, 2 contents, 8 replies, policies of 1 and 2 pairs, 2 troubles with one pair and 1 with two | 585,862 | Is what is called completed, eligible and a verdict what happened? |
| `cue_views` | 4 files, 3 items, up to 3 entries, 18 sizes, 2 edits | 673,761 | Is a cue of its snapshot, of the size it states, cut in order, and does the cutting end? |
| `m2_report_set` | 2 evaluations, 2 x 2 contents, 2 models x 2 other details of a runner, 3 troubles with one and 1 with two | 506,555 | Is a report set whole and of one state? |

What the properties of the passing runs say:

- `OneActiveEpoch`, `LinearHistory`, `DeltasJoinSnapshots`: what the rows say
  together, in every reachable committed database.
- `VerifiedStaysCurrent`: the heart of the protocol. Between
  `verifyCurrentSnapshot` and the commit nothing that was verified can change.
- `NoConstraintFailure`: the uniqueness constraints are never the ones to notice
  a race. A user sees `concurrent-update`, never a constraint error.
- `CommittedRowsStay`: no step rewrites history.
- `ImplementsHistory`: the refinement.
- `AcknowledgedIsRecorded`: an answer names a recorded run and a snapshot that
  holds the scanned state, also when the transition published no snapshot.
- `SomeHolderRuns`: while a command waits for a lock, some other command that holds one
  is at work and does not wait itself. So locks are never all in the hands of waiting
  commands; what makes it so is that every read transaction is ended before the next
  begins and that a second upgrade is refused at once.
- `CommandsEnd`, `WritersCommit`: no deadlock, and no mutual defeat of two
  writers. The latter is what the immediate refusal of the second upgrade buys.
- `SchemaIsOfItsVersion`, `OpenedFindsItsTables`, `LosersFindItMigrated`,
  `OpeningsEnd`: see the comments in `SchemaMigration`.
- `ReferencesAreWhole`: every row has its artifact with its digest, unless
  somebody removed it, whatever files failed imports left.
- `BoundToTheirSnapshots`, `PublishedOnce`: a reference is added only to the
  snapshot that is current at its commit, whose tracked content is the
  document's, and neither row nor artifact is ever replaced.
- `ReimportReturnsOriginal`: a repeated import gets the first one's reference.
- `IdleFilesAreExact`: the incremental scan equals the full one wherever the
  checkout was idle during scans; that is the reuse rule's correctness.
- `DirtyFilesAreExact`: an entry spoilt by a disturbed scan is only ever wrong
  about the content of a file that is clean; a dirty file is never missed.
- `RebaselineIsExact`: an undisturbed full scan repairs everything.
- `DeltaTellsEveryChange`: no refresh records a change without an item for it.
- `RequestsAreNotRepeated`: at most one request per step reaches the provider,
  whatever races, fails or dies.
- `ScheduleIsKept`, `RecordsAreFinal`: what a run found out about the preceding
  steps before it reserved its own stays true.
- `SummaryIsLasting`: a summary during runs never tells of a finished attempt
  anything that a later one would not.
- `TotalCountsEveryRequest`, `VerdictsAreFounded`, `CompletedAttemptsAreAccepted`:
  the summary's totals and verdicts, against the provider's view.
- `CompletedPairsAreWhole`: both attempts ended well, on the frozen basis before and
  after, and were told one version of the provider's program.
- `EligibleAttemptsAreAnswered`: whatever was altered, an attempt that a summary calls
  eligible was sent the frozen prompt, and answered by a stream whose turns follow one
  another, with an answer and without a failure; the replies of the run also have
  streams that are cut, overlap or fail after the answer.
- `NoPairIsLeftOut`: every request that had been sent when a summary began is in its
  inventory, and no group is made of the pairs that happened to succeed.
- `VerdictsAreFounded` (of `TaskEvaluation`): a verdict, given while other
  evaluations go on, is about pairs that stay as they were counted.
- `DeliveredIsOfTheSnapshot`: every byte of a task source is the snapshot's, also when
  a file was edited between its first byte and its last; ranked facts are, unless
  the checkout was changed and changed back between the validations.
- `CuesFitAndTellTheirSize`: the fixpoint of the estimate is reached, also where the
  estimate gets another digit.
- `CutsAreNeededAndTold`, `CuesEnd`: cutting is in order, no more than needed, told,
  and it ends.
- `SetsShareOneBasis`: all reports of a set, their contexts and what their runners found
  are of one state.
- `SetsAreWhole`: a set is there exactly when an evaluation returned it, with all its
  reports in order, all of the one runner whose model it is named for.

`TypeOK` of `Commands`, `SchemaMigration`, `RepoScan`, `CacheSteps`, `TaskEvaluation`,
`M2Evaluation`, `CueViews` and `CalibrationPublish` is proved and in no run, as the other
properties say more. `SomeHolderRuns` is also stated by `SchemaMigration` and
`CalibrationPublish`, and proved of them. `SetsAreKept` of `M2Evaluation`, that no step
replaces a set, is proved.

### Bounds, and why they are enough

- *Two processes* in `Commands` and `CalibrationPublish`: the lock distinguishes
  one writer from everybody else, and a race here is between two. For safety the
  bound is not relied on in `Commands`: the theorems hold for any set of
  processes. Three in `SchemaMigration`, for two migrators and a reader.
- `MaxCommands` = 3: `init`, and a race of two transitions, or a transition and
  one stale by it. Longer histories are covered by the theorems.
- *Two digests*: what matters is whether two states are equal. Changing back
  (A, B, A) is possible with two.
- `MaxOpens` = 5: a lost race and a retry after it.
- `MaxImports` = 3: an import that fails, one that races, one that comes after.
- `MaxSnapshots` = 2: a snapshot that is superseded during an import.
- `MaxEdits` = 3, `MaxScans` = 3 in `RepoScan`: an edit during a scan, its undoing,
  and one more change; a disturbed scan, its publication, and a scan that reuses
  it. Paths do not influence each other but through comparisons of whole
  snapshots, for which two are enough.
- `CacheSteps` needs no counter: attempts are final, so the state is finite. One
  step is enough for what becomes of a reply, and with it every combination of
  reply, clock and cut-off file is tried; two steps are enough for the order of
  the schedule, where few replies and a repository at rest suffice. Processes act
  on one step at a time, so a race is between two. For the safety of runs and of
  the inventory the theorems hold for any number of steps and processes.
- `MaxRemovals` = 1, and 0 where removal is not the question.
- `MaxTroubles` of `TaskEvaluation` and `M2Evaluation` bounds edits, upgrades, altered
  files, failures and deaths *together*, by the number of evaluations that were
  started: one evaluation alone is tried with more of them (a change and its undoing;
  a change and a death), a second one is there to race or to be compared with. All
  combinations of one trouble with every interleaving are tried with both.
  `MaxRunning` = 1 lets the pairs of `TaskEvaluation` run one after the other: they
  share only the world, which the troubles change anyway; the summary runs beside
  them. `MaxVersion` = 2 is one upgrade.
- `CueViews`: the sizes are chosen where something happens, at each residue modulo 4
  of the envelope and where the estimate gets a second, a third and a sixth digit;
  the three items share sources and are required, optional, and omitted for one
  source. Two edits are a change and its undoing.
- Five conditions in a standard M2 evaluation and two in a calibration, as the code
  has them.

Symmetry is used for sets that are only compared for equality, and never in a run
with a liveness property.

The counters (`started`, `opens`, `imports`) exist only for these bounds. The
runs of `SchemaMigration`, `CalibrationPublish` and `RepoScan` do not check deadlock,
because there the bounds end the behaviour; `cache_schedule` does not
either, because a preparation that failed ends everything there, nor do
`task_evaluation`, `cue_views` and `m2_report_set`, where every evaluation and the
one command end. The `Commands` runs do check it; in
every state of theirs `Edit` is possible, so what rules out stuck commands is
`SomeHolderRuns` and `CommandsEnd`.

### Fairness

`FairSpec` of `SchemaMigration` and `FaultFreeSpec` of `Commands` assume weak
fairness of the steps of each process: a process that has been started is scheduled, and SQLite retries a
busy lock. Nothing is assumed of `Start`, `Edit`, `Crash` or `BusyTimeout`; `commands_live` leaves deaths and timeouts out altogether, because
all they do to others is to release a lock, and a writer that dies does not
commit. So `CommandsEnd` does not rely on the busy timeout. The run has three commands
in all: it shows that no interleaving of them leaves one waiting, and says nothing of
an endless stream of readers. That a commit outlasts one is due to the pending lock,
which keeps new readers out, and is not checked here.

`LiveSpec` of `CueViews` assumes weak fairness of `Proceed`, the steps of the one
command: it is a loop in one goroutine without anything to wait for.

## 4. Proofs

`CommandsProofs`, `RepoScanProofs`, `CacheStepsProofs`, `SchemaMigrationProofs`,
`CalibrationPublishProofs`, `CueViewsProofs`, `TaskEvaluationProofs` and
`M2EvaluationProofs` are checked by TLAPS. Every invariant and every action property
of a passing run is a theorem of its specification, for every value of the constants;
the runs show the liveness properties besides.

### Commands

The theorems hold for every set of processes, every set of digests and every
value of `MaxCommands`; no assumption on a constant is needed.

| theorem | states |
|---|---|
| `Invariance` | `Spec => []IInv` |
| `TypeCorrect` | `Spec => []TypeOK` |
| `OneActiveEpochAlways`, `LinearHistoryAlways`, `DeltasJoinSnapshotsAlways` | the healthy database |
| `VerifiedStaysCurrentAlways` | verification lasts until the commit |
| `NoConstraintFailureAlways` | constraints never fail |
| `AcknowledgedIsRecordedAlways` | answers are recorded and stay so |
| `CommittedRowsStayAlways` | `Spec => CommittedRowsStay` |
| `SomeHolderRunsAlways` | no waiting in a circle |
| `HistoryIsImplemented` | `Spec => History!Spec`, the refinement |

*The argument.* None of the properties is inductive as it stands. `WellFormed`
strengthens the properties of the tables: `currentState` looks for the newest
snapshot of the active epoch by `epoch_sequence`, and that this is the *last row*
needs that positions grow along the rows of an epoch (`Numbered`) and that the
last row belongs to the last epoch (`NewestSnapshotIsCurrent`). `UniqueDelta`
needs the deltas in the order of the snapshots they lead to (`DeltasInOrder`).
With these, the first part of `CommandsProofs` shows once for each transition that,
applied to a state it has verified, it keeps `WellFormed`, keeps every row, and leaves the run
its answer names.

`IInv` adds for each process: the lock its stage calls for (`LockOf`); what it
has read is a row of the database and stays one (`SeenIsRecorded`); what it
verified is still so (`Verified`); what it staged is `Rows(p)` of the database as
it is *now* (`StagedIsRows`); its answer is recorded. Only `Commit` changes the
database, and it needs every other lock gone. A process that has verified holds a
lock, so it is not disturbed; one that has only read keeps rows that stay. That
is the proof of `CommitKeeps`; the other actions touch one process and no row
(`QuietStep`, `UnmovedStaysOK`).

No set of commands waits in a circle, whatever its size, because the locks have only two
levels: a reader waits for the writer, and the writer that waits to commit waits for
readers that have begun. These neither wait to read, as they have their lock, nor to
write, as the upgrade is refused (`ReadersGoOn`). This is the half of `CommandsEnd` that
needs no fairness; that whoever need not wait goes on is the other half.

The refinement needs one more invariant, that a process at the beginning of its
command has seen nothing (`SeesNothing`), so that an `init` opens the first epoch
only on an empty log.

### RepoScan

The theorems hold for every set of paths and of versions and for every bound on
edits and scans. The one assumption is `AbsentIsNoVersion`, that the mark for a
missing file is no version of a file.

| theorem | states |
|---|---|
| `ScanInvariance`, `ScanTypeCorrect` | `Spec => []IInv`, `Spec => []TypeOK` |
| `IdleFilesAreExactAlways` | reuse is right for files left alone while scanned |
| `DirtyFilesAreExactAlways` | only the content of a clean file can be wrong |
| `RebaselineIsExactAlways` | a full scan of an idle checkout is the checkout |
| `DeltaTellsEveryChangeAlways` | a delta has an item for every difference |

*The argument.* The properties speak of a scan that is done; the invariant says
of every earlier step what they need. `ToldTruly`: of a path not changed since
the scan began, what Git told still holds. `LookedAt`: once such a path has been
looked at, its entry is right, or it was reused and its stored entry was made
while the path changed, and then only the content of a clean file is wrong.
`Sound`: a stored entry called clean has the content its index object names,
unless the path is `touched`. `ReuseIsRight` is the heart of it: the stored entry
and the true one are both clean and name the same index object, and what Git
calls clean has the content the index names, so by `Sound` the contents agree.
`ChangeKeeps` shows that an edit takes this away from the edited path alone.

### CacheSteps

The theorems hold for every set of processes, every schedule, every set of
contents, replies and clocks, with and without faults. They assume what the
module assumes of its constants: a schedule has a step, a pair is part of it, and
the replies and clocks are of the kinds declared.

| theorem | states |
|---|---|
| `CacheInvariance`, `CacheTypeCorrect` | `Spec => []IInv`, `Spec => []TypeOK` |
| `RequestsAreNotRepeatedAlways` | at most one request per step |
| `ScheduleIsKeptAlways` | a step is reserved after the others are finished |
| `RecordsAreFinalAlways` | `Spec => RecordsAreFinal` |
| `SummaryIsLastingAlways` | an inventory line of a finished attempt stays true |
| `RecordsInvariance` | `Spec => []MInv` |
| `CompletedAttemptsAreAcceptedAlways` | the summary accepts what a run completed |
| `LinesInvariance` | `Spec => []VInv` |
| `TotalCountsEveryRequestAlways` | a total leaves out no request |
| `VerdictsAreFoundedAlways` | what a verdict rests on |

*The argument.* `mkdir` gives a step one owner, and the invariant keeps book of
ownership: two processes at work are never at work on the same step (`Alone`);
a step that is worked on is reserved, has no record, and has sent nothing until
the process reaches `sent` (`RunOK`); a step that nobody reserved has neither a
request nor a record (`StepOK`). `OwnActionWrites` shows that the owner writes to
its own attempt only and makes the record in the same step in which it stops
being the owner. So nobody is left to write after the record (`RecordsStay`), from
which the schedule and the summary follow: `Lasting` says of the steps the
summary has passed what `SummaryIsLasting` says at its end.

What a record *says* needs more than who writes it. `MemoOK` follows the observation
and the copied files through the stages of a run: by the time a request is sent, the
basis has been compared and both copies are whole, and an observation becomes
`completed` only with the reply, its copy and the second comparison at hand. The
record is that observation, and nothing changes it or the files, so a finished
attempt stays `Founded` (`RecordOK`). `Settled`, that nothing runs before `prepare`
is done, keeps the basis fixed. An inventory line has a cost or a score only if the
attempt is finished (`LinesOK`); with `Lasting` the line is what the record says, and
with `RecordOK` the record is what happened.

### SchemaMigration

The theorems hold for every set of processes; no assumption is needed.

| theorem | states |
|---|---|
| `SchemaInvariance`, `SchemaTypeCorrect` | `Spec => []IInv`, `Spec => []TypeOK` |
| `SchemaIsOfItsVersionAlways` | the version always tells the schema |
| `OpenedFindsItsTablesAlways` | who opened the file finds what it looks for |
| `LosersFindItMigratedAlways` | a lost race means that the migration is done |
| `OpeningsDoNotWaitInACircle` | `Spec => []SomeHolderRuns` |

*The argument.* A process decides by a version it has read before its transaction.
`StageOK` says that this version can only have been replaced by the current one, and
for each stage which locks are possible and that `staged` is exactly the schema the
migrations so far lead to. A process that has written holds `reserved`, and the one
that commits finds all other locks gone, so nobody is at a stage whose version it
takes away but those that hold nothing, which fail (`Collide`). There is one writer
(`OneWriterKeeps`), so a commit that waits is kept waiting by reports only, and a report
that has its lock goes on.

### CalibrationPublish

The theorems hold for every set of processes, of trees and of captures. They assume
of the bounds that they are numbers and that there is at least one snapshot
(`BoundsAssumption`).

| theorem | states |
|---|---|
| `CalibrationInvariance`, `CalibrationTypeCorrect` | `Spec => []IInv`, `Spec => []TypeOK` |
| `ReferencesAreWholeAlways` | a committed reference has its artifact |
| `BoundToTheirSnapshotsAlways` | its evidence is of its snapshot |
| `ReimportReturnsOriginalAlways` | who succeeds returns the committed row |
| `PublishedOnceAlways` | `Spec => PublishedOnce` |
| `ImportsDoNotWaitInACircle` | `Spec => []SomeHolderRuns` |

*The argument.* An import compares its document with a snapshot, looks it up, inserts
the row, links the artifact, verifies it and commits: by then four things it relies on
are old. `ImportOK` says why they still hold. From the lookup on the import holds a
lock, and the history grows only in a commit, which needs all locks gone, so the
snapshot it was compared with is still the newest. From the insert on it holds
`reserved`, so no other import commits the same row and the row it found absent still is.
The file it verified has the content it made, because an artifact that is there is
never written over; only a removal takes it away, which `ReferencesAreWhole` exempts.
`CommitKeeps` puts the four together; `WritesAreFirst` is the same for `PublishedOnce`.

### CueViews

The theorems hold for lists and items of any number, sources of any size and any
budgets; of the items and sizes they assume their types (`ItemsAssumption`,
`BytesAssumption`), and of the snapshots that they are contents of the files
(`FilesAssumption`). Numbers are taken to have at most nine digits (`Powers`), which
makes them exact for cues below a billion bytes.

| theorem | states |
|---|---|
| `CueInvariance`, `CueTypeCorrect` | `Spec => []IInv`, `Spec => []TypeOK` |
| `DeliveredIsOfTheSnapshotAlways` | what is printed is the snapshot's |
| `CuesFitAndTellTheirSizeAlways` | the stated estimate is that of the cue that states it |
| `CutsAreNeededAndToldAlways` | cuts in order, needed and told; whole items |

*The argument.* Does the loop that states the estimate of a cue inside the cue reach
its fixpoint within four rounds? `EstimateSettles` shows that it does in three. The
first estimate is made with none stated; the second has at most eight bytes more, so
it is at most two larger, and the third at most one larger than that. The third can
differ from the second only if the second has a digit more than the first, a power of
ten lies between them, and then the next power is too far away for the third to have
yet another digit (`DigitsGrow`). So the convergence check of a task cue never fails,
and no other view needs one.

`ListsOK` is the invariant of the views made of lists: `ListsAreCutInOrder` at every
moment and, which makes it inductive, the hint is given exactly when something was cut,
as long as entries are left. For a cut of section *w* (`EntryIsCut`) every section
before *w* is empty (`WeakestIsFirst`), no section after it has lost anything, because
*w* was not empty, and the cue as it was before the cut is the one that did not fit.

`TaskOK` follows a task cue. `SourcesOK`: what was read matches the snapshot, from its
first byte to its last. `ItemsOK`: the items that are done with were checked, those in
the cue have all their files and the required ones are among them. `UnitOK`: of the item
at hand, the files read so far and those that were in the cue already are what it
refers to, but for those to come, unless the unit has overflowed. The mandatory envelope
fits once `required` is false, and `Admit` takes an item only if it still does.
`FactsOK` exempts exactly a checkout that was changed and changed back: an edit that
restores the snapshot sets `undone`, any other makes `Recheck` fail.

### TaskEvaluation

The theorems hold for every set of pairs and of contents, any replies of the
provider's program, any number of evaluations at a time and every bound on troubles.
They assume that versions are counted from 1, that the orders used are orders of the
two arms and that replies are streams of the events declared (`ConstantsAssumption`),
and that `None` is none of the values it stands beside (`NoneAssumption`).

| theorem | states |
|---|---|
| `TaskInvariance`, `TaskTypeCorrect` | `Spec => []IInv`, `Spec => []TypeOK` |
| `CompletedPairsAreWholeAlways` | two good attempts, one basis, one version told |
| `EligibleAttemptsAreAnsweredAlways` | eligible means answered, whole, to the frozen prompt |
| `NoPairIsLeftOutAlways` | no request sent before is missing |
| `VerdictsAreFoundedAlways` | what a verdict rests on, while others go on |

*The argument.* A pair is worked on by one evaluation, which works on one attempt at
a time: `AttemptOK` says what that attempt, the evaluation's memory and the provider's
own knowledge (`exchange`) have to do with each other at each stage, `FirstOK` that
the first attempt was completed before the second begins. A final record `Tells` what
the provider knows (`FinalOK`): its transport is the observation of the very reply.
It is written once, and neither failures, deaths nor altered files change it
(`FilesDoNotMatter`), so an inventory line that is right when it is written
(`LineIsOK`) stays right (`ItemStays`). What a summary remembers of a manifest stays
true of it: the basis of a pair does not change and a completed pair is over
(`SummaryOK`). `CountedOrToCome` accounts for every request that had been sent when
the summary began: the pair is still to be read, or the attempt is counted or is next.
`SummaryStaysOK` shows once that steps of an evaluation, which only add, disturb none
of this; then each action needs `PairOK` of its own pair alone (`OwnStep`).

### M2Evaluation

The theorems hold for every set of evaluations, of contents, of models and of other
details of runners, and every sequence of conditions. They assume that there is a
condition (`ConditionsAssumption`) and that `None` is no content, model, runner or set
(`NoneAssumption`).

| theorem | states |
|---|---|
| `M2Invariance`, `M2TypeCorrect` | `Spec => []IInv`, `Spec => []TypeOK` |
| `SetsShareOneBasisAlways` | one state per set |
| `SetsAreWholeAlways` | whole sets, of evaluations that returned |
| `SetsAreKeptAlways` | `Spec => SetsAreKept` |

*The argument.* Between two comparisons an evaluation does not know what the
repository is, so "what was read is right" is not inductive. `IsClean` says instead
that what was read since the last comparison is right *or the repository is now
different*, in which case the next comparison fails; an edit that restores the
compared content sets `undone` and is exempt. `ProgressOK`, `RunnerOK` and `ReportsOK` say
what an evaluation has by each stage, `DraftOK` that the draft is a prefix of its
reports, and `PublishedOK` that sets belong to evaluations that returned, which
never move again.

### What is only model-checked

The liveness properties `CommandsEnd`, `WritersCommit`, `OpeningsEnd` and `CuesEnd`:
they rest on fairness, which is stated with `ENABLED`. What can be said without it, that
nobody waits in a circle, is proved. That no state of the
`Commands` runs is a deadlock. The runs that disagree with a document (section 5)
are counterexamples and need no proof.

## 5. Disagreements between code and documents

`calibration_left_file`: an import that dies, or whose commit times out, after
`os.Link` (storage/reporting.go:272) and before the commit leaves an artifact
without a row. The identifier of the artifact does not contain the time of the
observation, its content does. A later import of the same evidence finds no row,
keeps the file that is there, and then requires it to have the digest of its own
content, which it never has: `evidence digest mismatch`, at every retry. The
comment at storage/reporting.go:205 allows unreferenced files and promises that a
reimport works; docs/CLI.md:210 calls reimport idempotent. Safety is not at
stake: `ReferencesAreWhole` holds in the presence of such files.

`repo_scan_rerun`: a file that is edited after the scan asked Git for the status
and before the scan read it is recorded with the edited content and the state
`clean`. When the edit is undone, nothing the reuse rule (git.go:162) looks at
has changed, and every later refresh reuses the entry, reports that nothing
changed and calls the state current. docs/ARCHITECTURE.md:82 advises: "After a
concurrent filesystem edit, rerun refresh when the repository is idle." A
rebaseline repairs the entry; a refresh does not.

Six observations, which the models show and no run states. The first two are ways in
which the code does not do all that its words suggest; the others no document rules out
for certain:

- The facts of a ranked cue are read between two validations of the snapshot
  (git.go:253 and git.go:260), and nothing that is read is compared with it. An edit
  after the first validation that is undone before the second leaves the facts of the
  edited file in a cue that names the snapshot, although the comment at git.go:250
  says that facts are returned "only when the repository remains identical to the
  supplied persisted snapshot for the whole read". `DeliveredIsOfTheSnapshot` exempts
  this for ranked facts, by the history variable `undone`, and only this: without
  `undone \/` TLC finds it violated in `cue_views`. The sources of a task cue are compared
  by digest and need no exemption.
- The client loads the note that the request was written as soon as it has the reply
  (claudeadapter/client.go:89), but the transport's own goroutine makes that note. The
  order of the two is read from the code, where nothing in the client waits for the
  note, and `Receive` allows both. A reply that overtakes the note leaves
  `request_written` false; the run calls the attempt completed without looking at it,
  and the step can not be run again; the summary looks, finds "completed attempt lacks
  successful answer/basis evidence" (cache_summary.go:283), and gives the paid answer no
  score and its pair no verdict. `CompletedAttemptsAreAccepted` says that this and a
  clock that was set back are the only ways to lose a completed attempt; without
  `o.written` TLC finds it violated in `cache_replies`.
- A standard M2 evaluation compares what Git tells, so it does not see that a runner
  changed the *content* of an untracked file, although docs/EVALUATION.md:61 says
  that a run which modifies the repository is rejected. `SetsShareOneBasis` therefore
  speaks of untracked content only in a calibration.
- A change of the repository that is undone between two comparisons of an M2 evaluation
  goes unnoticed. `SetsShareOneBasis` exempts it, and only it.
- An upgrade of the provider's program after it told its version (codexadapter/task.go:83)
  and before it is started (line 115) is seen by nobody, so "one version" always means
  the one told.
- The overview cue of a task evaluation is of whatever the maintained cache holds and
  is not compared with the basis (task.go:199); the task cue that follows is, and
  refuses the pair unless the cache is what the basis was.

## 6. What the models leave out

- *SQLite.* The lock protocol and the atomicity of a commit are taken as SQLite
  documents them (`SqliteLock` is external). A power failure, and what a file
  system keeps after one, is outside.
- *The scan* is one observation in `Commands` and `CalibrationPublish`; `RepoScan`
  shows what a change during a scan does to it. Submodules, the branch name and
  commits that change no file are left out of `RepoScan`.
- *Git's notion of clean* is equality with the index. With `core.fileMode` false, or
  content filters, Git calls a file clean whose bytes or mode differ from those
  that were read, and an incremental scan keeps the older entry.
- *Opening* in `Commands` finds a database of the current version;
  `SchemaMigration` shows what `Open` does with others. An `init` that loses the
  race to create the schema fails there, and is one of the failures `Crash` covers.
- *Digests* do not collide. Two states are equal when their digests are.
- *Several repositories in one database*: each repository has a `state.db` of
  its own (`statePath`), so `repositories` has one row.
- *Cues.* In `Commands` a cue is recorded and not rendered; `CueViews` has its text.
  There, the ranking of entries, their wording and their different lengths are left
  out (entries of one length), and so is the structural view. The ranked, provenance
  and delta-v2 views cut without a hint at a larger budget.
- *Task evaluation.* Nobody alters a retained file *while* a summary reads, and nobody
  alters `manifest.json` or `attempt.json`. Assessments, the parts of an answer's
  score, medians and metrics other than the credit, and rates that are expired or of
  another model are left out.
- *M2 evaluation.* Evaluations without an output directory, or with another run index,
  publish nothing or under another name. `ReadFacts` is one step between its two
  validations; `CueViews` has what comes between. The comparison of counters and the
  scores in the reports are left out, and so is the earlier `evaluate` command.
- *`LocationCache`*: whether its guard changes whenever Git would answer otherwise is a
  question about Git's discovery.
- *Reporting arithmetic*, token sums and prices: functions of records that are read
  once. `Metrics` reads its tables in two statements without a transaction
  (sqlite.go:313); its totals may be of two moments, which nothing contradicts.
- Wording, formatting, flag parsing, file permissions.

## 7. Plan

In the order of importance. The modules of the first eight points are there, and
what is next about each is named; the last two points are still to come.

1. Core: `StateTables`, `SqliteLock`, `Commands`, `SnapshotHistory`, with proofs.
2. `SchemaMigration`, with proofs.
3. `CalibrationPublish`, with proofs.
4. `RepoScan`, with proofs.
5. `CacheSteps`, with proofs. Next: the prompts and counters of a pair.
6. `TaskEvaluation`, with proofs.
7. `CueViews`, with proofs.
8. `M2Evaluation`, with proofs. Next: several run indexes.
9. Read-only reports: `ReadHistory` selection by cutoff.
10. Pure algorithms against reference definitions: token sums with their bounds,
    break-even arithmetic.
