-------------------------- MODULE CalibrationPublish --------------------------
(***************************************************************************)
(* repocue calibration import (Import of internal/reporting with           *)
(* PublishCalibration of internal/storage): several imports at once, the   *)
(* working tree and the snapshot history changing under them.              *)
(*                                                                         *)
(* An import binds an evidence document to the current snapshot and to the *)
(* content of the working tree, and publishes two things that must agree:  *)
(* a row of state.db with the digest of an artifact, and the artifact, a   *)
(* file linked into place before the row is committed.                     *)
(*                                                                         *)
(* A reference is named by what it binds, so that importing again finds    *)
(* it.  The artifact also holds the time of the observation, which differs *)
(* at every import: its digest is identified here with the number of the   *)
(* import that wrote it.                                                   *)
(***************************************************************************)
EXTENDS Integers, Sequences, FiniteSets, SqliteLock

CONSTANTS Tracked,        \* contents of the tracked files, with the Git status
          Untracked,      \* contents of the untracked files
          MaxImports,     \* bound: imports started in all
          MaxSnapshots,   \* bound: snapshots recorded in all
          MaxRemovals     \* bound: artifacts removed by somebody else

\* The first snapshot is there before the first import.
ASSUME BoundsAssumption == MaxImports \in Nat /\ MaxSnapshots \in Nat \ {0}

VARIABLES worktree,       \* what a capture would observe now
          recorded,       \* the tracked content of each snapshot, oldest first
          rows,           \* calibration_references: the digest of each reference
          files,          \* the artifact of each reference
          pc,             \* where each process is
          import,         \* what it knows of the import it makes
          imports,        \* imports started so far
          removed         \* the references whose artifacts somebody removed

vars == <<lock, worktree, recorded, rows, files, pc, import, imports, removed>>

Contents == [tracked : Tracked, untracked : Untracked]

\* A reference is named by its evidence document and its snapshot.
Ids == [document : Contents, snapshot : 1 .. MaxSnapshots]

\* No row, or no file.
Absent == 0

Digests == 1 .. MaxImports

Outcomes ==
  {"none", "ok", "refresh-needed", "other-evidence", "changed",
   "concurrent-update", "damaged", "missing", "digest-mismatch", "locked"}

\* document: the capture its evidence document was made from; seen: the snapshot
\* it read as current; observed: its first capture; number: of the import;
\* returned: the digest of the reference it was given.
Imports ==
  [document : Contents, seen : 1 .. MaxSnapshots, observed : Contents,
   number : 0 .. MaxImports, returned : Digests \union {Absent}, outcome : Outcomes]

Init ==
  /\ worktree \in Contents
  /\ \E t \in Tracked : recorded = <<t>>
  /\ rows = [id \in Ids |-> Absent]
  /\ files = [id \in Ids |-> Absent]
  /\ LockInit
  /\ pc = [p \in Process |-> "idle"]
  /\ import = [p \in Process |->
        [document |-> worktree, seen |-> 1, observed |-> worktree,
         number |-> 0, returned |-> Absent, outcome |-> "none"]]
  /\ imports = 0
  /\ removed = {}

Id(p) == [document |-> import[p].document, snapshot |-> import[p].seen]

Goto(p, stage) == pc' = [pc EXCEPT ![p] = stage]

\* The process ends; an open transaction is rolled back, a linked file stays.
End(p, result) ==
  /\ Goto(p, "idle")
  /\ Release(p)
  /\ import' = [import EXCEPT ![p].outcome = result]
  /\ UNCHANGED <<worktree, recorded, rows, files, imports, removed>>

(***************************************************************************)
(* Import: observe the state, the working tree and the document.           *)
(***************************************************************************)
Start(p) ==
  /\ pc[p] = "idle"
  /\ imports < MaxImports
  /\ imports' = imports + 1
  /\ \E d \in Contents :
       import' = [import EXCEPT ![p].document = d, ![p].number = imports + 1,
                                ![p].returned = Absent, ![p].outcome = "none"]
  /\ Goto(p, "current")
  /\ UNCHANGED <<lock, worktree, recorded, rows, files, removed>>

ReadCurrent(p) ==
  /\ pc[p] = "current"
  /\ ~ReadBlocked
  /\ import' = [import EXCEPT ![p].seen = Len(recorded)]
  /\ Goto(p, "before")
  /\ UNCHANGED <<lock, worktree, recorded, rows, files, imports, removed>>

\* Mutant: the freshness of the snapshot is not looked at.
RejectionUnlessFresh(p, capture) ==
  IF import[p].document # capture THEN "other-evidence" ELSE "none"

\* Why the first capture ends the import.
Rejection(p, capture) ==
  CASE capture.tracked # recorded[import[p].seen] -> "refresh-needed"
    [] import[p].document # capture               -> "other-evidence"
    [] OTHER                                      -> "none"

CaptureBefore(p) ==
  /\ pc[p] = "before"
  /\ Rejection(p, worktree) = "none"
  /\ import' = [import EXCEPT ![p].observed = worktree]
  /\ Goto(p, "after")
  /\ UNCHANGED <<lock, worktree, recorded, rows, files, imports, removed>>

RejectCapture(p) ==
  /\ pc[p] = "before"
  /\ Rejection(p, worktree) # "none"
  /\ End(p, Rejection(p, worktree))

\* The reports have been read in between.
CaptureAfter(p) ==
  /\ pc[p] = "after"
  /\ worktree = import[p].observed
  /\ Goto(p, "begin")
  /\ UNCHANGED <<lock, worktree, recorded, rows, files, import, imports, removed>>

RejectChange(p) ==
  /\ pc[p] = "after"
  /\ worktree # import[p].observed
  /\ End(p, "changed")

(***************************************************************************)
(* PublishCalibration: one transaction, and a file.                        *)
(***************************************************************************)
StillCurrent(p) == Len(recorded) = import[p].seen

\* Mutant: the snapshot is not verified again.
BeginUnverified(p) ==
  /\ pc[p] = "begin"
  /\ AcquireShared(p)
  /\ Goto(p, "lookup")
  /\ UNCHANGED <<worktree, recorded, rows, files, import, imports, removed>>

Begin(p) ==
  /\ pc[p] = "begin"
  /\ StillCurrent(p)
  /\ AcquireShared(p)
  /\ Goto(p, "lookup")
  /\ UNCHANGED <<worktree, recorded, rows, files, import, imports, removed>>

RejectBegin(p) ==
  /\ pc[p] = "begin"
  /\ ~StillCurrent(p)
  /\ ~ReadBlocked
  /\ End(p, "concurrent-update")

\* Mutant: the reference just made is returned for the one found.
FindOwn(p) ==
  /\ pc[p] = "lookup"
  /\ rows[Id(p)] # Absent
  /\ Goto(p, "idle")
  /\ Release(p)
  /\ import' = [import EXCEPT ![p].returned = import[p].number, ![p].outcome = "ok"]
  /\ UNCHANGED <<worktree, recorded, rows, files, imports, removed>>

\* Imported before: the original reference is the answer, if its artifact is
\* still what it was.
FindExisting(p) ==
  /\ pc[p] = "lookup"
  /\ rows[Id(p)] # Absent
  /\ files[Id(p)] = rows[Id(p)]
  /\ import' = [import EXCEPT ![p].returned = rows[Id(p)]]
  /\ Release(p)
  /\ Goto(p, "reading")
  /\ UNCHANGED <<worktree, recorded, rows, files, imports, removed>>

FindDamaged(p) ==
  /\ pc[p] = "lookup"
  /\ rows[Id(p)] # Absent
  /\ files[Id(p)] # rows[Id(p)]
  /\ End(p, "damaged")

\* The row is private to the transaction until the commit.
Insert(p) ==
  /\ pc[p] = "lookup"
  /\ rows[Id(p)] = Absent
  /\ AcquireReserved(p)
  /\ Goto(p, "link")
  /\ UNCHANGED <<worktree, recorded, rows, files, import, imports, removed>>

\* Another transaction has begun to write: the upgrade fails at once.
InsertRefused(p) ==
  /\ pc[p] = "lookup"
  /\ rows[Id(p)] = Absent
  /\ UpgradeBlocked(p)
  /\ End(p, "locked")

\* The content is written aside and linked into place, unless a file is there.
Link(p) ==
  /\ pc[p] = "link"
  /\ files' = [files EXCEPT ![Id(p)] = IF @ = Absent THEN import[p].number ELSE @]
  /\ Goto(p, "verify")
  /\ UNCHANGED <<lock, worktree, recorded, rows, import, imports, removed>>

\* Mutant: a file that is there already is taken for its own.
VerifyNothing(p) ==
  /\ pc[p] = "verify"
  /\ Goto(p, "commit")
  /\ UNCHANGED <<lock, worktree, recorded, rows, files, import, imports, removed>>

\* The file in place must be the one this import wrote.
Verify(p) ==
  /\ pc[p] = "verify"
  /\ files[Id(p)] = import[p].number
  /\ Goto(p, "commit")
  /\ UNCHANGED <<lock, worktree, recorded, rows, files, import, imports, removed>>

RejectFile(p) ==
  /\ pc[p] = "verify"
  /\ files[Id(p)] # import[p].number
  /\ End(p, IF files[Id(p)] = Absent THEN "missing" ELSE "digest-mismatch")

RequestCommit(p) ==
  /\ pc[p] = "commit"
  /\ AcquirePending(p)
  /\ Goto(p, "exclusive")
  /\ UNCHANGED <<worktree, recorded, rows, files, import, imports, removed>>

Commit(p) ==
  /\ pc[p] = "exclusive"
  /\ ~ExclusiveBlocked(p)
  /\ rows' = [rows EXCEPT ![Id(p)] = import[p].number]
  /\ import' = [import EXCEPT ![p].returned = import[p].number]
  /\ Release(p)
  /\ Goto(p, "reading")
  /\ UNCHANGED <<worktree, recorded, files, imports, removed>>

\* The answer is decoded from the artifact of the reference.
ReadBack(p) ==
  /\ pc[p] = "reading"
  /\ End(p, IF files[Id(p)] = import[p].returned THEN "ok" ELSE "damaged")

(***************************************************************************)
(* The world.                                                              *)
(***************************************************************************)
\* A read or a commit waits for a lock that others hold.
Waiting(p) ==
  \/ pc[p] \in {"current", "begin"} /\ ReadBlocked
  \/ pc[p] = "exclusive" /\ ExclusiveBlocked(p)

BusyTimeout(p) ==
  /\ Waiting(p)
  /\ End(p, "locked")

Crash(p) ==
  /\ pc[p] # "idle"
  /\ End(p, "none")

Edit(w) ==
  /\ worktree' = w
  /\ UNCHANGED <<lock, recorded, rows, files, pc, import, imports, removed>>

\* A refresh or rebaseline commits the state it scanned some time ago.
Record(t) ==
  /\ Len(recorded) < MaxSnapshots
  /\ \A p \in Process : lock[p] = "none"
  /\ recorded' = Append(recorded, t)
  /\ UNCHANGED <<lock, worktree, rows, files, pc, import, imports, removed>>

\* Somebody clears an artifact away.
Remove(id) ==
  /\ files[id] # Absent
  /\ Cardinality(removed) < MaxRemovals
  /\ files' = [files EXCEPT ![id] = Absent]
  /\ removed' = removed \union {id}
  /\ UNCHANGED <<lock, worktree, recorded, rows, pc, import, imports>>

Step(p) ==
  \/ ReadCurrent(p) \/ CaptureBefore(p) \/ RejectCapture(p)
  \/ CaptureAfter(p) \/ RejectChange(p)
  \/ Begin(p) \/ RejectBegin(p) \/ FindExisting(p) \/ FindDamaged(p)
  \/ Insert(p) \/ InsertRefused(p) \/ Link(p) \/ Verify(p) \/ RejectFile(p)
  \/ RequestCommit(p) \/ Commit(p) \/ ReadBack(p)

World ==
  \/ \E w \in Contents : Edit(w)
  \/ \E t \in Tracked : Record(t)
  \/ \E id \in Ids : Remove(id)

Next ==
  \/ \E p \in Process : Start(p) \/ Step(p) \/ BusyTimeout(p) \/ Crash(p)
  \/ World

Spec == Init /\ [][Next]_vars

(***************************************************************************)
(* Properties.                                                             *)
(***************************************************************************)
Stages ==
  {"idle", "current", "before", "after", "begin", "lookup", "link", "verify",
   "commit", "exclusive", "reading"}

TypeOK ==
  /\ LockTypeOK
  /\ worktree \in Contents
  /\ recorded \in Seq(Tracked) /\ recorded # <<>>
  /\ rows \in [Ids -> Digests \union {Absent}]
  /\ files \in [Ids -> Digests \union {Absent}]
  /\ pc \in [Process -> Stages]
  /\ import \in [Process -> Imports]
  /\ imports \in 0 .. MaxImports
  /\ removed \subseteq Ids

\* A committed reference has its artifact, with the digest the row tells, unless
\* somebody removed it: whichever imports of the same evidence raced, died or
\* gave up, and whatever files they left.
ReferencesAreWhole ==
  \A id \in Ids \ removed : rows[id] # Absent => files[id] = rows[id]

\* A reference tells the truth about its snapshot: the evidence it names holds
\* the tracked content that snapshot recorded.
BoundToTheirSnapshots ==
  \A id \in Ids :
    rows[id] # Absent =>
      /\ id.snapshot <= Len(recorded)
      /\ recorded[id.snapshot] = id.document.tracked

\* Every import that succeeds is told the committed reference, the original one
\* also when its own content and observation are other.
ReimportReturnsOriginal ==
  \A p \in Process :
    pc[p] = "idle" /\ import[p].outcome = "ok" =>
      import[p].returned = rows[Id(p)]

\* A reference is added to the snapshot that is current when it is committed,
\* and never changed afterwards; so is an artifact, but for its removal.
PublishedOnce ==
  [][\A id \in Ids :
       /\ rows'[id] # rows[id] =>
            rows[id] = Absent /\ id.snapshot = Len(recorded)
       /\ files'[id] # files[id] => Absent \in {files[id], files'[id]}]_<<rows, files>>

\* Imports never wait in a circle: while one waits for a lock, another holds a
\* lock, is at work and does not itself wait.
SomeHolderRuns ==
  \A p \in Process :
    Waiting(p) =>
      \E q \in Process : lock[q] # "none" /\ pc[q] # "idle" /\ ~Waiting(q)

\* The claim of PublishCalibration's comment, "Failed transactions may leave
\* unreferenced files, never trusted partial references. Reimport returns the
\* original reference and observation": an import is not refused because of a
\* file that a failed one left.
LeftFilesDoNotPreventImports ==
  \A p \in Process : import[p].outcome # "digest-mismatch"

===============================================================================
