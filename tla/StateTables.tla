------------------------------ MODULE StateTables ------------------------------
(***************************************************************************)
(* The tables of state.db (internal/storage/sqlite.go) and the rows each   *)
(* state transition writes.  A table whose rows are only ever inserted is  *)
(* a sequence: the n-th row carries sequence n, which is what nextSequence *)
(* (MAX(sequence) + 1) allocates.  A scan is abstracted to the two digests *)
(* that decide whether the repository changed: of the indexed files and of *)
(* the Git state.                                                          *)
(***************************************************************************)
EXTENDS Integers, Sequences

CONSTANTS Digests,        \* repository file-state digests
          StatusDigests   \* Git-state digests

Scans == [digest : Digests, status : StatusDigests]

NoSnapshot == 0           \* a NULL snapshot reference

EpochStatus == {"active", "superseded"}

Snapshot ==
  [epoch : Nat, epochSequence : Nat, kind : {"baseline", "refresh"},
   parent : Nat, scan : Scans]

Delta == [epoch : Nat, from : Nat, to : Nat, before : Scans, after : Scans]

OperationRun ==
  [operation : {"baseline", "refresh", "rebaseline"}, epoch : Nat, snapshot : Nat]

CueRun == [snapshot : Nat, since : Nat]

Database ==
  [repositories : {0, 1}, epochs : Seq(EpochStatus), snapshots : Seq(Snapshot),
   deltas : Seq(Delta), operationRuns : Seq(OperationRun), cueRuns : Seq(CueRun)]

EmptyDatabase ==
  [repositories |-> 0, epochs |-> <<>>, snapshots |-> <<>>,
   deltas |-> <<>>, operationRuns |-> <<>>, cueRuns |-> <<>>]

(***************************************************************************)
(* Queries.                                                                *)
(***************************************************************************)
ActiveEpochs(d) == {e \in DOMAIN d.epochs : d.epochs[e] = "active"}

InEpoch(d, e) == {s \in DOMAIN d.snapshots : d.snapshots[s].epoch = e}

ActiveEpoch(d) == CHOOSE e \in ActiveEpochs(d) : TRUE

\* ORDER BY epoch_sequence DESC LIMIT 1 among the snapshots of epoch e
LatestIn(d, e) ==
  CHOOSE s \in InEpoch(d, e) :
    \A t \in InEpoch(d, e) :
      d.snapshots[t].epochSequence <= d.snapshots[s].epochSequence

CurrentSnapshot(d) == LatestIn(d, ActiveEpoch(d))

\* The model.CurrentState a command works from.
CurrentState(d) ==
  [epoch |-> ActiveEpoch(d), snapshot |-> CurrentSnapshot(d),
   scan |-> d.snapshots[CurrentSnapshot(d)].scan]

\* COALESCE(MAX(epoch_sequence), 0) + 1 among the snapshots of epoch e
NextEpochSequence(d, e) ==
  CHOOSE n \in 1 .. Len(d.snapshots) + 1 :
    /\ \A s \in InEpoch(d, e) : d.snapshots[s].epochSequence < n
    /\ n = 1 \/ \E s \in InEpoch(d, e) : d.snapshots[s].epochSequence = n - 1

(***************************************************************************)
(* Rows.                                                                   *)
(***************************************************************************)
WithEpoch(d) == [d EXCEPT !.epochs = Append(@, "active")]

WithSnapshot(d, e, parent, kind, scan) ==
  [d EXCEPT !.snapshots =
     Append(@, [epoch |-> e, epochSequence |-> NextEpochSequence(d, e),
                kind |-> kind, parent |-> parent, scan |-> scan])]

\* Mutant: the ends of the delta are exchanged.
WithReversedDelta(d, e, from, to, before, after) ==
  [d EXCEPT !.deltas =
     Append(@, [epoch |-> e, from |-> to, to |-> from,
                before |-> before, after |-> after])]

WithDelta(d, e, from, to, before, after) ==
  [d EXCEPT !.deltas =
     Append(@, [epoch |-> e, from |-> from, to |-> to,
                before |-> before, after |-> after])]

WithRun(d, operation, e, s) ==
  [d EXCEPT !.operationRuns =
     Append(@, [operation |-> operation, epoch |-> e, snapshot |-> s])]

WithCueRun(d, s, since) ==
  [d EXCEPT !.cueRuns = Append(@, [snapshot |-> s, since |-> since])]

\* A new epoch, its baseline snapshot and the operation run that recorded them.
WithBaseline(d, operation, scan) ==
  LET opened   == WithEpoch(d)
      e        == Len(opened.epochs)
      recorded == WithSnapshot(opened, e, NoSnapshot, "baseline", scan)
  IN  WithRun(recorded, operation, e, Len(recorded.snapshots))

Initialized(d, scan) ==
  WithBaseline([d EXCEPT !.repositories = 1], "baseline", scan)

\* Mutant: only the indexed files count as a change.
ChangedFiles(seen, scan) == seen.scan.digest # scan.digest

Changed(seen, scan) ==
  seen.scan.digest # scan.digest \/ seen.scan.status # scan.status

\* `seen` is the state Current returned before the scan.  An unchanged
\* repository records the run and nothing else.
Refreshed(d, seen, scan) ==
  IF ~Changed(seen, scan)
  THEN WithRun(d, "refresh", seen.epoch, seen.snapshot)
  ELSE LET recorded == WithSnapshot(d, seen.epoch, seen.snapshot, "refresh", scan)
           s        == Len(recorded.snapshots)
           linked   == WithDelta(recorded, seen.epoch, seen.snapshot, s, seen.scan, scan)
       IN  WithRun(linked, "refresh", seen.epoch, s)

Superseded(d, e) == [d EXCEPT !.epochs = [@ EXCEPT ![e] = "superseded"]]

\* Mutant: the new epoch is opened first, and it is the one superseded.
SupersededAfterwards(d, seen, scan) ==
  Superseded(WithBaseline(d, "rebaseline", scan), Len(d.epochs) + 1)

\* Mutant: a rebaseline prunes the deltas of the epoch it ends.
RebaselinedAndPruned(d, seen, scan) ==
  WithBaseline([Superseded(d, seen.epoch) EXCEPT !.deltas = <<>>], "rebaseline", scan)

Rebaselined(d, seen, scan) ==
  WithBaseline(Superseded(d, seen.epoch), "rebaseline", scan)

(***************************************************************************)
(* The constraints SQLite enforces on these tables: one active epoch, one  *)
(* snapshot per position of an epoch, one delta per pair of snapshots.     *)
(***************************************************************************)
OneActiveEpochIndex(d) ==
  \A e, f \in ActiveEpochs(d) : e = f

UniqueEpochSequence(d) ==
  \A s, t \in DOMAIN d.snapshots :
    /\ d.snapshots[s].epoch = d.snapshots[t].epoch
    /\ d.snapshots[s].epochSequence = d.snapshots[t].epochSequence
    => s = t

UniqueDelta(d) ==
  \A i, j \in DOMAIN d.deltas :
    /\ d.deltas[i].from = d.deltas[j].from
    /\ d.deltas[i].to = d.deltas[j].to
    => i = j

ConstraintsHold(d) ==
  OneActiveEpochIndex(d) /\ UniqueEpochSequence(d) /\ UniqueDelta(d)

(***************************************************************************)
(* What the rows of a healthy database say together.                       *)
(***************************************************************************)
NewestEpochIsActive(d) ==
  IF d.repositories = 1
  THEN Len(d.epochs) > 0 /\ ActiveEpochs(d) = {Len(d.epochs)}
  ELSE d.epochs = <<>>

\* A baseline opens the next epoch; a refresh follows the last snapshot before
\* it, in the same epoch, and records a different state.
FollowsOn(d, s) ==
  LET this == d.snapshots[s]
      last == d.snapshots[s - 1]
  IN  IF this.kind = "baseline"
      THEN /\ this.parent = NoSnapshot
           /\ this.epochSequence = 1
           /\ this.epoch = IF s = 1 THEN 1 ELSE last.epoch + 1
      ELSE /\ s > 1
           /\ this.parent = s - 1
           /\ this.epoch = last.epoch
           /\ this.epochSequence = last.epochSequence + 1
           /\ this.scan # last.scan

SnapshotsFormOneLine(d) == \A s \in DOMAIN d.snapshots : FollowsOn(d, s)

\* A delta joins a snapshot to its parent and says how they differ.
Joins(d, delta) ==
  /\ delta.to \in DOMAIN d.snapshots
  /\ delta.from \in DOMAIN d.snapshots
  /\ d.snapshots[delta.to].parent = delta.from
  /\ d.snapshots[delta.to].epoch = delta.epoch
  /\ d.snapshots[delta.to].scan = delta.after
  /\ d.snapshots[delta.from].scan = delta.before

DeltasJoinParents(d) == \A i \in DOMAIN d.deltas : Joins(d, d.deltas[i])

(***************************************************************************)
(* The rows of old are rows of new, at the same place; the only change to  *)
(* one is an epoch that became superseded.                                 *)
(***************************************************************************)
IsPrefixOf(old, new) ==
  /\ Len(old) <= Len(new)
  /\ \A i \in 1 .. Len(old) : new[i] = old[i]

KeepsRows(old, new) ==
  /\ old.repositories <= new.repositories
  /\ IsPrefixOf(old.snapshots, new.snapshots)
  /\ IsPrefixOf(old.deltas, new.deltas)
  /\ IsPrefixOf(old.operationRuns, new.operationRuns)
  /\ IsPrefixOf(old.cueRuns, new.cueRuns)
  /\ Len(old.epochs) <= Len(new.epochs)
  /\ \A e \in 1 .. Len(old.epochs) :
       new.epochs[e] = old.epochs[e] \/ new.epochs[e] = "superseded"
===============================================================================
