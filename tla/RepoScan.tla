------------------------------- MODULE RepoScan -------------------------------
(***************************************************************************)
(* How repocue observes a checkout (internal/repository/git.go): a scan    *)
(* asks Git for the status, then for the index, then looks at the tracked  *)
(* files one by one.  A full scan (init, rebaseline) reads them all; an    *)
(* incremental one (refresh, status) reuses the stored entry of a file     *)
(* that Git calls clean and that was clean when the entry was made.        *)
(*                                                                         *)
(* The checkout may change at every step.  The source asks for it to stay  *)
(* idle during a scan; `changed` and `touched` keep book of where it did   *)
(* not, so that what follows is said of each file and not of the whole.    *)
(*                                                                         *)
(* A version of a file is its content together with its mode.  Git is      *)
(* modelled from what the scan asks it: a file is unstaged when the working*)
(* tree differs from the index, staged when the index differs from HEAD.   *)
(***************************************************************************)
EXTENDS FiniteSets, Naturals

CONSTANTS Path,
          Version,        \* contents and modes a file can have
          Absent,         \* a path that HEAD, the index or the tree lacks
          MaxEdits,       \* bound: changes of the checkout
          MaxScans        \* bound: scans started in all

ASSUME AbsentIsNoVersion == Absent \notin Version

VARIABLES head,           \* the version of each path in the commit HEAD names
          index,          \* in the index
          tree,           \* in the working tree
          recorded,       \* the current snapshot
          pc,             \* where the scan is
          full,           \* whether it is a full one
          basis,          \* the Git status it was told
          listed,         \* the index it was told
          todo,           \* entries not looked at yet
          reading,        \* the entry about to be read, if any
          reread,         \* the entries it has read
          live,           \* the file entries it has so far
          changed,        \* paths changed since the scan began
          touched,        \* paths that changed while their recorded entry was made
          edits, scans    \* counted for the bounds

world == <<head, index, tree>>

scan == <<pc, full, basis, listed, todo, reading, reread, live>>

vars == <<world, recorded, scan, changed, touched, edits, scans>>

Versions == Version \union {Absent}

States == {"clean", "staged", "unstaged", "staged-and-unstaged", "deleted"}

\* A file entry of a snapshot: what the index names, what the working tree has
\* (Absent: it does not exist), and how the two were related.
Entries == [index : Version, content : Versions, state : States]

NoEntry == [index |-> Absent, content |-> Absent, state |-> "none"]

NothingScanned == [f \in Path |-> NoEntry]

NothingListed == [f \in Path |-> Absent]

Files == [Path -> Entries \union {NoEntry}]

Bases ==
  [head : [Path -> Versions], staged : SUBSET Path, unstaged : SUBSET Path,
   untracked : SUBSET Path]

NoBasis ==
  [head |-> NothingListed, staged |-> {}, unstaged |-> {}, untracked |-> {}]

Snapshots == [files : Files, basis : Bases]

WorkingState(isStaged, isUnstaged, exists) ==
  CASE ~exists /\ (isStaged \/ isUnstaged) -> "deleted"
    [] isStaged /\ isUnstaged /\ exists    -> "staged-and-unstaged"
    [] isStaged /\ ~isUnstaged /\ exists   -> "staged"
    [] ~isStaged /\ isUnstaged /\ exists   -> "unstaged"
    [] OTHER                               -> "clean"

(***************************************************************************)
(* What Git tells, and what a scan of an idle checkout finds.              *)
(***************************************************************************)
Staged == {f \in Path : head[f] # index[f]}

Unstaged == {f \in Path : index[f] # Absent /\ tree[f] # index[f]}

Untracked == {f \in Path : index[f] = Absent /\ tree[f] # Absent}

Status ==
  [head |-> head, staged |-> Staged, unstaged |-> Unstaged, untracked |-> Untracked]

Entry(version, f, status) ==
  [index   |-> version,
   content |-> tree[f],
   state   |-> WorkingState(f \in status.staged, f \in status.unstaged,
                            tree[f] # Absent)]

True(f) == IF index[f] = Absent THEN NoEntry ELSE Entry(index[f], f, Status)

Truth == [f \in Path |-> True(f)]

Init ==
  /\ \E h \in [Path -> Version] : head = h /\ index = h /\ tree = h
  /\ recorded = [files |-> Truth, basis |-> Status]
  /\ pc = "idle"
  /\ full = FALSE
  /\ basis = NoBasis
  /\ listed = NothingListed
  /\ todo = {}
  /\ reading = {}
  /\ reread = {}
  /\ live = NothingScanned
  /\ changed = {}
  /\ touched = {}
  /\ edits = 0
  /\ scans = 0

(***************************************************************************)
(* The scan.                                                               *)
(***************************************************************************)
Start(isFull) ==
  /\ pc = "idle"
  /\ scans < MaxScans
  /\ scans' = scans + 1
  /\ pc' = "status"
  /\ full' = isFull
  /\ UNCHANGED <<world, recorded, basis, listed, todo, reading, reread, live,
                 changed, touched, edits>>

ReadStatus ==
  /\ pc = "status"
  /\ basis' = Status
  /\ pc' = "index"
  /\ UNCHANGED <<world, recorded, full, listed, todo, reading, reread, live,
                 changed, touched, edits, scans>>

ListIndex ==
  /\ pc = "index"
  /\ listed' = index
  /\ todo' = {f \in Path : index[f] # Absent}
  /\ pc' = "files"
  /\ UNCHANGED <<world, recorded, full, basis, reading, reread, live, changed,
                 touched, edits, scans>>

\* Mutant: the state of the stored entry is not asked for.
MustScanIfDirty(f) ==
  \/ full
  \/ recorded.files[f] = NoEntry
  \/ recorded.files[f].index # listed[f]
  \/ Entry(listed[f], f, basis).state # "clean"
  \/ (recorded.files[f].content = Absent) # (tree[f] = Absent)

\* Mutant: another index object does not matter.
MustScanSameIndex(f) ==
  \/ full
  \/ recorded.files[f] = NoEntry
  \/ recorded.files[f].state # "clean"
  \/ Entry(listed[f], f, basis).state # "clean"
  \/ (recorded.files[f].content = Absent) # (tree[f] = Absent)

\* Mutant: a full scan reuses entries too.
MustScanNotInFull(f) ==
  \/ recorded.files[f] = NoEntry
  \/ recorded.files[f].index # listed[f]
  \/ recorded.files[f].state # "clean"
  \/ Entry(listed[f], f, basis).state # "clean"
  \/ (recorded.files[f].content = Absent) # (tree[f] = Absent)

MustScan(f) ==
  \/ full
  \/ recorded.files[f] = NoEntry
  \/ recorded.files[f].index # listed[f]
  \/ recorded.files[f].state # "clean"
  \/ Entry(listed[f], f, basis).state # "clean"
  \/ (recorded.files[f].content = Absent) # (tree[f] = Absent)

Reuse(f) ==
  /\ pc = "files" /\ reading = {}
  /\ f \in todo
  /\ ~MustScan(f)
  /\ todo' = todo \ {f}
  /\ live' = [live EXCEPT ![f] = recorded.files[f]]
  /\ UNCHANGED <<world, recorded, pc, full, basis, listed, reading, reread,
                 changed, touched, edits, scans>>

Select(f) ==
  /\ pc = "files" /\ reading = {}
  /\ f \in todo
  /\ MustScan(f)
  /\ todo' = todo \ {f}
  /\ reading' = {f}
  /\ UNCHANGED <<world, recorded, pc, full, basis, listed, reread, live,
                 changed, touched, edits, scans>>

ScanEntry(f) ==
  /\ f \in reading
  /\ reading' = {}
  /\ reread' = reread \union {f}
  /\ live' = [live EXCEPT ![f] = Entry(listed[f], f, basis)]
  /\ UNCHANGED <<world, recorded, pc, full, basis, listed, todo, changed,
                 touched, edits, scans>>

Finish ==
  /\ pc = "files" /\ todo = {} /\ reading = {}
  /\ pc' = "done"
  /\ UNCHANGED <<world, recorded, full, basis, listed, todo, reading, reread,
                 live, changed, touched, edits, scans>>

(***************************************************************************)
(* What the commands do with it.                                           *)
(***************************************************************************)
\* The command ends, and its memory of the scan with it.
End ==
  /\ pc' = "idle"
  /\ full' = FALSE
  /\ basis' = NoBasis
  /\ listed' = NothingListed
  /\ todo' = {} /\ reading' = {} /\ reread' = {}
  /\ live' = NothingScanned
  /\ changed' = {}
  /\ UNCHANGED <<world, edits, scans>>

\* init, refresh and rebaseline: the scan becomes the current snapshot.  When a
\* refresh finds no difference the snapshot that stays is the same.
Publish ==
  /\ pc = "done"
  /\ recorded' = [files |-> live, basis |-> basis]
  /\ touched' = (touched \ reread) \union changed
  /\ End

\* status and the validations only compare; and a scan may fail at any point.
Abandon ==
  /\ pc # "idle"
  /\ End
  /\ UNCHANGED <<recorded, touched>>

(***************************************************************************)
(* The checkout changes: an editor, git add, git commit, git checkout, one *)
(* path at a time.                                                         *)
(***************************************************************************)
Change(f) ==
  /\ edits < MaxEdits
  /\ edits' = edits + 1
  /\ changed' = IF pc = "idle" THEN {} ELSE changed \union {f}
  /\ UNCHANGED <<recorded, scan, touched, scans>>

Edit(f) ==
  /\ \E v \in Versions \ {tree[f]} : tree' = [tree EXCEPT ![f] = v]
  /\ Change(f)
  /\ UNCHANGED <<head, index>>

Stage(f) ==
  /\ \E v \in Versions \ {index[f]} : index' = [index EXCEPT ![f] = v]
  /\ Change(f)
  /\ UNCHANGED <<head, tree>>

MoveHead(f) ==
  /\ \E v \in Versions \ {head[f]} : head' = [head EXCEPT ![f] = v]
  /\ Change(f)
  /\ UNCHANGED <<index, tree>>

Next ==
  \/ \E isFull \in BOOLEAN : Start(isFull)
  \/ ReadStatus \/ ListIndex
  \/ \E f \in Path : Reuse(f) \/ Select(f) \/ ScanEntry(f)
  \/ Finish \/ Publish \/ Abandon
  \/ \E f \in Path : Edit(f) \/ Stage(f) \/ MoveHead(f)

Spec == Init /\ [][Next]_vars

(***************************************************************************)
(* The delta between two snapshots (internal/snapshot/delta.go).           *)
(***************************************************************************)
\* Mutant: the working state of a file is not compared.
EntryOperationWithoutState(before, after) ==
  IF before.content # after.content
  THEN CASE after.content = Absent  -> "deleted"
         [] before.content = Absent -> "restored"
         [] OTHER                   -> "content_changed"
  ELSE IF before.index # after.index THEN "metadata_changed" ELSE "none"

EntryOperation(before, after) ==
  IF before.content # after.content
  THEN CASE after.content = Absent  -> "deleted"
         [] before.content = Absent -> "restored"
         [] OTHER                   -> "content_changed"
  ELSE CASE before.index # after.index -> "metadata_changed"
         [] before.index = after.index /\ before.state # after.state -> "state_changed"
         [] before = after             -> "none"

FileOperation(before, after) ==
  CASE before = NoEntry /\ after = NoEntry -> "none"
    [] before = NoEntry /\ after # NoEntry -> "added"
    [] before # NoEntry /\ after = NoEntry -> "deleted"
    [] OTHER                               -> EntryOperation(before, after)

ChangedFiles == {f \in Path : FileOperation(recorded.files[f], live[f]) # "none"}

RepositoryChanges ==
  {part \in {"head", "staged", "unstaged", "untracked"} :
     recorded.basis[part] # basis[part]}

\* What Store.Refresh compares: the digests of the files and of the Git state.
Unchanged == live = recorded.files /\ basis = recorded.basis

(***************************************************************************)
(* Properties.                                                             *)
(***************************************************************************)
TypeOK ==
  /\ head \in [Path -> Versions] /\ index \in [Path -> Versions]
  /\ tree \in [Path -> Versions]
  /\ recorded \in Snapshots
  /\ pc \in {"idle", "status", "index", "files", "done"}
  /\ full \in BOOLEAN
  /\ basis \in Bases
  /\ listed \in [Path -> Versions]
  /\ todo \subseteq Path /\ reading \subseteq Path /\ reread \subseteq Path
  /\ live \in Files
  /\ changed \subseteq Path /\ touched \subseteq Path
  /\ edits \in Nat /\ scans \in Nat

\* An incremental scan finds of a file what a full one would: of every file left
\* alone during the scan, unless its entry is reused and was made while the file
\* changed.  So on a checkout that is idle whenever it is scanned, the two are
\* the same.
IdleFilesAreExact ==
  pc = "done" =>
    \A f \in Path \ changed : f \in reread \/ f \notin touched => live[f] = True(f)

\* However disturbed earlier scans were, a scan misses nothing of a file that is
\* dirty, or that the index names otherwise than before: an entry can only be
\* wrong about the content of a file that is clean.
DirtyFilesAreExact ==
  pc = "done" =>
    \A f \in Path \ changed :
      live[f] # True(f) =>
        /\ True(f) # NoEntry
        /\ live[f] = [True(f) EXCEPT !.content = live[f].content]
        /\ live[f].state = "clean"

\* A rebaseline of an idle checkout depends on nothing that was recorded before.
RebaselineIsExact ==
  pc = "done" /\ full /\ changed = {} => live = Truth /\ basis = Status

\* The delta of a refresh has an item for exactly the files whose entries differ,
\* and a refresh that records a change always has something to tell.
DeltaTellsEveryChange ==
  pc = "done" =>
    /\ ChangedFiles = {f \in Path : live[f] # recorded.files[f]}
    /\ ~Unchanged => ChangedFiles # {} \/ RepositoryChanges # {}

\* docs/ARCHITECTURE.md: "After a concurrent filesystem edit, rerun refresh when
\* the repository is idle."  What a refresh finds on an idle checkout is the
\* checkout, whatever happened during scans before.
RerunRefreshIsExact ==
  pc = "done" /\ changed = {} => live = Truth
===============================================================================
