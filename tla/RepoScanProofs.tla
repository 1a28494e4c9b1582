---------------------------- MODULE RepoScanProofs ----------------------------
(***************************************************************************)
(* Theorems about scans of any number of paths under any changes of the    *)
(* checkout.  The inductive invariant says of each path that was left      *)
(* alone since the scan began that what Git told of it still holds, that   *)
(* its entry is the true one as soon as it has been looked at, and that a  *)
(* stored entry called clean has the content the index names: that is what *)
(* makes its reuse right, and what an edit during a scan takes away.       *)
(***************************************************************************)
EXTENDS RepoScan, TLAPS

\* The content of a clean entry is the one its index object names.
Sound(entry) == entry.state = "clean" => entry.content = entry.index

\* What Git told of a path is still so.
ToldTruly(f) ==
  /\ basis.head[f] = head[f]
  /\ f \in basis.staged <=> f \in Staged
  /\ f \in basis.unstaged <=> f \in Unstaged
  /\ f \in basis.untracked <=> f \in Untracked

\* An entry that is right about everything but the content of a clean file.
WrongContentOnly(f) ==
  /\ True(f) # NoEntry
  /\ live[f] = [True(f) EXCEPT !.content = live[f].content]
  /\ live[f].state = "clean"

LookedAt(f) ==
  \/ live[f] = True(f)
  \/ f \in touched /\ f \notin reread /\ ~full /\ WrongContentOnly(f)

Pending == todo \union reading

IInv ==
  /\ TypeOK
  /\ \A f \in Path \ touched : Sound(recorded.files[f])
  /\ pc \in {"index", "files", "done"} => \A f \in Path \ changed : ToldTruly(f)
  /\ pc \in {"files", "done"} =>
       \A f \in Path \ changed :
         listed[f] = index[f] /\ (f \notin Pending => LookedAt(f))
  /\ pc \notin {"files", "done"} => reread = {} /\ live = NothingScanned
  /\ pc # "files" => Pending = {}
  /\ todo \intersect (reading \union reread) = {}
  /\ \A f \in Pending : listed[f] # Absent
  /\ \A f, g \in reading : f = g

\* A path that none of head, index and tree changed is what it was.
LEMMA Untouched ==
  ASSUME NEW f \in Path, head'[f] = head[f], index'[f] = index[f], tree'[f] = tree[f]
  PROVE  /\ True(f)' = True(f)
         /\ f \in Staged' <=> f \in Staged
         /\ f \in Unstaged' <=> f \in Unstaged
         /\ f \in Untracked' <=> f \in Untracked
BY DEF True, Entry, Status, Staged, Unstaged, Untracked

\* Entries have the type of the columns they are read into.
LEMMA EntryType ==
  ASSUME TypeOK, NEW f \in Path, NEW version \in Version, NEW status \in Bases
  PROVE  Entry(version, f, status) \in Entries
<1>1. WorkingState(f \in status.staged, f \in status.unstaged, tree[f] # Absent) \in States
  BY DEF WorkingState, States
<1> QED
  BY <1>1 DEF Entry, Entries, TypeOK

\* What Git is asked has the type of a basis.
LEMMA StatusType ==
  ASSUME TypeOK
  PROVE  Status \in Bases
BY DEF Status, Bases, Staged, Unstaged, Untracked, TypeOK

\* A file Git calls clean has the content the index names.
LEMMA TrueIsSound ==
  ASSUME TypeOK, NEW f \in Path
  PROVE  Sound(True(f))
<1>1. CASE index[f] = Absent
  BY <1>1 DEF True, Sound, NoEntry
<1>2. CASE index[f] # Absent
  <2>1. True(f) = Entry(index[f], f, Status)
    BY <1>2 DEF True
  <2>2. SUFFICES ASSUME True(f).state = "clean"
                 PROVE  tree[f] = index[f]
    BY <2>1 DEF Sound, Entry
  <2>3. f \notin Unstaged
    BY <2>1, <2>2 DEF Entry, Status, WorkingState
  <2> QED
    BY <2>3, <1>2 DEF Unstaged
<1> QED
  BY <1>1, <1>2

\* The snapshot a checkout starts with was made of what is there.
LEMMA InitIsOK == Init => IInv
<1> SUFFICES ASSUME Init PROVE IInv
  OBVIOUS
<1>1. PICK h \in [Path -> Version] : head = h /\ index = h /\ tree = h
  BY DEF Init
<1>2. \A f \in Path : True(f) = Entry(index[f], f, Status) /\ index[f] \in Version
  BY <1>1, AbsentIsNoVersion DEF True
<1>3. Status \in Bases
  BY <1>1 DEF Status, Bases, Staged, Unstaged, Untracked, Versions
<1>4. Truth \in Files
  <2>1. ASSUME NEW f \in Path
        PROVE  True(f) \in Entries
    <3>1. WorkingState(f \in Status.staged, f \in Status.unstaged, tree[f] # Absent) \in States
      BY DEF WorkingState, States
    <3> QED
      BY <1>1, <1>2, <3>1 DEF Entry, Entries, Versions
  <2> QED
    BY <2>1 DEF Truth, Files
<1>5. TypeOK
  <2>1. /\ head \in [Path -> Versions] /\ index \in [Path -> Versions]
        /\ tree \in [Path -> Versions]
    BY <1>1 DEF Versions
  <2>2. recorded \in Snapshots
    BY <1>3, <1>4 DEF Init, Snapshots
  <2>3. basis \in Bases /\ listed \in [Path -> Versions]
    BY DEF Init, NoBasis, NothingListed, Bases, Versions
  <2>4. live \in Files
    BY DEF Init, NothingScanned, Files
  <2> QED
    BY <2>1, <2>2, <2>3, <2>4 DEF Init, TypeOK
<1>6. \A f \in Path \ touched : Sound(recorded.files[f])
  <2> TAKE f \in Path \ touched
  <2>1. recorded.files[f] = True(f)
    BY DEF Init, Truth
  <2> QED
    BY <2>1, <1>5, TrueIsSound
<1> QED
  BY <1>5, <1>6 DEF Init, IInv, Pending

(***************************************************************************)
(* Each action keeps the invariant.                                        *)
(***************************************************************************)

\* A scan begins with nothing told and nothing read.
LEMMA StartKeeps ==
  ASSUME IInv, NEW isFull \in BOOLEAN, Start(isFull)
  PROVE  IInv'
<1> USE DEF IInv, Start, world
<1>1. TypeOK'
  BY DEF TypeOK
<1>2. (\A f \in Path \ touched : Sound(recorded.files[f]))'
  OBVIOUS
<1> QED
  BY <1>1, <1>2 DEF Pending

\* What Git tells is so when it is told.
LEMMA ReadStatusKeeps ==
  ASSUME IInv, ReadStatus
  PROVE  IInv'
<1> USE DEF IInv, ReadStatus, world
<1>1. TypeOK'
  BY StatusType DEF TypeOK
<1>2. (\A f \in Path \ changed : ToldTruly(f))'
  BY DEF ToldTruly, Status, Staged, Unstaged, Untracked
<1>3. (\A f \in Path \ touched : Sound(recorded.files[f]))'
  OBVIOUS
<1> QED
  BY <1>1, <1>2, <1>3 DEF Pending

\* The index that is listed is the one there is, and nothing is looked at yet.
LEMMA ListIndexKeeps ==
  ASSUME IInv, ListIndex
  PROVE  IInv'
<1> USE DEF IInv, ListIndex, world
<1>1. TypeOK'
  BY DEF TypeOK
<1>2. (\A f \in Path \ touched : Sound(recorded.files[f]))'
  OBVIOUS
<1>3. (\A f \in Path \ changed : ToldTruly(f))'
  BY DEF ToldTruly, Staged, Unstaged, Untracked
<1>4. reading = {} /\ reread = {} /\ live = NothingScanned
  BY DEF Pending
<1>5. (\A f \in Path \ changed :
         listed[f] = index[f] /\ (f \notin Pending => LookedAt(f)))'
  BY <1>4 DEF Pending, LookedAt, True, NothingScanned
<1>6. (\A f \in Pending : listed[f] # Absent)'
  BY <1>4 DEF Pending
<1> QED
  BY <1>1, <1>2, <1>3, <1>4, <1>5, <1>6 DEF Pending

\* A stored entry that need not be read again differs from the true one at most
\* in the content of a clean file, and not even there if the file was left
\* alone while the entry was made.
LEMMA ReuseIsRight ==
  ASSUME IInv, NEW f \in Path \ changed, Reuse(f)
  PROVE  LookedAt(f)'
<1> DEFINE stored == recorded.files[f]
<1>1. /\ pc = "files" /\ f \in todo /\ live'[f] = stored
      /\ ~full /\ stored # NoEntry /\ stored.index = listed[f] /\ stored.state = "clean"
      /\ Entry(listed[f], f, basis).state = "clean"
  BY DEF Reuse, MustScan, IInv, TypeOK, Files
<1>2. listed[f] = index[f] /\ index[f] # Absent /\ ToldTruly(f) /\ f \notin reread
  BY <1>1 DEF IInv, Pending
<1>3. True(f) = Entry(index[f], f, Status)
  BY <1>2 DEF True
<1>4. Entry(listed[f], f, basis) = Entry(index[f], f, Status)
  BY <1>2 DEF Entry, ToldTruly, Status
<1>5. True(f).state = "clean" /\ True(f).index = index[f]
  BY <1>1, <1>3, <1>4 DEF Entry
<1>6. stored \in Entries
  <2>1. stored \in Entries \union {NoEntry}
    BY DEF IInv, TypeOK, Snapshots, Files
  <2> QED
    BY <1>1, <2>1
<1>7. stored = [index |-> index[f], content |-> stored.content, state |-> "clean"]
  BY <1>1, <1>2, <1>6 DEF Entries
<1>8. True(f) = [index |-> index[f], content |-> True(f).content, state |-> "clean"]
  BY <1>3, <1>5 DEF Entry
<1>9. True(f)' = True(f)
  BY Untouched DEF Reuse, world
<1>10. CASE f \in touched
  <2>1. True(f) # NoEntry
    BY <1>2, <1>3, AbsentIsNoVersion DEF Entry, NoEntry
  <2>2. stored = [True(f) EXCEPT !.content = stored.content]
    BY <1>7, <1>8
  <2> QED
    BY <1>1, <1>2, <1>9, <1>10, <2>1, <2>2 DEF LookedAt, WrongContentOnly, Reuse
<1>11. CASE f \notin touched
  <2>1. stored.content = index[f]
    BY <1>1, <1>2, <1>11 DEF IInv, Sound
  <2>2. True(f).content = index[f]
    BY <1>5, TrueIsSound DEF IInv, Sound
  <2> QED
    BY <1>1, <1>7, <1>8, <1>9, <2>1, <2>2 DEF LookedAt
<1> QED
  BY <1>10, <1>11

\* Reusing an entry disturbs no other.
LEMMA ReuseKeeps ==
  ASSUME IInv, NEW f \in Path, Reuse(f)
  PROVE  IInv'
<1> USE DEF IInv, Reuse, world
<1>1. TypeOK'
  <2>1. live' \in Files
    BY DEF TypeOK, Files, Snapshots
  <2> QED
    BY <2>1 DEF TypeOK
<1>2. (\A g \in Path \ touched : Sound(recorded.files[g]))'
  OBVIOUS
<1>3. (\A g \in Path \ changed : ToldTruly(g))'
  BY DEF ToldTruly, Staged, Unstaged, Untracked
<1>4. (\A g \in Path \ changed :
         listed[g] = index[g] /\ (g \notin Pending => LookedAt(g)))'
  <2> SUFFICES ASSUME NEW g \in Path \ changed, g \notin Pending'
               PROVE  LookedAt(g)'
    OBVIOUS
  <2>1. CASE g = f
    BY <2>1, ReuseIsRight
  <2>2. CASE g # f
    <3>1. LookedAt(g) /\ live'[g] = live[g]
      BY <2>2 DEF Pending, TypeOK, Files
    <3>2. True(g)' = True(g)
      BY Untouched
    <3> QED
      BY <3>1, <3>2 DEF LookedAt, WrongContentOnly
  <2> QED
    BY <2>1, <2>2
<1> QED
  BY <1>1, <1>2, <1>3, <1>4 DEF Pending

\* A selected entry is still to be looked at.
LEMMA SelectKeeps ==
  ASSUME IInv, NEW f \in Path, Select(f)
  PROVE  IInv'
<1> USE DEF IInv, Select, world
<1>1. TypeOK'
  BY DEF TypeOK
<1>2. Pending' = Pending
  BY DEF Pending
<1>3. (\A g \in Path \ touched : Sound(recorded.files[g]))'
  OBVIOUS
<1>4. (\A g \in Path \ changed : ToldTruly(g))'
  BY DEF ToldTruly, Staged, Unstaged, Untracked
<1>5. (\A g \in Path \ changed :
         listed[g] = index[g] /\ (g \notin Pending => LookedAt(g)))'
  <2> SUFFICES ASSUME NEW g \in Path \ changed, g \notin Pending'
               PROVE  LookedAt(g)'
    OBVIOUS
  <2>1. LookedAt(g)
    BY <1>2
  <2>2. True(g)' = True(g)
    BY Untouched
  <2> QED
    BY <2>1, <2>2 DEF LookedAt, WrongContentOnly
<1> QED
  BY <1>1, <1>2, <1>3, <1>4, <1>5 DEF Pending

\* An entry that is read is the true one.
LEMMA ScanEntryKeeps ==
  ASSUME IInv, NEW f \in Path, ScanEntry(f)
  PROVE  IInv'
<1> USE DEF IInv, ScanEntry, world
<1>1. pc = "files" /\ listed[f] \in Version
  BY DEF Pending, TypeOK, Versions
<1>2. TypeOK'
  <2>1. Entry(listed[f], f, basis) \in Entries
    BY <1>1, EntryType DEF TypeOK
  <2>2. live' \in Files
    BY <2>1 DEF TypeOK, Files
  <2> QED
    BY <2>2 DEF TypeOK
<1>3. (\A g \in Path \ touched : Sound(recorded.files[g]))'
  OBVIOUS
<1>4. (\A g \in Path \ changed : ToldTruly(g))'
  BY <1>1 DEF ToldTruly, Staged, Unstaged, Untracked
<1>5. (\A g \in Path \ changed :
         listed[g] = index[g] /\ (g \notin Pending => LookedAt(g)))'
  <2> SUFFICES ASSUME NEW g \in Path \ changed, g \notin Pending'
               PROVE  LookedAt(g)'
    BY <1>1
  <2>0. True(g)' = True(g)
    BY Untouched
  <2>1. CASE g = f
    <3>1. live'[g] = Entry(listed[g], g, basis)
      BY <2>1 DEF TypeOK, Files
    <3>2. listed[g] = index[g] /\ index[g] # Absent /\ ToldTruly(g)
      BY <1>1, <2>1, AbsentIsNoVersion
    <3>3. True(g) = Entry(index[g], g, Status)
      BY <3>2 DEF True
    <3>4. Entry(listed[g], g, basis) = Entry(index[g], g, Status)
      BY <3>2 DEF Entry, ToldTruly, Status
    <3> QED
      BY <2>0, <3>1, <3>3, <3>4 DEF LookedAt
  <2>2. CASE g # f
    <3>1. g \notin Pending
      BY <2>2, <1>1 DEF Pending
    <3> HIDE DEF ScanEntry
    <3>2. LookedAt(g)
      BY <1>1, <3>1
    <3>3. live'[g] = live[g] /\ (g \in reread' <=> g \in reread)
          /\ touched' = touched /\ full' = full
      BY <2>2 DEF TypeOK, Files, ScanEntry
    <3> QED
      BY <2>0, <3>2, <3>3 DEF LookedAt, WrongContentOnly
  <2> QED
    BY <2>1, <2>2
<1> QED
  BY <1>1, <1>2, <1>3, <1>4, <1>5 DEF Pending

\* A scan is done when nothing is left to look at.
LEMMA FinishKeeps ==
  ASSUME IInv, Finish
  PROVE  IInv'
<1> USE DEF IInv, Finish, world
<1>1. TypeOK'
  BY DEF TypeOK
<1>2. Pending' = Pending /\ Pending = {}
  BY DEF Pending
<1>3. (\A g \in Path \ touched : Sound(recorded.files[g]))'
  OBVIOUS
<1>4. (\A g \in Path \ changed : ToldTruly(g))'
  BY DEF ToldTruly, Staged, Unstaged, Untracked
<1>5. (\A g \in Path \ changed :
         listed[g] = index[g] /\ (g \notin Pending => LookedAt(g)))'
  <2> SUFFICES ASSUME NEW g \in Path \ changed
               PROVE  LookedAt(g)'
    OBVIOUS
  <2>1. LookedAt(g)
    BY <1>2
  <2>2. True(g)' = True(g)
    BY Untouched
  <2> QED
    BY <2>1, <2>2 DEF LookedAt, WrongContentOnly
<1> QED
  BY <1>1, <1>2, <1>3, <1>4, <1>5 DEF Pending

\* Ending a command forgets its scan.
LEMMA EndKeeps ==
  ASSUME IInv, End, recorded' \in Snapshots, touched' \subseteq Path,
         (\A f \in Path \ touched : Sound(recorded.files[f]))'
  PROVE  IInv'
<1>1. TypeOK'
  <2>1. NoBasis \in Bases /\ NothingListed \in [Path -> Versions] /\ NothingScanned \in Files
    BY DEF NoBasis, NothingListed, NothingScanned, Bases, Files, Versions
  <2> QED
    BY <2>1 DEF End, IInv, TypeOK, world
<1> QED
  BY <1>1 DEF End, IInv, Pending

\* An entry becomes a stored one with what is known of it.
LEMMA PublishKeeps ==
  ASSUME IInv, Publish
  PROVE  IInv'
<1>1. recorded' \in Snapshots /\ touched' \subseteq Path
  BY DEF IInv, Publish, TypeOK, Snapshots
<1>2. ASSUME NEW f \in Path \ touched'
      PROVE  Sound(recorded'.files[f])
  <2>1. f \notin changed /\ (f \in reread \/ f \notin touched) /\ f \notin Pending
    BY <1>2 DEF Publish, IInv
  <2>2. live[f] = True(f)
    BY <2>1 DEF IInv, Publish, LookedAt
  <2>3. recorded'.files[f] = live[f]
    BY DEF Publish
  <2> QED
    BY <2>2, <2>3, TrueIsSound DEF IInv
<1> QED
  BY <1>1, <1>2, EndKeeps DEF Publish

\* A scan that is abandoned leaves what was stored.
LEMMA AbandonKeeps ==
  ASSUME IInv, Abandon
  PROVE  IInv'
<1>1. recorded' \in Snapshots /\ touched' \subseteq Path
  BY DEF IInv, Abandon, TypeOK
<1>2. (\A f \in Path \ touched : Sound(recorded.files[f]))'
  BY DEF IInv, Abandon
<1> QED
  BY <1>1, <1>2, EndKeeps DEF Abandon

\* A change of one path is a change of that path only.
LEMMA ChangeKeeps ==
  ASSUME IInv, NEW f \in Path, Change(f),
         head' \in [Path -> Versions], index' \in [Path -> Versions],
         tree' \in [Path -> Versions],
         \A g \in Path \ {f} :
           head'[g] = head[g] /\ index'[g] = index[g] /\ tree'[g] = tree[g]
  PROVE  IInv'
<1> USE DEF IInv, Change, scan
<1>1. TypeOK'
  BY DEF TypeOK
<1>2. (\A g \in Path \ touched : Sound(recorded.files[g]))'
  OBVIOUS
<1>3. ASSUME pc # "idle", NEW g \in Path \ changed'
      PROVE  /\ True(g)' = True(g) /\ g \in Path \ changed
             /\ ToldTruly(g) => ToldTruly(g)'
             /\ index'[g] = index[g]
             /\ LookedAt(g) => LookedAt(g)'
  <2>1. g # f /\ g \in Path \ changed
    BY <1>3
  <2>2. /\ head'[g] = head[g] /\ index'[g] = index[g] /\ tree'[g] = tree[g]
        /\ True(g)' = True(g)
        /\ g \in Staged' <=> g \in Staged
        /\ g \in Unstaged' <=> g \in Unstaged
        /\ g \in Untracked' <=> g \in Untracked
    BY <2>1, Untouched
  <2>3. ToldTruly(g) => ToldTruly(g)'
    BY <2>2 DEF ToldTruly
  <2>4. LookedAt(g) => LookedAt(g)'
    BY <2>2 DEF LookedAt, WrongContentOnly
  <2> QED
    BY <2>1, <2>2, <2>3, <2>4
<1> QED
  BY <1>1, <1>2, <1>3 DEF Pending

\* Every step of the system keeps the invariant.
LEMMA NextKeeps == IInv /\ [Next]_vars => IInv'
<1> SUFFICES ASSUME IInv, [Next]_vars PROVE IInv'
  OBVIOUS
<1>1. CASE \E isFull \in BOOLEAN : Start(isFull)
  BY <1>1, StartKeeps
<1>2. CASE ReadStatus
  BY <1>2, ReadStatusKeeps
<1>3. CASE ListIndex
  BY <1>3, ListIndexKeeps
<1>4. CASE \E f \in Path : Reuse(f) \/ Select(f) \/ ScanEntry(f)
  BY <1>4, ReuseKeeps, SelectKeeps, ScanEntryKeeps
<1>5. CASE Finish
  BY <1>5, FinishKeeps
<1>6. CASE Publish
  BY <1>6, PublishKeeps
<1>7. CASE Abandon
  BY <1>7, AbandonKeeps
<1>8. ASSUME NEW f \in Path, Edit(f) \/ Stage(f) \/ MoveHead(f)
      PROVE  IInv'
  <2>1. /\ Change(f)
        /\ head' \in [Path -> Versions] /\ index' \in [Path -> Versions]
        /\ tree' \in [Path -> Versions]
        /\ \A g \in Path \ {f} :
             head'[g] = head[g] /\ index'[g] = index[g] /\ tree'[g] = tree[g]
    BY <1>8 DEF Edit, Stage, MoveHead, IInv, TypeOK
  <2> QED
    BY <2>1, ChangeKeeps
<1>9. CASE UNCHANGED vars
  BY <1>9 DEF vars, world, scan, IInv, TypeOK, Pending, LookedAt, WrongContentOnly,
              ToldTruly, True, Truth, Entry, Status, Staged, Unstaged, Untracked
<1> QED
  BY <1>1, <1>2, <1>3, <1>4, <1>5, <1>6, <1>7, <1>8, <1>9 DEF Next

\* The invariant of the scans holds whatever is edited when.
THEOREM ScanInvariance == Spec => []IInv
BY InitIsOK, NextKeeps, PTL DEF Spec

\* Every variable of the scan keeps its type.
THEOREM ScanTypeCorrect == Spec => []TypeOK
<1>1. IInv => TypeOK
  BY DEF IInv
<1> QED
  BY <1>1, ScanInvariance, PTL

\* The reuse of stored entries is right for every file that was left alone
\* whenever its entry was made: an incremental scan of an idle checkout finds
\* what a full one finds.
THEOREM IdleFilesAreExactAlways == Spec => []IdleFilesAreExact
<1>1. IInv => IdleFilesAreExact
  BY DEF IInv, IdleFilesAreExact, LookedAt
<1> QED
  BY <1>1, ScanInvariance, PTL

\* An entry can only be wrong about the content of a clean file, however
\* disturbed the scans before were.
THEOREM DirtyFilesAreExactAlways == Spec => []DirtyFilesAreExact
<1>1. IInv => DirtyFilesAreExact
  BY DEF IInv, DirtyFilesAreExact, LookedAt, WrongContentOnly
<1> QED
  BY <1>1, ScanInvariance, PTL

\* A full scan of a checkout left alone during it is the checkout.
THEOREM RebaselineIsExactAlways == Spec => []RebaselineIsExact
<1>1. ASSUME IInv, pc = "done", full, changed = {}
      PROVE  live = Truth /\ basis = Status
  <2>1. \A f \in Path : live[f] = True(f) /\ ToldTruly(f)
    BY <1>1 DEF IInv, LookedAt
  <2>2. live = Truth
    BY <1>1, <2>1 DEF IInv, TypeOK, Files, Truth
  <2>3. /\ basis.head = head /\ basis.staged = Staged
        /\ basis.unstaged = Unstaged /\ basis.untracked = Untracked
    <3>1. basis.head = head
      BY <1>1, <2>1 DEF IInv, TypeOK, Bases, ToldTruly
    <3>2. /\ basis.staged \subseteq Path /\ basis.unstaged \subseteq Path
          /\ basis.untracked \subseteq Path
      BY <1>1 DEF IInv, TypeOK, Bases
    <3>3. Staged \subseteq Path /\ Unstaged \subseteq Path /\ Untracked \subseteq Path
      BY DEF Staged, Unstaged, Untracked
    <3> QED
      BY <3>1, <3>2, <3>3, <2>1 DEF ToldTruly
  <2>4. basis = Status
    BY <1>1, <2>3 DEF IInv, TypeOK, Bases, Status
  <2> QED
    BY <2>2, <2>4
<1>2. IInv => RebaselineIsExact
  BY <1>1 DEF RebaselineIsExact
<1> QED
  BY <1>2, ScanInvariance, PTL

\* The rules that name the change of a file miss none.
LEMMA OperationsMissNothing ==
  ASSUME NEW before \in Entries \union {NoEntry}, NEW after \in Entries \union {NoEntry}
  PROVE  FileOperation(before, after) = "none" <=> before = after
<1>1. CASE before = NoEntry \/ after = NoEntry
  BY <1>1 DEF FileOperation
<1>2. CASE before # NoEntry /\ after # NoEntry
  <2>1. before \in Entries /\ after \in Entries
    BY <1>2
  <2>2. FileOperation(before, after) = EntryOperation(before, after)
    BY <1>2 DEF FileOperation
  <2>3. /\ before.index = after.index /\ before.content = after.content
        /\ before.state = after.state
        => before = after
    BY <2>1 DEF Entries
  <2> QED
    BY <2>2, <2>3 DEF EntryOperation
<1> QED
  BY <1>1, <1>2

\* Every difference between two snapshots is told by their delta.
THEOREM DeltaTellsEveryChangeAlways == Spec => []DeltaTellsEveryChange
<1>1. ASSUME TypeOK
      PROVE  DeltaTellsEveryChange
  <2>1. /\ live \in Files /\ recorded.files \in Files
        /\ basis \in Bases /\ recorded.basis \in Bases
    BY <1>1 DEF TypeOK, Snapshots
  <2>2. ChangedFiles = {f \in Path : live[f] # recorded.files[f]}
    BY <2>1, OperationsMissNothing DEF ChangedFiles, Files
  <2>3. live # recorded.files => ChangedFiles # {}
    BY <2>1, <2>2 DEF Files
  <2>4. basis # recorded.basis => RepositoryChanges # {}
    BY <2>1 DEF Bases, RepositoryChanges
  <2> QED
    BY <2>2, <2>3, <2>4 DEF DeltaTellsEveryChange, Unchanged
<1> QED
  BY <1>1, ScanTypeCorrect, PTL
===============================================================================
