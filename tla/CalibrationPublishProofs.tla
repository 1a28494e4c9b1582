------------------------ MODULE CalibrationPublishProofs ------------------------
(***************************************************************************)
(* Proofs about CalibrationPublish, for any number of processes, imports,  *)
(* snapshots and contents.                                                 *)
(*                                                                         *)
(* From the lookup to its commit an import holds a lock that keeps the     *)
(* history from growing, and from the insert on no other import writes.    *)
(* What it has verified, of the snapshot and of the file, is therefore so  *)
(* when the row is committed, and rows and files stay afterwards.          *)
(***************************************************************************)
EXTENDS CalibrationPublish, TLAPS

LockOf(s) ==
  IF s = "lookup" THEN "shared"
  ELSE IF s \in {"link", "verify", "commit"} THEN "reserved"
  ELSE IF s = "exclusive" THEN "pending"
  ELSE "none"

\* In its transaction, and from the insert on.
InTransaction == {"lookup", "link", "verify", "commit", "exclusive"}

Inserting == InTransaction \ {"lookup"}

\* Its document has been compared with the snapshot.
Compared == InTransaction \union {"after", "begin", "reading"}

IdOf(i) == [document |-> i.document, snapshot |-> i.seen]

\* What holds of an import i at stage s, with the lock l.
ImportOK(s, l, i) ==
  /\ l = LockOf(s)
  /\ s # "idle" => i.number # 0
  /\ s \in Compared \union {"before"} => i.seen <= Len(recorded)
  /\ s \in Compared => recorded[i.seen] = i.document.tracked
  /\ s \in InTransaction => Len(recorded) = i.seen
  /\ s \in Inserting => rows[IdOf(i)] = Absent
  /\ s \in {"commit", "exclusive"} /\ IdOf(i) \notin removed => files[IdOf(i)] = i.number
  /\ s = "reading" \/ (s = "idle" /\ i.outcome = "ok") =>
       i.returned # Absent /\ i.returned = rows[IdOf(i)]

IInv ==
  /\ TypeOK
  /\ Len(recorded) <= MaxSnapshots
  /\ OneWriter
  /\ \A p \in Process : ImportOK(pc[p], lock[p], import[p])
  /\ ReferencesAreWhole
  /\ BoundToTheirSnapshots

\* What a step of p finds.
LEMMA Known ==
  ASSUME IInv, NEW p \in Process
  PROVE  /\ pc[p] \in Stages /\ lock[p] \in LockStates /\ import[p] \in Imports
         /\ Id(p) = IdOf(import[p]) /\ Id(p) \in Ids
         /\ rows[Id(p)] \in Digests \union {Absent}
         /\ files[Id(p)] \in Digests \union {Absent}
         /\ import[p].document \in Contents /\ import[p].seen \in 1 .. MaxSnapshots
         /\ import[p].number \in 0 .. MaxImports
         /\ import[p].returned \in Digests \union {Absent}
         /\ import[p].observed \in Contents /\ import[p].outcome \in Outcomes
         /\ Len(recorded) \in 1 .. MaxSnapshots
         /\ ImportOK(pc[p], lock[p], import[p])
<1>1. import[p] \in Imports
  BY DEF IInv, TypeOK
<1>2. Id(p) = IdOf(import[p]) /\ Id(p) \in Ids
  BY <1>1 DEF Id, IdOf, Imports, Ids
<1>3. Len(recorded) \in 1 .. MaxSnapshots
  <2>1. recorded \in Seq(Tracked) /\ recorded # <<>>
    BY DEF IInv, TypeOK
  <2>2. Len(recorded) \in Nat /\ Len(recorded) # 0
    BY <2>1
  <2> QED BY <2>2, BoundsAssumption DEF IInv
<1> QED BY <1>1, <1>2, <1>3 DEF IInv, TypeOK, LockTypeOK, Imports

\* A process that writes nothing but its own: where it is, what it knows, its lock.
LEMMA OwnStep ==
  ASSUME IInv, NEW p \in Process, NEW s \in Stages, NEW i \in Imports, NEW l \in LockStates,
         pc' = [pc EXCEPT ![p] = s], import' = [import EXCEPT ![p] = i],
         lock' = [lock EXCEPT ![p] = l],
         UNCHANGED <<worktree, recorded, rows, files, removed>>, imports' \in 0 .. MaxImports,
         ImportOK(s, l, i),
         l \in {"reserved", "pending"} => \A q \in Process \ {p} : ~Writing(q)
  PROVE  IInv'
<1>1. TypeOK'
  BY DEF IInv, TypeOK, LockTypeOK
<1>2. OneWriter'
  BY DEF IInv, TypeOK, LockTypeOK, OneWriter, Writing
<1>3. ASSUME NEW q \in Process
      PROVE  ImportOK(pc[q], lock[q], import[q])'
  <2>1. ImportOK(pc'[q], lock'[q], import'[q])
    BY DEF IInv, TypeOK, LockTypeOK
  <2> QED BY <2>1 DEF ImportOK
<1> QED BY <1>1, <1>2, <1>3 DEF IInv, ReferencesAreWhole, BoundToTheirSnapshots

\* The end of an import that is not told a reference.
LEMMA EndKeeps ==
  ASSUME IInv, NEW p \in Process, NEW result \in Outcomes, End(p, result),
         result = "ok" => /\ import[p].returned # Absent
                          /\ import[p].returned = rows[IdOf(import[p])]
  PROVE  IInv'
<1> DEFINE i == [import[p] EXCEPT !.outcome = result]
<1>1. i \in Imports /\ "idle" \in Stages /\ "none" \in LockStates
  BY Known DEF Imports, Stages, LockStates
<1>2. IdOf(i) = IdOf(import[p]) /\ i.returned = import[p].returned /\ i.outcome = result
  BY Known DEF IdOf, Imports
<1>3. /\ pc' = [pc EXCEPT ![p] = "idle"] /\ import' = [import EXCEPT ![p] = i]
      /\ lock' = [lock EXCEPT ![p] = "none"]
      /\ UNCHANGED <<worktree, recorded, rows, files, imports, removed>>
  BY DEF End, Goto, Release
<1> HIDE DEF i
<1>4. ImportOK("idle", "none", i)
  BY <1>2 DEF ImportOK, LockOf, Compared, InTransaction, Inserting
<1>5. imports' \in 0 .. MaxImports
  BY <1>3 DEF IInv, TypeOK
<1> QED BY <1>1, <1>3, <1>4, <1>5, OwnStep

(***************************************************************************)
(* The steps of an import.                                                 *)
(***************************************************************************)

\* A step that leaves the lock as it is, and only makes p know more.
LEMMA ObserveKeeps ==
  ASSUME IInv, NEW p \in Process,
         \/ Start(p) \/ ReadCurrent(p) \/ CaptureBefore(p) \/ CaptureAfter(p) \/ Verify(p)
  PROVE  IInv'
<1> DEFINE Steps(s, i) ==
             /\ pc' = [pc EXCEPT ![p] = s] /\ import' = [import EXCEPT ![p] = i]
             /\ UNCHANGED <<lock, worktree, recorded, rows, files, removed>>
             /\ imports' \in 0 .. MaxImports
             /\ s \in Stages /\ i \in Imports
             /\ ImportOK(s, lock[p], i)
<1>1. ASSUME NEW s, NEW i, Steps(s, i),
             lock[p] \in {"reserved", "pending"} => \A q \in Process \ {p} : ~Writing(q)
      PROVE  IInv'
  <2>1. lock' = [lock EXCEPT ![p] = lock[p]]
    BY <1>1 DEF IInv, TypeOK, LockTypeOK
  <2> QED BY <1>1, <2>1, Known, OwnStep
<1>2. lock[p] \in {"reserved", "pending"} => \A q \in Process \ {p} : ~Writing(q)
  BY DEF IInv, OneWriter, Writing
<1>3. imports \in 0 .. MaxImports
  BY DEF IInv, TypeOK
<1>4. CASE Start(p)
  <2>1. PICK d \in Contents :
          import' = [import EXCEPT ![p].document = d, ![p].number = imports + 1,
                                   ![p].returned = Absent, ![p].outcome = "none"]
    BY <1>4 DEF Start
  <2> DEFINE n == imports + 1
             i == [import[p] EXCEPT !.document = d, !.number = n,
                                    !.returned = Absent, !.outcome = "none"]
  <2>2. n \in 0 .. MaxImports /\ n # 0
    <3>1. imports < MaxImports
      BY <1>4 DEF Start
    <3> QED BY <1>3, <3>1, BoundsAssumption
  <2>3. i \in Imports /\ i.number = n
    <3> HIDE DEF n
    <3> QED BY <2>2, Known DEF Imports, Outcomes
  <2>4. import' = [import EXCEPT ![p] = i]
    BY <2>1
  <2>5. lock[p] = "none"
    BY <1>4, Known DEF Start, ImportOK, LockOf
  <2> HIDE DEF i, n
  <2>6. ImportOK("current", lock[p], i)
    BY <2>2, <2>3, <2>5 DEF ImportOK, LockOf, Compared, InTransaction, Inserting
  <2>7. imports' \in 0 .. MaxImports
    BY <1>4, <2>2 DEF Start, n
  <2>8. Steps("current", i)
    BY <1>4, <2>3, <2>4, <2>6, <2>7 DEF Start, Goto, Stages
  <2> HIDE DEF Steps
  <2> QED BY <1>1, <1>2, <2>8
<1>5. CASE ReadCurrent(p)
  <2> DEFINE n == Len(recorded)
             i == [import[p] EXCEPT !.seen = n]
  <2>1. n \in 1 .. MaxSnapshots
    BY Known
  <2>2. i \in Imports /\ i.seen = n /\ i.number = import[p].number
    <3> HIDE DEF n
    <3> QED BY <2>1, Known DEF Imports
  <2>3. import' = [import EXCEPT ![p] = i]
    BY <1>5 DEF ReadCurrent
  <2>4. lock[p] = "none" /\ import[p].number # 0
    BY <1>5, Known DEF ReadCurrent, ImportOK, LockOf
  <2> HIDE DEF i
  <2>5. ImportOK("before", lock[p], i)
    BY <2>1, <2>2, <2>4 DEF ImportOK, LockOf, Compared, InTransaction, Inserting
  <2>6. Steps("before", i)
    BY <1>3, <1>5, <2>2, <2>3, <2>5 DEF ReadCurrent, Goto, Stages
  <2> HIDE DEF Steps
  <2> QED BY <1>1, <1>2, <2>6
<1>6. CASE CaptureBefore(p)
  <2> DEFINE i == [import[p] EXCEPT !.observed = worktree]
  <2>1. worktree \in Contents
    BY DEF IInv, TypeOK
  <2>2. i \in Imports /\ i.seen = import[p].seen /\ i.number = import[p].number
        /\ i.document = import[p].document
    BY <2>1, Known DEF Imports
  <2>3. import' = [import EXCEPT ![p] = i]
    BY <1>6 DEF CaptureBefore
  <2>4. worktree.tracked = recorded[import[p].seen] /\ import[p].document = worktree
    BY <1>6 DEF CaptureBefore, Rejection
  <2>5. /\ lock[p] = "none" /\ import[p].number # 0
        /\ import[p].seen <= Len(recorded)
    BY <1>6, Known DEF CaptureBefore, ImportOK, LockOf
  <2> HIDE DEF i
  <2>6. ImportOK("after", lock[p], i)
    BY <2>2, <2>4, <2>5 DEF ImportOK, LockOf, Compared, InTransaction, Inserting
  <2>7. Steps("after", i)
    BY <1>3, <1>6, <2>2, <2>3, <2>6 DEF CaptureBefore, Goto, Stages
  <2> HIDE DEF Steps
  <2> QED BY <1>1, <1>2, <2>7
<1>7. CASE CaptureAfter(p) \/ Verify(p)
  <2> DEFINE s == IF pc[p] = "after" THEN "begin" ELSE "commit"
  <2>1. import' = [import EXCEPT ![p] = import[p]]
    BY <1>7 DEF CaptureAfter, Verify, IInv, TypeOK
  <2>2. ImportOK(s, lock[p], import[p])
    BY <1>7, Known DEF CaptureAfter, Verify, ImportOK, LockOf, Compared, InTransaction, Inserting
  <2>3. Steps(s, import[p])
    BY <1>3, <1>7, <2>1, <2>2, Known DEF CaptureAfter, Verify, Goto, Stages
  <2> HIDE DEF Steps
  <2> QED BY <1>1, <1>2, <2>3
<1> QED BY <1>4, <1>5, <1>6, <1>7

\* The steps that take a lock, and the answer by an earlier reference.
LEMMA LockingKeeps ==
  ASSUME IInv, NEW p \in Process,
         Begin(p) \/ Insert(p) \/ RequestCommit(p) \/ FindExisting(p)
  PROVE  IInv'
<1>1. UNCHANGED <<worktree, recorded, rows, files, imports, removed>> /\ imports' \in 0 .. MaxImports
  BY DEF Begin, Insert, RequestCommit, FindExisting, IInv, TypeOK
<1>2. CASE Begin(p)
  <2>1. /\ pc' = [pc EXCEPT ![p] = "lookup"] /\ import' = [import EXCEPT ![p] = import[p]]
        /\ lock' = [lock EXCEPT ![p] = "shared"]
    BY <1>2 DEF Begin, Goto, AcquireShared, IInv, TypeOK
  <2>2. ImportOK("lookup", "shared", import[p])
    BY <1>2, Known DEF Begin, StillCurrent, ImportOK, LockOf, Compared, InTransaction, Inserting
  <2> QED BY <1>1, <2>1, <2>2, Known, OwnStep DEF Stages, LockStates
<1>3. CASE Insert(p)
  <2>1. /\ pc' = [pc EXCEPT ![p] = "link"] /\ import' = [import EXCEPT ![p] = import[p]]
        /\ lock' = [lock EXCEPT ![p] = "reserved"]
        /\ \A q \in Process \ {p} : ~Writing(q)
    BY <1>3 DEF Insert, Goto, AcquireReserved, UpgradeBlocked, IInv, TypeOK
  <2>2. ImportOK("link", "reserved", import[p])
    BY <1>3, Known DEF Insert, ImportOK, LockOf, Compared, InTransaction, Inserting
  <2> QED BY <1>1, <2>1, <2>2, Known, OwnStep DEF Stages, LockStates
<1>4. CASE RequestCommit(p)
  <2>1. /\ pc' = [pc EXCEPT ![p] = "exclusive"] /\ import' = [import EXCEPT ![p] = import[p]]
        /\ lock' = [lock EXCEPT ![p] = "pending"] /\ lock[p] = "reserved"
    BY <1>4 DEF RequestCommit, Goto, AcquirePending, IInv, TypeOK
  <2>2. ImportOK("exclusive", "pending", import[p])
    BY <1>4, Known DEF RequestCommit, ImportOK, LockOf, Compared, InTransaction, Inserting
  <2>3. \A q \in Process \ {p} : ~Writing(q)
    BY <2>1 DEF IInv, OneWriter, Writing
  <2> QED BY <1>1, <2>1, <2>2, <2>3, Known, OwnStep DEF Stages, LockStates
<1>5. CASE FindExisting(p)
  <2> DEFINE digest == rows[Id(p)]
             i == [import[p] EXCEPT !.returned = digest]
  <2>1. digest \in Digests \union {Absent} /\ digest # Absent
    BY <1>5, Known DEF FindExisting
  <2>2. i \in Imports /\ i.returned = digest /\ i.number = import[p].number
        /\ i.seen = import[p].seen /\ i.document = import[p].document
    <3> HIDE DEF digest
    <3> QED BY <2>1, Known DEF Imports
  <2>3. IdOf(i) = Id(p)
    BY <2>2, Known DEF IdOf
  <2>4. /\ pc' = [pc EXCEPT ![p] = "reading"] /\ import' = [import EXCEPT ![p] = i]
        /\ lock' = [lock EXCEPT ![p] = "none"]
    BY <1>5 DEF FindExisting, Goto, Release
  <2> HIDE DEF i
  <2>5. ImportOK("reading", "none", i)
    BY <1>5, <2>1, <2>2, <2>3, Known
    DEF FindExisting, ImportOK, LockOf, Compared, InTransaction, Inserting
  <2> QED BY <1>1, <2>2, <2>4, <2>5, OwnStep DEF Stages, LockStates
<1> QED BY <1>2, <1>3, <1>4, <1>5

\* A file is linked while its writer is alone, and no row tells of it yet.
LEMMA LinkKeeps ==
  ASSUME IInv, NEW p \in Process, Link(p)
  PROVE  IInv'
<1> DEFINE digest == IF files[Id(p)] = Absent THEN import[p].number ELSE files[Id(p)]
<1>1. /\ pc[p] = "link" /\ pc' = [pc EXCEPT ![p] = "verify"]
      /\ files' = [files EXCEPT ![Id(p)] = digest]
      /\ UNCHANGED <<lock, worktree, recorded, rows, import, imports, removed>>
  BY DEF Link, Goto
<1>2. /\ lock[p] = "reserved" /\ rows[Id(p)] = Absent /\ Id(p) = IdOf(import[p])
      /\ digest \in Digests \union {Absent} /\ Id(p) \in Ids
  BY <1>1, Known DEF ImportOK, LockOf, InTransaction, Inserting, Digests, Absent
<1> HIDE DEF digest
<1>3. TypeOK'
  BY <1>1, <1>2 DEF IInv, TypeOK, LockTypeOK, Stages
<1>4. ASSUME NEW q \in Process
      PROVE  ImportOK(pc[q], lock[q], import[q])'
  <2>1. CASE q = p
    <3>1. pc'[q] = "verify"
      BY <1>1, <2>1 DEF IInv, TypeOK
    <3> QED BY <1>1, <2>1, <3>1, Known
            DEF ImportOK, LockOf, Compared, InTransaction, Inserting
  <2>2. CASE q # p
    <3>1. pc'[q] = pc[q] /\ lock'[q] = lock[q] /\ import'[q] = import[q]
      BY <1>1, <2>2 DEF IInv, TypeOK
    <3>2. pc[q] \notin {"commit", "exclusive"}
      <4>1. ~Writing(q)
        BY <1>2, <2>2 DEF IInv, OneWriter, Writing
      <4> QED BY <4>1, Known DEF ImportOK, LockOf, Writing
    <3> QED BY <1>1, <3>1, <3>2, Known DEF ImportOK
  <2> QED BY <2>1, <2>2
<1>5. ReferencesAreWhole'
  BY <1>1, <1>2 DEF IInv, TypeOK, ReferencesAreWhole
<1> QED BY <1>1, <1>3, <1>4, <1>5 DEF IInv, OneWriter, Writing, BoundToTheirSnapshots

\* The commit finds all other locks gone, and what was verified as it was.
LEMMA CommitKeeps ==
  ASSUME IInv, NEW p \in Process, Commit(p)
  PROVE  IInv'
<1> DEFINE number == import[p].number
           i == [import[p] EXCEPT !.returned = number]
<1>1. /\ pc[p] = "exclusive" /\ pc' = [pc EXCEPT ![p] = "reading"]
      /\ rows' = [rows EXCEPT ![Id(p)] = number]
      /\ import' = [import EXCEPT ![p] = i] /\ lock' = [lock EXCEPT ![p] = "none"]
      /\ UNCHANGED <<worktree, recorded, files, imports, removed>>
      /\ \A q \in Process \ {p} : lock[q] = "none"
  BY DEF Commit, Goto, Release, ExclusiveBlocked
<1>2. /\ number # 0 /\ number \in Digests /\ Id(p) = IdOf(import[p]) /\ Id(p) \in Ids
      /\ rows[Id(p)] = Absent /\ Len(recorded) = import[p].seen
      /\ recorded[import[p].seen] = import[p].document.tracked
      /\ Id(p) \notin removed => files[Id(p)] = number
  <2>1. number \in 0 .. MaxImports /\ number # 0
    BY <1>1, Known DEF ImportOK
  <2>2. number \in Digests
    BY <2>1, BoundsAssumption DEF Digests
  <2> QED BY <1>1, <2>1, <2>2, Known DEF ImportOK, Compared, InTransaction, Inserting
<1>3. Id(p).snapshot = import[p].seen /\ Id(p).document = import[p].document
  BY DEF Id
<1> HIDE DEF number
<1>4. i \in Imports /\ i.returned = number /\ i.number = number /\ IdOf(i) = Id(p)
      /\ i.seen = import[p].seen /\ i.document = import[p].document
  BY <1>2, Known DEF Imports, IdOf, number
<1> HIDE DEF i
<1>5. TypeOK'
  BY <1>1, <1>2, <1>4 DEF IInv, TypeOK, LockTypeOK, Stages, LockStates
<1>6. ASSUME NEW q \in Process
      PROVE  ImportOK(pc[q], lock[q], import[q])'
  <2>1. rows'[Id(p)] = number
    BY <1>1, <1>2 DEF IInv, TypeOK
  <2>2. CASE q = p
    <3>1. pc'[q] = "reading" /\ lock'[q] = "none" /\ import'[q] = i
      BY <1>1, <2>2 DEF IInv, TypeOK, LockTypeOK
    <3> QED BY <1>1, <1>2, <1>4, <2>1, <3>1
            DEF ImportOK, LockOf, Compared, InTransaction, Inserting, Absent
  <2>3. CASE q # p
    <3>1. /\ pc'[q] = pc[q] /\ lock'[q] = lock[q] /\ import'[q] = import[q]
          /\ lock[q] = "none"
      BY <1>1, <2>3 DEF IInv, TypeOK, LockTypeOK
    <3>2. pc[q] \notin InTransaction
      BY <3>1, Known DEF ImportOK, LockOf, InTransaction
    <3>3. \A id : rows[id] # Absent /\ id \in Ids => rows'[id] = rows[id]
      BY <1>1, <1>2 DEF IInv, TypeOK
    <3>4. IdOf(import[q]) \in Ids
      BY Known
    <3> QED BY <1>1, <3>1, <3>2, <3>3, <3>4, Known DEF ImportOK, Inserting, InTransaction
  <2> QED BY <2>2, <2>3
<1>7. ReferencesAreWhole'
  BY <1>1, <1>2 DEF IInv, TypeOK, ReferencesAreWhole
<1>8. BoundToTheirSnapshots'
  BY <1>1, <1>2, <1>3, Known DEF IInv, TypeOK, BoundToTheirSnapshots
<1>9. OneWriter'
  BY <1>1 DEF IInv, TypeOK, LockTypeOK, OneWriter, Writing
<1> QED BY <1>1, <1>5, <1>6, <1>7, <1>8, <1>9 DEF IInv

\* The ends of an import: refused, told a reference, given up or dead.
LEMMA EndingKeeps ==
  ASSUME IInv, NEW p \in Process,
         \/ RejectCapture(p) \/ RejectChange(p) \/ RejectBegin(p) \/ FindDamaged(p)
         \/ InsertRefused(p) \/ RejectFile(p) \/ ReadBack(p) \/ BusyTimeout(p) \/ Crash(p)
  PROVE  IInv'
<1>1. CASE ReadBack(p)
  <2>1. PICK result \in {"ok", "damaged"} : End(p, result)
    BY <1>1 DEF ReadBack
  <2>2. import[p].returned # Absent /\ import[p].returned = rows[IdOf(import[p])]
    BY <1>1, Known DEF ReadBack, ImportOK
  <2> QED BY <2>1, <2>2, EndKeeps DEF Outcomes
<1>2. CASE ~ReadBack(p)
  <2>1. PICK result \in Outcomes \ {"ok"} : End(p, result)
    <3>1. CASE RejectCapture(p)
      <4>1. Rejection(p, worktree) \in Outcomes \ {"ok"}
        BY DEF Rejection, Outcomes
      <4> QED BY <3>1, <4>1 DEF RejectCapture
    <3>2. CASE RejectFile(p)
      BY <3>2 DEF RejectFile, Outcomes
    <3> QED BY <1>2, <3>1, <3>2
            DEF RejectChange, RejectBegin, FindDamaged, InsertRefused, BusyTimeout, Crash, Outcomes
  <2> QED BY <2>1, EndKeeps
<1> QED BY <1>1, <1>2

(***************************************************************************)
(* The world.                                                              *)
(***************************************************************************)

\* The history only grows while nobody is in a transaction; a removed artifact is known
\* to be.
LEMMA WorldKeeps ==
  ASSUME IInv, World
  PROVE  IInv'
<1>1. ASSUME NEW w \in Contents, Edit(w)
      PROVE  IInv'
  <2>1. worktree' \in Contents /\ UNCHANGED <<lock, recorded, rows, files, pc, import, imports, removed>>
    BY <1>1 DEF Edit
  <2> QED BY <2>1 DEF IInv, TypeOK, LockTypeOK, OneWriter, Writing, ImportOK,
                      ReferencesAreWhole, BoundToTheirSnapshots
<1>2. ASSUME NEW t \in Tracked, Record(t)
      PROVE  IInv'
  <2>1. /\ recorded' = Append(recorded, t) /\ Len(recorded) < MaxSnapshots
        /\ \A q \in Process : lock[q] = "none"
        /\ UNCHANGED <<lock, worktree, rows, files, pc, import, imports, removed>>
    BY <1>2 DEF Record
  <2>2. recorded \in Seq(Tracked) /\ Len(recorded) \in Nat
    BY DEF IInv, TypeOK
  <2>3. /\ recorded' \in Seq(Tracked) /\ recorded' # <<>>
        /\ Len(recorded') = Len(recorded) + 1 /\ Len(recorded') <= MaxSnapshots
        /\ \A n \in 1 .. Len(recorded) : recorded'[n] = recorded[n]
    BY <2>1, <2>2, BoundsAssumption
  <2>4. ASSUME NEW q \in Process
        PROVE  ImportOK(pc[q], lock[q], import[q])'
    <3>1. pc[q] \notin InTransaction
      BY <2>1, Known DEF ImportOK, LockOf, InTransaction
    <3>2. import[q].seen \in 1 .. MaxSnapshots
      BY Known
    <3>3. pc[q] \in Compared \union {"before"} =>
            import[q].seen <= Len(recorded') /\ import[q].seen \in 1 .. Len(recorded)
      BY <2>2, <2>3, <3>2, Known, BoundsAssumption DEF ImportOK
    <3> QED BY <2>1, <2>3, <3>1, <3>3, Known DEF ImportOK
  <2>5. BoundToTheirSnapshots'
    <3> SUFFICES ASSUME NEW id \in Ids, rows'[id] # Absent
                 PROVE  /\ id.snapshot <= Len(recorded')
                        /\ recorded'[id.snapshot] = id.document.tracked
      BY DEF BoundToTheirSnapshots
    <3>1. /\ id.snapshot \in 1 .. MaxSnapshots /\ id.snapshot <= Len(recorded)
          /\ recorded[id.snapshot] = id.document.tracked
      BY <2>1 DEF IInv, BoundToTheirSnapshots, Ids
    <3>2. id.snapshot \in 1 .. Len(recorded)
      BY <2>2, <3>1, BoundsAssumption
    <3> QED BY <2>2, <2>3, <3>1, <3>2
  <2>6. TypeOK'
    BY <2>1, <2>3 DEF IInv, TypeOK, LockTypeOK
  <2> QED BY <2>1, <2>3, <2>4, <2>5, <2>6 DEF IInv, OneWriter, Writing, ReferencesAreWhole
<1>3. ASSUME NEW id \in Ids, Remove(id)
      PROVE  IInv'
  <2>1. /\ files' = [files EXCEPT ![id] = Absent] /\ removed' = removed \union {id}
        /\ UNCHANGED <<lock, worktree, recorded, rows, pc, import, imports>>
    BY <1>3 DEF Remove
  <2>2. TypeOK'
    BY <2>1 DEF IInv, TypeOK, LockTypeOK
  <2>3. ASSUME NEW other \in Ids, other \notin removed'
        PROVE  other \notin removed /\ files'[other] = files[other]
    BY <2>1, <2>3 DEF IInv, TypeOK
  <2>4. ASSUME NEW q \in Process
        PROVE  ImportOK(pc[q], lock[q], import[q])'
    <3>1. IdOf(import[q]) \in Ids
      BY Known
    <3> QED BY <2>1, <2>3, <3>1, Known DEF ImportOK
  <2>5. ReferencesAreWhole'
    BY <2>1, <2>3 DEF IInv, ReferencesAreWhole
  <2> QED BY <2>1, <2>2, <2>4, <2>5 DEF IInv, OneWriter, Writing, BoundToTheirSnapshots
<1> QED BY <1>1, <1>2, <1>3 DEF World

(***************************************************************************)
(* The inductive invariant.                                                *)
(***************************************************************************)

\* At first there is one snapshot, no row and no file.
LEMMA InitIsOK == Init => IInv
<1> SUFFICES ASSUME Init PROVE IInv
  OBVIOUS
<1>1. PICK t \in Tracked : recorded = <<t>>
  BY DEF Init
<1>2. recorded \in Seq(Tracked) /\ recorded # <<>> /\ Len(recorded) = 1
  BY <1>1
<1>3. \A p \in Process : /\ import[p] \in Imports /\ import[p].outcome = "none"
                         /\ pc[p] = "idle" /\ lock[p] = "none"
  BY BoundsAssumption DEF Init, LockInit, Imports, Outcomes
<1>4. TypeOK
  BY <1>2, <1>3, BoundsAssumption
  DEF Init, LockInit, TypeOK, LockTypeOK, LockStates, Stages, Absent
<1>5. \A p \in Process : ImportOK(pc[p], lock[p], import[p])
  BY <1>3 DEF ImportOK, LockOf, Compared, InTransaction, Inserting
<1>6. OneWriter /\ ReferencesAreWhole /\ BoundToTheirSnapshots
  BY <1>3 DEF Init, OneWriter, Writing, ReferencesAreWhole, BoundToTheirSnapshots
<1> QED BY <1>2, <1>4, <1>5, <1>6, BoundsAssumption DEF IInv

\* Every step keeps the invariant.
LEMMA NextKeeps == IInv /\ [Next]_vars => IInv'
<1> SUFFICES ASSUME IInv, [Next]_vars PROVE IInv'
  OBVIOUS
<1>1. ASSUME NEW p \in Process, Start(p) \/ Step(p) \/ BusyTimeout(p) \/ Crash(p)
      PROVE  IInv'
  BY <1>1, ObserveKeeps, LockingKeeps, LinkKeeps, CommitKeeps, EndingKeeps DEF Step
<1>2. CASE World
  BY <1>2, WorldKeeps
<1>3. CASE UNCHANGED vars
  BY <1>3 DEF vars, IInv, TypeOK, LockTypeOK, OneWriter, Writing, ImportOK,
              ReferencesAreWhole, BoundToTheirSnapshots
<1> QED BY <1>1, <1>2, <1>3 DEF Next

\* The inductive invariant holds in every state.
THEOREM CalibrationInvariance == Spec => []IInv
BY InitIsOK, NextKeeps, PTL DEF Spec

\* Every variable of the imports keeps its type (storage/reporting.go:207).
THEOREM CalibrationTypeCorrect == Spec => []TypeOK
<1>1. IInv => TypeOK
  BY DEF IInv
<1> QED BY <1>1, CalibrationInvariance, PTL

\* A committed reference has its artifact, unless somebody removed it
\* (storage/reporting.go:272).
THEOREM ReferencesAreWholeAlways == Spec => []ReferencesAreWhole
<1>1. IInv => ReferencesAreWhole
  BY DEF IInv
<1> QED BY <1>1, CalibrationInvariance, PTL

\* The evidence of a committed reference holds the tracked content of its snapshot.
THEOREM BoundToTheirSnapshotsAlways == Spec => []BoundToTheirSnapshots
<1>1. IInv => BoundToTheirSnapshots
  BY DEF IInv
<1> QED BY <1>1, CalibrationInvariance, PTL

\* An import that succeeds is told the committed reference.
THEOREM ReimportReturnsOriginalAlways == Spec => []ReimportReturnsOriginal
<1>1. IInv => ReimportReturnsOriginal
  BY Known DEF ReimportReturnsOriginal, ImportOK
<1> QED BY <1>1, CalibrationInvariance, PTL

\* A commit that waits is kept waiting by lookups, and these go on.
LEMMA LookupsGoOn ==
  ASSUME IInv, NEW p \in Process, pc[p] = "exclusive", ExclusiveBlocked(p)
  PROVE  \E q \in Process : lock[q] # "none" /\ pc[q] # "idle" /\ ~Waiting(q)
<1>1. PICK q \in Process \ {p} : lock[q] # "none"
  BY DEF ExclusiveBlocked
<1>2. Writing(p)
  BY DEF IInv, ImportOK, LockOf, Writing
<1>3. ~Writing(q) /\ lock[q] = LockOf(pc[q])
  BY <1>1, <1>2 DEF IInv, OneWriter, ImportOK
<1>4. pc[q] = "lookup"
  BY <1>1, <1>3 DEF LockOf, Writing
<1> QED BY <1>1, <1>4 DEF Waiting

\* Any number of imports never wait in a circle.
THEOREM ImportsDoNotWaitInACircle == Spec => []SomeHolderRuns
<1>1. ASSUME IInv, NEW p \in Process, Waiting(p)
      PROVE  \E q \in Process : lock[q] # "none" /\ pc[q] # "idle" /\ ~Waiting(q)
  <2>1. CASE pc[p] = "exclusive"
    BY <1>1, <2>1, LookupsGoOn DEF Waiting
  <2>2. CASE ReadBlocked
    <3>1. PICK q \in Process : lock[q] = "pending"
      BY <2>2 DEF ReadBlocked
    <3>2. pc[q] = "exclusive"
      BY <1>1, <3>1 DEF IInv, ImportOK, LockOf
    <3>3. CASE ExclusiveBlocked(q)
      BY <1>1, <3>2, <3>3, LookupsGoOn
    <3>4. CASE ~ExclusiveBlocked(q)
      BY <3>1, <3>2, <3>4 DEF Waiting
    <3> QED BY <3>3, <3>4
  <2> QED BY <1>1, <2>1, <2>2 DEF Waiting
<1>2. IInv => SomeHolderRuns
  BY <1>1 DEF SomeHolderRuns
<1> QED BY <1>2, CalibrationInvariance, PTL

\* A row and a file are written once: a step that changes a row adds it to the current
\* snapshot, and one that changes a file adds or removes it.
LEMMA WritesAreFirst ==
  ASSUME IInv, [Next]_vars, NEW id \in Ids
  PROVE  /\ rows'[id] # rows[id] => rows[id] = Absent /\ id.snapshot = Len(recorded)
         /\ files'[id] # files[id] => Absent \in {files[id], files'[id]}
<1>1. rows \in [Ids -> Digests \union {Absent}] /\ files \in [Ids -> Digests \union {Absent}]
  BY DEF IInv, TypeOK
<1>2. ASSUME NEW p \in Process, Commit(p)
      PROVE  UNCHANGED files /\ (rows'[id] # rows[id] =>
                                   rows[id] = Absent /\ id.snapshot = Len(recorded))
  <2>1. /\ rows' = [rows EXCEPT ![Id(p)] = import[p].number] /\ UNCHANGED files
        /\ pc[p] = "exclusive"
    BY <1>2 DEF Commit
  <2>2. rows[Id(p)] = Absent /\ Id(p).snapshot = Len(recorded)
    BY <2>1, Known DEF ImportOK, InTransaction, Inserting, Id
  <2> QED BY <1>1, <2>1, <2>2
<1>3. ASSUME NEW p \in Process, Link(p)
      PROVE  UNCHANGED rows /\ (files'[id] # files[id] => files[id] = Absent)
  BY <1>1, <1>3 DEF Link
<1>4. ASSUME NEW p \in Process, Start(p) \/ Step(p) \/ BusyTimeout(p) \/ Crash(p),
             ~Commit(p), ~Link(p)
      PROVE  UNCHANGED <<rows, files>>
  BY <1>4 DEF Step, Start, ReadCurrent, CaptureBefore, RejectCapture, CaptureAfter,
              RejectChange, Begin, RejectBegin, FindExisting, FindDamaged, Insert,
              InsertRefused, Verify, RejectFile, RequestCommit, ReadBack, BusyTimeout,
              Crash, End
<1>5. ASSUME World
      PROVE  UNCHANGED rows /\ (files'[id] # files[id] => files'[id] = Absent)
  BY <1>1, <1>5 DEF World, Edit, Record, Remove
<1>6. CASE UNCHANGED vars
  BY <1>6 DEF vars
<1> QED BY <1>2, <1>3, <1>4, <1>5, <1>6 DEF Next

\* A reference is added to the snapshot that is current when it is committed, and is
\* never changed; an artifact is only ever removed (storage/reporting.go:207).
THEOREM PublishedOnceAlways == Spec => PublishedOnce
<1> DEFINE Once == \A id \in Ids :
             /\ rows'[id] # rows[id] => rows[id] = Absent /\ id.snapshot = Len(recorded)
             /\ files'[id] # files[id] => Absent \in {files[id], files'[id]}
<1>1. IInv /\ [Next]_vars => [Once]_<<rows, files>>
  BY WritesAreFirst
<1>2. PublishedOnce <=> [][Once]_<<rows, files>>
  BY DEF PublishedOnce
<1> HIDE DEF Once
<1> QED BY <1>1, <1>2, CalibrationInvariance, PTL DEF Spec
===============================================================================
