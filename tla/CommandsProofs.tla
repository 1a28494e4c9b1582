---------------------------- MODULE CommandsProofs ----------------------------
(***************************************************************************)
(* Theorems about any number of racing commands, in two parts.             *)
(*                                                                         *)
(* The first is about the tables: what each state transition makes of a    *)
(* healthy database.  WellFormed is their invariant: it adds to the        *)
(* properties of StateTables what makes them inductive, namely that the    *)
(* newest snapshot belongs to the newest epoch, that positions grow along  *)
(* each epoch and that deltas are stored in the order of the snapshots     *)
(* they lead to.  Every transition applied to what it has verified keeps   *)
(* it, keeps every row that is there, and leaves a run that names the      *)
(* snapshot with the scanned state.                                        *)
(*                                                                         *)
(* The second is about the processes.  The inductive invariant             *)
(* IInv ties the stage of each process to the lock it holds, what it read  *)
(* to rows that are in the database, and what it has verified or staged to *)
(* the database as it is now.  A commit is the only step that can disturb  *)
(* another process, and it needs every other lock to be gone, so whoever   *)
(* relies on a verification cannot be interrupted by one.                  *)
(***************************************************************************)
EXTENDS Commands, SequenceTheorems, TLAPS

(***************************************************************************)
(* The tables.                                                             *)
(***************************************************************************)
\* The last snapshot recorded belongs to the last epoch opened.
NewestSnapshotIsCurrent(d) ==
  IF d.repositories = 1
  THEN /\ Len(d.snapshots) > 0
       /\ d.snapshots[Len(d.snapshots)].epoch = Len(d.epochs)
  ELSE d.snapshots = <<>>

\* Positions are allocated in the order of the snapshots of an epoch.
Numbered(d) ==
  /\ \A s \in DOMAIN d.snapshots : d.snapshots[s].epochSequence \in 1 .. s
  /\ \A s, t \in DOMAIN d.snapshots :
       s < t =>
         /\ d.snapshots[s].epoch <= d.snapshots[t].epoch
         /\ d.snapshots[s].epoch = d.snapshots[t].epoch =>
              d.snapshots[s].epochSequence < d.snapshots[t].epochSequence

\* No two deltas lead to the same snapshot.
DeltasInOrder(d) ==
  \A i, j \in DOMAIN d.deltas : i < j => d.deltas[i].to < d.deltas[j].to

WellFormed(d) ==
  /\ d \in Database
  /\ NewestEpochIsActive(d)
  /\ NewestSnapshotIsCurrent(d)
  /\ SnapshotsFormOneLine(d)
  /\ Numbered(d)
  /\ DeltasJoinParents(d)
  /\ DeltasInOrder(d)

\* What Append does, in the form the provers need.
LEMMA AppendFacts ==
  ASSUME NEW S, NEW q \in Seq(S), NEW x \in S
  PROVE  /\ Append(q, x) \in Seq(S)
         /\ Len(Append(q, x)) = Len(q) + 1
         /\ DOMAIN Append(q, x) = 1 .. Len(q) + 1
         /\ \A i \in DOMAIN q : Append(q, x)[i] = q[i]
         /\ Append(q, x)[Len(q) + 1] = x
  OBVIOUS

\* The domain and the elements of a sequence.
LEMMA SequenceFacts ==
  ASSUME NEW S, NEW q \in Seq(S)
  PROVE  /\ Len(q) \in Nat
         /\ DOMAIN q = 1 .. Len(q)
         /\ \A i \in 1 .. Len(q) : q[i] \in S
  OBVIOUS

\* The typed columns of the snapshot rows.
LEMMA SnapshotRows ==
  ASSUME NEW d \in Database
  PROVE  /\ d.snapshots \in Seq(Snapshot)
         /\ Len(d.snapshots) \in Nat
         /\ DOMAIN d.snapshots = 1 .. Len(d.snapshots)
         /\ \A s \in 1 .. Len(d.snapshots) :
              /\ d.snapshots[s] \in Snapshot
              /\ d.snapshots[s].epoch \in Nat
              /\ d.snapshots[s].epochSequence \in Nat
              /\ d.snapshots[s].parent \in Nat
              /\ d.snapshots[s].scan \in Scans
<1>1. d.snapshots \in Seq(Snapshot)
  BY DEF Database
<1>2. /\ Len(d.snapshots) \in Nat
      /\ DOMAIN d.snapshots = 1 .. Len(d.snapshots)
      /\ \A i \in 1 .. Len(d.snapshots) : d.snapshots[i] \in Snapshot
  BY <1>1, SequenceFacts
<1> QED
  BY <1>1, <1>2 DEF Snapshot

\* The typed columns of the delta rows.
LEMMA DeltaRows ==
  ASSUME NEW d \in Database
  PROVE  /\ d.deltas \in Seq(Delta)
         /\ Len(d.deltas) \in Nat
         /\ DOMAIN d.deltas = 1 .. Len(d.deltas)
         /\ \A i \in 1 .. Len(d.deltas) :
              /\ d.deltas[i] \in Delta
              /\ d.deltas[i].from \in Nat
              /\ d.deltas[i].to \in Nat
<1>1. d.deltas \in Seq(Delta)
  BY DEF Database
<1>2. /\ Len(d.deltas) \in Nat
      /\ DOMAIN d.deltas = 1 .. Len(d.deltas)
      /\ \A i \in 1 .. Len(d.deltas) : d.deltas[i] \in Delta
  BY <1>1, SequenceFacts
<1> QED
  BY <1>1, <1>2 DEF Delta

\* A well-formed database violates none of the schema's uniqueness
\* constraints.
LEMMA WellFormedIsLegal ==
  ASSUME NEW d, WellFormed(d)
  PROVE  ConstraintsHold(d)
<1>1. OneActiveEpochIndex(d)
  BY DEF WellFormed, NewestEpochIsActive, OneActiveEpochIndex, ActiveEpochs, Database
<1>2. UniqueEpochSequence(d)
  <2> SUFFICES ASSUME NEW s \in DOMAIN d.snapshots, NEW t \in DOMAIN d.snapshots,
                      d.snapshots[s].epoch = d.snapshots[t].epoch,
                      d.snapshots[s].epochSequence = d.snapshots[t].epochSequence,
                      s # t
               PROVE  FALSE
    BY DEF UniqueEpochSequence
  <2>1. s < t \/ t < s
    BY SnapshotRows DEF WellFormed
  <2> QED
    BY <2>1, SnapshotRows DEF WellFormed, Numbered
<1>3. UniqueDelta(d)
  <2> SUFFICES ASSUME NEW i \in DOMAIN d.deltas, NEW j \in DOMAIN d.deltas,
                      d.deltas[i].to = d.deltas[j].to,
                      i # j
               PROVE  FALSE
    BY DEF UniqueDelta
  <2>1. i < j \/ j < i
    BY DeltaRows DEF WellFormed
  <2> QED
    BY <2>1, DeltaRows DEF WellFormed, DeltasInOrder
<1> QED
  BY <1>1, <1>2, <1>3 DEF ConstraintsHold

\* The current snapshot, which verifyCurrentSnapshot looks for, is simply the
\* last one recorded, and its epoch the last one opened.
LEMMA CurrentIsNewest ==
  ASSUME NEW d, WellFormed(d), d.repositories = 1
  PROVE  /\ ActiveEpoch(d) = Len(d.epochs)
         /\ CurrentSnapshot(d) = Len(d.snapshots)
         /\ Len(d.snapshots) \in DOMAIN d.snapshots
         /\ d.snapshots[Len(d.snapshots)].epoch = Len(d.epochs)
<1> DEFINE n == Len(d.snapshots)
           e == Len(d.epochs)
           Latest(s) == \A t \in InEpoch(d, e) :
                          d.snapshots[t].epochSequence <= d.snapshots[s].epochSequence
<1>1. ActiveEpochs(d) = {e}
  BY DEF WellFormed, NewestEpochIsActive
<1>2. ActiveEpoch(d) = e
  BY <1>1 DEF ActiveEpoch
<1>3. n \in DOMAIN d.snapshots /\ d.snapshots[n].epoch = e
  BY SnapshotRows DEF WellFormed, NewestSnapshotIsCurrent
<1>4. n \in InEpoch(d, e)
  BY <1>3 DEF InEpoch
<1>5. ASSUME NEW t \in InEpoch(d, e)
      PROVE  d.snapshots[t].epochSequence <= d.snapshots[n].epochSequence /\
             (t # n => ~ (d.snapshots[n].epochSequence <= d.snapshots[t].epochSequence))
  <2>1. /\ t \in 1 .. n
        /\ d.snapshots[t].epoch = e
        /\ d.snapshots[t].epochSequence \in Nat
        /\ d.snapshots[n].epochSequence \in Nat
    BY <1>3, SnapshotRows DEF WellFormed, InEpoch
  <2>2. CASE t = n
    BY <2>1, <2>2
  <2>3. CASE t # n
    <3>1. t < n /\ n \in Nat
      BY <2>1, <2>3, SnapshotRows DEF WellFormed
    <3>2. d.snapshots[t].epochSequence < d.snapshots[n].epochSequence
      BY <1>3, <2>1, <3>1 DEF WellFormed, Numbered
    <3> QED
      BY <2>1, <3>2
  <2> QED
    BY <2>2, <2>3
<1>6. LatestIn(d, e) = n
  <2>1. Latest(n)
    BY <1>5
  <2>2. \A s \in InEpoch(d, e) : Latest(s) => s = n
    BY <1>4, <1>5
  <2> HIDE DEF n, Latest
  <2>3. (CHOOSE s \in InEpoch(d, e) : Latest(s)) = n
    BY <1>4, <2>1, <2>2
  <2> QED
    BY <2>3 DEF LatestIn, Latest
<1> QED
  BY <1>2, <1>3, <1>6 DEF CurrentSnapshot

\* Every snapshot belongs to an epoch that exists.
LEMMA SnapshotsOfKnownEpochs ==
  ASSUME NEW d, WellFormed(d)
  PROVE  \A s \in DOMAIN d.snapshots : d.snapshots[s].epoch <= Len(d.epochs)
<1> SUFFICES ASSUME NEW s \in DOMAIN d.snapshots
             PROVE  d.snapshots[s].epoch <= Len(d.epochs)
  OBVIOUS
<1> DEFINE n == Len(d.snapshots)
<1>1. /\ n \in Nat /\ s \in 1 .. n
      /\ d.snapshots[s].epoch \in Nat /\ d.snapshots[n].epoch \in Nat
  BY SnapshotRows DEF WellFormed
<1>2. d.snapshots[n].epoch = Len(d.epochs)
  BY <1>1 DEF WellFormed, NewestSnapshotIsCurrent
<1>3. CASE s = n
  BY <1>1, <1>2, <1>3
<1>4. CASE s < n
  BY <1>1, <1>2, <1>4, SnapshotRows DEF WellFormed, Numbered
<1> QED
  BY <1>1, <1>3, <1>4

\* The first snapshot of an epoch gets position 1.
LEMMA FirstOfItsEpoch ==
  ASSUME NEW d \in Database, NEW e,
         \A s \in DOMAIN d.snapshots : d.snapshots[s].epoch # e
  PROVE  NextEpochSequence(d, e) = 1
<1>1. InEpoch(d, e) = {}
  BY DEF InEpoch
<1>2. 1 \in 1 .. Len(d.snapshots) + 1
  BY SnapshotRows
<1> DEFINE IsNext(n) ==
      /\ \A s \in InEpoch(d, e) : d.snapshots[s].epochSequence < n
      /\ n = 1 \/ \E s \in InEpoch(d, e) : d.snapshots[s].epochSequence = n - 1
<1>3. IsNext(1) /\ \A n \in 1 .. Len(d.snapshots) + 1 : IsNext(n) => n = 1
  BY <1>1
<1> HIDE DEF IsNext
<1>4. (CHOOSE n \in 1 .. Len(d.snapshots) + 1 : IsNext(n)) = 1
  BY <1>2, <1>3
<1> QED
  BY <1>4 DEF NextEpochSequence, IsNext

\* A refresh gets the position after the current snapshot.
LEMMA NextOfNewestEpoch ==
  ASSUME NEW d, WellFormed(d), d.repositories = 1
  PROVE  NextEpochSequence(d, Len(d.epochs)) =
           d.snapshots[Len(d.snapshots)].epochSequence + 1
<1> DEFINE n == Len(d.snapshots)
           e == Len(d.epochs)
           last == d.snapshots[n].epochSequence
           IsNext(k) ==
             /\ \A s \in InEpoch(d, e) : d.snapshots[s].epochSequence < k
             /\ k = 1 \/ \E s \in InEpoch(d, e) : d.snapshots[s].epochSequence = k - 1
<1>1. n \in 1 .. n /\ n \in Nat /\ d.snapshots[n].epoch = e /\ DOMAIN d.snapshots = 1 .. n
  BY CurrentIsNewest, SnapshotRows DEF WellFormed
<1>2. last \in 1 .. n
  BY <1>1 DEF WellFormed, Numbered
<1>3. n \in InEpoch(d, e)
  BY <1>1 DEF InEpoch
<1>4. ASSUME NEW s \in InEpoch(d, e)
      PROVE  d.snapshots[s].epochSequence \in Nat /\ d.snapshots[s].epochSequence <= last
  <2>1. s \in 1 .. n /\ d.snapshots[s].epoch = e /\ d.snapshots[s].epochSequence \in Nat
    BY <1>1, <1>4, SnapshotRows DEF InEpoch, WellFormed
  <2>2. CASE s = n
    BY <1>2, <2>1, <2>2
  <2>3. CASE s < n
    <3>1. d.snapshots[s].epochSequence < last
      BY <1>1, <2>1, <2>3 DEF WellFormed, Numbered
    <3> QED
      BY <1>2, <2>1, <3>1
  <2> QED
    BY <1>1, <2>1, <2>2, <2>3
<1>5. IsNext(last + 1)
  BY <1>2, <1>3, <1>4
<1>6. ASSUME NEW k \in 1 .. n + 1, IsNext(k)
      PROVE  k = last + 1
  <2>1. last < k
    BY <1>3, <1>6
  <2>2. PICK s \in InEpoch(d, e) : d.snapshots[s].epochSequence = k - 1
    BY <1>2, <1>6, <2>1
  <2> QED
    BY <1>2, <1>4, <2>1, <2>2
<1>7. last + 1 \in 1 .. n + 1
  BY <1>1, <1>2
<1> HIDE DEF IsNext, last, n, e
<1>8. (CHOOSE k \in 1 .. n + 1 : IsNext(k)) = last + 1
  BY <1>5, <1>6, <1>7
<1> QED
  BY <1>8 DEF NextEpochSequence, IsNext, last, n, e

\* Being well formed does not depend on the tables of runs.
LEMMA OtherTablesAreFree ==
  ASSUME NEW d, WellFormed(d), NEW c \in Database,
         c.repositories = d.repositories, c.epochs = d.epochs,
         c.snapshots = d.snapshots, c.deltas = d.deltas
  PROVE  WellFormed(c)
<1>1. NewestEpochIsActive(c)
  BY DEF WellFormed, NewestEpochIsActive, ActiveEpochs
<1>2. NewestSnapshotIsCurrent(c)
  BY DEF WellFormed, NewestSnapshotIsCurrent
<1>3. SnapshotsFormOneLine(c)
  BY DEF WellFormed, SnapshotsFormOneLine, FollowsOn
<1>4. Numbered(c)
  BY DEF WellFormed, Numbered
<1>5. DeltasJoinParents(c) /\ DeltasInOrder(c)
  BY DEF WellFormed, DeltasJoinParents, Joins, DeltasInOrder
<1> QED
  BY <1>1, <1>2, <1>3, <1>4, <1>5 DEF WellFormed

\* What one more snapshot does to the table.
LEMMA GrownByOne ==
  ASSUME NEW d, WellFormed(d),
         NEW c \in Database, NEW row \in Snapshot,
         c.snapshots = Append(d.snapshots, row)
  PROVE  /\ Len(d.snapshots) \in Nat
         /\ DOMAIN d.snapshots = 1 .. Len(d.snapshots)
         /\ Len(c.snapshots) = Len(d.snapshots) + 1
         /\ DOMAIN c.snapshots = 1 .. Len(d.snapshots) + 1
         /\ \A s \in DOMAIN d.snapshots : c.snapshots[s] = d.snapshots[s]
         /\ c.snapshots[Len(d.snapshots) + 1] = row
BY SnapshotRows, AppendFacts DEF WellFormed

\* One more snapshot that follows on keeps the line of snapshots.
LEMMA LineGrows ==
  ASSUME NEW d, WellFormed(d),
         NEW c \in Database, NEW row \in Snapshot,
         c.snapshots = Append(d.snapshots, row),
         FollowsOn(c, Len(c.snapshots))
  PROVE  SnapshotsFormOneLine(c)
<1> DEFINE n == Len(d.snapshots)
<1>1. /\ n \in Nat
      /\ DOMAIN d.snapshots = 1 .. n
      /\ Len(c.snapshots) = n + 1
      /\ DOMAIN c.snapshots = 1 .. n + 1
      /\ \A s \in 1 .. n : c.snapshots[s] = d.snapshots[s]
  BY GrownByOne
<1> SUFFICES ASSUME NEW s \in 1 .. n, s \in Nat, s >= 1, s <= n
             PROVE  FollowsOn(c, s)
  <2>1. \A s \in DOMAIN c.snapshots : s \in 1 .. n \/ s = Len(c.snapshots)
    BY <1>1
  <2> QED
    BY <1>1, <2>1 DEF SnapshotsFormOneLine
<1>2. FollowsOn(d, s)
  BY <1>1 DEF WellFormed, SnapshotsFormOneLine
<1>3. c.snapshots[s] = d.snapshots[s]
  BY <1>1
<1>4. s # 1 => c.snapshots[s - 1] = d.snapshots[s - 1]
  BY <1>1
<1> QED
  BY <1>2, <1>3, <1>4 DEF FollowsOn

\* One more snapshot numbered after the last of its epoch keeps the order of
\* positions.
LEMMA NumberingGrows ==
  ASSUME NEW d, WellFormed(d),
         NEW c \in Database, NEW row \in Snapshot,
         c.snapshots = Append(d.snapshots, row),
         row.epochSequence \in 1 .. Len(d.snapshots) + 1,
         \A s \in DOMAIN d.snapshots :
           /\ d.snapshots[s].epoch <= row.epoch
           /\ d.snapshots[s].epoch = row.epoch =>
                d.snapshots[s].epochSequence < row.epochSequence
  PROVE  Numbered(c)
<1> DEFINE n == Len(d.snapshots)
<1>1. /\ n \in Nat
      /\ DOMAIN d.snapshots = 1 .. n
      /\ DOMAIN c.snapshots = 1 .. n + 1
      /\ \A s \in 1 .. n : c.snapshots[s] = d.snapshots[s]
      /\ c.snapshots[n + 1] = row
  BY GrownByOne
<1>2. ASSUME NEW s \in 1 .. n + 1
      PROVE  c.snapshots[s].epochSequence \in 1 .. s
  <2>1. CASE s = n + 1
    BY <1>1, <2>1
  <2>2. CASE s # n + 1
    <3>1. s \in 1 .. n
      BY <1>1, <2>2
    <3> QED
      BY <1>1, <3>1 DEF WellFormed, Numbered
  <2> QED
    BY <2>1, <2>2
<1>3. ASSUME NEW s \in 1 .. n + 1, NEW t \in 1 .. n + 1, s < t
      PROVE  /\ c.snapshots[s].epoch <= c.snapshots[t].epoch
             /\ c.snapshots[s].epoch = c.snapshots[t].epoch =>
                  c.snapshots[s].epochSequence < c.snapshots[t].epochSequence
  <2>1. s \in 1 .. n
    BY <1>1, <1>3
  <2>2. CASE t = n + 1
    BY <1>1, <2>1, <2>2
  <2>3. CASE t # n + 1
    <3>1. t \in 1 .. n
      BY <1>1, <2>3
    <3> QED
      BY <1>1, <1>3, <2>1, <3>1 DEF WellFormed, Numbered
  <2> QED
    BY <2>2, <2>3
<1> QED
  BY <1>1, <1>2, <1>3 DEF Numbered

\* The rows a changed refresh inserts keep the database well formed.
LEMMA GrownByRefresh ==
  ASSUME NEW d, WellFormed(d), d.repositories = 1,
         NEW c \in Database, NEW row \in Snapshot, NEW delta \in Delta,
         c.repositories = 1, c.epochs = d.epochs,
         c.snapshots = Append(d.snapshots, row),
         c.deltas = Append(d.deltas, delta),
         row.kind = "refresh", row.parent = Len(d.snapshots),
         row.epoch = Len(d.epochs),
         row.epochSequence = d.snapshots[Len(d.snapshots)].epochSequence + 1,
         row.scan # d.snapshots[Len(d.snapshots)].scan,
         delta.epoch = row.epoch, delta.from = row.parent,
         delta.to = Len(d.snapshots) + 1,
         delta.before = d.snapshots[Len(d.snapshots)].scan, delta.after = row.scan
  PROVE  WellFormed(c)
<1> DEFINE n == Len(d.snapshots)
           m == Len(d.deltas)
<1>1. /\ n \in Nat /\ n \in 1 .. n
      /\ DOMAIN d.snapshots = 1 .. n
      /\ Len(c.snapshots) = n + 1
      /\ DOMAIN c.snapshots = 1 .. n + 1
      /\ \A s \in 1 .. n : c.snapshots[s] = d.snapshots[s]
      /\ c.snapshots[n + 1] = row
      /\ d.snapshots[n].epoch = Len(d.epochs)
  BY GrownByOne, CurrentIsNewest
<1>2. /\ m \in Nat
      /\ DOMAIN d.deltas = 1 .. m
      /\ DOMAIN c.deltas = 1 .. m + 1
      /\ \A i \in 1 .. m : c.deltas[i] = d.deltas[i]
      /\ c.deltas[m + 1] = delta
  BY DeltaRows, AppendFacts DEF WellFormed
<1>3. NewestEpochIsActive(c)
  BY DEF WellFormed, NewestEpochIsActive, ActiveEpochs
<1>4. NewestSnapshotIsCurrent(c)
  BY <1>1 DEF NewestSnapshotIsCurrent
<1>5. SnapshotsFormOneLine(c)
  <2>1. FollowsOn(c, n + 1)
    BY <1>1 DEF FollowsOn
  <2> QED
    BY <1>1, <2>1, LineGrows
<1>6. Numbered(c)
  <2>1. d.snapshots[n].epochSequence \in 1 .. n
    BY <1>1 DEF WellFormed, Numbered
  <2>2. row.epochSequence \in 1 .. n + 1
    BY <1>1, <2>1
  <2>3. ASSUME NEW s \in 1 .. n
        PROVE  /\ d.snapshots[s].epoch <= row.epoch
               /\ d.snapshots[s].epoch = row.epoch =>
                    d.snapshots[s].epochSequence < row.epochSequence
    <3>1. d.snapshots[s].epochSequence \in Nat
      BY <1>1, SnapshotRows DEF WellFormed
    <3>2. s # n => /\ d.snapshots[s].epoch <= d.snapshots[n].epoch
                   /\ d.snapshots[s].epoch = d.snapshots[n].epoch =>
                        d.snapshots[s].epochSequence < d.snapshots[n].epochSequence
      <4> SUFFICES ASSUME s < n
                   PROVE  /\ d.snapshots[s].epoch <= d.snapshots[n].epoch
                          /\ d.snapshots[s].epoch = d.snapshots[n].epoch =>
                               d.snapshots[s].epochSequence < d.snapshots[n].epochSequence
        BY <1>1
      <4> QED
        BY <1>1 DEF WellFormed, Numbered
    <3>3. d.snapshots[s].epoch <= row.epoch
      BY <1>1, SnapshotsOfKnownEpochs
    <3> QED
      BY <1>1, <2>1, <3>1, <3>2, <3>3
  <2> QED
    BY <1>1, <2>2, <2>3, NumberingGrows
<1>7. DeltasJoinParents(c)
  <2>1. ASSUME NEW i \in 1 .. m
        PROVE  Joins(c, c.deltas[i])
    <3>1. Joins(d, d.deltas[i])
      BY <1>2 DEF WellFormed, DeltasJoinParents
    <3>2. /\ d.deltas[i].to \in 1 .. n /\ d.deltas[i].from \in 1 .. n
          /\ c.deltas[i] = d.deltas[i]
      BY <1>1, <1>2, <3>1 DEF Joins
    <3> QED
      BY <1>1, <3>1, <3>2, SMTT(30) DEF Joins
  <2>2. Joins(c, delta)
    BY <1>1 DEF Joins
  <2> QED
    BY <1>2, <2>1, <2>2 DEF DeltasJoinParents
<1>8. DeltasInOrder(c)
  <2> SUFFICES ASSUME NEW i \in 1 .. m + 1, NEW j \in 1 .. m + 1, i < j
               PROVE  c.deltas[i].to < c.deltas[j].to
    BY <1>2 DEF DeltasInOrder
  <2>1. i \in 1 .. m /\ c.deltas[i] = d.deltas[i]
    BY <1>2
  <2>2. d.deltas[i].to \in 1 .. n
    BY <1>1, <1>2, <2>1 DEF WellFormed, DeltasJoinParents, Joins
  <2>3. CASE j = m + 1
    BY <1>1, <1>2, <2>1, <2>2, <2>3
  <2>4. CASE j # m + 1
    <3>1. j \in 1 .. m
      BY <1>2, <2>4
    <3> QED
      BY <1>2, <2>1, <3>1 DEF WellFormed, DeltasInOrder
  <2> QED
    BY <2>3, <2>4
<1> QED
  BY <1>3, <1>4, <1>5, <1>6, <1>7, <1>8 DEF WellFormed

\* The rows that open an epoch keep the database well formed.
LEMMA GrownByBaseline ==
  ASSUME NEW d, WellFormed(d),
         NEW c \in Database, NEW row \in Snapshot,
         c.repositories = 1,
         Len(c.epochs) = Len(d.epochs) + 1,
         ActiveEpochs(c) = {Len(c.epochs)},
         c.snapshots = Append(d.snapshots, row), c.deltas = d.deltas,
         row.kind = "baseline", row.parent = NoSnapshot,
         row.epoch = Len(d.epochs) + 1, row.epochSequence = 1
  PROVE  WellFormed(c)
<1> DEFINE n == Len(d.snapshots)
           m == Len(d.deltas)
<1>1. /\ n \in Nat
      /\ DOMAIN d.snapshots = 1 .. n
      /\ Len(c.snapshots) = n + 1
      /\ DOMAIN c.snapshots = 1 .. n + 1
      /\ \A s \in 1 .. n : c.snapshots[s] = d.snapshots[s]
      /\ c.snapshots[n + 1] = row
  BY GrownByOne
<1>2. Len(d.epochs) \in Nat
  BY SequenceFacts DEF WellFormed, Database
<1>3. NewestEpochIsActive(c)
  BY <1>2 DEF NewestEpochIsActive
<1>4. NewestSnapshotIsCurrent(c)
  BY <1>1 DEF NewestSnapshotIsCurrent
<1>5. SnapshotsFormOneLine(c)
  <2>1. CASE d.repositories = 1
    <3>1. n \in 1 .. n /\ d.snapshots[n].epoch = Len(d.epochs)
      BY <1>1, <2>1, CurrentIsNewest
    <3>2. FollowsOn(c, n + 1)
      BY <1>1, <3>1 DEF FollowsOn
    <3> QED
      BY <1>1, <3>2, LineGrows
  <2>2. CASE d.repositories # 1
    <3>1. n = 0 /\ Len(d.epochs) = 0
      BY <2>2 DEF WellFormed, NewestSnapshotIsCurrent, NewestEpochIsActive
    <3>2. FollowsOn(c, n + 1)
      BY <1>1, <3>1 DEF FollowsOn
    <3> QED
      BY <1>1, <3>2, LineGrows
  <2> QED
    BY <2>1, <2>2
<1>6. Numbered(c)
  <2>1. row.epochSequence \in 1 .. n + 1
    BY <1>1
  <2>2. ASSUME NEW s \in 1 .. n
        PROVE  d.snapshots[s].epoch <= row.epoch /\ d.snapshots[s].epoch # row.epoch
    <3>1. d.snapshots[s].epoch \in Nat /\ d.snapshots[s].epoch <= Len(d.epochs)
      BY <1>1, SnapshotRows, SnapshotsOfKnownEpochs DEF WellFormed
    <3> QED
      BY <1>2, <3>1
  <2> QED
    BY <1>1, <2>1, <2>2, NumberingGrows
<1>7. DeltasJoinParents(c)
  <2> SUFFICES ASSUME NEW i \in DOMAIN d.deltas
               PROVE  Joins(c, d.deltas[i])
    BY DEF DeltasJoinParents
  <2>1. Joins(d, d.deltas[i])
    BY DEF WellFormed, DeltasJoinParents
  <2>2. d.deltas[i].to \in 1 .. n /\ d.deltas[i].from \in 1 .. n
    BY <1>1, <2>1 DEF Joins
  <2> QED
    BY <1>1, <2>1, <2>2 DEF Joins
<1>8. DeltasInOrder(c)
  BY DEF WellFormed, DeltasInOrder
<1> QED
  BY <1>3, <1>4, <1>5, <1>6, <1>7, <1>8 DEF WellFormed

\* A table keeps its own rows.
LEMMA PrefixReflexive ==
  ASSUME NEW S, NEW q \in Seq(S)
  PROVE  IsPrefixOf(q, q)
BY DEF IsPrefixOf

\* A table with one more row keeps its rows.
LEMMA PrefixOfAppend ==
  ASSUME NEW S, NEW q \in Seq(S), NEW x
  PROVE  IsPrefixOf(q, Append(q, x))
BY DEF IsPrefixOf

\* Tables that are the same keep their rows.
LEMMA KeepsRowsReflexive ==
  ASSUME NEW d \in Database, NEW c,
         d.repositories <= c.repositories,
         c.epochs = d.epochs, c.snapshots = d.snapshots, c.deltas = d.deltas,
         c.operationRuns = d.operationRuns, c.cueRuns = d.cueRuns
  PROVE  KeepsRows(d, c)
<1>1. /\ IsPrefixOf(d.snapshots, d.snapshots)
      /\ IsPrefixOf(d.deltas, d.deltas)
      /\ IsPrefixOf(d.operationRuns, d.operationRuns)
      /\ IsPrefixOf(d.cueRuns, d.cueRuns)
  BY PrefixReflexive DEF Database
<1>2. Len(d.epochs) \in Nat
  BY SequenceFacts DEF Database
<1> QED
  BY <1>1, <1>2 DEF KeepsRows

\* Keeping rows is transitive, for one table.
LEMMA PrefixTransitive ==
  ASSUME NEW S, NEW q \in Seq(S), NEW r \in Seq(S), NEW s \in Seq(S),
         IsPrefixOf(q, r), IsPrefixOf(r, s)
  PROVE  IsPrefixOf(q, s)
BY DEF IsPrefixOf

\* Keeping rows is transitive, for the database: a transition made of several
\* inserts keeps what each of them keeps.
LEMMA KeepsRowsTransitive ==
  ASSUME NEW a \in Database, NEW b \in Database, NEW c \in Database,
         KeepsRows(a, b), KeepsRows(b, c)
  PROVE  KeepsRows(a, c)
<1>1. /\ a.repositories <= c.repositories
      /\ IsPrefixOf(a.snapshots, c.snapshots)
      /\ IsPrefixOf(a.deltas, c.deltas)
      /\ IsPrefixOf(a.operationRuns, c.operationRuns)
      /\ IsPrefixOf(a.cueRuns, c.cueRuns)
  BY PrefixTransitive, SMTT(30) DEF KeepsRows, Database
<1>2. Len(a.epochs) \in Nat /\ Len(b.epochs) \in Nat /\ Len(c.epochs) \in Nat
  BY SequenceFacts DEF Database
<1>3. Len(a.epochs) <= Len(c.epochs)
  BY <1>2 DEF KeepsRows
<1>4. ASSUME NEW e \in 1 .. Len(a.epochs)
      PROVE  c.epochs[e] = a.epochs[e] \/ c.epochs[e] = "superseded"
  <2>1. e \in 1 .. Len(b.epochs)
    BY <1>2 DEF KeepsRows
  <2> QED
    BY <2>1 DEF KeepsRows
<1> QED
  BY <1>1, <1>3, <1>4 DEF KeepsRows

\* A table that is the same, or has one more row, keeps its rows.
LEMMA SameOrOneMore ==
  ASSUME NEW S, NEW q \in Seq(S), NEW x, NEW r, r = q \/ r = Append(q, x)
  PROVE  IsPrefixOf(q, r)
BY PrefixReflexive, PrefixOfAppend

\* A change of one table by one row.
LEMMA OneRowKeepsRows ==
  ASSUME NEW d \in Database, NEW c, NEW x,
         \/ c = [d EXCEPT !.epochs = Append(@, x)]
         \/ c = [d EXCEPT !.snapshots = Append(@, x)]
         \/ c = [d EXCEPT !.deltas = Append(@, x)]
         \/ c = [d EXCEPT !.operationRuns = Append(@, x)]
         \/ c = [d EXCEPT !.cueRuns = Append(@, x)]
  PROVE  KeepsRows(d, c)
<1>1. /\ c.repositories = d.repositories
      /\ c.snapshots \in {d.snapshots, Append(d.snapshots, x)}
      /\ c.deltas \in {d.deltas, Append(d.deltas, x)}
      /\ c.operationRuns \in {d.operationRuns, Append(d.operationRuns, x)}
      /\ c.cueRuns \in {d.cueRuns, Append(d.cueRuns, x)}
      /\ c.epochs \in {d.epochs, Append(d.epochs, x)}
  BY DEF Database
<1>2. IsPrefixOf(d.snapshots, c.snapshots)
  <2>1. d.snapshots \in Seq(Snapshot)
    BY DEF Database
  <2> QED
    BY <1>1, <2>1, SameOrOneMore
<1>3. IsPrefixOf(d.deltas, c.deltas)
  <2>1. d.deltas \in Seq(Delta)
    BY DEF Database
  <2> QED
    BY <1>1, <2>1, SameOrOneMore
<1>4. IsPrefixOf(d.operationRuns, c.operationRuns)
  <2>1. d.operationRuns \in Seq(OperationRun)
    BY DEF Database
  <2> QED
    BY <1>1, <2>1, SameOrOneMore
<1>5. IsPrefixOf(d.cueRuns, c.cueRuns)
  <2>1. d.cueRuns \in Seq(CueRun)
    BY DEF Database
  <2> QED
    BY <1>1, <2>1, SameOrOneMore
<1>6. IsPrefixOf(d.epochs, c.epochs)
  <2>1. d.epochs \in Seq(EpochStatus)
    BY DEF Database
  <2> QED
    BY <1>1, <2>1, SameOrOneMore
<1>7. d.repositories <= c.repositories
  BY <1>1 DEF Database
<1> QED
  BY <1>2, <1>3, <1>4, <1>5, <1>6, <1>7 DEF KeepsRows, IsPrefixOf

\* Run n recorded snapshot s, which holds the given scan.
Records(d, n, s, scan) ==
  /\ n \in 1 .. Len(d.operationRuns)
  /\ d.operationRuns[n].snapshot = s
  /\ s \in 1 .. Len(d.snapshots)
  /\ d.snapshots[s].scan = scan

\* The last run, which the transition that was just applied has inserted.
LastRunRecords(d, scan) ==
  LET n == Len(d.operationRuns)
  IN  Records(d, n, d.operationRuns[n].snapshot, scan)

\* What a run recorded stays recorded.
LEMMA RecordsStay ==
  ASSUME NEW d \in Database, NEW c \in Database, KeepsRows(d, c),
         NEW n, NEW s, NEW scan, Records(d, n, s, scan)
  PROVE  Records(c, n, s, scan)
<1>1. /\ Len(d.operationRuns) \in Nat /\ Len(c.operationRuns) \in Nat
      /\ Len(d.snapshots) \in Nat /\ Len(c.snapshots) \in Nat
  BY SequenceFacts DEF Database
<1>2. /\ n \in 1 .. Len(c.operationRuns)
      /\ c.operationRuns[n] = d.operationRuns[n]
  <2>1. IsPrefixOf(d.operationRuns, c.operationRuns) /\ n \in 1 .. Len(d.operationRuns)
    BY DEF KeepsRows, Records
  <2> QED
    BY <1>1, <2>1 DEF IsPrefixOf
<1>3. /\ s \in 1 .. Len(c.snapshots)
      /\ c.snapshots[s] = d.snapshots[s]
  <2>1. IsPrefixOf(d.snapshots, c.snapshots) /\ s \in 1 .. Len(d.snapshots)
    BY DEF KeepsRows, Records
  <2> QED
    BY <1>1, <2>1 DEF IsPrefixOf
<1> QED
  BY <1>2, <1>3 DEF Records

\* The database ensureSchema creates is well formed.
LEMMA EmptyIsWellFormed == WellFormed(EmptyDatabase)
<1> DEFINE d == EmptyDatabase
<1>1. d \in Database
  BY DEF EmptyDatabase, Database
<1>2. /\ d.repositories = 0 /\ d.epochs = <<>>
      /\ d.snapshots = <<>> /\ d.deltas = <<>>
      /\ DOMAIN d.snapshots = {} /\ DOMAIN d.deltas = {}
  BY DEF EmptyDatabase
<1> HIDE DEF d
<1>3. NewestEpochIsActive(d) /\ NewestSnapshotIsCurrent(d)
  BY <1>2 DEF NewestEpochIsActive, NewestSnapshotIsCurrent
<1>4. SnapshotsFormOneLine(d) /\ Numbered(d)
  BY <1>2 DEF SnapshotsFormOneLine, Numbered
<1>5. DeltasJoinParents(d) /\ DeltasInOrder(d)
  BY <1>2 DEF DeltasJoinParents, DeltasInOrder
<1>6. WellFormed(d)
  BY <1>1, <1>3, <1>4, <1>5 DEF WellFormed
<1> QED
  BY <1>6 DEF d

\* An operation run touches no snapshot.
LEMMA RunOnly ==
  ASSUME NEW d \in Database, NEW operation, NEW e, NEW s
  PROVE  WithRun(d, operation, e, s).snapshots = d.snapshots
BY DEF WithRun, Database

\* The row of an operation run, the last one each transition inserts.
LEMMA RunIsRecorded ==
  ASSUME NEW d, WellFormed(d),
         NEW operation \in {"baseline", "refresh", "rebaseline"},
         NEW e \in Nat, NEW s \in 1 .. Len(d.snapshots)
  PROVE  /\ WellFormed(WithRun(d, operation, e, s))
         /\ KeepsRows(d, WithRun(d, operation, e, s))
         /\ LastRunRecords(WithRun(d, operation, e, s), d.snapshots[s].scan)
<1> DEFINE run == [operation |-> operation, epoch |-> e, snapshot |-> s]
           c == WithRun(d, operation, e, s)
<1>1. run \in OperationRun
  BY SnapshotRows DEF WellFormed, OperationRun
<1>2. /\ c.repositories = d.repositories /\ c.epochs = d.epochs
      /\ c.snapshots = d.snapshots /\ c.deltas = d.deltas
      /\ c.operationRuns = Append(d.operationRuns, run)
  BY DEF WellFormed, WithRun, Database
<1>3. c \in Database
  <2>1. Append(d.operationRuns, run) \in Seq(OperationRun)
    BY <1>1, AppendFacts DEF WellFormed, Database
  <2> QED
    BY <2>1 DEF WellFormed, WithRun, Database
<1>4. KeepsRows(d, c)
  BY OneRowKeepsRows DEF WellFormed, WithRun
<1>5. LastRunRecords(c, d.snapshots[s].scan)
  <2>1. /\ Len(c.operationRuns) \in 1 .. Len(c.operationRuns)
        /\ c.operationRuns[Len(c.operationRuns)] = run
    BY <1>1, <1>2, AppendFacts, SequenceFacts DEF WellFormed, Database
  <2> QED
    BY <1>2, <2>1 DEF LastRunRecords, Records
<1> QED
  BY <1>2, <1>3, <1>4, <1>5, OtherTablesAreFree

\* The row of Store.RecordCue.
LEMMA CueRunIsRecorded ==
  ASSUME NEW d, WellFormed(d), NEW s \in Nat, NEW from \in Nat
  PROVE  /\ WellFormed(WithCueRun(d, s, from))
         /\ KeepsRows(d, WithCueRun(d, s, from))
         /\ WithCueRun(d, s, from).snapshots = d.snapshots
<1> DEFINE run == [snapshot |-> s, since |-> from]
           c == WithCueRun(d, s, from)
<1>1. run \in CueRun
  BY DEF CueRun
<1>2. /\ c.repositories = d.repositories /\ c.epochs = d.epochs
      /\ c.snapshots = d.snapshots /\ c.deltas = d.deltas
  BY DEF WellFormed, WithCueRun, Database
<1>3. c \in Database
  <2>1. Append(d.cueRuns, run) \in Seq(CueRun)
    BY <1>1, AppendFacts DEF WellFormed, Database
  <2> QED
    BY <2>1 DEF WellFormed, WithCueRun, Database
<1>4. KeepsRows(d, c)
  BY OneRowKeepsRows DEF WellFormed, WithCueRun
<1> QED
  BY <1>2, <1>3, <1>4, OtherTablesAreFree

\* The row WithSnapshot appends.
SnapshotRow(d, e, parent, kind, scan) ==
  [epoch |-> e, epochSequence |-> NextEpochSequence(d, e),
   kind |-> kind, parent |-> parent, scan |-> scan]

\* The row of createSnapshot.
LEMMA SnapshotIsWritten ==
  ASSUME NEW d \in Database, NEW e \in Nat, NEW parent \in Nat,
         NEW kind \in {"baseline", "refresh"}, NEW scan \in Scans,
         NextEpochSequence(d, e) \in Nat
  PROVE  LET row == SnapshotRow(d, e, parent, kind, scan)
             c   == WithSnapshot(d, e, parent, kind, scan)
         IN  /\ row \in Snapshot
             /\ c \in Database
             /\ c.snapshots = Append(d.snapshots, row)
             /\ c.repositories = d.repositories /\ c.epochs = d.epochs
             /\ c.deltas = d.deltas /\ c.operationRuns = d.operationRuns
             /\ c.cueRuns = d.cueRuns
<1> DEFINE n == NextEpochSequence(d, e)
           row == SnapshotRow(d, e, parent, kind, scan)
           c == WithSnapshot(d, e, parent, kind, scan)
<1> HIDE DEF n
<1>1. row \in Snapshot
  BY DEF Snapshot, SnapshotRow, n
<1>2. Append(d.snapshots, row) \in Seq(Snapshot)
  BY <1>1, AppendFacts DEF Database
<1>3. c = [d EXCEPT !.snapshots = Append(@, row)]
  BY DEF WithSnapshot, SnapshotRow, n
<1> HIDE DEF row, c
<1>4. /\ c \in Database
      /\ c.snapshots = Append(d.snapshots, row)
      /\ c.repositories = d.repositories /\ c.epochs = d.epochs
      /\ c.deltas = d.deltas /\ c.operationRuns = d.operationRuns
      /\ c.cueRuns = d.cueRuns
  BY <1>2, <1>3 DEF Database
<1> QED
  BY <1>1, <1>4 DEF row, c

\* Store.Refresh on a verified state.
LEMMA RefreshIsRecorded ==
  ASSUME NEW d, WellFormed(d), d.repositories = 1, NEW scan \in Scans,
         NEW state, state.epoch = Len(d.epochs), state.snapshot = Len(d.snapshots),
         state.scan = d.snapshots[Len(d.snapshots)].scan
  PROVE  /\ WellFormed(Refreshed(d, state, scan))
         /\ KeepsRows(d, Refreshed(d, state, scan))
         /\ LastRunRecords(Refreshed(d, state, scan), scan)
         /\ \/ Refreshed(d, state, scan).snapshots = d.snapshots
            \/ Len(Refreshed(d, state, scan).snapshots) = Len(d.snapshots) + 1
<1> DEFINE n == Len(d.snapshots)
           e == Len(d.epochs)
           last == d.snapshots[n]
           row == SnapshotRow(d, e, n, "refresh", scan)
           delta == [epoch |-> e, from |-> n, to |-> n + 1,
                     before |-> last.scan, after |-> scan]
<1>1. /\ n \in Nat /\ n \in 1 .. n /\ e \in Nat
      /\ last \in Snapshot /\ last.scan \in Scans /\ last.epochSequence \in Nat
  BY CurrentIsNewest, SnapshotRows, SequenceFacts DEF WellFormed, Database
<1>2. NextEpochSequence(d, e) = last.epochSequence + 1
  BY NextOfNewestEpoch
<1>3. CASE ~Changed(state, scan)
  <2>1. last.scan = scan
    BY <1>1, <1>3 DEF Changed, Scans
  <2>2. Refreshed(d, state, scan) = WithRun(d, "refresh", e, n)
    BY <1>3 DEF Refreshed
  <2>3. d.snapshots[n].scan = scan
    BY <2>1
  <2>4. "refresh" \in {"baseline", "refresh", "rebaseline"}
    OBVIOUS
  <2>5. n \in 1 .. Len(d.snapshots) /\ e \in Nat
    BY <1>1
  <2> HIDE DEF e, n
  <2> QED
    BY <2>2, <2>3, <2>4, <2>5, RunIsRecorded, RunOnly DEF WellFormed
<1>4. CASE Changed(state, scan)
  <2> DEFINE recorded == WithSnapshot(d, e, n, "refresh", scan)
             linked == WithDelta(recorded, e, n, n + 1, last.scan, scan)
  <2>1. /\ row \in Snapshot
        /\ recorded \in Database
        /\ recorded.snapshots = Append(d.snapshots, row)
        /\ recorded.repositories = d.repositories /\ recorded.epochs = d.epochs
        /\ recorded.deltas = d.deltas
    <3>1. NextEpochSequence(d, e) \in Nat /\ e \in Nat /\ n \in Nat
      BY <1>1, <1>2
    <3>2. d \in Database
      BY DEF WellFormed
    <3> HIDE DEF n, e
    <3> QED
      BY <3>1, <3>2, SnapshotIsWritten, SMTT(30)
  <2>2. Len(recorded.snapshots) = n + 1
    BY <2>1, GrownByOne
  <2>3. delta \in Delta
    BY <1>1 DEF Delta
  <2>4. /\ linked.repositories = d.repositories /\ linked.epochs = d.epochs
        /\ linked.snapshots = Append(d.snapshots, row)
        /\ linked.deltas = Append(d.deltas, delta)
    BY <2>1 DEF WithDelta, Database
  <2>5. linked \in Database
    <3>1. Append(recorded.deltas, delta) \in Seq(Delta)
      BY <2>1, <2>3, AppendFacts DEF Database
    <3> QED
      BY <2>1, <3>1 DEF WithDelta, Database
  <2>6. scan # last.scan
    BY <1>4 DEF Changed
  <2>7. WellFormed(linked)
    <3>1. /\ row.kind = "refresh" /\ row.parent = n /\ row.epoch = e
          /\ row.epochSequence = last.epochSequence + 1
          /\ row.scan = scan
          /\ delta.epoch = e /\ delta.from = n /\ delta.to = n + 1
          /\ delta.before = last.scan /\ delta.after = scan
      BY <1>2 DEF SnapshotRow
    <3> HIDE DEF row, delta, linked, recorded
    <3> QED
      BY <2>1, <2>3, <2>4, <2>5, <2>6, <3>1, GrownByRefresh
  <2>8. Refreshed(d, state, scan) = WithRun(linked, "refresh", e, n + 1)
    BY <1>4, <2>2 DEF Refreshed
  <2>9. KeepsRows(d, linked)
    <3>1. KeepsRows(d, recorded)
      BY OneRowKeepsRows DEF WellFormed, WithSnapshot
    <3>2. KeepsRows(recorded, linked)
      BY <2>1, OneRowKeepsRows DEF WithDelta
    <3> HIDE DEF recorded, linked
    <3> QED
      BY <2>1, <2>5, <3>1, <3>2, KeepsRowsTransitive DEF WellFormed
  <2>10. /\ Len(linked.snapshots) = n + 1
         /\ linked.snapshots[n + 1].scan = scan
    <3>1. linked.snapshots[n + 1] = row
      BY <2>1, <2>4, <2>5, GrownByOne
    <3> QED
      <4>1. row.scan = scan
        BY DEF SnapshotRow
      <4>2. Len(linked.snapshots) = n + 1
        BY <2>1, <2>2, <2>4
      <4> HIDE DEF row, linked
      <4> QED
        BY <3>1, <4>1, <4>2
  <2>11. /\ WellFormed(WithRun(linked, "refresh", e, n + 1))
         /\ KeepsRows(linked, WithRun(linked, "refresh", e, n + 1))
         /\ LastRunRecords(WithRun(linked, "refresh", e, n + 1), scan)
    <3>1. e \in Nat /\ n + 1 \in 1 .. Len(linked.snapshots)
      BY <1>1, <2>10
    <3>2. "refresh" \in {"baseline", "refresh", "rebaseline"}
      OBVIOUS
    <3> DEFINE s == n + 1
    <3> HIDE DEF linked, e, s
    <3>3. /\ WellFormed(WithRun(linked, "refresh", e, s))
          /\ KeepsRows(linked, WithRun(linked, "refresh", e, s))
          /\ LastRunRecords(WithRun(linked, "refresh", e, s), linked.snapshots[s].scan)
      BY <2>7, <3>1, <3>2, RunIsRecorded DEF s
    <3> QED
      BY <2>10, <3>3 DEF s
  <2> HIDE DEF linked
  <2>12. KeepsRows(d, WithRun(linked, "refresh", e, n + 1))
    BY <2>5, <2>9, <2>11, KeepsRowsTransitive DEF WellFormed
  <2> QED
    BY <2>5, <2>8, <2>10, <2>11, <2>12, RunOnly
<1> QED
  BY <1>3, <1>4

\* createEpoch, createSnapshot and insertOperationRun, as Initialize and
\* Rebaseline call them.
LEMMA BaselineIsRecorded ==
  ASSUME NEW d, WellFormed(d), NEW scan \in Scans,
         NEW operation \in {"baseline", "rebaseline"},
         NEW b \in Database,
         b.repositories = 1, Len(b.epochs) = Len(d.epochs),
         ActiveEpochs(b) = {},
         b.snapshots = d.snapshots, b.deltas = d.deltas
  PROVE  /\ WellFormed(WithBaseline(b, operation, scan))
         /\ KeepsRows(b, WithBaseline(b, operation, scan))
         /\ LastRunRecords(WithBaseline(b, operation, scan), scan)
         /\ Len(WithBaseline(b, operation, scan).snapshots) = Len(d.snapshots) + 1
<1> DEFINE e == Len(d.epochs) + 1
           n == Len(d.snapshots)
           opened == WithEpoch(b)
           row == SnapshotRow(opened, e, NoSnapshot, "baseline", scan)
           recorded == WithSnapshot(opened, e, NoSnapshot, "baseline", scan)
<1>1. Len(d.epochs) \in Nat /\ e \in Nat /\ n \in Nat
  BY SequenceFacts, SnapshotRows DEF WellFormed, Database
<1>2. /\ opened \in Database
      /\ opened.epochs = Append(b.epochs, "active")
      /\ opened.repositories = 1
      /\ opened.snapshots = d.snapshots /\ opened.deltas = d.deltas
  <2>1. b.epochs \in Seq(EpochStatus) /\ "active" \in EpochStatus
    BY DEF Database, EpochStatus
  <2>2. Append(b.epochs, "active") \in Seq(EpochStatus)
    BY <2>1, AppendFacts
  <2> QED
    BY <2>2 DEF WithEpoch, Database
<1>3. Len(opened.epochs) = e /\ ActiveEpochs(opened) = {e}
  <2>1. b.epochs \in Seq(EpochStatus) /\ "active" \in EpochStatus
    BY DEF Database, EpochStatus
  <2>2. /\ DOMAIN b.epochs = 1 .. Len(d.epochs)
        /\ Len(opened.epochs) = e
        /\ DOMAIN opened.epochs = 1 .. e
        /\ \A i \in 1 .. Len(d.epochs) : opened.epochs[i] = b.epochs[i]
        /\ opened.epochs[e] = "active"
    BY <1>2, <2>1, SequenceFacts, AppendFacts
  <2>3. \A i \in 1 .. Len(d.epochs) : b.epochs[i] # "active"
    BY <2>2 DEF ActiveEpochs
  <2>4. \A i \in 1 .. e : i # e => i \in 1 .. Len(d.epochs)
    BY <1>1
  <2>5. e \in 1 .. e
    BY <1>1
  <2> HIDE DEF e, opened
  <2> QED
    BY <2>2, <2>3, <2>4, <2>5 DEF ActiveEpochs
<1>4. NextEpochSequence(opened, e) = 1
  <2>1. \A s \in DOMAIN d.snapshots : d.snapshots[s].epoch # e
    BY <1>1, SnapshotsOfKnownEpochs, SnapshotRows DEF WellFormed
  <2> HIDE DEF e, opened
  <2> QED
    BY <1>2, <2>1, FirstOfItsEpoch
<1>5. /\ row \in Snapshot
      /\ recorded \in Database
      /\ recorded.snapshots = Append(d.snapshots, row)
      /\ recorded.repositories = 1 /\ recorded.epochs = opened.epochs
      /\ recorded.deltas = d.deltas
  <2>1. NextEpochSequence(opened, e) \in Nat /\ NoSnapshot \in Nat
    BY <1>4 DEF NoSnapshot
  <2>2. opened \in Database /\ e \in Nat /\ "baseline" \in {"baseline", "refresh"}
    BY <1>1, <1>2
  <2> HIDE DEF e, opened
  <2>3. /\ row \in Snapshot
        /\ recorded \in Database
        /\ recorded.snapshots = Append(opened.snapshots, row)
        /\ recorded.repositories = opened.repositories
        /\ recorded.epochs = opened.epochs
        /\ recorded.deltas = opened.deltas
    BY <2>1, <2>2, SnapshotIsWritten
  <2> QED
    BY <1>2, <2>3
<1>6. WellFormed(recorded)
  <2>1. /\ row.kind = "baseline" /\ row.parent = NoSnapshot
        /\ row.epoch = e /\ row.epochSequence = 1
    BY <1>4 DEF SnapshotRow
  <2>2. Len(recorded.epochs) = Len(d.epochs) + 1
    BY <1>3, <1>5
  <2>3. ActiveEpochs(recorded) = {Len(recorded.epochs)}
    BY <1>3, <1>5 DEF ActiveEpochs
  <2> HIDE DEF row, recorded
  <2> QED
    BY <1>5, <2>1, <2>2, <2>3, GrownByBaseline
<1>7. /\ Len(recorded.snapshots) = n + 1
      /\ recorded.snapshots[n + 1].scan = scan
  BY <1>1, <1>5, GrownByOne DEF SnapshotRow
<1>8. WithBaseline(b, operation, scan) = WithRun(recorded, operation, e, n + 1)
  BY <1>3, <1>7 DEF WithBaseline
<1>9. operation \in {"baseline", "refresh", "rebaseline"}
  OBVIOUS
<1>10. KeepsRows(b, recorded)
  <2>1. KeepsRows(b, opened)
    BY OneRowKeepsRows DEF WithEpoch
  <2>2. KeepsRows(opened, recorded)
    BY <1>2, OneRowKeepsRows DEF WithSnapshot
  <2> HIDE DEF opened, recorded
  <2> QED
    BY <1>2, <1>5, <2>1, <2>2, KeepsRowsTransitive
<1> DEFINE s == n + 1
<1>11. s \in 1 .. Len(recorded.snapshots)
  BY <1>1, <1>7
<1>12. recorded.snapshots[s].scan = scan
  BY <1>7
<1> HIDE DEF recorded, e, s
<1>13. /\ WellFormed(WithRun(recorded, operation, e, s))
       /\ KeepsRows(recorded, WithRun(recorded, operation, e, s))
       /\ LastRunRecords(WithRun(recorded, operation, e, s), scan)
  BY <1>1, <1>6, <1>9, <1>11, <1>12, RunIsRecorded
<1>14. KeepsRows(b, WithRun(recorded, operation, e, s))
  BY <1>5, <1>10, <1>13, KeepsRowsTransitive DEF WellFormed
<1> QED
  BY <1>5, <1>7, <1>8, <1>13, <1>14, RunOnly DEF s

\* Store.Initialize on an empty database.
LEMMA InitializeIsRecorded ==
  ASSUME NEW d, WellFormed(d), d.repositories = 0, NEW scan \in Scans
  PROVE  /\ WellFormed(Initialized(d, scan))
         /\ KeepsRows(d, Initialized(d, scan))
         /\ LastRunRecords(Initialized(d, scan), scan)
         /\ Len(Initialized(d, scan).snapshots) = Len(d.snapshots) + 1
<1> DEFINE b == [d EXCEPT !.repositories = 1]
<1>1. /\ b \in Database /\ b.repositories = 1 /\ b.epochs = d.epochs
      /\ b.snapshots = d.snapshots /\ b.deltas = d.deltas
  BY DEF WellFormed, Database
<1>2. ActiveEpochs(b) = {}
  BY <1>1 DEF WellFormed, NewestEpochIsActive, ActiveEpochs
<1>3. KeepsRows(d, b)
  <2>1. /\ d \in Database /\ d.repositories <= b.repositories
        /\ b.operationRuns = d.operationRuns /\ b.cueRuns = d.cueRuns
    BY DEF WellFormed, Database
  <2> HIDE DEF b
  <2> QED
    BY <1>1, <2>1, KeepsRowsReflexive
<1> DEFINE c == WithBaseline(b, "baseline", scan)
<1> HIDE DEF b
<1>4. /\ WellFormed(c) /\ KeepsRows(b, c) /\ LastRunRecords(c, scan)
      /\ Len(c.snapshots) = Len(d.snapshots) + 1
  BY <1>1, <1>2, BaselineIsRecorded
<1>5. c = Initialized(d, scan)
  BY DEF Initialized, b
<1> HIDE DEF c
<1>6. KeepsRows(d, c)
  BY <1>1, <1>3, <1>4, KeepsRowsTransitive DEF WellFormed
<1> QED
  BY <1>4, <1>5, <1>6

\* Store.Rebaseline on a verified state.
LEMMA RebaselineIsRecorded ==
  ASSUME NEW d, WellFormed(d), d.repositories = 1, NEW scan \in Scans,
         NEW state, state.epoch = Len(d.epochs)
  PROVE  /\ WellFormed(Rebaselined(d, state, scan))
         /\ KeepsRows(d, Rebaselined(d, state, scan))
         /\ LastRunRecords(Rebaselined(d, state, scan), scan)
         /\ Len(Rebaselined(d, state, scan).snapshots) = Len(d.snapshots) + 1
<1> DEFINE e == Len(d.epochs)
           b == Superseded(d, e)
<1>1. d.epochs \in Seq(EpochStatus) /\ "superseded" \in EpochStatus
  BY DEF WellFormed, Database, EpochStatus
<1>2. /\ e \in Nat /\ e \in 1 .. e /\ DOMAIN d.epochs = 1 .. e
      /\ ActiveEpochs(d) = {e}
  BY <1>1, SequenceFacts DEF WellFormed, NewestEpochIsActive
<1> DEFINE epochs == [d.epochs EXCEPT ![e] = "superseded"]
<1>3. epochs \in Seq(EpochStatus) /\ Len(epochs) = e /\ DOMAIN epochs = 1 .. e
  BY <1>1, <1>2
<1>4. /\ b \in Database /\ b.repositories = 1 /\ b.epochs = epochs
      /\ b.snapshots = d.snapshots /\ b.deltas = d.deltas
      /\ b.operationRuns = d.operationRuns /\ b.cueRuns = d.cueRuns
  <2> HIDE DEF e
  <2>1. b = [d EXCEPT !.epochs = epochs]
    BY DEF Superseded
  <2> HIDE DEF b, epochs
  <2> QED
    BY <1>3, <2>1 DEF WellFormed, Database
<1>5. ActiveEpochs(b) = {}
  BY <1>2, <1>3, <1>4 DEF ActiveEpochs
<1>6. Rebaselined(d, state, scan) = WithBaseline(b, "rebaseline", scan)
  BY DEF Rebaselined
<1>7. KeepsRows(d, b)
  <2>1. /\ IsPrefixOf(d.snapshots, d.snapshots)
        /\ IsPrefixOf(d.deltas, d.deltas)
        /\ IsPrefixOf(d.operationRuns, d.operationRuns)
        /\ IsPrefixOf(d.cueRuns, d.cueRuns)
    BY PrefixReflexive DEF WellFormed, Database
  <2>2. /\ Len(d.epochs) <= Len(epochs)
        /\ \A i \in 1 .. Len(d.epochs) : epochs[i] = d.epochs[i] \/ epochs[i] = "superseded"
    BY <1>2, <1>3
  <2> HIDE DEF b, epochs
  <2> QED
    BY <1>4, <2>1, <2>2 DEF KeepsRows
<1> DEFINE c == WithBaseline(b, "rebaseline", scan)
<1> HIDE DEF b, epochs
<1>8. /\ WellFormed(c) /\ KeepsRows(b, c) /\ LastRunRecords(c, scan)
      /\ Len(c.snapshots) = Len(d.snapshots) + 1
  BY <1>3, <1>4, <1>5, BaselineIsRecorded
<1> HIDE DEF c
<1>9. KeepsRows(d, c)
  BY <1>4, <1>7, <1>8, KeepsRowsTransitive DEF WellFormed
<1> QED
  BY <1>6, <1>8, <1>9 DEF c

(***************************************************************************)
(* The processes.                                                          *)
(***************************************************************************)
Transitions == {"init", "refresh", "rebaseline"}

\* A process holds exactly the lock its stage calls for.
LockOf(stage) ==
  CASE stage \in {"current-read", "since-read", "write"} -> "shared"
    [] stage = "commit"                                  -> "reserved"
    [] stage = "exclusive"                               -> "pending"
    [] OTHER                                             -> "none"

\* What a command has read is a snapshot of the database, and stays one.
SeenIsRecorded(p) ==
  pc[p] \notin {"idle", "open", "current"} /\ command[p] # "init" =>
    /\ db.repositories = 1
    /\ seen[p] \in CurrentStates
    /\ seen[p].snapshot \in 1 .. Len(db.snapshots)
    /\ db.snapshots[seen[p].snapshot].epoch = seen[p].epoch
    /\ db.snapshots[seen[p].snapshot].scan = seen[p].scan

\* What a write transaction checked is still so.
Verified(p) ==
  pc[p] \in Publishing =>
    /\ command[p] = "init" => db.repositories = 0
    /\ command[p] \in {"refresh", "rebaseline"} =>
         /\ seen[p].snapshot = CurrentSnapshot(db)
         /\ seen[p].epoch = ActiveEpoch(db)

\* A transaction has written the rows of its command.
StagedIsRows(p) ==
  pc[p] \in {"commit", "exclusive"} => staged[p] = Rows(p)

\* A command that has committed prints the last run it wrote.
PrintedIsRecorded(p) ==
  pc[p] = "print" /\ command[p] \in Transitions =>
    LET n == Len(staged[p].operationRuns)
    IN  Records(db, n, staged[p].operationRuns[n].snapshot, live[p])

\* The answer of a command that ended names a recorded run.
AnswerIsRecorded(p) ==
  answer[p].run # 0 =>
    /\ pc[p] = "idle"
    /\ Records(db, answer[p].run, answer[p].snapshot, live[p])

\* Where one process stands.
ProcessOK(p) ==
  /\ lock[p] = LockOf(pc[p])
  /\ SeenIsRecorded(p)
  /\ Verified(p)
  /\ StagedIsRows(p)
  /\ PrintedIsRecorded(p)
  /\ AnswerIsRecorded(p)
  /\ answer[p].outcome # "constraint"

\* The inductive invariant.
IInv ==
  /\ TypeOK
  /\ OneWriter
  /\ WellFormed(db)
  /\ \A p \in Process : ProcessOK(p)

\* Process q takes no step.
Unmoved(q) ==
  /\ lock'[q] = lock[q] /\ pc'[q] = pc[q] /\ command'[q] = command[q]
  /\ seen'[q] = seen[q] /\ since'[q] = since[q] /\ live'[q] = live[q]
  /\ staged'[q] = staged[q] /\ answer'[q] = answer[q]

\* A process that does not move is not disturbed by those that do not write.
LEMMA UnmovedStaysOK ==
  ASSUME NEW q \in Process, ProcessOK(q), Unmoved(q), db' = db
  PROVE  ProcessOK(q)'
BY DEF ProcessOK, Unmoved, SeenIsRecorded, Verified, StagedIsRows, Rows,
   PrintedIsRecorded, AnswerIsRecorded

\* A step of process p that does not write to the database file.
LEMMA QuietStep ==
  ASSUME IInv, NEW p \in Process, db' = db, TypeOK', ProcessOK(p)',
         \A q \in Process \ {p} : Unmoved(q),
         Writing(p)' => Writing(p) \/ ~UpgradeBlocked(p)
  PROVE  IInv'
<1>1. \A q \in Process : ProcessOK(q)'
  BY UnmovedStaysOK DEF IInv
<1>2. OneWriter'
  BY DEF IInv, OneWriter, Writing, UpgradeBlocked, Unmoved
<1>3. WellFormed(db)'
  BY DEF IInv
<1> QED
  BY <1>1, <1>2, <1>3 DEF IInv

\* A process that ends lets go of its lock and of its rows.
LEMMA EndKeeps ==
  ASSUME IInv, NEW p \in Process, NEW result \in Answers, End(p, result),
         result.outcome # "constraint",
         result.run # 0 => Records(db, result.run, result.snapshot, live[p])
  PROVE  IInv'
<1>1. TypeOK'
  <2>1. EmptyDatabase \in Database
    BY EmptyIsWellFormed DEF WellFormed
  <2>2. NoSnapshot \in Nat
    BY DEF NoSnapshot
  <2> QED
    BY <2>1, <2>2 DEF IInv, TypeOK, End, Goto, Release, LockTypeOK, LockStates, Stages
<1>2. db' = db /\ \A q \in Process \ {p} : Unmoved(q)
  BY DEF IInv, TypeOK, LockTypeOK, End, Goto, Release, Unmoved
<1>3. /\ pc'[p] = "idle" /\ lock'[p] = "none" /\ answer'[p] = result
      /\ live'[p] = live[p]
  BY DEF IInv, TypeOK, LockTypeOK, End, Goto, Release
<1>4. ProcessOK(p)'
  BY <1>2, <1>3 DEF ProcessOK, LockOf, SeenIsRecorded, Verified, Publishing, StagedIsRows,
     PrintedIsRecorded, AnswerIsRecorded
<1>5. ~Writing(p)'
  BY <1>3 DEF Writing
<1> QED
  BY <1>1, <1>2, <1>4, <1>5, QuietStep

\* A process that fails for any reason but the schema.
LEMMA FailKeeps ==
  ASSUME IInv, NEW p \in Process,
         NEW reason \in {"none", "ok"} \union (Failures \ {"constraint"}), Fail(p, reason)
  PROVE  IInv'
<1> DEFINE result == [Silent EXCEPT !.outcome = reason]
<1>1. result \in Answers /\ result.outcome = reason /\ result.run = 0
  BY DEF Silent, Answers, NoSnapshot, Failures
<1>2. End(p, result)
  BY DEF Fail
<1>3. reason # "constraint"
  BY DEF Failures
<1> HIDE DEF result
<1> QED
  BY <1>1, <1>2, <1>3, EndKeeps

\* A command starts.
LEMMA StartKeeps ==
  ASSUME IInv, NEW p \in Process, NEW name \in CommandNames, Start(p, name)
  PROVE  IInv'
<1>1. TypeOK'
  BY DEF IInv, TypeOK, LockTypeOK, LockStates, Stages, Start, Goto, Silent, Answers, NoSnapshot, CommandNames
<1>2. db' = db /\ \A q \in Process \ {p} : Unmoved(q)
  BY DEF IInv, TypeOK, LockTypeOK, Unmoved, Start, Goto, Silent, Answers, NoSnapshot, CommandNames
<1>3. ProcessOK(p)'
  BY DEF IInv, TypeOK, LockTypeOK, ProcessOK, LockOf, SeenIsRecorded, Verified, Publishing,
     StagedIsRows, PrintedIsRecorded, AnswerIsRecorded, Transitions, Start, Goto, Silent, Answers, NoSnapshot, CommandNames
<1>4. Writing(p)' => Writing(p) \/ ~UpgradeBlocked(p)
  BY DEF IInv, TypeOK, LockTypeOK, Writing, Start, Goto, Silent, Answers, NoSnapshot, CommandNames
<1> QED
  BY <1>1, <1>2, <1>3, <1>4, QuietStep

\* init opens the store.
LEMMA CreateStoreKeeps ==
  ASSUME IInv, NEW p \in Process, CreateStore(p)
  PROVE  IInv'
<1>1. TypeOK'
  BY DEF IInv, TypeOK, LockTypeOK, LockStates, Stages, CreateStore, Goto
<1>2. db' = db /\ \A q \in Process \ {p} : Unmoved(q)
  BY DEF IInv, TypeOK, LockTypeOK, Unmoved, CreateStore, Goto
<1>3. ProcessOK(p)'
  BY DEF IInv, TypeOK, LockTypeOK, ProcessOK, LockOf, SeenIsRecorded, Verified, Publishing,
     StagedIsRows, PrintedIsRecorded, AnswerIsRecorded, Transitions, CreateStore, Goto
<1>4. Writing(p)' => Writing(p) \/ ~UpgradeBlocked(p)
  BY DEF IInv, TypeOK, LockTypeOK, Writing, CreateStore, Goto
<1> QED
  BY <1>1, <1>2, <1>3, <1>4, QuietStep

\* The other commands open the store.
LEMMA OpenStoreKeeps ==
  ASSUME IInv, NEW p \in Process, OpenStore(p)
  PROVE  IInv'
<1>1. TypeOK'
  BY DEF IInv, TypeOK, LockTypeOK, LockStates, Stages, OpenStore, Goto
<1>2. db' = db /\ \A q \in Process \ {p} : Unmoved(q)
  BY DEF IInv, TypeOK, LockTypeOK, Unmoved, OpenStore, Goto
<1>3. ProcessOK(p)'
  BY DEF IInv, TypeOK, LockTypeOK, ProcessOK, LockOf, SeenIsRecorded, Verified, Publishing,
     StagedIsRows, PrintedIsRecorded, AnswerIsRecorded, Transitions, OpenStore, Goto
<1>4. Writing(p)' => Writing(p) \/ ~UpgradeBlocked(p)
  BY DEF IInv, TypeOK, LockTypeOK, Writing, OpenStore, Goto
<1> QED
  BY <1>1, <1>2, <1>3, <1>4, QuietStep

\* Current commits its read transaction.
LEMMA EndReadCurrentKeeps ==
  ASSUME IInv, NEW p \in Process, EndReadCurrent(p)
  PROVE  IInv'
<1>1. TypeOK'
  BY DEF IInv, TypeOK, LockTypeOK, LockStates, Stages, EndReadCurrent, EndRead, Release, Goto
<1>2. db' = db /\ \A q \in Process \ {p} : Unmoved(q)
  BY DEF IInv, TypeOK, LockTypeOK, Unmoved, EndReadCurrent, EndRead, Release, Goto
<1>3. ProcessOK(p)'
  BY DEF IInv, TypeOK, LockTypeOK, ProcessOK, LockOf, SeenIsRecorded, Verified, Publishing,
     StagedIsRows, PrintedIsRecorded, AnswerIsRecorded, Transitions, EndReadCurrent, EndRead, Release, Goto
<1>4. Writing(p)' => Writing(p) \/ ~UpgradeBlocked(p)
  BY DEF IInv, TypeOK, LockTypeOK, Writing, EndReadCurrent, EndRead, Release, Goto
<1> QED
  BY <1>1, <1>2, <1>3, <1>4, QuietStep

\* The scan.
LEMMA ScanKeeps ==
  ASSUME IInv, NEW p \in Process, Scan(p)
  PROVE  IInv'
<1>1. TypeOK'
  BY DEF IInv, TypeOK, LockTypeOK, LockStates, Stages, Scan, AfterScan, CommandNames, Goto
<1>2. db' = db /\ \A q \in Process \ {p} : Unmoved(q)
  BY DEF IInv, TypeOK, LockTypeOK, Unmoved, Scan, AfterScan, CommandNames, Goto
<1>3. ProcessOK(p)'
  BY DEF IInv, TypeOK, LockTypeOK, ProcessOK, LockOf, SeenIsRecorded, Verified, Publishing,
     StagedIsRows, PrintedIsRecorded, AnswerIsRecorded, Transitions, Scan, AfterScan, CommandNames, Goto
<1>4. Writing(p)' => Writing(p) \/ ~UpgradeBlocked(p)
  BY DEF IInv, TypeOK, LockTypeOK, Writing, Scan, AfterScan, CommandNames, Goto
<1> QED
  BY <1>1, <1>2, <1>3, <1>4, QuietStep

\* StateAt reads.
LEMMA ReadSinceKeeps ==
  ASSUME IInv, NEW p \in Process, ReadSince(p)
  PROVE  IInv'
<1>1. TypeOK'
  <2>1. DOMAIN db.snapshots \subseteq Nat
    BY SnapshotRows DEF IInv, TypeOK
  <2> QED
    BY <2>1 DEF IInv, TypeOK, LockTypeOK, LockStates, Stages, ReadSince, AcquireShared, Goto
<1>2. db' = db /\ \A q \in Process \ {p} : Unmoved(q)
  BY DEF IInv, TypeOK, LockTypeOK, Unmoved, ReadSince, AcquireShared, Goto
<1>3. ProcessOK(p)'
  BY DEF IInv, TypeOK, LockTypeOK, ProcessOK, LockOf, SeenIsRecorded, Verified, Publishing,
     StagedIsRows, PrintedIsRecorded, AnswerIsRecorded, Transitions, ReadSince, AcquireShared, Goto
<1>4. Writing(p)' => Writing(p) \/ ~UpgradeBlocked(p)
  BY DEF IInv, TypeOK, LockTypeOK, Writing, ReadSince, AcquireShared, Goto
<1> QED
  BY <1>1, <1>2, <1>3, <1>4, QuietStep

\* StateAt commits its read transaction.
LEMMA EndReadSinceKeeps ==
  ASSUME IInv, NEW p \in Process, EndReadSince(p)
  PROVE  IInv'
<1>1. TypeOK'
  BY DEF IInv, TypeOK, LockTypeOK, LockStates, Stages, EndReadSince, EndRead, Release, Goto
<1>2. db' = db /\ \A q \in Process \ {p} : Unmoved(q)
  BY DEF IInv, TypeOK, LockTypeOK, Unmoved, EndReadSince, EndRead, Release, Goto
<1>3. ProcessOK(p)'
  BY DEF IInv, TypeOK, LockTypeOK, ProcessOK, LockOf, SeenIsRecorded, Verified, Publishing,
     StagedIsRows, PrintedIsRecorded, AnswerIsRecorded, Transitions, EndReadSince, EndRead, Release, Goto
<1>4. Writing(p)' => Writing(p) \/ ~UpgradeBlocked(p)
  BY DEF IInv, TypeOK, LockTypeOK, Writing, EndReadSince, EndRead, Release, Goto
<1> QED
  BY <1>1, <1>2, <1>3, <1>4, QuietStep

\* A cue without --since.
LEMMA WithoutSinceKeeps ==
  ASSUME IInv, NEW p \in Process, WithoutSince(p)
  PROVE  IInv'
<1>1. TypeOK'
  BY DEF IInv, TypeOK, LockTypeOK, LockStates, Stages, WithoutSince, Goto
<1>2. db' = db /\ \A q \in Process \ {p} : Unmoved(q)
  BY DEF IInv, TypeOK, LockTypeOK, Unmoved, WithoutSince, Goto
<1>3. ProcessOK(p)'
  BY DEF IInv, TypeOK, LockTypeOK, ProcessOK, LockOf, SeenIsRecorded, Verified, Publishing,
     StagedIsRows, PrintedIsRecorded, AnswerIsRecorded, Transitions, WithoutSince, Goto
<1>4. Writing(p)' => Writing(p) \/ ~UpgradeBlocked(p)
  BY DEF IInv, TypeOK, LockTypeOK, Writing, WithoutSince, Goto
<1> QED
  BY <1>1, <1>2, <1>3, <1>4, QuietStep

\* A commit waits for the readers to leave.
LEMMA RequestCommitKeeps ==
  ASSUME IInv, NEW p \in Process, RequestCommit(p)
  PROVE  IInv'
<1>1. TypeOK'
  BY DEF IInv, TypeOK, LockTypeOK, LockStates, Stages, RequestCommit, AcquirePending, Goto, Rows
<1>2. db' = db /\ \A q \in Process \ {p} : Unmoved(q)
  BY DEF IInv, TypeOK, LockTypeOK, Unmoved, RequestCommit, AcquirePending, Goto, Rows
<1>3. ProcessOK(p)'
  BY DEF IInv, TypeOK, LockTypeOK, ProcessOK, LockOf, SeenIsRecorded, Verified, Publishing,
     StagedIsRows, PrintedIsRecorded, AnswerIsRecorded, Transitions, RequestCommit, AcquirePending, Goto, Rows
<1>4. Writing(p)' => Writing(p) \/ ~UpgradeBlocked(p)
  BY DEF IInv, TypeOK, LockTypeOK, Writing, RequestCommit, AcquirePending, Goto, Rows
<1> QED
  BY <1>1, <1>2, <1>3, <1>4, QuietStep

\* Current reads a recorded snapshot.
LEMMA ReadCurrentKeeps ==
  ASSUME IInv, NEW p \in Process, ReadCurrent(p)
  PROVE  IInv'
<1> DEFINE n == Len(db.snapshots)
           state == CurrentState(db)
<1>1. /\ n \in 1 .. n /\ n \in Nat /\ Len(db.epochs) \in Nat
      /\ db.snapshots[n].epoch = Len(db.epochs)
      /\ db.snapshots[n].scan \in Scans
  BY CurrentIsNewest, SnapshotRows, SequenceFacts
  DEF IInv, WellFormed, ReadCurrent, Database
<1>2. state = [epoch |-> Len(db.epochs), snapshot |-> n, scan |-> db.snapshots[n].scan]
  BY CurrentIsNewest DEF IInv, ReadCurrent, CurrentState
<1>3. state \in CurrentStates
  BY <1>1, <1>2 DEF CurrentStates
<1>4. /\ state.epoch = Len(db.epochs) /\ state.snapshot = n
      /\ state.scan = db.snapshots[n].scan
  BY <1>2
<1>5. /\ seen' = [seen EXCEPT ![p] = state] /\ db.repositories = 1 /\ AcquireShared(p)
      /\ pc' = [pc EXCEPT ![p] = "current-read"] /\ pc[p] = "current"
      /\ UNCHANGED <<worktree, stateFile, db, command, since, live, staged, answer, started>>
  BY DEF ReadCurrent, Goto
<1> HIDE DEF state
<1>6. TypeOK'
  BY <1>3, <1>5 DEF IInv, TypeOK, LockTypeOK, LockStates, Stages, AcquireShared
<1>7. db' = db /\ \A q \in Process \ {p} : Unmoved(q)
  BY <1>5 DEF IInv, TypeOK, LockTypeOK, Unmoved, AcquireShared
<1>8. ProcessOK(p)'
  <2>1. SeenIsRecorded(p)'
    BY <1>1, <1>3, <1>4, <1>5 DEF IInv, TypeOK, SeenIsRecorded
  <2> QED
    BY <1>5, <2>1 DEF IInv, TypeOK, LockTypeOK, ProcessOK, LockOf, Verified, Publishing,
       StagedIsRows, PrintedIsRecorded, AnswerIsRecorded, AcquireShared
<1>9. Writing(p)' => Writing(p) \/ ~UpgradeBlocked(p)
  BY <1>5 DEF IInv, TypeOK, LockTypeOK, Writing, AcquireShared
<1> QED
  BY <1>6, <1>7, <1>8, <1>9, QuietStep

\* The verification of the write transaction.
LEMMA BeginKeeps ==
  ASSUME IInv, NEW p \in Process, Begin(p)
  PROVE  IInv'
<1>1. /\ command[p] = "init" => db.repositories = 0
      /\ command[p] \in {"refresh", "rebaseline"} => seen[p].snapshot = CurrentSnapshot(db)
  <2>1. db.repositories \in {0, 1}
    BY DEF IInv, TypeOK, Database
  <2> QED
    BY <2>1 DEF Begin, Refusal
<1>2. command[p] \in {"refresh", "rebaseline"} => seen[p].epoch = ActiveEpoch(db)
  <2> SUFFICES ASSUME command[p] \in {"refresh", "rebaseline"}
               PROVE  seen[p].epoch = ActiveEpoch(db)
    OBVIOUS
  <2>1. /\ db.repositories = 1
        /\ db.snapshots[seen[p].snapshot].epoch = seen[p].epoch
    BY DEF IInv, ProcessOK, SeenIsRecorded, Begin
  <2> QED
    BY <1>1, <2>1, CurrentIsNewest DEF IInv
<1>3. TypeOK'
  BY DEF IInv, TypeOK, LockTypeOK, LockStates, Stages, Begin, AcquireShared, Goto
<1>4. db' = db /\ \A q \in Process \ {p} : Unmoved(q)
  BY DEF IInv, TypeOK, LockTypeOK, Unmoved, Begin, AcquireShared, Goto
<1>5. ProcessOK(p)'
  BY <1>1, <1>2 DEF IInv, TypeOK, LockTypeOK, ProcessOK, LockOf, SeenIsRecorded, Verified,
     StagedIsRows, PrintedIsRecorded, AnswerIsRecorded, Begin, AcquireShared, Goto
<1>6. Writing(p)' => Writing(p) \/ ~UpgradeBlocked(p)
  BY DEF IInv, TypeOK, LockTypeOK, Writing, Begin, AcquireShared, Goto
<1> QED
  BY <1>3, <1>4, <1>5, <1>6, QuietStep

\* The rows of a verified transaction make a healthy database: they follow the
\* rows that are there, and a transition's run records what it scanned.
LEMMA RowsAreSound ==
  ASSUME IInv, NEW p \in Process, pc[p] \in Publishing
  PROVE  /\ WellFormed(Rows(p))
         /\ KeepsRows(db, Rows(p))
         /\ command[p] \in Transitions => LastRunRecords(Rows(p), live[p])
         /\ \/ Rows(p).snapshots = db.snapshots
            \/ /\ command[p] \in Transitions
               /\ Len(Rows(p).snapshots) = Len(db.snapshots) + 1
<1> DEFINE n == Len(db.snapshots)
<1>1. WellFormed(db) /\ db.repositories \in {0, 1}
  BY DEF IInv, TypeOK, Database
<1>2. command[p] \in CommandNames /\ live[p] \in Scans /\ since[p] \in Nat
  BY DEF IInv, TypeOK
<1>3. SeenIsRecorded(p) /\ Verified(p)
  BY DEF IInv, ProcessOK
<1>4. CASE command[p] = "init"
  <2>1. db.repositories = 0
    BY <1>3, <1>4 DEF Verified
  <2>2. Rows(p) = Initialized(db, live[p])
    BY <1>4 DEF Rows
  <2> QED
    BY <1>1, <1>2, <1>4, <2>1, <2>2, InitializeIsRecorded DEF Transitions
<1>5. CASE command[p] \in {"refresh", "rebaseline"}
  <2>1. /\ db.repositories = 1
        /\ db.snapshots[seen[p].snapshot].scan = seen[p].scan
        /\ seen[p].snapshot = CurrentSnapshot(db)
        /\ seen[p].epoch = ActiveEpoch(db)
    BY <1>3, <1>5 DEF SeenIsRecorded, Verified, Publishing
  <2>2. seen[p].snapshot = n /\ seen[p].epoch = Len(db.epochs)
        /\ seen[p].scan = db.snapshots[n].scan
    BY <1>1, <2>1, CurrentIsNewest
  <2>3. CASE command[p] = "refresh"
    <3>1. Rows(p) = Refreshed(db, seen[p], live[p])
      BY <2>3 DEF Rows
    <3> QED
      BY <1>1, <1>2, <2>1, <2>2, <2>3, <3>1, RefreshIsRecorded DEF Transitions
  <2>4. CASE command[p] = "rebaseline"
    <3>1. Rows(p) = Rebaselined(db, seen[p], live[p])
      BY <2>4 DEF Rows
    <3> QED
      BY <1>1, <1>2, <2>1, <2>2, <2>4, <3>1, RebaselineIsRecorded DEF Transitions
  <2> QED
    BY <1>5, <2>3, <2>4
<1>6. CASE command[p] \in {"status", "cue"}
  <2>1. Rows(p) = WithCueRun(db, seen[p].snapshot, since[p])
    BY <1>6 DEF Rows
  <2>2. seen[p].snapshot \in Nat
    BY <1>3, <1>6 DEF SeenIsRecorded, CurrentStates, Publishing
  <2>3. WellFormed(Rows(p)) /\ KeepsRows(db, Rows(p)) /\ Rows(p).snapshots = db.snapshots
    <3> DEFINE c == WithCueRun(db, seen[p].snapshot, since[p])
    <3>1. WellFormed(c) /\ KeepsRows(db, c) /\ c.snapshots = db.snapshots
      BY <1>1, <1>2, <2>2, CueRunIsRecorded
    <3> QED
      BY <2>1, <3>1
  <2> QED
    BY <1>6, <2>3 DEF Transitions
<1> QED
  BY <1>2, <1>4, <1>5, <1>6 DEF CommandNames

\* No row of a verified transaction is refused by the schema.
LEMMA WriteKeeps ==
  ASSUME IInv, NEW p \in Process, Write(p)
  PROVE  IInv'
<1>1. WellFormed(Rows(p)) /\ ConstraintsHold(Rows(p))
  BY RowsAreSound, WellFormedIsLegal DEF Write, Publishing
<1>2. Rows(p) \in Database
  BY <1>1 DEF WellFormed
<1> DEFINE rows == Rows(p)
<1>3. /\ pc[p] = "write" /\ ~UpgradeBlocked(p)
      /\ AcquireReserved(p)
      /\ staged' = [staged EXCEPT ![p] = rows]
      /\ pc' = [pc EXCEPT ![p] = "commit"]
      /\ UNCHANGED <<worktree, stateFile, db, command, seen, since, live, answer, started>>
  BY <1>1 DEF Write, Goto
<1>4. rows' = rows
  BY <1>3 DEF Rows
<1> HIDE DEF rows
<1>5. TypeOK'
  BY <1>2, <1>3 DEF IInv, TypeOK, LockTypeOK, LockStates, Stages, AcquireReserved, rows
<1>6. db' = db /\ \A q \in Process \ {p} : Unmoved(q)
  BY <1>3 DEF IInv, TypeOK, LockTypeOK, Unmoved, AcquireReserved
<1>7. ProcessOK(p)'
  <2>1. StagedIsRows(p)'
    BY <1>3, <1>4 DEF IInv, TypeOK, StagedIsRows, rows
  <2> QED
    BY <1>3, <2>1 DEF IInv, TypeOK, LockTypeOK, ProcessOK, LockOf, SeenIsRecorded, Verified,
       Publishing, PrintedIsRecorded, AnswerIsRecorded, AcquireReserved
<1>8. Writing(p)' => Writing(p) \/ ~UpgradeBlocked(p)
  BY <1>3
<1> QED
  BY <1>5, <1>6, <1>7, <1>8, QuietStep

\* Whoever commits is alone with the database: nobody else holds a lock, so
\* nobody else relies on a verification.
LEMMA CommitKeeps ==
  ASSUME IInv, NEW p \in Process, Commit(p)
  PROVE  IInv'
<1> DEFINE rows == Rows(p)
<1>1. /\ pc[p] = "exclusive"
      /\ staged[p] = rows
      /\ db' = rows
      /\ lock' = [lock EXCEPT ![p] = "none"]
      /\ pc' = [pc EXCEPT ![p] = "print"]
      /\ UNCHANGED <<worktree, stateFile, command, seen, since, live, staged, answer, started>>
      /\ \A q \in Process \ {p} : lock[q] = "none"
  BY DEF IInv, ProcessOK, StagedIsRows, Commit, Release, Goto, ExclusiveBlocked
<1>2. /\ WellFormed(rows) /\ KeepsRows(db, rows)
      /\ command[p] \in Transitions => LastRunRecords(rows, live[p])
  BY <1>1, RowsAreSound DEF Publishing
<1> HIDE DEF rows
<1>3. db \in Database /\ rows \in Database
  BY <1>2 DEF IInv, WellFormed
<1>4. TypeOK'
  BY <1>1, <1>3 DEF IInv, TypeOK, LockTypeOK, LockStates, Stages
<1>5. OneWriter'
  BY <1>1 DEF IInv, TypeOK, LockTypeOK, OneWriter, Writing
<1>6. WellFormed(db)'
  BY <1>1, <1>2
<1>7. ASSUME NEW q \in Process
      PROVE  SeenIsRecorded(q)' /\ AnswerIsRecorded(q)'
  <2>1. pc'[q] # pc[q] => q = p /\ pc[q] = "exclusive" /\ pc'[q] = "print"
    BY <1>1 DEF IInv, TypeOK
  <2>2. AnswerIsRecorded(q)'
    <3> SUFFICES ASSUME answer[q].run # 0
                 PROVE  /\ pc'[q] = "idle"
                        /\ Records(rows, answer[q].run, answer[q].snapshot, live[q])
      BY <1>1 DEF AnswerIsRecorded
    <3>1. pc[q] = "idle" /\ Records(db, answer[q].run, answer[q].snapshot, live[q])
      BY DEF IInv, ProcessOK, AnswerIsRecorded
    <3> QED
      BY <1>2, <1>3, <2>1, <3>1, RecordsStay
  <2>3. SeenIsRecorded(q)'
    <3> SUFFICES ASSUME pc[q] \notin {"idle", "open", "current"}, command[q] # "init"
                 PROVE  /\ rows.repositories = 1
                        /\ seen[q] \in CurrentStates
                        /\ seen[q].snapshot \in 1 .. Len(rows.snapshots)
                        /\ rows.snapshots[seen[q].snapshot].epoch = seen[q].epoch
                        /\ rows.snapshots[seen[q].snapshot].scan = seen[q].scan
      BY <1>1, <2>1 DEF SeenIsRecorded
    <3>1. /\ db.repositories = 1
          /\ seen[q] \in CurrentStates
          /\ seen[q].snapshot \in 1 .. Len(db.snapshots)
          /\ db.snapshots[seen[q].snapshot].epoch = seen[q].epoch
          /\ db.snapshots[seen[q].snapshot].scan = seen[q].scan
      BY DEF IInv, ProcessOK, SeenIsRecorded
    <3>2. rows.repositories \in {0, 1}
      BY <1>3 DEF Database
    <3>3. Len(db.snapshots) \in Nat /\ Len(rows.snapshots) \in Nat
      BY <1>3, SnapshotRows
    <3> QED
      BY <1>2, <3>1, <3>2, <3>3, SMTT(30) DEF KeepsRows, IsPrefixOf
  <2> QED
    BY <2>2, <2>3
<1>8. ASSUME NEW q \in Process
      PROVE  PrintedIsRecorded(q)'
  <2>1. CASE q = p
    <3>1. /\ staged'[p] = rows /\ live'[p] = live[p] /\ command'[p] = command[p]
      BY <1>1
    <3> QED
      BY <1>1, <1>2, <2>1, <3>1 DEF PrintedIsRecorded, LastRunRecords
  <2>2. CASE q # p
    <3> SUFFICES ASSUME pc[q] = "print", command[q] \in Transitions
                 PROVE  LET n == Len(staged[q].operationRuns)
                        IN  Records(rows, n, staged[q].operationRuns[n].snapshot, live[q])
      BY <1>1, <2>2 DEF IInv, TypeOK, PrintedIsRecorded
    <3>1. LET n == Len(staged[q].operationRuns)
          IN  Records(db, n, staged[q].operationRuns[n].snapshot, live[q])
      BY DEF IInv, ProcessOK, PrintedIsRecorded
    <3> QED
      BY <1>2, <1>3, <3>1, RecordsStay
  <2> QED
    BY <2>1, <2>2
<1>9. ASSUME NEW q \in Process
      PROVE  /\ lock'[q] = LockOf(pc'[q]) /\ Verified(q)' /\ StagedIsRows(q)'
             /\ answer'[q].outcome # "constraint"
  <2>1. CASE q = p
    BY <1>1, <2>1 DEF IInv, TypeOK, LockTypeOK, ProcessOK, LockOf, Verified, Publishing, StagedIsRows
  <2>2. CASE q # p
    <3>1. lock[q] = "none" /\ lock'[q] = "none" /\ pc'[q] = pc[q]
      BY <1>1, <2>2 DEF IInv, TypeOK, LockTypeOK
    <3>2. lock[q] = LockOf(pc[q]) /\ answer[q].outcome # "constraint"
      BY DEF IInv, ProcessOK
    <3>3. pc[q] \notin Publishing
      BY <3>1, <3>2 DEF LockOf, Publishing
    <3> QED
      BY <1>1, <3>1, <3>2, <3>3 DEF Verified, StagedIsRows, Publishing
  <2> QED
    BY <2>1, <2>2
<1> QED
  BY <1>4, <1>5, <1>6, <1>7, <1>8, <1>9 DEF IInv, ProcessOK

\* A command answers with what it recorded.
LEMMA RespondKeeps ==
  ASSUME IInv, NEW p \in Process, Respond(p)
  PROVE  IInv'
<1> DEFINE result == Outcome(p)
           runs == staged[p].operationRuns
           n == Len(runs)
<1>1. pc[p] = "print" /\ End(p, result)
  BY DEF Respond
<1>2. CASE command[p] \in Transitions
  <2>1. result = [outcome |-> "ok", snapshot |-> runs[n].snapshot, run |-> n]
    BY <1>2 DEF Outcome, Transitions
  <2>2. Records(db, n, runs[n].snapshot, live[p])
    BY <1>1, <1>2 DEF IInv, ProcessOK, PrintedIsRecorded
  <2>3. n \in Nat /\ runs[n].snapshot \in Nat
    BY <2>2, SequenceFacts, SnapshotRows DEF IInv, TypeOK, Database, Records
  <2>4. result \in Answers /\ result.outcome # "constraint" /\
        result.run = n /\ result.snapshot = runs[n].snapshot
    BY <2>1, <2>3 DEF Answers
  <2> HIDE DEF result, runs, n
  <2> QED
    BY <1>1, <2>2, <2>4, EndKeeps
<1>3. CASE command[p] \notin Transitions
  <2>1. result = [outcome |-> "ok", snapshot |-> seen[p].snapshot, run |-> 0]
    BY <1>3 DEF Outcome, Transitions
  <2>2. seen[p].snapshot \in Nat
    BY <1>1, <1>3 DEF IInv, ProcessOK, SeenIsRecorded, Transitions, CurrentStates
  <2>3. result \in Answers /\ result.outcome # "constraint" /\ result.run = 0
    BY <2>1, <2>2 DEF Answers
  <2> HIDE DEF result
  <2> QED
    BY <1>1, <2>3, EndKeeps
<1> QED
  BY <1>2, <1>3

\* The working tree is nobody's lock and nobody's row.
LEMMA EditKeeps ==
  ASSUME IInv, NEW w \in Scans, Edit(w)
  PROVE  IInv'
<1>1. TypeOK'
  BY DEF IInv, TypeOK, LockTypeOK, Edit
<1>2. \A q \in Process : ProcessOK(q)'
  BY UnmovedStaysOK DEF IInv, Edit, Unmoved
<1> QED
  BY <1>1, <1>2 DEF IInv, OneWriter, Writing, Edit

\* Nothing happens.
LEMMA StutterKeeps ==
  ASSUME IInv, UNCHANGED vars
  PROVE  IInv'
<1>1. TypeOK'
  BY DEF IInv, TypeOK, LockTypeOK, vars
<1>2. \A q \in Process : ProcessOK(q)'
  BY UnmovedStaysOK DEF IInv, vars, Unmoved
<1> QED
  BY <1>1, <1>2 DEF IInv, OneWriter, Writing, vars

\* Every step of a command.
LEMMA StepKeeps ==
  ASSUME IInv, NEW p \in Process, Step(p)
  PROVE  IInv'
<1>1. CASE StoreMissing(p) \/ ReadNothing(p) \/ UnknownSince(p) \/ WriteRefused(p)
  BY <1>1, FailKeeps DEF StoreMissing, ReadNothing, UnknownSince, WriteRefused, Failures
<1>2. CASE Refuse(p)
  BY <1>2, FailKeeps DEF Refuse, Refusal, Failures
<1> QED
  BY <1>1, <1>2, CreateStoreKeeps, OpenStoreKeeps, ReadCurrentKeeps, EndReadCurrentKeeps,
     ScanKeeps, ReadSinceKeeps, EndReadSinceKeeps, WithoutSinceKeeps, BeginKeeps, WriteKeeps,
     RequestCommitKeeps, CommitKeeps, RespondKeeps
  DEF Step

\* The invariant is inductive.
LEMMA NextKeeps == IInv /\ [Next]_vars => IInv'
<1> SUFFICES ASSUME IInv, [Next]_vars
             PROVE  IInv'
  OBVIOUS
<1>1. ASSUME NEW p \in Process, Invoke(p)
      PROVE  IInv'
  BY <1>1, StartKeeps DEF Invoke
<1>2. ASSUME NEW p \in Process, BusyTimeout(p)
      PROVE  IInv'
  BY <1>2, FailKeeps DEF BusyTimeout, Failures
<1>3. ASSUME NEW p \in Process, Crash(p)
      PROVE  IInv'
  <2>1. Silent \in Answers /\ Silent.outcome = "none" /\ Silent.run = 0
    BY DEF Silent, Answers, NoSnapshot
  <2> QED
    BY <1>3, <2>1, EndKeeps DEF Crash
<1> QED
  BY <1>1, <1>2, <1>3, StepKeeps, EditKeeps, StutterKeeps DEF Next

\* The invariant holds before the first command.
LEMMA InitIsOK == Init => IInv
<1> SUFFICES ASSUME Init
             PROVE  IInv
  OBVIOUS
<1>1. EmptyDatabase \in Database /\ WellFormed(EmptyDatabase)
  BY EmptyIsWellFormed DEF WellFormed
<1>2. TypeOK
  <2>1. Silent \in Answers
    BY DEF Silent, Answers, NoSnapshot
  <2> QED
    BY <1>1, <2>1 DEF Init, LockInit, TypeOK, LockTypeOK, LockStates, Stages, CommandNames, NoSnapshot
<1>3. OneWriter
  BY DEF Init, LockInit, OneWriter, Writing
<1>4. ASSUME NEW p \in Process
      PROVE  ProcessOK(p)
  <2>1. Silent.run = 0 /\ Silent.outcome = "none"
    BY DEF Silent
  <2> QED
    BY <2>1 DEF Init, LockInit, ProcessOK, LockOf, SeenIsRecorded, Verified, Publishing,
       StagedIsRows, PrintedIsRecorded, AnswerIsRecorded
<1> QED
  BY <1>1, <1>2, <1>3, <1>4 DEF IInv, Init

\* Whatever commands, edits, deaths and timeouts come in whatever order, the
\* tables stay well formed and every process stands where its locks say.
THEOREM Invariance == Spec => []IInv
BY InitIsOK, NextKeeps, PTL DEF Spec

\* Every variable of the commands and of the database keeps its type: no
\* transition writes a row outside the tables' domains.
THEOREM TypeCorrect == Spec => []TypeOK
<1>1. IInv => TypeOK
  BY DEF IInv
<1> QED
  BY <1>1, Invariance, PTL

\* After init there is exactly one active epoch and it is the newest one, for
\* any number of racing init and rebaseline commands.
THEOREM OneActiveEpochAlways == Spec => []OneActiveEpoch
<1>1. IInv => OneActiveEpoch
  BY DEF IInv, WellFormed, OneActiveEpoch
<1> QED
  BY <1>1, Invariance, PTL

\* The snapshots of any number of racing commands form one line: each follows
\* the one recorded just before it.
THEOREM LinearHistoryAlways == Spec => []LinearHistory
<1>1. IInv => LinearHistory
  BY DEF IInv, WellFormed, LinearHistory
<1> QED
  BY <1>1, Invariance, PTL

\* Every delta a refresh stores is the difference of the two recorded
\* snapshots it joins.
THEOREM DeltasJoinSnapshotsAlways == Spec => []DeltasJoinSnapshots
<1>1. IInv => DeltasJoinSnapshots
  BY DEF IInv, WellFormed, DeltasJoinSnapshots
<1> QED
  BY <1>1, Invariance, PTL

\* What verifyCurrentSnapshot established still holds when the transaction
\* commits: nobody else can publish in between.
THEOREM VerifiedStaysCurrentAlways == Spec => []VerifiedStaysCurrent
<1>1. IInv => VerifiedStaysCurrent
  BY DEF IInv, ProcessOK, Verified, VerifiedStaysCurrent
<1> QED
  BY <1>1, Invariance, PTL

\* No command ever fails on a uniqueness constraint of the schema.
THEOREM NoConstraintFailureAlways == Spec => []NoConstraintFailure
<1>1. IInv => NoConstraintFailure
  BY DEF IInv, ProcessOK, NoConstraintFailure
<1> QED
  BY <1>1, Invariance, PTL

\* What a transition reported to its user is recorded, and stays recorded
\* whatever later commands do.
THEOREM AcknowledgedIsRecordedAlways == Spec => []AcknowledgedIsRecorded
<1>1. ASSUME IInv
      PROVE  AcknowledgedIsRecorded
  <2> SUFFICES ASSUME NEW p \in Process, answer[p].run # 0
               PROVE  /\ answer[p].run \in DOMAIN db.operationRuns
                      /\ db.operationRuns[answer[p].run].snapshot = answer[p].snapshot
                      /\ db.snapshots[answer[p].snapshot].scan = live[p]
    BY DEF AcknowledgedIsRecorded
  <2>1. Records(db, answer[p].run, answer[p].snapshot, live[p])
    BY <1>1 DEF IInv, ProcessOK, AnswerIsRecorded
  <2>2. DOMAIN db.operationRuns = 1 .. Len(db.operationRuns)
    BY <1>1 DEF IInv, TypeOK, Database
  <2> QED
    BY <2>1, <2>2 DEF Records
<1> QED
  BY <1>1, Invariance, PTL

\* A commit that waits is kept waiting by readers, and readers go on.
LEMMA ReadersGoOn ==
  ASSUME IInv, NEW p \in Process, pc[p] = "exclusive", ExclusiveBlocked(p)
  PROVE  \E q \in Process : lock[q] # "none" /\ pc[q] # "idle" /\ ~Waiting(q)
<1>1. PICK q \in Process \ {p} : lock[q] # "none"
  BY DEF ExclusiveBlocked
<1>2. Writing(p)
  BY DEF IInv, ProcessOK, LockOf, Writing
<1>3. lock[q] = "shared"
  BY <1>1, <1>2 DEF IInv, TypeOK, LockTypeOK, LockStates, OneWriter, Writing
<1>4. pc[q] \in {"current-read", "since-read", "write"}
  BY <1>3 DEF IInv, ProcessOK, LockOf
<1> QED
  BY <1>1, <1>4 DEF Waiting

\* Any number of commands, whatever they read and write, never wait in a circle: while
\* one waits, another that holds a lock is at work and does not wait.
THEOREM SomeHolderRunsAlways == Spec => []SomeHolderRuns
<1>1. ASSUME IInv, NEW p \in Process, Waiting(p)
      PROVE  \E q \in Process : lock[q] # "none" /\ pc[q] # "idle" /\ ~Waiting(q)
  <2>1. CASE pc[p] = "exclusive"
    BY <1>1, <2>1, ReadersGoOn DEF Waiting
  <2>2. CASE ReadBlocked
    <3>1. PICK q \in Process : lock[q] = "pending"
      BY <2>2 DEF ReadBlocked
    <3>2. pc[q] = "exclusive"
      BY <1>1, <3>1 DEF IInv, ProcessOK, LockOf
    <3>3. CASE ExclusiveBlocked(q)
      BY <1>1, <3>2, <3>3, ReadersGoOn
    <3>4. CASE ~ExclusiveBlocked(q)
      BY <3>1, <3>2, <3>4 DEF Waiting
    <3> QED
      BY <3>3, <3>4
  <2> QED
    BY <1>1, <2>1, <2>2 DEF Waiting
<1>2. IInv => SomeHolderRuns
  BY <1>1 DEF SomeHolderRuns
<1> QED
  BY <1>2, Invariance, PTL

\* Only a commit changes the tables.
LEMMA OnlyCommitsWrite ==
  ASSUME [Next]_vars, ~\E p \in Process : Commit(p)
  PROVE  db' = db
<1>1. ASSUME NEW p \in Process, NEW result, End(p, result)
      PROVE  db' = db
  BY <1>1 DEF End
<1>2. ASSUME NEW p \in Process, Step(p)
      PROVE  db' = db
  <2>1. CASE \/ StoreMissing(p) \/ ReadNothing(p) \/ UnknownSince(p) \/ Refuse(p)
             \/ WriteRefused(p) \/ Respond(p)
    BY <1>1, <2>1
    DEF StoreMissing, ReadNothing, UnknownSince, Refuse, WriteRefused, Respond, Fail
  <2>2. CASE Write(p)
    BY <1>1, <2>2 DEF Write, Fail
  <2>3. CASE \/ CreateStore(p) \/ OpenStore(p) \/ ReadCurrent(p) \/ EndReadCurrent(p)
             \/ Scan(p) \/ ReadSince(p) \/ EndReadSince(p) \/ WithoutSince(p)
             \/ Begin(p) \/ RequestCommit(p)
    BY <2>3
    DEF CreateStore, OpenStore, ReadCurrent, EndReadCurrent, EndRead, Scan, ReadSince,
        EndReadSince, WithoutSince, Begin, RequestCommit
  <2> QED
    BY <1>2, <2>1, <2>2, <2>3 DEF Step
<1>3. ASSUME NEW p \in Process, Invoke(p)
      PROVE  db' = db
  BY <1>3 DEF Invoke, Start
<1>4. ASSUME NEW p \in Process, BusyTimeout(p) \/ Crash(p)
      PROVE  db' = db
  BY <1>1, <1>4 DEF BusyTimeout, Crash, Fail
<1>5. ASSUME NEW w \in Scans, Edit(w)
      PROVE  db' = db
  BY <1>5 DEF Edit
<1> QED
  BY <1>2, <1>3, <1>4, <1>5 DEF Next, vars

\* A commit writes the rows its transaction staged, on top of those there are.
LEMMA CommitWritesRows ==
  ASSUME IInv, NEW p \in Process, Commit(p)
  PROVE  /\ pc[p] \in Publishing
         /\ db' = Rows(p)
         /\ seen' = seen
BY DEF IInv, ProcessOK, StagedIsRows, Commit, Publishing

\* No step of any command rewrites or removes a committed row, but for the
\* epoch a rebaseline supersedes.
THEOREM CommittedRowsStayAlways == Spec => CommittedRowsStay
<1>1. ASSUME IInv, [Next]_vars
      PROVE  [KeepsRows(db, db')]_db
  <2>1. CASE \E p \in Process : Commit(p)
    BY <1>1, <2>1, CommitWritesRows, RowsAreSound
  <2>2. CASE ~\E p \in Process : Commit(p)
    BY <1>1, <2>2, OnlyCommitsWrite
  <2> QED
    BY <2>1, <2>2
<1> QED
  BY <1>1, Invariance, PTL DEF Spec, CommittedRowsStay

--------------------------------------------------------------------------------
(***************************************************************************)
(* The refinement: a commit that records a snapshot appends to the log, a  *)
(* read of the current state looks at it, and the end of a process forgets *)
(* what it saw.                                                            *)
(***************************************************************************)
\* A process that has not read the current state, or is an init, has seen nothing.
SeesNothing ==
  \A p \in Process :
    /\ pc[p] \in {"idle", "open", "current"} \/ command[p] = "init" =>
         seen[p].snapshot = NoSnapshot
    /\ pc[p] = "current" => command[p] # "init"

\* A process forgets what it saw when it ends.
LEMMA SeesNothingKeeps ==
  ASSUME IInv, SeesNothing, [Next]_vars
  PROVE  SeesNothing'
<1> USE DEF SeesNothing, NoSnapshot, NothingSeen
<1>1. ASSUME NEW p \in Process, NEW result, End(p, result)
      PROVE  SeesNothing'
  BY <1>1 DEF IInv, TypeOK, End, Goto
<1>2. ASSUME NEW p \in Process, Step(p)
      PROVE  SeesNothing'
  <2>1. CASE \/ StoreMissing(p) \/ ReadNothing(p) \/ UnknownSince(p) \/ Refuse(p)
             \/ WriteRefused(p) \/ Respond(p)
    BY <1>1, <2>1
    DEF StoreMissing, ReadNothing, UnknownSince, Refuse, WriteRefused, Respond, Fail
  <2>2. CASE Write(p)
    BY <1>1, <2>2 DEF IInv, TypeOK, Write, Fail, Goto
  <2>3. CASE CreateStore(p) \/ OpenStore(p) \/ Scan(p) \/ WithoutSince(p)
    BY <2>3
    DEF IInv, TypeOK, CreateStore, OpenStore, Scan, AfterScan, CommandNames, WithoutSince, Goto
  <2>4. CASE ReadCurrent(p)
    BY <2>4 DEF IInv, TypeOK, ReadCurrent, Goto
  <2>5. CASE EndReadCurrent(p) \/ ReadSince(p) \/ EndReadSince(p)
    BY <2>5 DEF IInv, TypeOK, EndReadCurrent, EndRead, ReadSince, EndReadSince, Goto
  <2>6. CASE Begin(p) \/ RequestCommit(p) \/ Commit(p)
    BY <2>6 DEF IInv, TypeOK, Begin, RequestCommit, Commit, Goto
  <2> QED
    BY <1>2, <2>1, <2>2, <2>3, <2>4, <2>5, <2>6 DEF Step
<1>3. ASSUME NEW p \in Process, Invoke(p)
      PROVE  SeesNothing'
  BY <1>3 DEF IInv, TypeOK, Invoke, Start, Goto
<1>4. ASSUME NEW p \in Process, BusyTimeout(p) \/ Crash(p)
      PROVE  SeesNothing'
  BY <1>1, <1>4 DEF BusyTimeout, Crash, Fail
<1>5. ASSUME NEW w \in Scans, Edit(w)
      PROVE  SeesNothing'
  BY <1>5 DEF Edit
<1>6. CASE UNCHANGED vars
  BY <1>6 DEF vars
<1> QED
  BY <1>2, <1>3, <1>4, <1>5, <1>6 DEF Next

\* The entry of SnapshotHistory a snapshot stands for.
LogEntry(d, s) ==
  [epoch |-> d.snapshots[s].epoch, parent |-> d.snapshots[s].parent,
   state |-> d.snapshots[s].scan]

LogOf(d) == [s \in DOMAIN d.snapshots |-> LogEntry(d, s)]

\* The log a database stands for.
LEMMA LogOfDatabase ==
  ASSUME NEW d \in Database
  PROVE  /\ LogOf(d) \in Seq([epoch : Nat, parent : Nat, state : Scans])
         /\ Len(LogOf(d)) = Len(d.snapshots)
         /\ Len(d.snapshots) \in Nat
         /\ \A s \in 1 .. Len(d.snapshots) :
              /\ LogOf(d)[s] = LogEntry(d, s)
              /\ LogEntry(d, s) \in [epoch : Nat, parent : Nat, state : Scans]
<1>1. /\ Len(d.snapshots) \in Nat
      /\ DOMAIN d.snapshots = 1 .. Len(d.snapshots)
      /\ \A s \in 1 .. Len(d.snapshots) :
           LogEntry(d, s) \in [epoch : Nat, parent : Nat, state : Scans]
  BY SnapshotRows DEF LogEntry
<1> QED
  BY <1>1 DEF LogOf

\* Of two databases that keep their rows, the longer one's log extends the
\* other's.
LEMMA LogGrowsByOne ==
  ASSUME NEW d \in Database, NEW c \in Database, KeepsRows(d, c),
         Len(c.snapshots) = Len(d.snapshots) + 1
  PROVE  LogOf(c) = Append(LogOf(d), LogEntry(c, Len(c.snapshots)))
<1> DEFINE n == Len(d.snapshots)
           log == LogOf(d)
           entry == LogEntry(c, n + 1)
<1>1. /\ log \in Seq([epoch : Nat, parent : Nat, state : Scans])
      /\ Len(log) = n /\ n \in Nat
      /\ \A s \in 1 .. n : log[s] = LogEntry(d, s)
  BY LogOfDatabase
<1>2. /\ LogOf(c) \in Seq([epoch : Nat, parent : Nat, state : Scans])
      /\ Len(LogOf(c)) = n + 1
      /\ \A s \in 1 .. n + 1 :
           /\ LogOf(c)[s] = LogEntry(c, s)
           /\ LogEntry(c, s) \in [epoch : Nat, parent : Nat, state : Scans]
  BY LogOfDatabase
<1>3. \A s \in 1 .. n : LogEntry(c, s) = LogEntry(d, s)
  BY DEF KeepsRows, IsPrefixOf, LogEntry
<1>4. n + 1 \in 1 .. n + 1 /\ entry \in [epoch : Nat, parent : Nat, state : Scans]
  BY <1>1, <1>2
<1> HIDE DEF log, entry
<1>5. /\ Append(log, entry) \in Seq([epoch : Nat, parent : Nat, state : Scans])
      /\ Len(Append(log, entry)) = n + 1
      /\ \A s \in 1 .. n : Append(log, entry)[s] = log[s]
      /\ Append(log, entry)[n + 1] = entry
  BY <1>1, <1>4
<1>6. \A s \in 1 .. n + 1 : LogOf(c)[s] = Append(log, entry)[s]
  <2>1. \A s \in 1 .. n + 1 : s \in 1 .. n \/ s = n + 1
    BY <1>1
  <2> QED
    BY <1>1, <1>2, <1>3, <1>5, <2>1 DEF entry
<1>7. LogOf(c) = Append(log, entry)
  BY <1>2, <1>5, <1>6, SeqEqual
<1> QED
  BY <1>7 DEF entry, log

\* A transaction that records no snapshot leaves the log alone.
LEMMA SameSnapshotsSameLog ==
  ASSUME NEW d, NEW c, c.snapshots = d.snapshots
  PROVE  LogOf(c) = LogOf(d)
BY DEF LogOf, LogEntry

\* The log variable of SnapshotHistory is the log of the committed database.
LEMMA MappedVariables ==
  RecordedLog = LogOf(db) /\ RecordedLog' = LogOf(db')
BY DEF RecordedLog, LogOf, LogEntry

\* Without a database the log is empty.
LEMMA InitRefines ==
  ASSUME Init
  PROVE  History!Init
<1>1. RecordedLog = <<>>
  BY DEF Init, RecordedLog, EmptyDatabase
<1>2. [p \in Process |-> seen[p].snapshot] = [c \in Process |-> 0]
  BY DEF Init, NothingSeen, NoSnapshot
<1> QED
  BY <1>1, <1>2 DEF History!Init

\* A commit appends what its transaction recorded, having looked at all there is.
LEMMA CommitRefines ==
  ASSUME IInv, IInv', SeesNothing, NEW p \in Process, Commit(p)
  PROVE  History!Next \/ UNCHANGED History!vars
<1> DEFINE n == Len(db.snapshots)
           scan == db'.snapshots[n + 1].scan
<1>1. /\ pc[p] \in Publishing /\ db' = Rows(p) /\ seen' = seen
  BY CommitWritesRows
<1>2. /\ db \in Database /\ db' \in Database /\ KeepsRows(db, db')
      /\ WellFormed(db) /\ WellFormed(db')
  BY <1>1, RowsAreSound DEF IInv, WellFormed
<1>3. CASE db'.snapshots = db.snapshots
  BY <1>1, <1>3, SameSnapshotsSameLog, MappedVariables DEF History!vars
<1>4. CASE /\ command[p] \in Transitions
           /\ Len(db'.snapshots) = n + 1
  <2>1. seen[p].snapshot = n
    <3>1. CASE command[p] = "init"
      <4>1. db.repositories = 0 /\ seen[p].snapshot = 0
        BY <1>1, <3>1 DEF IInv, ProcessOK, Verified, SeesNothing, NoSnapshot
      <4>2. db.snapshots = <<>>
        BY <1>2, <4>1 DEF WellFormed, NewestSnapshotIsCurrent
      <4> QED
        BY <4>1, <4>2
    <3>2. CASE command[p] \in {"refresh", "rebaseline"}
      <4>1. db.repositories = 1 /\ seen[p].snapshot = CurrentSnapshot(db)
        BY <1>1, <3>2 DEF IInv, ProcessOK, Verified, SeenIsRecorded, Publishing
      <4> QED
        BY <1>2, <4>1, CurrentIsNewest
    <3> QED
      BY <1>4, <3>1, <3>2 DEF Transitions
  <2>2. /\ n \in Nat /\ n + 1 \in DOMAIN db'.snapshots
        /\ scan \in Scans
        /\ db'.snapshots[n + 1].kind \in {"baseline", "refresh"}
        /\ n > 0 => n \in 1 .. n /\ db'.snapshots[n] = db.snapshots[n]
    <3>1. /\ n \in Nat
          /\ DOMAIN db'.snapshots = 1 .. n + 1
          /\ n + 1 \in 1 .. n + 1
          /\ n > 0 => n \in 1 .. n
      BY <1>2, <1>4, SnapshotRows
    <3>2. /\ db'.snapshots[n + 1] \in Snapshot
          /\ db'.snapshots[n + 1].scan \in Scans
      BY <1>2, <1>4, <3>1, SnapshotRows
    <3>3. \A i \in 1 .. n : db'.snapshots[i] = db.snapshots[i]
      BY <1>2 DEF KeepsRows, IsPrefixOf
    <3> QED
      BY <3>1, <3>2, <3>3 DEF Snapshot
  <2>3. FollowsOn(db', n + 1)
    BY <1>2, <2>2 DEF WellFormed, SnapshotsFormOneLine
  <2>4. /\ LogOf(db') = Append(LogOf(db), LogEntry(db', n + 1))
        /\ Len(LogOf(db)) = n
        /\ n > 0 => LogOf(db)[n] = LogEntry(db, n)
        /\ LogOf(db) \in Seq([epoch : Nat, parent : Nat, state : Scans])
    BY <1>2, <1>4, <2>2, LogGrowsByOne, LogOfDatabase
  <2>5. [q \in Process |-> seen[q].snapshot]' = [q \in Process |-> seen[q].snapshot]
    BY <1>1
  <2>6. [q \in Process |-> seen[q].snapshot][p] = n
    BY <2>1
  <2>7. CASE db'.snapshots[n + 1].kind = "baseline"
    <3>1. LogEntry(db', n + 1) =
            [epoch  |-> IF LogOf(db) = <<>> THEN 1 ELSE LogOf(db)[n].epoch + 1,
             parent |-> 0, state |-> scan]
      BY <2>2, <2>3, <2>4, <2>7 DEF FollowsOn, LogEntry, NoSnapshot
    <3>2. History!OpenEpoch(p, scan)
      BY <2>4, <2>5, <2>6, <3>1, MappedVariables DEF History!OpenEpoch, History!Newest
    <3> QED
      BY <2>2, <3>2 DEF History!Next
  <2>8. CASE db'.snapshots[n + 1].kind = "refresh"
    <3>1. /\ n > 0
          /\ LogEntry(db', n + 1) =
               [epoch |-> LogOf(db)[n].epoch, parent |-> n, state |-> scan]
          /\ scan # LogOf(db)[n].state
      BY <2>2, <2>3, <2>4, <2>8 DEF FollowsOn, LogEntry
    <3>2. LogOf(db) # <<>>
      BY <2>4, <3>1
    <3>3. History!Advance(p, scan)
      BY <2>4, <2>5, <2>6, <3>1, <3>2, MappedVariables DEF History!Advance, History!Newest
    <3> QED
      BY <2>2, <3>3 DEF History!Next
  <2> QED
    BY <2>2, <2>7, <2>8
<1> QED
  BY <1>1, <1>3, <1>4, RowsAreSound

\* A read of the current state looks at the whole log.
LEMMA ReadRefines ==
  ASSUME IInv, NEW p \in Process, ReadCurrent(p)
  PROVE  History!Next
<1>1. CurrentState(db).snapshot = Len(db.snapshots) /\ db' = db
  BY CurrentIsNewest DEF IInv, ReadCurrent, CurrentState
<1>2. seen' = [seen EXCEPT ![p] = CurrentState(db)]
  BY DEF ReadCurrent
<1>3. Len(RecordedLog) = Len(db.snapshots)
  BY LogOfDatabase, MappedVariables DEF IInv, TypeOK
<1>4. [q \in Process |-> seen[q].snapshot]' =
        [[q \in Process |-> seen[q].snapshot] EXCEPT ![p] = Len(RecordedLog)]
  BY <1>1, <1>2, <1>3 DEF IInv, TypeOK
<1>5. RecordedLog' = RecordedLog
  BY <1>1, MappedVariables
<1> QED
  BY <1>4, <1>5 DEF History!Next, History!Look

\* The end of a process forgets what it saw.
LEMMA EndRefines ==
  ASSUME IInv, NEW p \in Process, NEW result, End(p, result)
  PROVE  History!Next
<1>1. seen' = [seen EXCEPT ![p] = NothingSeen] /\ db' = db
  BY DEF End
<1>2. [q \in Process |-> seen[q].snapshot]' =
        [[q \in Process |-> seen[q].snapshot] EXCEPT ![p] = 0]
  BY <1>1 DEF IInv, TypeOK, NothingSeen, NoSnapshot
<1>3. RecordedLog' = RecordedLog
  BY <1>1, MappedVariables
<1> QED
  BY <1>2, <1>3 DEF History!Next, History!Forget

\* Other steps leave the log and what was seen of it alone.
LEMMA UnseenRefines ==
  ASSUME db' = db, seen' = seen
  PROVE  UNCHANGED History!vars
BY MappedVariables DEF History!vars

\* Every step of a command is a step of the log, or none.
LEMMA NextRefines ==
  ASSUME IInv, IInv', SeesNothing, [Next]_vars
  PROVE  History!Next \/ UNCHANGED History!vars
<1>1. ASSUME NEW p \in Process, Step(p)
      PROVE  History!Next \/ UNCHANGED History!vars
  <2>1. CASE \/ StoreMissing(p) \/ ReadNothing(p) \/ UnknownSince(p) \/ Refuse(p)
             \/ WriteRefused(p) \/ Respond(p)
    <3>1. \E result : End(p, result)
      BY <2>1
      DEF StoreMissing, ReadNothing, UnknownSince, Refuse, WriteRefused, Respond, Fail
    <3> QED
      BY <3>1, EndRefines
  <2>2. CASE Write(p)
    <3>1. (\E result : End(p, result)) \/ UNCHANGED <<db, seen>>
      BY <2>2 DEF Write, Fail
    <3> QED
      BY <3>1, EndRefines, UnseenRefines
  <2>3. CASE \/ CreateStore(p) \/ OpenStore(p) \/ EndReadCurrent(p)
             \/ Scan(p) \/ ReadSince(p) \/ EndReadSince(p) \/ WithoutSince(p)
             \/ Begin(p) \/ RequestCommit(p)
    <3>1. db' = db /\ seen' = seen
      BY <2>3
      DEF CreateStore, OpenStore, EndReadCurrent, EndRead, Scan, ReadSince, EndReadSince,
          WithoutSince, Begin, RequestCommit
    <3> QED
      BY <3>1, UnseenRefines
  <2> QED
    BY <1>1, <2>1, <2>2, <2>3, ReadRefines, CommitRefines DEF Step
<1>2. ASSUME NEW p \in Process, Invoke(p)
      PROVE  UNCHANGED History!vars
  BY <1>2, UnseenRefines DEF Invoke, Start
<1>3. ASSUME NEW p \in Process, BusyTimeout(p) \/ Crash(p)
      PROVE  History!Next
  <2>1. \E result : End(p, result)
    BY <1>3 DEF BusyTimeout, Crash, Fail
  <2> QED
    BY <2>1, EndRefines
<1>4. ASSUME NEW w \in Scans, Edit(w)
      PROVE  UNCHANGED History!vars
  BY <1>4, UnseenRefines DEF Edit
<1>5. CASE UNCHANGED vars
  BY <1>5, UnseenRefines DEF vars
<1> QED
  BY <1>1, <1>2, <1>3, <1>4, <1>5 DEF Next

\* The store is a compare-and-swap log: whatever commands race, die or time
\* out, the recorded snapshots only ever grow by an entry whose author had
\* seen all the others.
THEOREM HistoryIsImplemented == Spec => ImplementsHistory
<1>1. Init => SeesNothing
  BY DEF Init, SeesNothing, NothingSeen, NoSnapshot
<1>2. IInv /\ SeesNothing /\ [Next]_vars => SeesNothing'
  BY SeesNothingKeeps
<1>3. IInv /\ IInv' /\ SeesNothing /\ [Next]_vars => [History!Next]_(History!vars)
  BY NextRefines
<1>4. Init => History!Init
  BY InitRefines
<1> QED
  BY <1>1, <1>2, <1>3, <1>4, Invariance, PTL DEF Spec, ImplementsHistory, History!Spec
===============================================================================
