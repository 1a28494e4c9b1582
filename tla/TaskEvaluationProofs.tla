-------------------------- MODULE TaskEvaluationProofs --------------------------
(***************************************************************************)
(* Proofs about TaskEvaluation, for any number of evaluations, any streams *)
(* of events and any number of troubles.                                   *)
(*                                                                         *)
(* An evaluation works on one attempt at a time, and what is recorded of   *)
(* an attempt is never written again.  A summary therefore counts what     *)
(* stays, whenever it comes to a pair.                                     *)
(***************************************************************************)
EXTENDS TaskEvaluation, TLAPS

Preparing == {"idle", "made", "refresh", "basis", "overview", "task", "again"}

Working == {"mkdir", "journal", "before", "launch", "ready", "sent", "after"}

\* The transport tells of reply r to what was read and sent.
Tells(transport, read, exch) ==
  \E r \in Replies :
    /\ transport = Observation(read, r)
    /\ exch = [prompt |-> read.prompt, reply |-> r]

\* A final record tells what the provider knows; one that is completed is on the basis.
FinalOK(final, exch, basis) ==
  final # None =>
    /\ final.transport # None /\ final.transport.status = "completed" =>
         \E read \in Readings : read.version \in 1..MaxVersion /\ Tells(final.transport, read, exch)
    /\ final.status = "completed" =>
         /\ final.transport # None /\ final.transport.status = "completed"
         /\ final.before = basis /\ final.after = basis

Completed(final) == final # None /\ final.status = "completed"

\* The attempt an evaluation with memory m works on, at stage s.
AttemptOK(s, m, att, exch) ==
  /\ att.final = None
  /\ s # "mkdir" => att.dir
  /\ s \in {"mkdir", "journal", "before", "launch", "ready"} => exch = None
  /\ s \in {"journal", "before", "launch", "ready", "sent"} => m.transport = None
  /\ s \in {"launch", "ready", "sent"} => m.before = m.basis
  /\ s = "ready" => m.read.version \in 1..MaxVersion
  /\ s = "sent" => /\ m.read.version \in 1..MaxVersion
                   /\ exch = [prompt |-> m.read.prompt, reply |-> None]
  /\ s = "after" => /\ m.transport # None /\ m.transport.status = "completed" =>
                         /\ m.read.version \in 1..MaxVersion
                         /\ Tells(m.transport, m.read, exch)
                    /\ m.sound =>
                         /\ m.transport # None /\ m.transport.status = "completed"
                         /\ m.before = m.basis

\* It is the first, and there is no other, or the second.
WorkOK(s, m, atts, exch) ==
  /\ AttemptOK(s, m, atts[m.order[m.next]], exch[m.order[m.next]])
  /\ m.next = 1 => atts[m.order[2]] = NoAttempt /\ exch[m.order[2]] = None

\* The first attempt was completed, with the version that is remembered.
FirstOK(m, atts) ==
  LET final == atts[m.order[1]].final
  IN Completed(final) /\ final.transport.version = m.version

\* What holds of a pair at stage s of its evaluation.
PairOK(s, m, manif, atts, exch) ==
  /\ s \in {"idle", "made"} => manif = None
  /\ s \in Preparing => m.next = 1 /\ \A a \in Arms : atts[a] = NoAttempt /\ exch[a] = None
  /\ s \in Preparing /\ manif # None => manif.kind = "preparation"
  /\ s \in Working \union {"finish"} =>
       manif = [kind |-> "pair", status |-> "running", basis |-> m.basis]
  /\ s = "failing" => manif = None \/ manif.kind = "preparation" \/ manif.basis = m.basis
  /\ s \in Working => WorkOK(s, m, atts, exch) /\ (m.next = 2 => FirstOK(m, atts))
  /\ s = "finish" =>
       /\ m.next = 2 /\ FirstOK(m, atts) /\ Completed(atts[m.order[2]].final)
       /\ atts[m.order[2]].final.transport.version = m.transport.version
  /\ \A a \in Arms :
       /\ exch[a] # None => manif # None /\ manif.kind = "pair" /\ atts[a].dir
       /\ FinalOK(atts[a].final, exch[a], manif.basis)
  /\ manif # None /\ manif.status = "completed" =>
       /\ s = "ended" /\ manif.kind = "pair"
       /\ \A a, b \in Arms :
            /\ Completed(atts[a].final)
            /\ atts[a].final.transport.version = atts[b].final.transport.version

\* What a line of the inventory promises of the attempt it is about.
ItemOK(item, a, final) ==
  item # None /\ item.eligible =>
    /\ Completed(final)
    /\ final.transport.prompt = "right"
    /\ item.version = final.transport.version
    /\ item.correct => final.transport.answer = "right"
    /\ item.credit => final.transport.counted
    /\ item.delivered => a = "task" \/ final.transport.sources

\* Where the summary is with an attempt that had been launched when it began.
CountedOrToCome(p, a) ==
  \/ p \in summary.todo
  \/ /\ summary.seen[p] # None
     /\ \/ summary.item[p][a] # None
        \/ summary.at = p /\ summary.stage = "pair"
        \/ summary.at = p /\ summary.stage = "attempts" /\ a \in summary.arms

SummaryOK ==
  /\ summary.stage \in {"idle", "listing", "done"} => summary.arms = {}
  /\ summary.stage = "done" => summary.todo = {}
  /\ summary.stage \in {"pair", "attempts"} =>
       summary.at \in Pairs /\ summary.seen[summary.at] # None
  /\ summary.stage = "attempts" /\ summary.intact => PairIsIntact(summary.at)
  /\ \A p \in Pairs : summary.seen[p] # None =>
       /\ summary.seen[p].kind = "pair"
       /\ manifest[p] # None /\ manifest[p].kind = "pair"
       /\ manifest[p].basis = summary.seen[p].basis
       /\ summary.seen[p].status = "completed" => manifest[p] = summary.seen[p]
  /\ \A p \in Pairs : \A a \in Arms : ItemOK(summary.item[p][a], a, attempt[p][a].final)
  /\ \A pa \in summary.begun :
       exchange[pa[1]][pa[2]] # None /\ CountedOrToCome(pa[1], pa[2])

IInv ==
  /\ TypeOK
  /\ \A p \in Pairs : PairOK(stage[p], run[p], manifest[p], attempt[p], exchange[p])
  /\ SummaryOK

(***************************************************************************)
(* What a step does to the pair it is about, and to the summary.           *)
(***************************************************************************)

\* An observation is of the kind that is recorded.
LEMMA ObservationType ==
  ASSUME NEW read \in Readings, NEW reply \in Replies
  PROVE  Observation(read, reply) \in Transports
<1>1. Answer(reply.stream) \in {"right", "wrong", None}
  BY DEF Answer
<1>2. Counted(reply.stream) \in BOOLEAN
  BY DEF Counted
<1> QED BY <1>1, <1>2 DEF Observation, Transports, Readings

\* Pair p only gets more: what is recorded of it, or what the provider knows, stays.
Grows(p, manif, pf, atts, exch) ==
  /\ manifest[p] # None /\ manifest[p].kind = "pair" =>
       /\ manif # None /\ manif.kind = "pair"
       /\ manif.basis = manifest[p].basis
       /\ manifest[p].status = "completed" => manif = manifest[p]
  /\ \A a \in Arms :
       /\ attempt[p][a].final # None => atts[a].final = attempt[p][a].final
       /\ exchange[p][a] # None => exch[a] # None
  /\ PairIsIntact(p) => \A f \in PairFiles : pf[f] = "right"

\* A line that was right stays right when the record it tells of stays.
LEMMA ItemStays ==
  ASSUME NEW item, NEW a, NEW final, NEW later, ItemOK(item, a, final),
         final # None => later = final
  PROVE  ItemOK(item, a, later)
BY DEF ItemOK, Completed

\* While the pairs only get more, what a summary has counted stays true.
LEMMA SummaryStaysOK ==
  ASSUME SummaryOK, summary' = summary,
         \A p \in Pairs : Grows(p, manifest'[p], pairFile'[p], attempt'[p], exchange'[p]),
         summary.begun \subseteq Pairs \X Arms
  PROVE  SummaryOK'
<1>1. /\ summary.stage \in {"idle", "listing", "done"} => summary.arms = {}
      /\ summary.stage = "done" => summary.todo = {}
      /\ summary.stage \in {"pair", "attempts"} =>
           summary.at \in Pairs /\ summary.seen[summary.at] # None
  BY DEF SummaryOK
<1>2. summary.stage = "attempts" /\ summary.intact => PairIsIntact(summary.at)'
  <2>1. SUFFICES ASSUME summary.stage = "attempts", summary.intact
                 PROVE  PairIsIntact(summary.at)'
    OBVIOUS
  <2>2. summary.at \in Pairs /\ PairIsIntact(summary.at)
    BY <2>1 DEF SummaryOK
  <2>3. \A f \in PairFiles : pairFile'[summary.at][f] = "right"
    BY <2>2 DEF Grows
  <2> QED BY <2>3 DEF PairIsIntact
<1>3. ASSUME NEW p \in Pairs, summary.seen[p] # None
      PROVE  /\ summary.seen[p].kind = "pair"
             /\ manifest'[p] # None /\ manifest'[p].kind = "pair"
             /\ manifest'[p].basis = summary.seen[p].basis
             /\ summary.seen[p].status = "completed" => manifest'[p] = summary.seen[p]
  BY <1>3 DEF SummaryOK, Grows
<1>4. ASSUME NEW p \in Pairs, NEW a \in Arms
      PROVE  ItemOK(summary.item[p][a], a, attempt'[p][a].final)
  <2>1. ItemOK(summary.item[p][a], a, attempt[p][a].final)
    BY DEF SummaryOK
  <2>2. attempt[p][a].final # None => attempt'[p][a].final = attempt[p][a].final
    BY DEF Grows
  <2> QED BY <2>1, <2>2, ItemStays
<1>5. ASSUME NEW pa \in summary.begun
      PROVE  exchange'[pa[1]][pa[2]] # None /\ CountedOrToCome(pa[1], pa[2])'
  <2>1. pa[1] \in Pairs /\ pa[2] \in Arms
    OBVIOUS
  <2>2. exchange[pa[1]][pa[2]] # None /\ CountedOrToCome(pa[1], pa[2])
    BY DEF SummaryOK
  <2> QED BY <2>1, <2>2 DEF Grows, CountedOrToCome
<1> QED BY <1>1, <1>2, <1>3, <1>4, <1>5 DEF SummaryOK

\* A step of one evaluation keeps the invariant when it keeps what holds of its pair.
LEMMA OwnStep ==
  ASSUME IInv, NEW p \in Pairs, NEW s \in Stages, NEW m \in Memories,
         NEW manif \in Manifests \union {None}, NEW pf \in [PairFiles -> FileStates],
         NEW atts \in [Arms -> Attempts], NEW exch \in [Arms -> Exchanges \union {None}],
         stage' = [stage EXCEPT ![p] = s], run' = [run EXCEPT ![p] = m],
         manifest' = [manifest EXCEPT ![p] = manif], pairFile' = [pairFile EXCEPT ![p] = pf],
         attempt' = [attempt EXCEPT ![p] = atts], exchange' = [exchange EXCEPT ![p] = exch],
         UNCHANGED <<tree, version, summary>>, recorded' \in Contents, troubles' \in Nat,
         PairOK(s, m, manif, atts, exch), Grows(p, manif, pf, atts, exch)
  PROVE  IInv'
<1>1. TypeOK'
  BY DEF IInv, TypeOK
<1>2. \A q \in Pairs :
        /\ q # p => /\ stage'[q] = stage[q] /\ run'[q] = run[q] /\ manifest'[q] = manifest[q]
                    /\ pairFile'[q] = pairFile[q] /\ attempt'[q] = attempt[q]
                    /\ exchange'[q] = exchange[q]
        /\ q = p => /\ stage'[q] = s /\ run'[q] = m /\ manifest'[q] = manif
                    /\ pairFile'[q] = pf /\ attempt'[q] = atts /\ exchange'[q] = exch
  BY DEF IInv, TypeOK
<1>3. ASSUME NEW q \in Pairs
      PROVE  PairOK(stage[q], run[q], manifest[q], attempt[q], exchange[q])'
  <2>1. CASE q = p
    BY <1>2, <2>1
  <2>2. CASE q # p
    BY <1>2, <2>2 DEF IInv
  <2> QED BY <2>1, <2>2
<1>4. \A q \in Pairs : Grows(q, manifest'[q], pairFile'[q], attempt'[q], exchange'[q])
  BY <1>2 DEF Grows, PairIsIntact
<1>5. SummaryOK'
  BY <1>4, SummaryStaysOK DEF IInv, TypeOK, Summaries
<1> QED BY <1>1, <1>3, <1>5 DEF IInv

\* What is known of a pair before a step.
LEMMA Known ==
  ASSUME IInv, NEW p \in Pairs
  PROVE  /\ stage[p] \in Stages /\ run[p] \in Memories /\ manifest[p] \in Manifests \union {None}
         /\ pairFile[p] \in [PairFiles -> FileStates] /\ attempt[p] \in [Arms -> Attempts]
         /\ exchange[p] \in [Arms -> Exchanges \union {None}]
         /\ tree \in Contents /\ recorded \in Contents /\ version \in 1..MaxVersion
         /\ troubles \in Nat /\ version \in 0..MaxVersion
         /\ PairOK(stage[p], run[p], manifest[p], attempt[p], exchange[p])
BY DEF IInv, TypeOK

(***************************************************************************)
(* The preparation.                                                        *)
(***************************************************************************)

\* While a pair is prepared there is neither an attempt nor a manifest of a pair.
LEMMA PreparingStep ==
  ASSUME IInv, NEW p \in Pairs, stage[p] \in Preparing, NEW s \in Preparing, NEW m \in Memories,
         m.next = 1,
         NEW manif \in Manifests \union {None}, NEW pf \in [PairFiles -> FileStates],
         manif # None => manif.kind = "preparation" /\ manif.status # "completed",
         s \in {"idle", "made"} => manif = None,
         PairIsIntact(p) => \A f \in PairFiles : pf[f] = "right",
         stage' = [stage EXCEPT ![p] = s], run' = [run EXCEPT ![p] = m],
         manifest' = [manifest EXCEPT ![p] = manif], pairFile' = [pairFile EXCEPT ![p] = pf],
         UNCHANGED <<attempt, exchange, tree, version, summary>>,
         recorded' \in Contents, troubles' \in Nat
  PROVE  IInv'
<1> DEFINE atts == attempt[p]
           exch == exchange[p]
<1>1. PairOK(stage[p], run[p], manifest[p], atts, exch)
  BY Known
<1>2. atts \in [Arms -> Attempts] /\ exch \in [Arms -> Exchanges \union {None}]
  BY Known
<1>3. s \in Stages /\ s \notin Working /\ s \notin {"finish", "failing", "ended"}
  BY DEF Preparing, Stages, Working
<1>4. \A a \in Arms : atts[a] = NoAttempt /\ exch[a] = None
  BY <1>1 DEF PairOK
<1>5. manifest[p] # None => manifest[p].kind = "preparation"
  BY <1>1 DEF PairOK
<1>6. PairOK(s, m, manif, atts, exch)
  <2>1. \A a \in Arms : exch[a] = None /\ FinalOK(atts[a].final, exch[a], manif.basis)
    BY <1>4 DEF FinalOK, NoAttempt
  <2>2. ~ (manif # None /\ manif.status = "completed")
    OBVIOUS
  <2> HIDE DEF atts, exch
  <2> QED BY <1>3, <1>4, <2>1, <2>2 DEF PairOK
<1>7. Grows(p, manif, pf, atts, exch)
  BY <1>4, <1>5 DEF Grows
<1>8. attempt' = [attempt EXCEPT ![p] = atts] /\ exchange' = [exchange EXCEPT ![p] = exch]
  BY DEF IInv, TypeOK
<1> HIDE DEF atts, exch
<1> QED BY <1>2, <1>3, <1>6, <1>7, <1>8, OwnStep

\* Every step up to the second capture of the basis.
LEMMA PreparationKeeps ==
  ASSUME IInv, NEW p \in Pairs,
         \/ \E o \in UsedOrders : MakeDirectory(p, o)
         \/ Announce(p) \/ RefreshCache(p) \/ CaptureBasis(p) \/ CueOverview(p) \/ CueTask(p)
  PROVE  IInv'
<1> DEFINE Steps(s, m, manif, pf) ==
             /\ stage' = [stage EXCEPT ![p] = s] /\ run' = [run EXCEPT ![p] = m]
             /\ manifest' = [manifest EXCEPT ![p] = manif]
             /\ pairFile' = [pairFile EXCEPT ![p] = pf]
             /\ UNCHANGED <<attempt, exchange, tree, version, summary>>
             /\ recorded' \in Contents /\ troubles' \in Nat
<1>1. /\ stage = [stage EXCEPT ![p] = stage[p]] /\ run = [run EXCEPT ![p] = run[p]]
      /\ manifest = [manifest EXCEPT ![p] = manifest[p]]
      /\ pairFile = [pairFile EXCEPT ![p] = pairFile[p]]
      /\ recorded \in Contents /\ troubles \in Nat /\ tree \in Contents
  BY DEF IInv, TypeOK
<1>2. stage[p] \in Preparing =>
        /\ run[p].next = 1
        /\ manifest[p] # None =>
             manifest[p].kind = "preparation" /\ manifest[p].status # "completed"
  BY Known DEF PairOK, Preparing
<1>3. stage[p] \in {"idle", "made"} => manifest[p] = None
  BY Known DEF PairOK
<1>4. run[p] \in Memories /\ manifest[p] \in Manifests \union {None}
      /\ pairFile[p] \in [PairFiles -> FileStates]
  BY Known
<1>5. ASSUME NEW o \in UsedOrders, MakeDirectory(p, o)
      PROVE  IInv'
  <2> DEFINE pf == [pairFile[p] EXCEPT !.benchmark = "right", !.schema = "right"]
  <2>1. Remember(o) \in Memories /\ Remember(o).next = 1
    BY ConstantsAssumption DEF Remember, Memories, Orders, States, NothingRead, Readings, FileStates
  <2>2. pf \in [PairFiles -> FileStates] /\ (PairIsIntact(p) => \A f \in PairFiles : pf[f] = "right")
    BY <1>4 DEF PairFiles, FileStates, PairIsIntact
  <2>3. Steps("made", Remember(o), manifest[p], pf)
    BY <1>1, <1>5 DEF MakeDirectory, Goto, world
  <2>4. stage[p] = "idle"
    BY <1>5 DEF MakeDirectory
  <2>5. "made" \in Preparing /\ "idle" \in Preparing
    BY DEF Preparing
  <2> HIDE DEF pf
  <2> QED BY <1>2, <1>3, <1>4, <2>1, <2>2, <2>3, <2>4, <2>5, PreparingStep
<1>6. CASE Announce(p)
  <2> DEFINE manif == [kind |-> "preparation", status |-> "preparing", basis |-> run[p].basis]
  <2>1. manif \in Manifests
    BY <1>4 DEF Manifests, Memories
  <2>2. Steps("refresh", run[p], manif, pairFile[p])
    BY <1>1, <1>6 DEF Announce, Manifest, Goto, world
  <2>3. stage[p] \in Preparing /\ "refresh" \in Preparing
    BY <1>6 DEF Announce, Preparing
  <2>4. manif # None /\ manif.kind = "preparation" /\ manif.status # "completed"
    BY <2>1, NoneAssumption
  <2>5. PairIsIntact(p) => \A f \in PairFiles : pairFile[p][f] = "right"
    BY DEF PairIsIntact
  <2> HIDE DEF manif
  <2> QED BY <1>2, <1>4, <2>1, <2>2, <2>3, <2>4, <2>5, PreparingStep
<1>7. CASE RefreshCache(p)
  <2>1. Steps("basis", run[p], manifest[p], pairFile[p])
    BY <1>1, <1>7 DEF RefreshCache, Goto, files
  <2>2. stage[p] \in Preparing /\ "basis" \in Preparing
    BY <1>7 DEF RefreshCache, Preparing
  <2>3. PairIsIntact(p) => \A f \in PairFiles : pairFile[p][f] = "right"
    BY DEF PairIsIntact
  <2> QED BY <1>2, <1>4, <2>1, <2>2, <2>3, PreparingStep
<1>8. CASE CaptureBasis(p)
  <2> DEFINE m == [run[p] EXCEPT !.basis = tree]
  <2>1. m \in Memories /\ m.next = run[p].next
    BY <1>1, <1>4 DEF Memories, States
  <2>2. Steps("overview", m, manifest[p], pairFile[p])
    BY <1>1, <1>8 DEF CaptureBasis, Goto, world, files
  <2>3. stage[p] \in Preparing /\ "overview" \in Preparing
    BY <1>8 DEF CaptureBasis, Preparing
  <2>4. PairIsIntact(p) => \A f \in PairFiles : pairFile[p][f] = "right"
    BY DEF PairIsIntact
  <2> HIDE DEF m
  <2> QED BY <1>2, <1>4, <2>1, <2>2, <2>3, <2>4, PreparingStep
<1>9. CASE CueOverview(p)
  <2> DEFINE m == [run[p] EXCEPT !.cue["overview"] = recorded]
             pf == [pairFile[p] EXCEPT !["overview"] = "right"]
  <2>1. m \in Memories /\ m.next = run[p].next
    BY <1>1, <1>4 DEF Memories, States, Arms
  <2>2. pf \in [PairFiles -> FileStates] /\ (PairIsIntact(p) => \A f \in PairFiles : pf[f] = "right")
    BY <1>4 DEF PairFiles, FileStates, PairIsIntact
  <2>3. Steps("task", m, manifest[p], pf)
    BY <1>1, <1>9 DEF CueOverview, Goto, world
  <2>4. stage[p] \in Preparing /\ "task" \in Preparing
    BY <1>9 DEF CueOverview, Preparing
  <2> HIDE DEF m, pf
  <2> QED BY <1>2, <1>4, <2>1, <2>2, <2>3, <2>4, PreparingStep
<1>10. CASE CueTask(p)
  <2> DEFINE m == [run[p] EXCEPT !.cue["task"] = recorded]
             pf == [pairFile[p] EXCEPT !["task"] = "right"]
  <2>1. m \in Memories /\ m.next = run[p].next
    BY <1>1, <1>4 DEF Memories, States, Arms
  <2>2. pf \in [PairFiles -> FileStates] /\ (PairIsIntact(p) => \A f \in PairFiles : pf[f] = "right")
    BY <1>4 DEF PairFiles, FileStates, PairIsIntact
  <2>3. Steps("again", m, manifest[p], pf)
    BY <1>1, <1>10 DEF CueTask, Goto, world
  <2>4. stage[p] \in Preparing /\ "again" \in Preparing
    BY <1>10 DEF CueTask, Preparing
  <2> HIDE DEF m, pf
  <2> QED BY <1>2, <1>4, <2>1, <2>2, <2>3, <2>4, PreparingStep
<1> QED BY <1>5, <1>6, <1>7, <1>8, <1>9, <1>10

(***************************************************************************)
(* The end of an evaluation.                                               *)
(***************************************************************************)

\* Both arms come in an order.
LEMMA ArmsInOrder ==
  ASSUME NEW o \in Orders
  PROVE  o[1] \in Arms /\ o[2] \in Arms /\ o[1] # o[2] /\ Arms = {o[1], o[2]}
<1>1. o \in [1..2 -> Arms] /\ o[1] # o[2]
  BY DEF Orders
<1>2. o[1] \in Arms /\ o[2] \in Arms
  BY <1>1
<1> QED BY <1>1, <1>2 DEF Arms

\* A final record of an attempt that was not launched has no basis to be on.
LEMMA NothingSent ==
  ASSUME NEW final, NEW basis, NEW later, FinalOK(final, None, basis)
  PROVE  FinalOK(final, None, later)
<1>1. \A transport : \A read \in Readings : ~ Tells(transport, read, None)
  BY NoneAssumption DEF Tells, Readings, Exchanges
<1>2. final # None =>
        /\ final.transport = None \/ final.transport.status # "completed"
        /\ final.status # "completed"
  BY <1>1 DEF FinalOK
<1> QED BY <1>2 DEF FinalOK

\* An evaluation that ends keeps what is recorded, and no memory.
LEMMA EndingStep ==
  ASSUME IInv, NEW p \in Pairs, NEW manif \in Manifests \union {None}, End(p),
         manifest' = [manifest EXCEPT ![p] = manif],
         UNCHANGED <<world, pairFile, attempt, exchange, summary>>, troubles' \in Nat,
         manifest[p] # None /\ manifest[p].kind = "pair" =>
           /\ manif # None /\ manif.kind = "pair" /\ manif.basis = manifest[p].basis
           /\ manifest[p].status # "completed",
         \A a \in Arms : FinalOK(attempt[p][a].final, exchange[p][a], manif.basis),
         manif # None /\ manif.status = "completed" =>
           /\ manif.kind = "pair"
           /\ \A a, b \in Arms :
                /\ Completed(attempt[p][a].final)
                /\ attempt[p][a].final.transport.version = attempt[p][b].final.transport.version
  PROVE  IInv'
<1> DEFINE atts == attempt[p]
           exch == exchange[p]
           pf == pairFile[p]
<1>1. PairOK(stage[p], run[p], manifest[p], atts, exch)
  BY Known
<1>2. /\ atts \in [Arms -> Attempts] /\ exch \in [Arms -> Exchanges \union {None}]
      /\ pf \in [PairFiles -> FileStates]
  BY Known
<1>3. "ended" \in Stages /\ "ended" \notin Preparing /\ "ended" \notin Working
  BY DEF Preparing, Stages, Working
<1>4. Forgotten \in Memories
  BY ConstantsAssumption
     DEF Forgotten, Remember, Memories, Orders, Arms, States, NothingRead, Readings, FileStates
<1>5. \A a \in Arms : exch[a] # None => manif # None /\ manif.kind = "pair" /\ atts[a].dir
  BY <1>1 DEF PairOK
<1>6. PairOK("ended", Forgotten, manif, atts, exch)
  <2> HIDE DEF atts, exch
  <2>1. \A a \in Arms : FinalOK(atts[a].final, exch[a], manif.basis)
    BY DEF atts, exch
  <2>2. manif # None /\ manif.status = "completed" =>
          /\ manif.kind = "pair"
          /\ \A a, b \in Arms : /\ Completed(atts[a].final)
                                /\ atts[a].final.transport.version = atts[b].final.transport.version
    BY DEF atts
  <2> QED BY <1>3, <1>5, <2>1, <2>2 DEF PairOK
<1>7. Grows(p, manif, pf, atts, exch)
  BY DEF Grows, PairIsIntact
<1>8. /\ attempt' = [attempt EXCEPT ![p] = atts] /\ exchange' = [exchange EXCEPT ![p] = exch]
      /\ pairFile' = [pairFile EXCEPT ![p] = pf] /\ recorded' \in Contents
      /\ UNCHANGED <<tree, version, summary>>
  BY DEF IInv, TypeOK, world
<1>9. stage' = [stage EXCEPT ![p] = "ended"] /\ run' = [run EXCEPT ![p] = Forgotten]
  BY DEF End, Goto
<1> HIDE DEF atts, exch, pf
<1> QED BY <1>2, <1>3, <1>4, <1>6, <1>7, <1>8, <1>9, OwnStep

\* A preparation without a runner.
LEMMA PrepareOnlyKeeps ==
  ASSUME IInv, NEW p \in Pairs, PrepareOnly(p)
  PROVE  IInv'
<1> DEFINE manif == [kind |-> "preparation", status |-> "prepared", basis |-> run[p].basis]
<1>1. stage[p] = "again" /\ stage[p] \in Preparing
  BY DEF PrepareOnly, Preparing
<1>2. PairOK(stage[p], run[p], manifest[p], attempt[p], exchange[p])
  BY Known
<1>3. \A a \in Arms : attempt[p][a] = NoAttempt /\ exchange[p][a] = None
  BY <1>1, <1>2 DEF PairOK
<1>4. manifest[p] # None => manifest[p].kind = "preparation"
  BY <1>1, <1>2 DEF PairOK
<1>5. \A a \in Arms : FinalOK(attempt[p][a].final, exchange[p][a], manif.basis)
  BY <1>3 DEF NoAttempt, FinalOK
<1>6. manif \in Manifests
  BY Known DEF Manifests, Memories
<1>7. troubles' \in Nat /\ UNCHANGED <<world, pairFile, attempt, exchange, summary>> /\ End(p)
  BY Known DEF PrepareOnly
<1>8. manifest' = [manifest EXCEPT ![p] = manif]
  BY DEF PrepareOnly, Manifest
<1>9. manif.status # "completed"
  OBVIOUS
<1> HIDE DEF manif
<1> QED BY <1>4, <1>5, <1>6, <1>7, <1>8, <1>9, EndingStep

\* The last manifest of an evaluation that failed.
LEMMA KeepFailureKeeps ==
  ASSUME IInv, NEW p \in Pairs, KeepFailure(p)
  PROVE  IInv'
<1>1. PICK kind \in KindsToKeep(p) : Manifest(p, kind, "failed")
  BY DEF KeepFailure
<1> DEFINE manif == [kind |-> kind, status |-> "failed", basis |-> run[p].basis]
<1>2. stage[p] = "failing" /\ PairOK(stage[p], run[p], manifest[p], attempt[p], exchange[p])
  BY Known DEF KeepFailure
<1>3. manifest[p] # None /\ manifest[p].kind = "pair" => kind = "pair"
  BY DEF KindsToKeep
<1>4. manifest[p] = None \/ manifest[p].kind = "preparation" \/ manifest[p].basis = run[p].basis
  BY <1>2 DEF PairOK
<1>5. manifest[p] # None => manifest[p].status # "completed"
  BY <1>2 DEF PairOK
<1>6. ASSUME NEW a \in Arms
      PROVE  FinalOK(attempt[p][a].final, exchange[p][a], manif.basis)
  <2>1. /\ FinalOK(attempt[p][a].final, exchange[p][a], manifest[p].basis)
        /\ exchange[p][a] # None => manifest[p] # None /\ manifest[p].kind = "pair"
    BY <1>2 DEF PairOK
  <2>2. CASE exchange[p][a] = None
    BY <2>1, <2>2, NothingSent
  <2>3. CASE exchange[p][a] # None
    <3>1. manif.basis = manifest[p].basis
      BY <1>4, <2>1, <2>3
    <3> QED BY <2>1, <3>1
  <2> QED BY <2>2, <2>3
<1>7. manif \in Manifests
  BY Known DEF Manifests, Memories, KindsToKeep
<1>8. troubles' \in Nat /\ UNCHANGED <<world, pairFile, attempt, exchange, summary>> /\ End(p)
  BY Known DEF KeepFailure
<1>9. manifest' = [manifest EXCEPT ![p] = manif]
  BY <1>1 DEF Manifest
<1>10. /\ manif.status # "completed" /\ manif # None
       /\ manifest[p] # None /\ manifest[p].kind = "pair" =>
            manif.kind = "pair" /\ manif.basis = manifest[p].basis
  BY <1>3, <1>4, <1>7, NoneAssumption
<1> HIDE DEF manif
<1> QED BY <1>5, <1>6, <1>7, <1>8, <1>9, <1>10, EndingStep

\* The last manifest of a pair with two completed attempts.
LEMMA FinishPairKeeps ==
  ASSUME IInv, NEW p \in Pairs, FinishPair(p)
  PROVE  IInv'
<1> DEFINE same == run[p].transport.version = run[p].version
           manif == [kind |-> "pair", status |-> IF same THEN "completed" ELSE "failed",
                     basis |-> run[p].basis]
           atts == attempt[p]
<1>1. stage[p] = "finish" /\ PairOK(stage[p], run[p], manifest[p], atts, exchange[p])
  BY Known DEF FinishPair
<1>2. manifest[p] = [kind |-> "pair", status |-> "running", basis |-> run[p].basis]
  BY <1>1 DEF PairOK
<1>3. /\ run[p].next = 2 /\ FirstOK(run[p], atts) /\ Completed(atts[run[p].order[2]].final)
      /\ atts[run[p].order[2]].final.transport.version = run[p].transport.version
  BY <1>1 DEF PairOK
<1>4. \A a \in Arms : FinalOK(atts[a].final, exchange[p][a], manif.basis)
  BY <1>1, <1>2 DEF PairOK
<1>5. Arms = {run[p].order[1], run[p].order[2]}
  <2>1. run[p].order \in Orders
    BY Known DEF Memories
  <2> QED BY <2>1, ArmsInOrder
<1>6. ASSUME same, NEW a \in Arms
      PROVE  Completed(atts[a].final) /\ atts[a].final.transport.version = run[p].version
  BY <1>3, <1>5, <1>6 DEF FirstOK
<1>7. manif \in Manifests
  BY Known DEF Manifests, Memories
<1>8. troubles' \in Nat /\ UNCHANGED <<world, pairFile, attempt, exchange, summary>> /\ End(p)
  BY Known DEF FinishPair
<1>9. manifest' = [manifest EXCEPT ![p] = manif]
  BY DEF FinishPair, Manifest
<1>10. /\ manif # None /\ manif.kind = "pair" /\ manif.basis = manifest[p].basis
       /\ manifest[p].status # "completed" /\ (manif.status = "completed" => same)
  BY <1>2, <1>7, NoneAssumption
<1> HIDE DEF manif, same
<1>11. manif.status = "completed" =>
         \A a, b \in Arms : /\ Completed(attempt[p][a].final)
                            /\ attempt[p][a].final.transport.version
                                 = attempt[p][b].final.transport.version
  BY <1>6, <1>10
<1> QED BY <1>4, <1>7, <1>8, <1>9, <1>10, <1>11, EndingStep

\* The process dies.
LEMMA DieKeeps ==
  ASSUME IInv, NEW p \in Pairs, Die(p)
  PROVE  IInv'
<1>1. stage[p] # "ended" /\ PairOK(stage[p], run[p], manifest[p], attempt[p], exchange[p])
  BY Known DEF Die
<1>2. manifest[p] # None => manifest[p].status # "completed"
  BY <1>1 DEF PairOK
<1>3. \A a \in Arms : FinalOK(attempt[p][a].final, exchange[p][a], manifest[p].basis)
  BY <1>1 DEF PairOK
<1>4. manifest' = [manifest EXCEPT ![p] = manifest[p]]
  BY DEF IInv, TypeOK, Die, files
<1>5. troubles' \in Nat /\ UNCHANGED <<world, pairFile, attempt, exchange, summary>> /\ End(p)
  BY Known DEF Die, Trouble, files
<1>6. manifest[p] \in Manifests \union {None}
  BY Known
<1> QED BY <1>2, <1>3, <1>4, <1>5, <1>6, EndingStep

(***************************************************************************)
(* The attempts.                                                           *)
(***************************************************************************)

\* A step within one attempt, which has no final record yet.
LEMMA AttemptStep ==
  ASSUME IInv, NEW p \in Pairs, stage[p] \in Working, NEW s \in Working, NEW m \in Memories,
         NEW att \in Attempts, NEW ex \in Exchanges \union {None},
         stage' = [stage EXCEPT ![p] = s], run' = [run EXCEPT ![p] = m],
         attempt' = [attempt EXCEPT ![p] = [attempt[p] EXCEPT ![Arm(p)] = att]],
         exchange' = [exchange EXCEPT ![p] = [exchange[p] EXCEPT ![Arm(p)] = ex]],
         UNCHANGED <<world, manifest, pairFile, summary>>, troubles' \in Nat,
         m.basis = run[p].basis, m.order = run[p].order, m.next = run[p].next,
         m.version = run[p].version,
         AttemptOK(s, m, att, ex), att.dir, exchange[p][Arm(p)] # None => ex # None
  PROVE  IInv'
<1> DEFINE a == Arm(p)
           old == attempt[p]
           sent == exchange[p]
           atts == [old EXCEPT ![a] = att]
           exch == [sent EXCEPT ![a] = ex]
           manif == manifest[p]
           pf == pairFile[p]
           other == m.order[2]
<1>1. PairOK(stage[p], run[p], manif, old, sent)
  BY Known
<1>2. /\ old \in [Arms -> Attempts] /\ sent \in [Arms -> Exchanges \union {None}]
      /\ pf \in [PairFiles -> FileStates] /\ manif \in Manifests \union {None}
      /\ m.order \in Orders /\ m.next \in 1..2
  BY Known DEF Memories
<1>3. a = m.order[m.next] /\ a \in Arms /\ m.order[1] \in Arms /\ other \in Arms
      /\ (m.next = 1 => a # other) /\ (m.next = 2 => a = other /\ a # m.order[1])
  BY <1>2, ArmsInOrder DEF Arm
<1>4. WorkOK(stage[p], run[p], old, sent) /\ (m.next = 2 => FirstOK(run[p], old))
  BY <1>1 DEF PairOK
<1>5. old[a].final = None
  BY <1>3, <1>4 DEF WorkOK, AttemptOK
<1>6. manif = [kind |-> "pair", status |-> "running", basis |-> m.basis]
  BY <1>1 DEF PairOK
<1>7. atts \in [Arms -> Attempts] /\ exch \in [Arms -> Exchanges \union {None}]
  BY <1>2, <1>3
<1>8. \A b \in Arms : IF b = a THEN atts[b] = att /\ exch[b] = ex
                      ELSE atts[b] = old[b] /\ exch[b] = sent[b]
  BY <1>2, <1>3
<1>9. s \in Stages /\ s \notin Preparing /\ s \notin {"idle", "made", "finish", "failing", "ended"}
  BY DEF Working, Preparing, Stages
<1> HIDE DEF a, old, sent, atts, exch, manif, pf, other
<1>10. WorkOK(s, m, atts, exch)
  <2>1. AttemptOK(s, m, atts[m.order[m.next]], exch[m.order[m.next]])
    BY <1>3, <1>8
  <2>2. m.next = 1 => old[other] = NoAttempt /\ sent[other] = None
    BY <1>4 DEF WorkOK, other
  <2>3. m.next = 1 => atts[m.order[2]] = NoAttempt /\ exch[m.order[2]] = None
    BY <1>3, <1>8, <2>2 DEF other
  <2> QED BY <2>1, <2>3 DEF WorkOK
<1>11. m.next = 2 => FirstOK(m, atts)
  <2>1. m.next = 2 => atts[m.order[1]] = old[m.order[1]]
    BY <1>3, <1>8
  <2> QED BY <1>4, <2>1 DEF FirstOK
<1>12. ASSUME NEW b \in Arms
       PROVE  /\ exch[b] # None => manif # None /\ manif.kind = "pair" /\ atts[b].dir
              /\ FinalOK(atts[b].final, exch[b], manif.basis)
  <2>1. /\ sent[b] # None => manif # None /\ manif.kind = "pair" /\ old[b].dir
        /\ FinalOK(old[b].final, sent[b], manif.basis)
    BY <1>1 DEF PairOK
  <2>2. CASE b = a
    <3>1. atts[b].final = None /\ atts[b].dir
      BY <1>8, <2>2 DEF AttemptOK
    <3>2. manif # None /\ manif.kind = "pair"
      <4>1. [kind |-> "pair", status |-> "running", basis |-> m.basis] \in Manifests
        <5>1. m.basis \in States
          BY DEF Memories
        <5> QED BY <5>1 DEF Manifests
      <4> QED BY <1>6, <4>1, NoneAssumption
    <3> QED BY <3>1, <3>2 DEF FinalOK
  <2>3. CASE b # a
    BY <1>8, <2>1, <2>3
  <2> QED BY <2>2, <2>3
<1>13. PairOK(s, m, manif, atts, exch)
  <2>1. manif.status # "completed"
    BY <1>6
  <2> QED BY <1>6, <1>9, <1>10, <1>11, <1>12, <2>1 DEF PairOK
<1>14. Grows(p, manif, pf, atts, exch)
  BY <1>5, <1>8 DEF Grows, PairIsIntact, manif, pf, old, sent, a
<1>15. /\ manifest' = [manifest EXCEPT ![p] = manif] /\ pairFile' = [pairFile EXCEPT ![p] = pf]
       /\ recorded' \in Contents /\ UNCHANGED <<tree, version, summary>>
  BY DEF IInv, TypeOK, world, manif, pf
<1>16. /\ attempt' = [attempt EXCEPT ![p] = atts] /\ exchange' = [exchange EXCEPT ![p] = exch]
  BY DEF atts, exch, old, sent, a
<1> QED BY <1>2, <1>7, <1>9, <1>13, <1>14, <1>15, <1>16, OwnStep

\* What is known of an attempt that is worked on.
LEMMA KnownAttempt ==
  ASSUME IInv, NEW p \in Pairs, stage[p] \in Working
  PROVE  /\ Arm(p) \in Arms
         /\ attempt[p][Arm(p)] \in Attempts
         /\ attempt[p][Arm(p)].file \in [AttemptFiles -> FileStates]
         /\ exchange[p][Arm(p)] \in Exchanges \union {None}
         /\ AttemptOK(stage[p], run[p], attempt[p][Arm(p)], exchange[p][Arm(p)])
         /\ attempt = [attempt EXCEPT ![p] =
                         [attempt[p] EXCEPT ![Arm(p)] = attempt[p][Arm(p)]]]
         /\ exchange = [exchange EXCEPT ![p] =
                          [exchange[p] EXCEPT ![Arm(p)] = exchange[p][Arm(p)]]]
         /\ run = [run EXCEPT ![p] = run[p]]
<1>1. run[p].order \in Orders /\ run[p].next \in 1..2
  BY Known DEF Memories
<1>2. Arm(p) \in Arms
  BY <1>1, ArmsInOrder DEF Arm
<1>3. /\ attempt \in [Pairs -> [Arms -> Attempts]] /\ run \in [Pairs -> Memories]
      /\ exchange \in [Pairs -> [Arms -> Exchanges \union {None}]]
  BY DEF IInv, TypeOK
<1>4. AttemptOK(stage[p], run[p], attempt[p][Arm(p)], exchange[p][Arm(p)])
  BY Known DEF PairOK, WorkOK, Arm
<1>5. attempt[p][Arm(p)].file \in [AttemptFiles -> FileStates]
  BY <1>2, <1>3 DEF Attempts
<1> QED BY <1>2, <1>3, <1>4, <1>5

\* The attempt's directory, its start record, and its copies.
LEMMA AttemptBeginningKeeps ==
  ASSUME IInv, NEW p \in Pairs,
         \/ MakeAttempt(p) \/ Journal(p) \/ CopyInputs(p)
  PROVE  IInv'
<1> DEFINE a == Arm(p)
           old == attempt[p][a]
           ex == exchange[p][a]
<1>1. CASE MakeAttempt(p)
  <2>1. stage[p] = "mkdir" /\ stage[p] \in Working /\ "journal" \in Working
    BY <1>1 DEF MakeAttempt, Working
  <2> DEFINE m == [run[p] EXCEPT !.before = None, !.prompt = "absent", !.read = NothingRead,
                                 !.transport = None]
             att == [old EXCEPT !.dir = TRUE]
  <2>2. m \in Memories /\ m.transport = None /\ m.basis = run[p].basis /\ m.order = run[p].order
        /\ m.next = run[p].next /\ m.version = run[p].version
    <3>1. NothingRead \in Readings
      BY ConstantsAssumption DEF NothingRead, Readings, FileStates
    <3>2. None \in States /\ "absent" \in FileStates /\ run[p] \in Memories
      BY Known DEF States, FileStates
    <3> QED BY <3>1, <3>2 DEF Memories
  <2>3. old \in Attempts /\ ex \in Exchanges \union {None} /\ AttemptOK("mkdir", run[p], old, ex)
    BY <2>1, KnownAttempt
  <2>4. att \in Attempts /\ att.dir /\ att.final = old.final
    BY <2>3 DEF Attempts
  <2>5. AttemptOK("journal", m, att, ex)
    BY <2>2, <2>3, <2>4 DEF AttemptOK
  <2>6. /\ stage' = [stage EXCEPT ![p] = "journal"] /\ run' = [run EXCEPT ![p] = m]
        /\ attempt' = [attempt EXCEPT ![p] = [attempt[p] EXCEPT ![Arm(p)] = att]]
        /\ exchange' = [exchange EXCEPT ![p] = [exchange[p] EXCEPT ![Arm(p)] = ex]]
        /\ UNCHANGED <<world, manifest, pairFile, summary>> /\ troubles' \in Nat
    <3>1. /\ stage' = [stage EXCEPT ![p] = "journal"] /\ run' = [run EXCEPT ![p] = m]
          /\ UNCHANGED <<world, manifest, pairFile, summary, exchange, troubles>>
      BY <1>1 DEF MakeAttempt, Goto
    <3>2. attempt' = [attempt EXCEPT ![p] = [attempt[p] EXCEPT ![Arm(p)] = att]]
      BY <1>1 DEF MakeAttempt
    <3>3. exchange = [exchange EXCEPT ![p] = [exchange[p] EXCEPT ![Arm(p)] = ex]]
      BY <2>1, KnownAttempt, Known
    <3>4. troubles \in Nat
      BY DEF IInv, TypeOK
    <3> HIDE DEF m, att, ex
    <3> QED BY <3>1, <3>2, <3>3, <3>4
  <2> HIDE DEF m, att
  <2> QED BY <2>1, <2>2, <2>3, <2>4, <2>5, <2>6, AttemptStep
<1>2. CASE Journal(p)
  <2>1. stage[p] = "journal" /\ stage[p] \in Working /\ "before" \in Working
    BY <1>2 DEF Journal, Working
  <2> DEFINE att == [old EXCEPT !.start = TRUE]
  <2>2. run[p] \in Memories
    BY Known
  <2>3. old \in Attempts /\ ex \in Exchanges \union {None} /\ AttemptOK("journal", run[p], old, ex)
    BY <2>1, KnownAttempt
  <2>4. att \in Attempts /\ att.dir = old.dir /\ att.final = old.final
    BY <2>3 DEF Attempts
  <2>5. AttemptOK("before", run[p], att, ex) /\ att.dir
    BY <2>3, <2>4 DEF AttemptOK
  <2>6. /\ stage' = [stage EXCEPT ![p] = "before"] /\ run' = [run EXCEPT ![p] = run[p]]
        /\ attempt' = [attempt EXCEPT ![p] = [attempt[p] EXCEPT ![Arm(p)] = att]]
        /\ exchange' = [exchange EXCEPT ![p] = [exchange[p] EXCEPT ![Arm(p)] = ex]]
        /\ UNCHANGED <<world, manifest, pairFile, summary>> /\ troubles' \in Nat
    BY <1>2, <2>1, KnownAttempt, Known DEF Journal, Goto
  <2> HIDE DEF att
  <2> QED BY <2>1, <2>2, <2>3, <2>4, <2>5, <2>6, AttemptStep
<1>3. CASE CopyInputs(p)
  <2>1. stage[p] = "before" /\ stage[p] \in Working /\ "launch" \in Working
    BY <1>3 DEF CopyInputs, Working
  <2> DEFINE frozen == pairFile[p][a]
             m == [run[p] EXCEPT !.before = tree, !.prompt = frozen]
             file == [old.file EXCEPT !["cue"] = frozen, !["prompt"] = frozen,
                                      !["request"] = "right"]
             att == [old EXCEPT !.file = file]
  <2>2. /\ old \in Attempts /\ ex \in Exchanges \union {None}
        /\ AttemptOK("before", run[p], old, ex)
        /\ old.file \in [AttemptFiles -> FileStates] /\ a \in Arms
    BY <2>1, KnownAttempt
  <2>3. frozen \in FileStates /\ "right" \in FileStates
    BY <2>2, Known DEF PairFiles, FileStates
  <2>4. m \in Memories /\ m.transport = run[p].transport /\ m.basis = run[p].basis
        /\ m.order = run[p].order /\ m.next = run[p].next /\ m.version = run[p].version
        /\ m.before = tree
    BY <2>3, Known DEF Memories, States
  <2>5. file \in [AttemptFiles -> FileStates]
    BY <2>2, <2>3
  <2>6. att \in Attempts /\ att.dir = old.dir /\ att.final = old.final
    BY <2>2, <2>5 DEF Attempts
  <2>7. tree = run[p].basis
    BY <1>3 DEF CopyInputs
  <2>8. AttemptOK("launch", m, att, ex) /\ att.dir
    BY <2>2, <2>4, <2>6, <2>7 DEF AttemptOK
  <2>9. /\ stage' = [stage EXCEPT ![p] = "launch"] /\ run' = [run EXCEPT ![p] = m]
        /\ attempt' = [attempt EXCEPT ![p] = [attempt[p] EXCEPT ![Arm(p)] = att]]
        /\ exchange' = [exchange EXCEPT ![p] = [exchange[p] EXCEPT ![Arm(p)] = ex]]
        /\ UNCHANGED <<world, manifest, pairFile, summary>> /\ troubles' \in Nat
    <3>1. /\ stage' = [stage EXCEPT ![p] = "launch"] /\ run' = [run EXCEPT ![p] = m]
          /\ UNCHANGED <<world, troubles, manifest, pairFile, exchange, summary>>
      BY <1>3 DEF CopyInputs, Goto
    <3>2. attempt' = [attempt EXCEPT ![p] = [attempt[p] EXCEPT ![Arm(p)] = att]]
      BY <1>3 DEF CopyInputs, Copies
    <3>3. exchange = [exchange EXCEPT ![p] = [exchange[p] EXCEPT ![Arm(p)] = ex]]
      BY <2>1, KnownAttempt
    <3> QED BY <3>1, <3>2, <3>3, Known
  <2> HIDE DEF m, att
  <2> QED BY <2>1, <2>2, <2>4, <2>6, <2>8, <2>9, AttemptStep
<1> QED BY <1>1, <1>2, <1>3

\* Files that are partly written are files.
LEMMA PartlyWrittenType ==
  ASSUME NEW old \in [AttemptFiles -> FileStates], NEW new \in [AttemptFiles -> FileStates],
         NEW order, NEW left \in PartlyWritten(old, new, order)
  PROVE  left \in [AttemptFiles -> FileStates]
BY DEF PartlyWritten, FileStates

\* What the copies are made of, and what is submitted, are files.
LEMMA CopiesType ==
  ASSUME IInv, NEW p \in Pairs, stage[p] \in Working
  PROVE  /\ Copies(p) \in [AttemptFiles -> FileStates]
         /\ Submission(p) \in [AttemptFiles -> FileStates]
<1>1. /\ attempt[p][Arm(p)].file \in [AttemptFiles -> FileStates] /\ Arm(p) \in Arms
      /\ pairFile[p] \in [PairFiles -> FileStates]
  BY KnownAttempt, Known
<1>2. pairFile[p][Arm(p)] \in FileStates /\ "right" \in FileStates
  BY <1>1 DEF PairFiles, FileStates
<1>3. attempt[p][Arm(p)].file["prompt"] \in FileStates
  BY <1>1 DEF AttemptFiles
<1> QED BY <1>1, <1>2, <1>3 DEF Copies, Submission

\* An attempt whose copies fail.
LEMMA FailCopiesKeeps ==
  ASSUME IInv, NEW p \in Pairs, FailCopies(p)
  PROVE  IInv'
<1> DEFINE old == attempt[p][Arm(p)]
           ex == exchange[p][Arm(p)]
<1>1. stage[p] = "before" /\ stage[p] \in Working /\ "after" \in Working
  BY DEF FailCopies, Working
<1>2. /\ old \in Attempts /\ ex \in Exchanges \union {None} /\ AttemptOK("before", run[p], old, ex)
      /\ old.file \in [AttemptFiles -> FileStates]
  BY <1>1, KnownAttempt
<1>3. PICK before \in {tree, None} :
        \E left \in IF before = run[p].basis
                    THEN PartlyWritten(old.file, Copies(p), <<"cue", "prompt", "request">>)
                    ELSE {old.file} :
          /\ run' = [run EXCEPT ![p].before = before, ![p].sound = FALSE]
          /\ attempt' = [attempt EXCEPT ![p][Arm(p)].file = left]
  BY DEF FailCopies
<1>4. PICK left \in IF before = run[p].basis
                    THEN PartlyWritten(old.file, Copies(p), <<"cue", "prompt", "request">>)
                    ELSE {old.file} :
        /\ run' = [run EXCEPT ![p].before = before, ![p].sound = FALSE]
        /\ attempt' = [attempt EXCEPT ![p][Arm(p)].file = left]
  BY <1>3
<1>5. left \in [AttemptFiles -> FileStates]
  BY <1>1, <1>2, <1>4, CopiesType, PartlyWrittenType
<1>6. before \in States
  BY Known DEF States
<1> DEFINE m == [run[p] EXCEPT !.before = before, !.sound = FALSE]
           att == [old EXCEPT !.file = left]
<1>7. m \in Memories /\ m.transport = run[p].transport /\ m.basis = run[p].basis
      /\ m.order = run[p].order /\ m.next = run[p].next /\ m.version = run[p].version
      /\ m.sound = FALSE
  BY <1>6, Known DEF Memories
<1>8. att \in Attempts /\ att.dir = old.dir /\ att.final = old.final
  BY <1>2, <1>5 DEF Attempts
<1>9. AttemptOK("after", m, att, ex) /\ att.dir
  BY <1>2, <1>7, <1>8 DEF AttemptOK
<1>10. /\ stage' = [stage EXCEPT ![p] = "after"]
       /\ UNCHANGED <<world, manifest, pairFile, summary>> /\ troubles' \in Nat
       /\ exchange' = [exchange EXCEPT ![p] = [exchange[p] EXCEPT ![Arm(p)] = ex]]
  BY <1>1, KnownAttempt, Known DEF FailCopies, Goto, Trouble
<1>11. /\ run' = [run EXCEPT ![p] = m]
       /\ attempt' = [attempt EXCEPT ![p] = [attempt[p] EXCEPT ![Arm(p)] = att]]
  BY <1>4
<1> HIDE DEF m, att
<1> QED BY <1>1, <1>2, <1>7, <1>8, <1>9, <1>10, <1>11, AttemptStep

\* The runner reads what it is to send.
LEMMA ReadInputsKeeps ==
  ASSUME IInv, NEW p \in Pairs, ReadInputs(p)
  PROVE  IInv'
<1> DEFINE a == Arm(p)
           old == attempt[p][a]
           ex == exchange[p][a]
           read == [prompt |-> old.file["prompt"], cue |-> old.file["cue"], version |-> version]
           m == [run[p] EXCEPT !.read = read]
           att == [old EXCEPT !.file = Submission(p)]
<1>1. stage[p] = "launch" /\ stage[p] \in Working /\ "ready" \in Working
  BY DEF ReadInputs, Working
<1>2. /\ old \in Attempts /\ ex \in Exchanges \union {None} /\ AttemptOK("launch", run[p], old, ex)
      /\ old.file \in [AttemptFiles -> FileStates]
  BY <1>1, KnownAttempt
<1>3. old.file["prompt"] \in FileStates /\ old.file["cue"] \in FileStates
  BY <1>2 DEF AttemptFiles
<1>4. read \in Readings /\ read.version \in 1..MaxVersion
  BY <1>3, Known DEF Readings
<1>5. m \in Memories /\ m.transport = run[p].transport /\ m.basis = run[p].basis
      /\ m.order = run[p].order /\ m.next = run[p].next /\ m.version = run[p].version
      /\ m.before = run[p].before /\ m.read = read
  BY <1>4, Known DEF Memories
<1>6. att \in Attempts /\ att.dir = old.dir /\ att.final = old.final
  BY <1>1, <1>2, CopiesType DEF Attempts
<1>7. AttemptOK("ready", m, att, ex) /\ att.dir
  BY <1>2, <1>4, <1>5, <1>6 DEF AttemptOK
<1>8. /\ stage' = [stage EXCEPT ![p] = "ready"] /\ run' = [run EXCEPT ![p] = m]
      /\ attempt' = [attempt EXCEPT ![p] = [attempt[p] EXCEPT ![Arm(p)] = att]]
      /\ exchange' = [exchange EXCEPT ![p] = [exchange[p] EXCEPT ![Arm(p)] = ex]]
      /\ UNCHANGED <<world, manifest, pairFile, summary>> /\ troubles' \in Nat
  BY <1>1, KnownAttempt, Known DEF ReadInputs, Goto
<1> HIDE DEF m, att
<1> QED BY <1>1, <1>2, <1>5, <1>6, <1>7, <1>8, AttemptStep

\* The provider gets the prompt.
LEMMA LaunchKeeps ==
  ASSUME IInv, NEW p \in Pairs, Launch(p)
  PROVE  IInv'
<1> DEFINE a == Arm(p)
           old == attempt[p][a]
           ex == [prompt |-> run[p].read.prompt, reply |-> None]
<1>1. stage[p] = "ready" /\ stage[p] \in Working /\ "sent" \in Working
  BY DEF Launch, Working
<1>2. old \in Attempts /\ AttemptOK("ready", run[p], old, exchange[p][a])
  BY <1>1, KnownAttempt
<1>3. run[p] \in Memories /\ run[p].read \in Readings
  BY Known DEF Memories
<1>4. ex \in Exchanges /\ ex # None
  BY <1>3, NoneAssumption DEF Exchanges, Readings
<1>5. AttemptOK("sent", run[p], old, ex) /\ old.dir
  BY <1>2 DEF AttemptOK
<1>6. /\ stage' = [stage EXCEPT ![p] = "sent"] /\ run' = [run EXCEPT ![p] = run[p]]
      /\ attempt' = [attempt EXCEPT ![p] = [attempt[p] EXCEPT ![Arm(p)] = old]]
      /\ exchange' = [exchange EXCEPT ![p] = [exchange[p] EXCEPT ![Arm(p)] = ex]]
      /\ UNCHANGED <<world, manifest, pairFile, summary>> /\ troubles' \in Nat
  BY <1>1, KnownAttempt, Known DEF Launch, Goto, files
<1> HIDE DEF ex
<1> QED BY <1>1, <1>2, <1>3, <1>4, <1>5, <1>6, AttemptStep

\* An attempt whose runner fails.
LEMMA FailRunnerKeeps ==
  ASSUME IInv, NEW p \in Pairs, FailRunner(p)
  PROVE  IInv'
<1> DEFINE old == attempt[p][Arm(p)]
           ex == exchange[p][Arm(p)]
           read == [prompt |-> old.file["prompt"], cue |-> old.file["cue"], version |-> 0]
           told == {None, FailedObservation(run[p].read)} \union
                     (IF stage[p] = "launch" THEN {FailedObservation(read)} ELSE {})
           lefts == IF stage[p] = "launch"
                    THEN PartlyWritten(old.file, Submission(p),
                                       <<"submitted", "schema", "invocation">>)
                    ELSE {[old.file EXCEPT !["provider"] = "wrong"]}
<1>1. stage[p] \in {"launch", "ready", "sent"} /\ stage[p] \in Working /\ "after" \in Working
  BY DEF FailRunner, Working
<1>2. /\ old \in Attempts /\ ex \in Exchanges \union {None} /\ AttemptOK(stage[p], run[p], old, ex)
      /\ old.file \in [AttemptFiles -> FileStates]
  BY <1>1, KnownAttempt
<1>3. PICK transport \in told : \E left \in lefts :
        /\ run' = [run EXCEPT ![p].transport = transport, ![p].sound = FALSE]
        /\ attempt' = [attempt EXCEPT ![p][Arm(p)].file =
             [left EXCEPT !["stdout"] = IF transport = None THEN "wrong" ELSE "right"]]
  BY DEF FailRunner
<1>4. PICK left \in lefts :
        /\ run' = [run EXCEPT ![p].transport = transport, ![p].sound = FALSE]
        /\ attempt' = [attempt EXCEPT ![p][Arm(p)].file =
             [left EXCEPT !["stdout"] = IF transport = None THEN "wrong" ELSE "right"]]
  BY <1>3
<1>5. left \in [AttemptFiles -> FileStates]
  <2>1. CASE stage[p] = "launch"
    BY <1>1, <1>2, <1>4, <2>1, CopiesType, PartlyWrittenType
  <2>2. CASE stage[p] # "launch"
    BY <1>2, <1>4, <2>2 DEF FileStates
  <2> QED BY <2>1, <2>2
<1>6. /\ transport \in Transports \union {None}
      /\ transport = None \/ transport.status = "failed"
  <2>1. old.file["prompt"] \in FileStates /\ old.file["cue"] \in FileStates
    BY <1>2 DEF AttemptFiles
  <2>2. read \in Readings /\ run[p].read \in Readings
    BY <2>1, Known, ConstantsAssumption DEF Readings, Memories
  <2>3. \A x \in Readings : FailedObservation(x) \in Transports
                            /\ FailedObservation(x).status = "failed"
    BY DEF FailedObservation, Readings, Transports
  <2> HIDE DEF read
  <2> QED BY <1>3, <2>2, <2>3
<1> DEFINE file == [left EXCEPT !["stdout"] = IF transport = None THEN "wrong" ELSE "right"]
           m == [run[p] EXCEPT !.transport = transport, !.sound = FALSE]
           att == [old EXCEPT !.file = file]
<1>7. m \in Memories /\ m.transport = transport /\ m.basis = run[p].basis
      /\ m.order = run[p].order /\ m.next = run[p].next /\ m.version = run[p].version
      /\ m.sound = FALSE
  BY <1>6, Known DEF Memories
<1>8. att \in Attempts /\ att.dir = old.dir /\ att.final = old.final
  <2>1. file \in [AttemptFiles -> FileStates]
    BY <1>5 DEF FileStates
  <2> HIDE DEF file
  <2> QED BY <1>2, <2>1 DEF Attempts
<1>9. AttemptOK("after", m, att, ex) /\ att.dir
  <2> HIDE DEF m, att, ex
  <2> QED BY <1>1, <1>2, <1>6, <1>7, <1>8 DEF AttemptOK
<1>10. /\ stage' = [stage EXCEPT ![p] = "after"]
       /\ UNCHANGED <<world, manifest, pairFile, summary>> /\ troubles' \in Nat
       /\ exchange' = [exchange EXCEPT ![p] = [exchange[p] EXCEPT ![Arm(p)] = ex]]
  BY <1>1, KnownAttempt, Known DEF FailRunner, Goto, Trouble
<1>11. /\ run' = [run EXCEPT ![p] = m]
       /\ attempt' = [attempt EXCEPT ![p] = [attempt[p] EXCEPT ![Arm(p)] = att]]
  BY <1>4
<1> HIDE DEF m, att
<1> QED BY <1>1, <1>2, <1>7, <1>8, <1>9, <1>10, <1>11, AttemptStep

\* The provider's answer is examined.
LEMMA AnsweredKeeps ==
  ASSUME IInv, NEW p \in Pairs, NEW reply \in Replies, Answered(p, reply)
  PROVE  IInv'
<1> DEFINE a == Arm(p)
           old == attempt[p][a]
           sent == exchange[p][a]
           transport == Observation(run[p].read, reply)
           ex == [prompt |-> run[p].read.prompt, reply |-> reply]
           file == [old.file EXCEPT !["provider"] = "right", !["stdout"] = "right"]
           sound == Accepted(p, transport, file)
           m == [run[p] EXCEPT !.transport = transport, !.sound = sound]
           att == [old EXCEPT !.file = file]
<1>1. stage[p] = "sent" /\ stage[p] \in Working /\ "after" \in Working
  BY DEF Answered, Working
<1>2. /\ old \in Attempts /\ AttemptOK("sent", run[p], old, sent)
      /\ old.file \in [AttemptFiles -> FileStates] /\ a \in Arms
  BY <1>1, KnownAttempt
<1>3. run[p].read \in Readings
  BY Known DEF Memories
<1>4. transport \in Transports /\ sound \in BOOLEAN /\ (sound => transport.status = "completed")
  BY <1>3, ObservationType DEF Accepted
<1>5. ex \in Exchanges /\ ex # None
  BY <1>3, NoneAssumption DEF Exchanges, Readings
<1>6. m \in Memories /\ m.transport = transport /\ m.basis = run[p].basis
      /\ m.order = run[p].order /\ m.next = run[p].next /\ m.version = run[p].version
      /\ m.before = run[p].before /\ m.read = run[p].read /\ m.sound = sound
  <2> HIDE DEF transport, sound
  <2> QED BY <1>4, Known DEF Memories
<1>7. file \in [AttemptFiles -> FileStates]
  BY <1>2 DEF FileStates
<1>8. att \in Attempts /\ att.dir = old.dir /\ att.final = old.final
  BY <1>2, <1>7 DEF Attempts
<1>9. Tells(transport, run[p].read, ex)
  BY DEF Tells
<1>10. transport # None
  BY <1>4, NoneAssumption
<1>11. AttemptOK("after", m, att, ex) /\ att.dir
  <2> HIDE DEF transport, sound, m, att, ex
  <2> QED BY <1>2, <1>4, <1>6, <1>8, <1>9, <1>10 DEF AttemptOK
<1>12. sent = [prompt |-> run[p].read.prompt, reply |-> None]
  BY <1>2 DEF AttemptOK
<1>13. exchange' = [exchange EXCEPT ![p] = [exchange[p] EXCEPT ![Arm(p)] = ex]]
  <2>1. exchange' = [exchange EXCEPT ![p] =
                       [exchange[p] EXCEPT ![Arm(p)] = [sent EXCEPT !.reply = reply]]]
    BY DEF Answered
  <2>2. [sent EXCEPT !.reply = reply] = ex
    BY <1>12
  <2> QED BY <2>1, <2>2
<1>14. /\ stage' = [stage EXCEPT ![p] = "after"] /\ run' = [run EXCEPT ![p] = m]
       /\ attempt' = [attempt EXCEPT ![p] = [attempt[p] EXCEPT ![Arm(p)] = att]]
       /\ UNCHANGED <<world, manifest, pairFile, summary>>
  BY DEF Answered, Goto
<1>15. troubles' \in Nat
  BY Known DEF Answered, Trouble
<1> HIDE DEF m, att, ex
<1> QED BY <1>1, <1>5, <1>6, <1>8, <1>11, <1>13, <1>14, <1>15, AttemptStep

\* The announcement of a pair.
LEMMA StartPairKeeps ==
  ASSUME IInv, NEW p \in Pairs, StartPair(p)
  PROVE  IInv'
<1> DEFINE m == run[p]
           manif == [kind |-> "pair", status |-> "running", basis |-> m.basis]
           atts == attempt[p]
           exch == exchange[p]
           pf == pairFile[p]
<1>1. stage[p] = "again" /\ stage[p] \in Preparing
  BY DEF StartPair, Preparing
<1>2. PairOK(stage[p], m, manifest[p], atts, exch) /\ m \in Memories
      /\ atts \in [Arms -> Attempts] /\ exch \in [Arms -> Exchanges \union {None}]
      /\ pf \in [PairFiles -> FileStates]
  BY Known
<1>3. m.next = 1 /\ \A a \in Arms : atts[a] = NoAttempt /\ exch[a] = None
  BY <1>1, <1>2 DEF PairOK
<1>4. manifest[p] # None => manifest[p].kind = "preparation"
  BY <1>1, <1>2 DEF PairOK
<1>5. m.order[1] \in Arms /\ m.order[2] \in Arms
  BY <1>2, ArmsInOrder DEF Memories
<1>6. manif \in Manifests
  BY <1>2 DEF Manifests, Memories
<1>7. "mkdir" \in Stages /\ "mkdir" \in Working /\ "mkdir" \notin Preparing
  BY DEF Stages, Working, Preparing
<1>8. PairOK("mkdir", m, manif, atts, exch)
  <2>1. WorkOK("mkdir", m, atts, exch)
    <3>1. AttemptOK("mkdir", m, NoAttempt, None)
      BY DEF AttemptOK, NoAttempt
    <3> HIDE DEF m, atts, exch
    <3>2. AttemptOK("mkdir", m, atts[m.order[m.next]], exch[m.order[m.next]])
      BY <1>3, <1>5, <3>1
    <3> QED BY <1>3, <1>5, <3>2 DEF WorkOK
  <2>2. \A a \in Arms : exch[a] = None /\ FinalOK(atts[a].final, exch[a], manif.basis)
    BY <1>3 DEF FinalOK, NoAttempt
  <2>3. manif.status # "completed"
    OBVIOUS
  <2> HIDE DEF m, atts, exch
  <2> QED BY <1>3, <1>7, <2>1, <2>2, <2>3 DEF PairOK
<1>9. Grows(p, manif, pf, atts, exch)
  BY <1>3, <1>4 DEF Grows, PairIsIntact
<1>10. /\ attempt' = [attempt EXCEPT ![p] = atts] /\ exchange' = [exchange EXCEPT ![p] = exch]
       /\ pairFile' = [pairFile EXCEPT ![p] = pf] /\ run' = [run EXCEPT ![p] = m]
       /\ recorded' \in Contents /\ UNCHANGED <<tree, version, summary>>
       /\ troubles' \in Nat
  BY DEF StartPair, IInv, TypeOK, world
<1>11. stage' = [stage EXCEPT ![p] = "mkdir"] /\ manifest' = [manifest EXCEPT ![p] = manif]
  BY DEF StartPair, Goto, Manifest
<1> HIDE DEF m, manif, atts, exch, pf
<1> QED BY <1>2, <1>6, <1>7, <1>8, <1>9, <1>10, <1>11, OwnStep

\* An evaluation that fails outside of an attempt.
LEMMA FailKeeps ==
  ASSUME IInv, NEW p \in Pairs, Fail(p)
  PROVE  IInv'
<1> DEFINE m == run[p]
           manif == manifest[p]
           atts == attempt[p]
           exch == exchange[p]
           pf == pairFile[p]
<1>1. stage[p] \in {"made", "refresh", "basis", "overview", "task", "again", "mkdir", "journal",
                    "after"}
  BY DEF Fail
<1>2. PairOK(stage[p], m, manif, atts, exch) /\ m \in Memories
      /\ atts \in [Arms -> Attempts] /\ exch \in [Arms -> Exchanges \union {None}]
      /\ pf \in [PairFiles -> FileStates] /\ manif \in Manifests \union {None}
  BY Known
<1>3. stage[p] \in Preparing \union Working /\ stage[p] # "ended"
  BY <1>1 DEF Preparing, Working
<1>4. "failing" \in Stages /\ "failing" \notin Preparing /\ "failing" \notin Working
  BY DEF Preparing, Working, Stages
<1>5. PairOK("failing", m, manif, atts, exch)
  <2> HIDE DEF m, manif, atts, exch
  <2>1. manif = None \/ manif.kind = "preparation" \/ manif.basis = m.basis
    BY <1>2, <1>3 DEF PairOK
  <2>2. ~ (manif # None /\ manif.status = "completed")
    BY <1>2, <1>3 DEF PairOK
  <2>3. \A a \in Arms :
          /\ exch[a] # None => manif # None /\ manif.kind = "pair" /\ atts[a].dir
          /\ FinalOK(atts[a].final, exch[a], manif.basis)
    BY <1>2 DEF PairOK
  <2> QED BY <1>4, <2>1, <2>2, <2>3 DEF PairOK
<1>6. Grows(p, manif, pf, atts, exch)
  BY DEF Grows, PairIsIntact
<1>7. /\ stage' = [stage EXCEPT ![p] = "failing"]
      /\ UNCHANGED <<tree, recorded, version, run, files, exchange, summary>>
  BY DEF Fail, Goto, world
<1>8. /\ attempt' = [attempt EXCEPT ![p] = atts] /\ exchange' = [exchange EXCEPT ![p] = exch]
      /\ pairFile' = [pairFile EXCEPT ![p] = pf] /\ run' = [run EXCEPT ![p] = m]
      /\ manifest' = [manifest EXCEPT ![p] = manif] /\ recorded' \in Contents
  BY <1>7 DEF IInv, TypeOK, files
<1>9. troubles' \in Nat
  BY Known DEF Fail, Trouble
<1> HIDE DEF m, manif, atts, exch, pf
<1> QED BY <1>2, <1>4, <1>5, <1>6, <1>7, <1>8, <1>9, OwnStep

\* The final record of an attempt.
LEMMA FinishAttemptKeeps ==
  ASSUME IInv, NEW p \in Pairs, FinishAttempt(p)
  PROVE  IInv'
<1> DEFINE a == Arm(p)
           r == run[p]
           old == attempt[p]
           exch == exchange[p]
           manif == manifest[p]
           pf == pairFile[p]
           sound == r.sound /\ r.before = tree
           final == [status |-> IF sound THEN "completed" ELSE "failed",
                     before |-> r.before, after |-> tree, transport |-> r.transport,
                     digest |-> old[a].file]
           att == [old[a] EXCEPT !.final = final]
           atts == [old EXCEPT ![a] = att]
           s == IF ~sound THEN "failing" ELSE IF r.next = 1 THEN "mkdir" ELSE "finish"
           m == IF sound /\ r.next = 1
                THEN [r EXCEPT !.next = 2, !.version = r.transport.version] ELSE r
<1>1. stage[p] = "after" /\ stage[p] \in Working
  BY DEF FinishAttempt, Working
<1>2. PairOK(stage[p], r, manif, old, exch) /\ r \in Memories
      /\ old \in [Arms -> Attempts] /\ exch \in [Arms -> Exchanges \union {None}]
      /\ pf \in [PairFiles -> FileStates] /\ manif \in Manifests \union {None}
      /\ r.order \in Orders /\ r.next \in 1..2 /\ tree \in Contents
  BY Known DEF Memories
<1>3. /\ a \in Arms /\ old[a] \in Attempts /\ old[a].file \in [AttemptFiles -> FileStates]
      /\ AttemptOK("after", r, old[a], exch[a])
  BY <1>1, KnownAttempt
<1>4. /\ r.order[1] \in Arms /\ r.order[2] \in Arms /\ r.order[1] # r.order[2]
      /\ a = r.order[r.next]
  BY <1>2, ArmsInOrder DEF Arm
<1>5. WorkOK("after", r, old, exch) /\ (r.next = 2 => FirstOK(r, old))
  BY <1>1, <1>2 DEF PairOK
<1>6. manif = [kind |-> "pair", status |-> "running", basis |-> r.basis]
  BY <1>1, <1>2 DEF PairOK
<1>7. final \in FinalRecords /\ final # None
  <2>1. final \in FinalRecords
    <3>1. r.before \in States /\ r.transport \in Transports \union {None} /\ tree \in States
      BY <1>2 DEF Memories, States
    <3> HIDE DEF r
    <3> QED BY <1>3, <3>1 DEF FinalRecords
  <2> QED BY <2>1, NoneAssumption
<1>8. att \in Attempts /\ att.final = final /\ att.dir
  <2> HIDE DEF final
  <2>1. att \in Attempts /\ att.final = final /\ att.dir = old[a].dir
    BY <1>3, <1>7 DEF Attempts
  <2>2. old[a].dir
    BY <1>3 DEF AttemptOK
  <2> QED BY <2>1, <2>2
<1>9. /\ atts \in [Arms -> Attempts]
      /\ \A b \in Arms : atts[b] = IF b = a THEN att ELSE old[b]
  BY <1>2, <1>3, <1>8
<1>10. /\ final.status = "completed" <=> sound
       /\ final.transport = r.transport /\ final.before = r.before /\ final.after = tree
  OBVIOUS
<1>11. sound => /\ r.transport # None /\ r.transport.status = "completed"
                /\ r.before = r.basis /\ tree = r.basis
  BY <1>3 DEF AttemptOK
<1>12. r.transport # None /\ r.transport.status = "completed" =>
          r.read \in Readings /\ r.read.version \in 1..MaxVersion
            /\ Tells(r.transport, r.read, exch[a])
  BY <1>2, <1>3 DEF AttemptOK, Memories
<1>13. FinalOK(final, exch[a], r.basis)
  <2> HIDE DEF final, sound, r, exch
  <2> QED BY <1>10, <1>11, <1>12 DEF FinalOK
<1>14. Completed(final) <=> sound
  BY <1>7, <1>10 DEF Completed
<1>15. m \in Memories /\ m.order = r.order /\ m.basis = r.basis
  <2>1. CASE sound /\ r.next = 1
    <3>1. r.transport \in Transports
      BY <1>2, <1>11, <2>1 DEF Memories
    <3>2. r.transport.version \in 0..MaxVersion
      BY <3>1 DEF Transports
    <3>3. m = [r EXCEPT !.next = 2, !.version = r.transport.version]
      BY <2>1
    <3>4. r \in Memories
      BY <1>2
    <3> HIDE DEF r
    <3>5. [r EXCEPT !.next = 2, !.version = r.transport.version] \in Memories
      <4> DEFINE v == r.transport.version
                 n == 2
      <4>1. v \in 0..MaxVersion /\ n \in 1..2
        BY <3>2
      <4> HIDE DEF v, n
      <4>2. [r EXCEPT !.next = n, !.version = v] \in Memories
        BY <3>4, <4>1 DEF Memories
      <4> QED BY <4>2 DEF v, n
    <3>6. /\ [r EXCEPT !.next = 2, !.version = r.transport.version].order = r.order
          /\ [r EXCEPT !.next = 2, !.version = r.transport.version].basis = r.basis
      BY <3>4 DEF Memories
    <3> HIDE DEF m
    <3> QED BY <3>3, <3>5, <3>6
  <2>2. CASE ~ (sound /\ r.next = 1)
    <3>1. m = r
      BY <2>2
    <3> QED BY <1>2, <3>1
  <2> QED BY <2>1, <2>2
<1>16. s \in Stages /\ s \in {"failing", "mkdir", "finish"}
  BY DEF Stages
<1>17. /\ s = "mkdir" => /\ sound /\ r.next = 1 /\ m.next = 2
                         /\ m.version = r.transport.version
       /\ s = "finish" => sound /\ r.next = 2 /\ m = r
  BY <1>2 DEF Memories
<1> HIDE DEF a, r, old, exch, manif, pf, sound, final, att, atts, s, m
<1>18. s = "mkdir" => WorkOK(s, m, atts, exch) /\ FirstOK(m, atts)
  <2> SUFFICES ASSUME s = "mkdir" PROVE WorkOK(s, m, atts, exch) /\ FirstOK(m, atts)
    OBVIOUS
  <2>1. sound /\ r.next = 1 /\ m.next = 2 /\ m.version = r.transport.version
    BY <1>17
  <2>2. old[r.order[2]] = NoAttempt /\ exch[r.order[2]] = None
    BY <1>5, <2>1 DEF WorkOK
  <2>3. a = m.order[1] /\ m.order[2] = r.order[2] /\ m.order[2] \in Arms /\ m.order[2] # a
    BY <1>4, <1>15, <2>1
  <2>4. atts[m.order[2]] = NoAttempt /\ exch[m.order[2]] = None /\ atts[m.order[1]] = att
    BY <1>3, <1>9, <2>2, <2>3
  <2>5. AttemptOK("mkdir", m, atts[m.order[2]], exch[m.order[2]])
    BY <2>4 DEF AttemptOK, NoAttempt
  <2>6. WorkOK(s, m, atts, exch)
    BY <2>1, <2>5 DEF WorkOK
  <2>7. FirstOK(m, atts)
    BY <1>8, <1>10, <1>14, <2>1, <2>4 DEF FirstOK
  <2> QED BY <2>6, <2>7
<1>19. s = "finish" => /\ m.next = 2 /\ FirstOK(m, atts) /\ Completed(atts[m.order[2]].final)
                       /\ atts[m.order[2]].final.transport.version = m.transport.version
  <2> SUFFICES ASSUME s = "finish"
               PROVE  /\ m.next = 2 /\ FirstOK(m, atts) /\ Completed(atts[m.order[2]].final)
                      /\ atts[m.order[2]].final.transport.version = m.transport.version
    OBVIOUS
  <2>1. sound /\ r.next = 2 /\ m = r
    BY <1>17
  <2>2. a = r.order[2] /\ r.order[1] # a
    BY <1>4, <2>1
  <2>3. atts[r.order[1]] = old[r.order[1]] /\ atts[r.order[2]] = att
    BY <1>3, <1>4, <1>9, <2>2
  <2>4. FirstOK(r, atts)
    BY <1>5, <2>1, <2>3 DEF FirstOK
  <2> QED BY <1>8, <1>10, <1>14, <2>1, <2>3, <2>4
<1>20. ASSUME NEW b \in Arms
       PROVE  /\ exch[b] # None => manif # None /\ manif.kind = "pair" /\ atts[b].dir
              /\ FinalOK(atts[b].final, exch[b], manif.basis)
  <2>1. /\ exch[b] # None => manif # None /\ manif.kind = "pair" /\ old[b].dir
        /\ FinalOK(old[b].final, exch[b], manif.basis)
    BY <1>2 DEF PairOK
  <2>2. CASE b = a
    BY <1>3, <1>6, <1>8, <1>9, <1>13, <2>1, <2>2
  <2>3. CASE b # a
    BY <1>9, <2>1, <2>3
  <2> QED BY <2>2, <2>3
<1>21. PairOK(s, m, manif, atts, exch)
  <2>1. manif = [kind |-> "pair", status |-> "running", basis |-> m.basis]
    BY <1>6, <1>15
  <2>2. manif.status # "completed" /\ manif.basis = m.basis
    BY <2>1
  <2>3. s \notin Preparing /\ s \notin {"idle", "made", "ended"}
        /\ (s \in Working => s = "mkdir")
    BY <1>16 DEF Preparing, Working
  <2> QED BY <1>16, <1>18, <1>19, <1>20, <2>1, <2>2, <2>3 DEF PairOK
<1>22. Grows(p, manif, pf, atts, exch)
  <2>1. old[a].final = None
    BY <1>3 DEF AttemptOK
  <2>2. \A b \in Arms : old[b].final # None => atts[b].final = old[b].final
    BY <1>9, <2>1
  <2> QED BY <2>2 DEF Grows, PairIsIntact, manif, pf, old, exch
<1>23. stage' = [stage EXCEPT ![p] = s]
  BY DEF FinishAttempt, Goto, s, sound, r
<1>24. run' = [run EXCEPT ![p] = m]
  <2>1. run = [run EXCEPT ![p] = r]
    BY DEF IInv, TypeOK, r
  <2> QED BY <2>1 DEF FinishAttempt, Goto, m, sound, r
<1>25. attempt' = [attempt EXCEPT ![p] = atts]
  BY DEF FinishAttempt, atts, att, final, old, a, sound, r
<1>26. /\ exchange' = [exchange EXCEPT ![p] = exch] /\ pairFile' = [pairFile EXCEPT ![p] = pf]
       /\ manifest' = [manifest EXCEPT ![p] = manif] /\ recorded' \in Contents
       /\ UNCHANGED <<tree, version, summary>> /\ troubles' \in Nat
  BY DEF FinishAttempt, IInv, TypeOK, world, exch, pf, manif
<1> QED BY <1>2, <1>9, <1>15, <1>16, <1>21, <1>22, <1>23, <1>24, <1>25, <1>26, OwnStep

(***************************************************************************)
(* The summary.                                                            *)
(***************************************************************************)

\* Going on changes only where the reader is.
LEMMA ProceedType ==
  ASSUME NEW s \in Summaries
  PROVE  /\ Proceed(s) \in Summaries
         /\ Proceed(s).todo = s.todo /\ Proceed(s).arms = s.arms /\ Proceed(s).seen = s.seen
         /\ Proceed(s).item = s.item /\ Proceed(s).begun = s.begun
         /\ IF s.arms # {}
            THEN Proceed(s).stage = "attempts" /\ Proceed(s).at = s.at /\ Proceed(s).intact = s.intact
            ELSE /\ Proceed(s).stage = IF s.todo = {} THEN "done" ELSE "listing"
                 /\ Proceed(s).at = None /\ Proceed(s).intact = FALSE
<1>1. CASE s.arms # {}
  BY <1>1 DEF Proceed, Summaries
<1>2. CASE s.arms = {}
  BY <1>2 DEF Proceed, Summaries
<1> QED BY <1>1, <1>2

\* A step of the summary keeps the invariant when it keeps what the summary relies on.
LEMMA SummaryStep ==
  ASSUME IInv, summary' \in Summaries, UNCHANGED <<world, troubles, stage, run, files, exchange>>,
         SummaryOK'
  PROVE  IInv'
<1>1. TypeOK'
  BY DEF IInv, TypeOK, world, files
<1>2. ASSUME NEW q \in Pairs
      PROVE  PairOK(stage[q], run[q], manifest[q], attempt[q], exchange[q])'
  BY DEF IInv, files
<1> QED BY <1>1, <1>2 DEF IInv

\* A summary begins.
LEMMA SummarizeKeeps ==
  ASSUME IInv, Summarize
  PROVE  IInv'
<1>1. /\ summary'.stage = "listing" /\ summary'.todo = Started /\ summary'.arms = {}
      /\ summary'.seen = [p \in Pairs |-> None] /\ summary'.begun = Launched
      /\ summary'.item = [p \in Pairs |-> [a \in Arms |-> None]]
  BY DEF Summarize, NoSummary
<1>2. summary' \in Summaries
  <2>1. Started \in SUBSET Pairs /\ Launched \in SUBSET (Pairs \X Arms)
    BY DEF Started, Launched
  <2> QED BY <2>1 DEF Summarize, NoSummary, Summaries
<1>3. UNCHANGED <<world, troubles, stage, run, files, exchange>>
  BY DEF Summarize
<1>4. ASSUME NEW pa \in Launched
      PROVE  exchange'[pa[1]][pa[2]] # None /\ pa[1] \in Started
  <2>1. pa[1] \in Pairs /\ pa[2] \in Arms /\ exchange[pa[1]][pa[2]] # None
    BY DEF Launched
  <2>2. PairOK(stage[pa[1]], run[pa[1]], manifest[pa[1]], attempt[pa[1]], exchange[pa[1]])
    BY <2>1, Known
  <2>3. stage[pa[1]] # "idle"
    BY <2>1, <2>2 DEF PairOK, Preparing
  <2> QED BY <1>3, <2>1, <2>3 DEF Started
<1>5. SummaryOK'
  <2>1. \A p \in Pairs : summary'.seen[p] = None /\ \A a \in Arms : summary'.item[p][a] = None
    BY <1>1
  <2>2. \A p \in Pairs : \A a \in Arms : ItemOK(summary'.item[p][a], a, attempt'[p][a].final)
    BY <2>1 DEF ItemOK
  <2>3. \A pa \in summary'.begun :
          exchange'[pa[1]][pa[2]] # None /\ CountedOrToCome(pa[1], pa[2])'
    BY <1>1, <1>4 DEF CountedOrToCome
  <2> QED BY <1>1, <2>1, <2>2, <2>3 DEF SummaryOK
<1> QED BY <1>2, <1>3, <1>5, SummaryStep

\* What has been launched is of a pair, and has a directory.
LEMMA LaunchedIsListed ==
  ASSUME IInv, NEW pa \in summary.begun
  PROVE  /\ pa[1] \in Pairs /\ pa[2] \in Arms /\ exchange[pa[1]][pa[2]] # None
         /\ manifest[pa[1]] # None /\ manifest[pa[1]].kind = "pair"
         /\ pa[2] \in Children(pa[1]) /\ CountedOrToCome(pa[1], pa[2])
<1>1. pa[1] \in Pairs /\ pa[2] \in Arms
  BY DEF IInv, TypeOK, Summaries
<1>2. exchange[pa[1]][pa[2]] # None /\ CountedOrToCome(pa[1], pa[2])
  BY DEF IInv, SummaryOK
<1>3. PairOK(stage[pa[1]], run[pa[1]], manifest[pa[1]], attempt[pa[1]], exchange[pa[1]])
  BY <1>1, Known
<1>4. /\ manifest[pa[1]] # None /\ manifest[pa[1]].kind = "pair"
      /\ attempt[pa[1]][pa[2]].dir
  BY <1>1, <1>2, <1>3 DEF PairOK
<1> QED BY <1>1, <1>2, <1>4 DEF Children

\* The reader comes to a pair.
LEMMA ReadManifestKeeps ==
  ASSUME IInv, NEW p \in Pairs, ReadManifest(p)
  PROVE  IInv'
<1> DEFINE passed == [summary EXCEPT !.todo = @ \ {p}]
<1>1. summary \in Summaries /\ SummaryOK /\ manifest[p] \in Manifests \union {None}
  BY DEF IInv, TypeOK
<1>2. summary.stage = "listing" /\ p \in summary.todo /\ summary.arms = {}
  BY <1>1 DEF ReadManifest, SummaryOK
<1>3. UNCHANGED <<world, troubles, stage, run, files, exchange>>
  BY DEF ReadManifest
<1>4. /\ passed \in Summaries /\ passed.todo = summary.todo \ {p} /\ passed.arms = {}
      /\ passed.seen = summary.seen /\ passed.item = summary.item /\ passed.begun = summary.begun
  BY <1>1, <1>2 DEF Summaries
<1>5. \A q \in Pairs : summary.seen[q] # None =>
        /\ summary.seen[q].kind = "pair"
        /\ manifest[q] # None /\ manifest[q].kind = "pair"
        /\ manifest[q].basis = summary.seen[q].basis
        /\ summary.seen[q].status = "completed" => manifest[q] = summary.seen[q]
  BY <1>1 DEF SummaryOK
<1>6. \A q \in Pairs : \A a \in Arms : ItemOK(summary.item[q][a], a, attempt[q][a].final)
  BY <1>1 DEF SummaryOK
<1>7. \A pa \in summary.begun :
        \/ pa[1] \in summary.todo
        \/ summary.seen[pa[1]] # None /\ summary.item[pa[1]][pa[2]] # None
  BY <1>2, LaunchedIsListed DEF CountedOrToCome
<1>8. ASSUME summary'.todo = summary.todo \ {p}, summary'.arms = {}, summary'.seen = summary.seen,
             summary'.begun = summary.begun,
             \A q \in Pairs \ {p} : summary'.item[q] = summary.item[q],
             \A a \in Arms : ItemOK(summary'.item[p][a], a, attempt[p][a].final),
             summary'.stage = IF summary.todo \ {p} = {} THEN "done" ELSE "listing",
             summary' \in Summaries,
             ~ (manifest[p] # None /\ manifest[p].kind = "pair")
      PROVE  IInv'
  <2>1. \A pa \in summary.begun : pa[1] # p
    BY <1>8, LaunchedIsListed
  <2>2. \A q \in Pairs : \A a \in Arms : ItemOK(summary'.item[q][a], a, attempt'[q][a].final)
    BY <1>3, <1>6, <1>8 DEF files
  <2>3. ASSUME NEW pa \in summary'.begun
        PROVE  exchange'[pa[1]][pa[2]] # None /\ CountedOrToCome(pa[1], pa[2])'
    <3>1. pa \in summary.begun /\ pa[1] # p /\ pa[1] \in Pairs
          /\ exchange[pa[1]][pa[2]] # None
      BY <1>8, <2>1, LaunchedIsListed
    <3> QED BY <1>3, <1>7, <1>8, <3>1 DEF CountedOrToCome
  <2>4. SummaryOK'
    BY <1>3, <1>5, <1>8, <2>2, <2>3 DEF SummaryOK, files
  <2> QED BY <1>3, <1>8, <2>4, SummaryStep
<1>9. CASE manifest[p] = None
  <2> DEFINE lines == [a \in Arms |-> IF a \in Children(p) THEN Invalid ELSE None]
             read == [passed EXCEPT !.errors = TRUE, !.item[p] = lines]
  <2>1. summary' = Proceed(read)
    BY <1>9 DEF ReadManifest
  <2>2. lines \in [Arms -> Items \union {None}]
    BY ConstantsAssumption DEF Invalid, Items
  <2>3. /\ read \in Summaries /\ read.todo = passed.todo /\ read.arms = {}
        /\ read.seen = summary.seen /\ read.begun = summary.begun
        /\ \A q \in Pairs : read.item[q] = IF q = p THEN lines ELSE summary.item[q]
    <3> HIDE DEF lines, passed
    <3> QED BY <1>4, <2>2 DEF Summaries
  <2>4. \A a \in Arms : ItemOK(lines[a], a, attempt[p][a].final)
    BY DEF ItemOK, Invalid
  <2> HIDE DEF read, lines, passed
  <2> QED BY <1>4, <1>8, <1>9, <2>1, <2>3, <2>4, ProceedType
<1>10. CASE manifest[p] # None /\ manifest[p].kind # "pair"
  <2>1. summary' = Proceed(passed)
    BY <1>10 DEF ReadManifest
  <2> HIDE DEF passed
  <2> QED BY <1>4, <1>6, <1>8, <1>10, <2>1, ProceedType
<1>11. CASE manifest[p] # None /\ manifest[p].kind = "pair"
  <2> DEFINE m == manifest[p]
  <2>1. summary' = [passed EXCEPT !.stage = "pair", !.at = p, !.seen[p] = m]
    BY <1>11 DEF ReadManifest
  <2>2. m \in Manifests
    BY <1>1, <1>11
  <2> HIDE DEF passed, m
  <2>3. /\ summary' \in Summaries /\ summary'.stage = "pair" /\ summary'.at = p
        /\ summary'.todo = summary.todo \ {p} /\ summary'.arms = {}
        /\ summary'.item = summary.item /\ summary'.begun = summary.begun
        /\ \A q \in Pairs : summary'.seen[q] = IF q = p THEN m ELSE summary.seen[q]
    BY <1>4, <2>1, <2>2 DEF Summaries
  <2>4. \A q \in Pairs : summary'.seen[q] # None =>
          /\ summary'.seen[q].kind = "pair"
          /\ manifest'[q] # None /\ manifest'[q].kind = "pair"
          /\ manifest'[q].basis = summary'.seen[q].basis
          /\ summary'.seen[q].status = "completed" => manifest'[q] = summary'.seen[q]
    BY <1>3, <1>5, <1>11, <2>3 DEF files, m
  <2>5. summary'.seen[p] # None
    BY <1>11, <2>3 DEF m
  <2>6. ASSUME NEW pa \in summary'.begun
        PROVE  exchange'[pa[1]][pa[2]] # None /\ CountedOrToCome(pa[1], pa[2])'
    <3>1. pa \in summary.begun /\ pa[1] \in Pairs /\ exchange[pa[1]][pa[2]] # None
      BY <2>3, LaunchedIsListed
    <3>2. exchange'[pa[1]][pa[2]] # None
      BY <1>3, <3>1
    <3>3. CASE pa[1] = p
      BY <2>3, <2>5, <3>2, <3>3 DEF CountedOrToCome
    <3>4. CASE pa[1] # p
      BY <1>7, <2>3, <3>1, <3>2, <3>4 DEF CountedOrToCome
    <3> QED BY <3>3, <3>4
  <2>7. \A q \in Pairs : \A a \in Arms : ItemOK(summary'.item[q][a], a, attempt'[q][a].final)
    BY <1>3, <1>6, <2>3 DEF files
  <2>8. SummaryOK'
    BY <2>3, <2>4, <2>5, <2>6, <2>7 DEF SummaryOK
  <2> QED BY <1>3, <2>3, <2>8, SummaryStep
<1> QED BY <1>9, <1>10, <1>11

\* The reader has looked at the frozen files and the names of the attempts.
LEMMA ReadPairKeeps ==
  ASSUME IInv, ReadPair
  PROVE  IInv'
<1> DEFINE p == summary.at
           read == [summary EXCEPT !.arms = Children(p), !.intact = PairIsIntact(p)]
<1>1. summary \in Summaries /\ SummaryOK
  BY DEF IInv, TypeOK
<1>2. summary.stage = "pair" /\ summary' = Proceed(read)
      /\ UNCHANGED <<world, troubles, stage, run, files, exchange>>
  BY DEF ReadPair
<1>3. p \in Pairs /\ summary.seen[p] # None
  BY <1>1, <1>2 DEF SummaryOK
<1>4. Children(p) \subseteq Arms /\ PairIsIntact(p) \in BOOLEAN
  BY DEF Children, PairIsIntact
<1>5. /\ read \in Summaries /\ read.todo = summary.todo /\ read.arms = Children(p)
      /\ read.seen = summary.seen /\ read.item = summary.item /\ read.begun = summary.begun
      /\ read.at = p /\ read.intact = PairIsIntact(p)
  BY <1>1, <1>4 DEF Summaries
<1> HIDE DEF read
<1>6. /\ summary' \in Summaries /\ summary'.todo = summary.todo
      /\ summary'.arms = Children(p) /\ summary'.seen = summary.seen
      /\ summary'.item = summary.item /\ summary'.begun = summary.begun
      /\ IF Children(p) # {}
         THEN /\ summary'.stage = "attempts" /\ summary'.at = p
              /\ summary'.intact = PairIsIntact(p)
         ELSE summary'.stage = IF summary.todo = {} THEN "done" ELSE "listing"
  BY <1>2, <1>5, ProceedType
<1>7. \A q \in Pairs : summary'.seen[q] # None =>
        /\ summary'.seen[q].kind = "pair"
        /\ manifest'[q] # None /\ manifest'[q].kind = "pair"
        /\ manifest'[q].basis = summary'.seen[q].basis
        /\ summary'.seen[q].status = "completed" => manifest'[q] = summary'.seen[q]
  BY <1>1, <1>2, <1>6 DEF SummaryOK, files
<1>8. \A q \in Pairs : \A a \in Arms : ItemOK(summary'.item[q][a], a, attempt'[q][a].final)
  BY <1>1, <1>2, <1>6 DEF SummaryOK, files
<1>9. ASSUME NEW pa \in summary'.begun
      PROVE  exchange'[pa[1]][pa[2]] # None /\ CountedOrToCome(pa[1], pa[2])'
  <2>1. /\ pa \in summary.begun /\ exchange[pa[1]][pa[2]] # None
        /\ pa[2] \in Children(pa[1]) /\ CountedOrToCome(pa[1], pa[2])
    BY <1>6, LaunchedIsListed
  <2>2. CASE pa[1] = p
    BY <1>2, <1>3, <1>6, <2>1, <2>2 DEF CountedOrToCome
  <2>3. CASE pa[1] # p
    BY <1>2, <1>6, <2>1, <2>3 DEF CountedOrToCome
  <2> QED BY <2>2, <2>3
<1>10. summary'.stage = "attempts" /\ summary'.intact => PairIsIntact(summary.at)'
  BY <1>2, <1>6 DEF PairIsIntact, files
<1>11. /\ summary'.stage \in {"idle", "listing", "done"} => summary'.arms = {}
       /\ summary'.stage = "done" => summary'.todo = {}
       /\ summary'.stage \in {"pair", "attempts"} =>
            summary'.at \in Pairs /\ summary'.seen[summary'.at] # None
  BY <1>3, <1>6
<1>12. SummaryOK'
  BY <1>7, <1>8, <1>9, <1>10, <1>11 DEF SummaryOK
<1> QED BY <1>2, <1>6, <1>12, SummaryStep

\* A line of the inventory is what it promises.
LEMMA LineIsOK ==
  ASSUME IInv, NEW p \in Pairs, NEW a \in Arms, NEW basis, NEW intact \in BOOLEAN,
         intact => PairIsIntact(p)
  PROVE  /\ Line(p, a, basis, intact) \in Items
         /\ ItemOK(Line(p, a, basis, intact), a, attempt[p][a].final)
<1> DEFINE final == attempt[p][a].final
           file == attempt[p][a].file
           valid == intact /\ AttemptIsIntact(p, a)
           told == valid /\ final # None /\ final.transport # None
           line == [status |-> IF final = None THEN "started" ELSE final.status,
                    eligible |-> valid /\ Eligible(final, basis),
                    delivered |-> valid /\ Delivered(final, a, file["cue"]),
                    correct |-> told /\ Correct(final.transport),
                    credit |-> told /\ Credit(final.transport),
                    version |-> IF final = None \/ final.transport = None THEN 0
                                ELSE final.transport.version]
<1>1. Line(p, a, basis, intact) \in {Invalid, line}
  BY DEF Line
<1>2. Invalid \in Items /\ ItemOK(Invalid, a, final)
  BY ConstantsAssumption DEF Invalid, Items, ItemOK
<1>3. final \in FinalRecords \union {None}
  BY Known DEF Attempts
<1>4. final # None /\ final.transport # None => final.transport \in Transports
  BY <1>3 DEF FinalRecords
<1>5. AttemptIsIntact(p, a) \in BOOLEAN /\ Eligible(final, basis) \in BOOLEAN
      /\ Delivered(final, a, file["cue"]) \in BOOLEAN
  BY <1>4 DEF AttemptIsIntact, Eligible, Delivered, Transports
<1>6. final # None /\ final.transport # None =>
        Correct(final.transport) \in BOOLEAN /\ Credit(final.transport) \in BOOLEAN
  BY <1>4 DEF Correct, Credit, Transports
<1>7. line \in Items
  <2>1. final # None => final.status \in {"completed", "failed"}
    BY <1>3 DEF FinalRecords
  <2>2. (IF final = None \/ final.transport = None THEN 0 ELSE final.transport.version)
          \in 0..MaxVersion
    BY <1>4, ConstantsAssumption DEF Transports
  <2> HIDE DEF final, file
  <2> QED BY <1>5, <1>6, <2>1, <2>2 DEF Items
<1>8. ItemOK(line, a, final)
  <2> SUFFICES ASSUME line.eligible PROVE ItemOK(line, a, final)
    BY DEF ItemOK
  <2>1. valid /\ Eligible(final, basis)
    OBVIOUS
  <2>2. final # None /\ final.status = "completed" /\ final.transport # None
    BY <2>1 DEF Eligible
  <2>3. pairFile[p][a] = "right"
    BY <2>1 DEF PairIsIntact, PairFiles
  <2>4. final.transport.prompt = "right"
    BY <2>1, <2>2, <2>3 DEF AttemptIsIntact
  <2>5. line.delivered => a = "task" \/ final.transport.sources
    BY DEF Delivered
  <2>6. line.correct => final.transport.answer = "right"
    BY DEF Correct
  <2>7. line.credit => final.transport.counted
    BY DEF Credit
  <2>8. line.version = final.transport.version
    BY <2>2
  <2> HIDE DEF line, final
  <2> QED BY <2>2, <2>4, <2>5, <2>6, <2>7, <2>8 DEF ItemOK, Completed
<1> HIDE DEF line
<1> QED BY <1>1, <1>2, <1>7, <1>8

\* The reader has looked at an attempt.
LEMMA ReadAttemptKeeps ==
  ASSUME IInv, NEW a \in Arms, ReadAttempt(a)
  PROVE  IInv'
<1> DEFINE p == summary.at
           line == Line(p, a, summary.seen[p].basis, summary.intact)
           read == [summary EXCEPT !.arms = @ \ {a}, !.item[p][a] = line,
                                   !.errors = @ \/ line = Invalid]
<1>1. summary \in Summaries /\ SummaryOK
  BY DEF IInv, TypeOK
<1>2. summary.stage = "attempts" /\ a \in summary.arms /\ summary' = Proceed(read)
      /\ UNCHANGED <<world, troubles, stage, run, files, exchange>>
  BY DEF ReadAttempt
<1>3. p \in Pairs /\ summary.seen[p] # None /\ summary.intact \in BOOLEAN
      /\ (summary.intact => PairIsIntact(p))
  BY <1>1, <1>2 DEF SummaryOK, Summaries
<1>4. line \in Items /\ ItemOK(line, a, attempt[p][a].final)
  BY <1>3, LineIsOK
<1> HIDE DEF p, line
<1>5. /\ read \in Summaries /\ read.todo = summary.todo /\ read.arms = summary.arms \ {a}
      /\ read.seen = summary.seen /\ read.begun = summary.begun
      /\ read.at = summary.at /\ read.intact = summary.intact
      /\ read.item = [summary.item EXCEPT ![p] = [summary.item[p] EXCEPT ![a] = line]]
  <2>1. summary.item \in [Pairs -> [Arms -> Items \union {None}]]
    BY <1>1 DEF Summaries
  <2> DEFINE items == [summary.item EXCEPT ![p] = [summary.item[p] EXCEPT ![a] = line]]
             errors == summary.errors \/ line = Invalid
             arms == summary.arms \ {a}
  <2>2. items \in [Pairs -> [Arms -> Items \union {None}]]
    BY <1>3, <1>4, <2>1
  <2>3. errors \in BOOLEAN /\ arms \in SUBSET Arms
    BY <1>1 DEF Summaries
  <2>4. read = [summary EXCEPT !.arms = arms, !.item = items, !.errors = errors]
    OBVIOUS
  <2> HIDE DEF read, items, errors, arms
  <2>5. /\ read \in Summaries /\ read.todo = summary.todo /\ read.arms = arms
        /\ read.seen = summary.seen /\ read.begun = summary.begun
        /\ read.at = summary.at /\ read.intact = summary.intact /\ read.item = items
    BY <1>1, <2>2, <2>3, <2>4 DEF Summaries
  <2> QED BY <2>5 DEF items, arms
<1>6. /\ \A q \in Pairs \ {p} : read.item[q] = summary.item[q]
      /\ \A b \in Arms \ {a} : read.item[p][b] = summary.item[p][b]
      /\ read.item[p][a] = line
  BY <1>1, <1>3, <1>5 DEF Summaries
<1> HIDE DEF read
<1>7. /\ summary' \in Summaries /\ summary'.todo = summary.todo
      /\ summary'.arms = summary.arms \ {a} /\ summary'.seen = summary.seen
      /\ summary'.item = read.item /\ summary'.begun = summary.begun
      /\ IF summary.arms \ {a} # {}
         THEN /\ summary'.stage = "attempts" /\ summary'.at = p
              /\ summary'.intact = summary.intact
         ELSE summary'.stage = IF summary.todo = {} THEN "done" ELSE "listing"
  BY <1>2, <1>5, ProceedType DEF p
<1>8. \A q \in Pairs : summary'.seen[q] # None =>
        /\ summary'.seen[q].kind = "pair"
        /\ manifest'[q] # None /\ manifest'[q].kind = "pair"
        /\ manifest'[q].basis = summary'.seen[q].basis
        /\ summary'.seen[q].status = "completed" => manifest'[q] = summary'.seen[q]
  BY <1>1, <1>2, <1>7 DEF SummaryOK, files
<1>9. ASSUME NEW q \in Pairs, NEW b \in Arms
      PROVE  ItemOK(summary'.item[q][b], b, attempt'[q][b].final)
  <2>1. ItemOK(summary.item[q][b], b, attempt[q][b].final) /\ attempt' = attempt
    BY <1>1, <1>2 DEF SummaryOK, files
  <2>2. CASE q = p /\ b = a
    BY <1>4, <1>6, <1>7, <2>1, <2>2
  <2>3. CASE ~ (q = p /\ b = a)
    BY <1>6, <1>7, <2>1, <2>3
  <2> QED BY <2>2, <2>3
<1>10. line # None
  BY <1>4, NoneAssumption
<1>11. ASSUME NEW pa \in summary'.begun
       PROVE  exchange'[pa[1]][pa[2]] # None /\ CountedOrToCome(pa[1], pa[2])'
  <2>1. /\ pa \in summary.begun /\ pa[1] \in Pairs /\ pa[2] \in Arms
        /\ exchange[pa[1]][pa[2]] # None /\ CountedOrToCome(pa[1], pa[2])
    BY <1>7, LaunchedIsListed
  <2>2. CASE pa[1] = p /\ pa[2] = a
    <3>1. summary'.seen[pa[1]] # None /\ summary'.item[pa[1]][pa[2]] # None
      BY <1>3, <1>6, <1>7, <1>10, <2>2 DEF p
    <3> QED BY <1>2, <2>1, <3>1 DEF CountedOrToCome
  <2>3. CASE ~ (pa[1] = p /\ pa[2] = a)
    <3>1. summary'.item[pa[1]][pa[2]] = summary.item[pa[1]][pa[2]]
      BY <1>6, <1>7, <2>1, <2>3
    <3> QED BY <1>2, <1>7, <2>1, <2>3, <3>1 DEF CountedOrToCome, p
  <2> QED BY <2>2, <2>3
<1>12. summary'.stage = "attempts" /\ summary'.intact => PairIsIntact(summary.at)'
  BY <1>2, <1>3, <1>7 DEF PairIsIntact, files, p
<1>13. /\ summary'.stage \in {"idle", "listing", "done"} => summary'.arms = {}
       /\ summary'.stage = "done" => summary'.todo = {}
       /\ summary'.stage \in {"pair", "attempts"} =>
            summary'.at \in Pairs /\ summary'.seen[summary'.at] # None
  BY <1>3, <1>7 DEF p
<1>14. SummaryOK'
  BY <1>8, <1>9, <1>11, <1>12, <1>13 DEF SummaryOK
<1> QED BY <1>2, <1>7, <1>14, SummaryStep

(***************************************************************************)
(* The world.                                                              *)
(***************************************************************************)

\* What changes around the evaluations is not what they rely on.
LEMMA WorldKeeps ==
  ASSUME IInv,
         \/ \E c \in Contents : Edit(c)
         \/ RefreshElsewhere
         \/ Upgrade
  PROVE  IInv'
<1>1. UNCHANGED <<stage, run, files, exchange, summary>>
  BY DEF Edit, RefreshElsewhere, Upgrade
<1>2. tree' \in Contents /\ recorded' \in Contents /\ version' \in 1..MaxVersion
  BY ConstantsAssumption DEF IInv, TypeOK, Edit, RefreshElsewhere, Upgrade
<1>3. troubles' \in Nat
  BY DEF IInv, TypeOK, Edit, RefreshElsewhere, Upgrade, Trouble
<1>4. TypeOK'
  BY <1>1, <1>2, <1>3 DEF IInv, TypeOK, files
<1>5. ASSUME NEW q \in Pairs
      PROVE  PairOK(stage[q], run[q], manifest[q], attempt[q], exchange[q])'
  BY <1>1 DEF IInv, files
<1>6. \A q \in Pairs : Grows(q, manifest'[q], pairFile'[q], attempt'[q], exchange'[q])
  BY <1>1 DEF Grows, PairIsIntact, files
<1>7. SummaryOK'
  BY <1>1, <1>6, SummaryStaysOK DEF IInv, TypeOK, Summaries
<1> QED BY <1>4, <1>5, <1>7 DEF IInv

\* A changed file makes an attempt no other one for its evaluation.
LEMMA FilesDoNotMatter ==
  ASSUME NEW s, NEW m, NEW manif, NEW exch, NEW atts, NEW later,
         m.order \in Orders, m.next \in 1..2, PairOK(s, m, manif, atts, exch),
         \A a \in Arms : /\ later[a].final = atts[a].final /\ later[a].dir = atts[a].dir
                         /\ atts[a] = NoAttempt => later[a] = NoAttempt
  PROVE  PairOK(s, m, manif, later, exch)
<1>1. m.order[1] \in Arms /\ m.order[2] \in Arms /\ m.order[m.next] \in Arms
  BY ArmsInOrder
<1>2. WorkOK(s, m, atts, exch) => WorkOK(s, m, later, exch)
  <2>1. AttemptOK(s, m, atts[m.order[m.next]], exch[m.order[m.next]]) =>
          AttemptOK(s, m, later[m.order[m.next]], exch[m.order[m.next]])
    BY <1>1 DEF AttemptOK
  <2> QED BY <1>1, <2>1 DEF WorkOK
<1>3. FirstOK(m, atts) => FirstOK(m, later)
  BY <1>1 DEF FirstOK
<1>4. /\ s \in Preparing => m.next = 1 /\ \A a \in Arms : later[a] = NoAttempt /\ exch[a] = None
      /\ s \in Working => WorkOK(s, m, later, exch) /\ (m.next = 2 => FirstOK(m, later))
      /\ s = "finish" =>
           /\ m.next = 2 /\ FirstOK(m, later) /\ Completed(later[m.order[2]].final)
           /\ later[m.order[2]].final.transport.version = m.transport.version
  BY <1>1, <1>2, <1>3 DEF PairOK
<1>5. /\ \A a \in Arms :
           /\ exch[a] # None => manif # None /\ manif.kind = "pair" /\ later[a].dir
           /\ FinalOK(later[a].final, exch[a], manif.basis)
      /\ manif # None /\ manif.status = "completed" =>
           /\ s = "ended" /\ manif.kind = "pair"
           /\ \A a, b \in Arms :
                /\ Completed(later[a].final)
                /\ later[a].final.transport.version = later[b].final.transport.version
  BY DEF PairOK
<1>6. /\ s \in {"idle", "made"} => manif = None
      /\ s \in Preparing /\ manif # None => manif.kind = "preparation"
      /\ s \in Working \union {"finish"} =>
           manif = [kind |-> "pair", status |-> "running", basis |-> m.basis]
      /\ s = "failing" => manif = None \/ manif.kind = "preparation" \/ manif.basis = m.basis
  BY DEF PairOK
<1> QED BY <1>4, <1>5, <1>6 DEF PairOK

\* A retained file is changed while no summary reads.
LEMMA AlterKeeps ==
  ASSUME IInv, NEW p \in Pairs, NEW content \in FileStates,
         \/ \E f \in PairFiles : AlterPairFile(p, f, content)
         \/ \E a \in Arms, f \in AttemptFiles : AlterAttemptFile(p, a, f, content)
  PROVE  IInv'
<1>1. /\ UNCHANGED <<world, stage, run, manifest, exchange, summary>>
      /\ summary.stage \in {"idle", "done"}
  BY DEF AlterPairFile, AlterAttemptFile
<1>2. troubles' \in Nat
  BY DEF IInv, TypeOK, AlterPairFile, AlterAttemptFile, Trouble
<1>3. pairFile' \in [Pairs -> [PairFiles -> FileStates]]
  <2>1. pairFile \in [Pairs -> [PairFiles -> FileStates]]
    BY DEF IInv, TypeOK
  <2>2. ASSUME NEW f \in PairFiles, AlterPairFile(p, f, content)
        PROVE  pairFile' \in [Pairs -> [PairFiles -> FileStates]]
    <3> DEFINE new == [pairFile[p] EXCEPT ![f] = content]
    <3>1. new \in [PairFiles -> FileStates]
      BY <2>1
    <3>2. pairFile' = [pairFile EXCEPT ![p] = new]
      BY <2>2 DEF AlterPairFile
    <3> HIDE DEF new
    <3> QED BY <2>1, <3>1, <3>2
  <2>3. CASE \E a \in Arms, f \in AttemptFiles : AlterAttemptFile(p, a, f, content)
    BY <2>1, <2>3 DEF AlterAttemptFile
  <2> QED BY <2>2, <2>3
<1>4. /\ attempt' \in [Pairs -> [Arms -> Attempts]]
      /\ \A q \in Pairs : \A b \in Arms :
           /\ attempt'[q][b].final = attempt[q][b].final
           /\ attempt'[q][b].dir = attempt[q][b].dir
           /\ attempt[q][b] = NoAttempt => attempt'[q][b] = NoAttempt
  <2>1. attempt \in [Pairs -> [Arms -> Attempts]]
    BY DEF IInv, TypeOK
  <2>2. CASE \E f \in PairFiles : AlterPairFile(p, f, content)
    BY <2>1, <2>2 DEF AlterPairFile
  <2>3. ASSUME NEW a \in Arms, NEW f \in AttemptFiles, AlterAttemptFile(p, a, f, content)
        PROVE  /\ attempt' \in [Pairs -> [Arms -> Attempts]]
               /\ \A q \in Pairs : \A b \in Arms :
                    /\ attempt'[q][b].final = attempt[q][b].final
                    /\ attempt'[q][b].dir = attempt[q][b].dir
                    /\ attempt[q][b] = NoAttempt => attempt'[q][b] = NoAttempt
    <3> DEFINE old == attempt[p][a]
               file == [old.file EXCEPT ![f] = content]
               new == [old EXCEPT !.file = file]
    <3>1. attempt' = [attempt EXCEPT ![p] = [attempt[p] EXCEPT ![a] = new]]
      BY <2>3 DEF AlterAttemptFile
    <3>2. old \in Attempts /\ old.file \in [AttemptFiles -> FileStates]
      BY <2>1 DEF Attempts
    <3>3. file \in [AttemptFiles -> FileStates]
      BY <3>2
    <3>4. new \in Attempts /\ new.final = old.final /\ new.dir = old.dir
      BY <3>2, <3>3 DEF Attempts
    <3>5. old # NoAttempt
      <4>1. old.file[f] # "absent"
        BY <2>3 DEF AlterAttemptFile
      <4> QED BY <4>1 DEF NoAttempt
    <3> HIDE DEF new
    <3>6. attempt' \in [Pairs -> [Arms -> Attempts]]
      BY <2>1, <3>1, <3>4
    <3>7. \A q \in Pairs : \A b \in Arms :
            attempt'[q][b] = IF q = p /\ b = a THEN new ELSE attempt[q][b]
      BY <2>1, <3>1
    <3>8. ASSUME NEW q \in Pairs, NEW b \in Arms
          PROVE  /\ attempt'[q][b].final = attempt[q][b].final
                 /\ attempt'[q][b].dir = attempt[q][b].dir
                 /\ attempt[q][b] = NoAttempt => attempt'[q][b] = NoAttempt
      <4> HIDE DEF old
      <4>1. CASE q = p /\ b = a
        <5>1. attempt'[q][b] = new /\ attempt[q][b] = old
          BY <3>7, <4>1 DEF old
        <5> QED BY <3>4, <3>5, <5>1
      <4>2. CASE ~ (q = p /\ b = a)
        <5>1. attempt'[q][b] = attempt[q][b]
          BY <3>7, <4>2
        <5> QED BY <5>1
      <4> QED BY <4>1, <4>2
    <3> QED BY <3>6, <3>8
  <2> QED BY <2>2, <2>3
<1>5. TypeOK'
  BY <1>1, <1>2, <1>3, <1>4 DEF IInv, TypeOK, world
<1>6. ASSUME NEW q \in Pairs
      PROVE  PairOK(stage[q], run[q], manifest[q], attempt[q], exchange[q])'
  <2>1. run[q].order \in Orders /\ run[q].next \in 1..2
    BY Known DEF Memories
  <2>2. PairOK(stage[q], run[q], manifest[q], attempt'[q], exchange[q])
    BY <1>4, <2>1, Known, FilesDoNotMatter
  <2> QED BY <1>1, <2>2
<1>7. SummaryOK'
  <2>1. \A q \in Pairs : \A b \in Arms : ItemOK(summary'.item[q][b], b, attempt'[q][b].final)
    BY <1>1, <1>4 DEF IInv, SummaryOK
  <2>2. \A pa \in summary'.begun :
          exchange'[pa[1]][pa[2]] # None /\ CountedOrToCome(pa[1], pa[2])'
    BY <1>1 DEF IInv, SummaryOK, CountedOrToCome
  <2> QED BY <1>1, <2>1, <2>2 DEF IInv, SummaryOK
<1> QED BY <1>5, <1>6, <1>7 DEF IInv

(***************************************************************************)
(* The inductive invariant.                                                *)
(***************************************************************************)

\* At first nothing has been prepared, sent or read.
LEMMA InitIsOK == Init => IInv
<1> SUFFICES ASSUME Init PROVE IInv
  OBVIOUS
<1>1. Forgotten \in Memories
  <2>1. <<"overview", "task">> \in Orders
    BY DEF Orders, Arms
  <2>2. 0 \in 0..MaxVersion /\ NothingRead \in Readings
    BY ConstantsAssumption DEF NothingRead, Readings, FileStates
  <2>3. [a \in Arms |-> None] \in [Arms -> States]
    BY DEF States
  <2>4. Remember(<<"overview", "task">>) \in Memories
    BY <2>1, <2>2, <2>3 DEF Remember, Memories, States, FileStates
  <2> QED BY <2>4 DEF Forgotten
<1>2. NoAttempt \in Attempts
  BY DEF NoAttempt, Attempts, FileStates
<1>3. NoSummary \in Summaries
  <2>1. [p \in Pairs |-> None] \in [Pairs -> Manifests \union {None}]
    OBVIOUS
  <2>2. [p \in Pairs |-> [a \in Arms |-> None]] \in [Pairs -> [Arms -> Items \union {None}]]
    OBVIOUS
  <2> QED BY <2>1, <2>2 DEF NoSummary, Summaries
<1>4. TypeOK
  <2>1. stage \in [Pairs -> Stages] /\ run \in [Pairs -> Memories]
    BY <1>1 DEF Init, Stages
  <2>2. /\ manifest \in [Pairs -> Manifests \union {None}]
        /\ pairFile \in [Pairs -> [PairFiles -> FileStates]]
    BY DEF Init, FileStates
  <2>3. /\ attempt \in [Pairs -> [Arms -> Attempts]]
        /\ exchange \in [Pairs -> [Arms -> Exchanges \union {None}]]
    BY <1>2 DEF Init
  <2>4. tree \in Contents /\ recorded \in Contents /\ version \in 1..MaxVersion
        /\ troubles \in Nat
    BY ConstantsAssumption DEF Init
  <2> QED BY <1>3, <2>1, <2>2, <2>3, <2>4 DEF Init, TypeOK
<1>5. ASSUME NEW p \in Pairs
      PROVE  PairOK(stage[p], run[p], manifest[p], attempt[p], exchange[p])
  <2>1. /\ stage[p] = "idle" /\ run[p] = Forgotten /\ manifest[p] = None
        /\ attempt[p] = [a \in Arms |-> NoAttempt] /\ exchange[p] = [a \in Arms |-> None]
    BY DEF Init
  <2>2. Forgotten.next = 1
    BY DEF Forgotten, Remember
  <2>3. \A a \in Arms : /\ attempt[p][a] = NoAttempt /\ exchange[p][a] = None
                        /\ FinalOK(attempt[p][a].final, exchange[p][a], manifest[p].basis)
    BY <2>1 DEF FinalOK, NoAttempt
  <2> QED BY <2>1, <2>2, <2>3 DEF PairOK, Preparing, Working
<1>6. SummaryOK
  <2>1. summary = NoSummary
    BY DEF Init
  <2>2. /\ summary.stage = "idle" /\ summary.arms = {} /\ summary.begun = {}
        /\ \A p \in Pairs : summary.seen[p] = None
        /\ \A p \in Pairs : \A a \in Arms : summary.item[p][a] = None
    BY <2>1 DEF NoSummary
  <2> QED BY <2>2 DEF SummaryOK, ItemOK
<1> QED BY <1>4, <1>5, <1>6 DEF IInv

\* Every step of an evaluation, of the summary and of the world keeps the invariant.
LEMMA NextKeeps == IInv /\ [Next]_vars => IInv'
<1> SUFFICES ASSUME IInv, [Next]_vars PROVE IInv'
  OBVIOUS
<1>1. CASE World
  <2>1. CASE \/ \E c \in Contents : Edit(c)
             \/ RefreshElsewhere
             \/ Upgrade
    BY <2>1, WorldKeeps
  <2>2. ASSUME NEW p \in Pairs, NEW content \in FileStates,
               \/ \E f \in PairFiles : AlterPairFile(p, f, content)
               \/ \E a \in Arms, f \in AttemptFiles : AlterAttemptFile(p, a, f, content)
        PROVE  IInv'
    BY <2>2, AlterKeeps
  <2> QED BY <1>1, <2>1, <2>2 DEF World
<1>2. CASE ReadSummary
  BY <1>2, SummarizeKeeps, ReadManifestKeeps, ReadPairKeeps, ReadAttemptKeeps DEF ReadSummary
<1>3. ASSUME NEW p \in Pairs, Evaluate(p)
      PROVE  IInv'
  <2>1. CASE \/ \E o \in UsedOrders : MakeDirectory(p, o)
             \/ Announce(p) \/ RefreshCache(p) \/ CaptureBasis(p) \/ CueOverview(p) \/ CueTask(p)
    BY <2>1, PreparationKeeps
  <2>2. CASE PrepareOnly(p) \/ StartPair(p) \/ FinishPair(p)
    BY <2>2, PrepareOnlyKeeps, StartPairKeeps, FinishPairKeeps
  <2>3. CASE MakeAttempt(p) \/ Journal(p) \/ CopyInputs(p)
    BY <2>3, AttemptBeginningKeeps
  <2>4. CASE FailCopies(p) \/ ReadInputs(p) \/ Launch(p) \/ FailRunner(p) \/ FinishAttempt(p)
    BY <2>4, FailCopiesKeeps, ReadInputsKeeps, LaunchKeeps, FailRunnerKeeps, FinishAttemptKeeps
  <2>5. CASE \E r \in Replies : Answered(p, r)
    BY <2>5, AnsweredKeeps
  <2>6. CASE Fail(p) \/ KeepFailure(p) \/ Die(p)
    BY <2>6, FailKeeps, KeepFailureKeeps, DieKeeps
  <2> QED BY <1>3, <2>1, <2>2, <2>3, <2>4, <2>5, <2>6 DEF Evaluate
<1>4. CASE UNCHANGED vars
  <2>1. /\ UNCHANGED <<tree, recorded, version, troubles, stage, run>>
        /\ UNCHANGED <<manifest, pairFile, attempt, exchange, summary>>
    BY <1>4 DEF vars, world, files
  <2>2. TypeOK'
    BY <2>1 DEF IInv, TypeOK
  <2>3. ASSUME NEW p \in Pairs
        PROVE  PairOK(stage[p], run[p], manifest[p], attempt[p], exchange[p])'
    BY <2>1 DEF IInv
  <2>4. SummaryOK'
    <3>1. \A pa \in summary'.begun :
            exchange'[pa[1]][pa[2]] # None /\ CountedOrToCome(pa[1], pa[2])'
      BY <2>1 DEF IInv, SummaryOK, CountedOrToCome
    <3>2. summary'.stage = "attempts" /\ summary'.intact => PairIsIntact(summary.at)'
      BY <2>1 DEF IInv, SummaryOK, PairIsIntact
    <3>3. \A p \in Pairs : \A a \in Arms : ItemOK(summary'.item[p][a], a, attempt'[p][a].final)
      BY <2>1 DEF IInv, SummaryOK
    <3> QED BY <2>1, <3>1, <3>2, <3>3 DEF IInv, SummaryOK
  <2> QED BY <2>2, <2>3, <2>4 DEF IInv
<1> QED BY <1>1, <1>2, <1>3, <1>4 DEF Next

\* The inductive invariant holds in every state.
THEOREM TaskInvariance == Spec => []IInv
BY InitIsOK, NextKeeps, PTL DEF Spec

(***************************************************************************)
(* What follows from it.                                                   *)
(***************************************************************************)

\* A completed pair is whole.
LEMMA WholePairs ==
  ASSUME IInv
  PROVE  CompletedPairsAreWhole
<1> SUFFICES ASSUME NEW p \in Pairs, manifest[p] # None, manifest[p].status = "completed"
             PROVE  /\ \A a \in Arms :
                         LET final == attempt[p][a].final
                         IN /\ final # None /\ final.status = "completed"
                            /\ final.before = manifest[p].basis
                            /\ final.after = manifest[p].basis
                    /\ \A a, b \in Arms : attempt[p][a].final.transport.version
                                            = attempt[p][b].final.transport.version
  BY DEF CompletedPairsAreWhole
<1>1. PairOK(stage[p], run[p], manifest[p], attempt[p], exchange[p])
  BY Known
<1>2. \A a \in Arms : /\ FinalOK(attempt[p][a].final, exchange[p][a], manifest[p].basis)
                      /\ Completed(attempt[p][a].final)
  BY <1>1 DEF PairOK
<1>3. \A a, b \in Arms : attempt[p][a].final.transport.version
                           = attempt[p][b].final.transport.version
  BY <1>1 DEF PairOK
<1> QED BY <1>2, <1>3 DEF FinalOK, Completed

\* What the provider did when its transport says that the run was completed.
LEMMA ToldByReply ==
  ASSUME IInv, NEW p \in Pairs, NEW a \in Arms, Completed(attempt[p][a].final)
  PROVE  LET final == attempt[p][a].final
             sent == exchange[p][a]
         IN /\ sent # None /\ sent.reply # None
            /\ sent.reply.exited /\ StreamIsWhole(sent.reply.stream)
            /\ sent.prompt = final.transport.prompt
            /\ final.transport.version \in 1..MaxVersion
            /\ final.transport.answer = Answer(sent.reply.stream)
            /\ final.transport.counted = Counted(sent.reply.stream)
            /\ final.transport.sources =
                 \E i \in DOMAIN sent.reply.stream : sent.reply.stream[i] = "sources"
<1> DEFINE final == attempt[p][a].final
           sent == exchange[p][a]
<1>1. PairOK(stage[p], run[p], manifest[p], attempt[p], exchange[p])
  BY Known
<1>2. FinalOK(final, sent, manifest[p].basis)
  BY <1>1 DEF PairOK
<1>3. final.transport # None /\ final.transport.status = "completed"
  BY <1>2 DEF FinalOK, Completed
<1>4. PICK read \in Readings : read.version \in 1..MaxVersion /\ Tells(final.transport, read, sent)
  BY <1>2, <1>3 DEF FinalOK, Completed
<1>5. PICK r \in Replies : /\ final.transport = Observation(read, r)
                           /\ sent = [prompt |-> read.prompt, reply |-> r]
  BY <1>4 DEF Tells
<1>6. sent \in Exchanges
  BY <1>5 DEF Exchanges, Readings
<1>7. sent # None /\ r # None
  BY <1>6, NoneAssumption
<1>8. r \in [stream : Seq(Events), exited : BOOLEAN]
  BY ConstantsAssumption
<1>9. StreamIsWhole(r.stream) /\ r.exited
  <2> HIDE DEF final, sent
  <2>1. Observation(read, r).status = "completed"
    BY <1>3, <1>5
  <2>2. Observation(read, r).status =
          IF ~StreamIsWhole(r.stream) THEN "invalid"
          ELSE IF r.exited THEN "completed" ELSE "failed"
    BY DEF Observation
  <2> QED BY <2>1, <2>2
<1>10. /\ final.transport.prompt = read.prompt /\ final.transport.version = read.version
       /\ final.transport.answer = Answer(r.stream) /\ final.transport.counted = Counted(r.stream)
       /\ final.transport.sources = \E i \in DOMAIN r.stream : r.stream[i] = "sources"
  BY <1>5 DEF Observation
<1>11. sent.prompt = read.prompt /\ sent.reply = r
  BY <1>5
<1> HIDE DEF final, sent
<1>12. /\ sent # None /\ sent.reply # None
       /\ sent.reply.exited /\ StreamIsWhole(sent.reply.stream)
       /\ sent.prompt = final.transport.prompt
       /\ final.transport.version \in 1..MaxVersion
       /\ final.transport.answer = Answer(sent.reply.stream)
       /\ final.transport.counted = Counted(sent.reply.stream)
       /\ final.transport.sources =
            \E i \in DOMAIN sent.reply.stream : sent.reply.stream[i] = "sources"
  BY <1>4, <1>7, <1>9, <1>10, <1>11
<1> QED BY <1>12 DEF final, sent

\* In a whole stream there is an answer and no error, and between two turns that start,
\* and after the last one, a turn ends.
LEMMA WholeStreams ==
  ASSUME NEW stream \in Seq(Events), StreamIsWhole(stream)
  PROVE  LET starts == {i \in DOMAIN stream : stream[i] = "started"}
         IN /\ \E i \in DOMAIN stream : stream[i] \in {"right", "wrong"}
            /\ \A i \in DOMAIN stream : stream[i] \notin {"failed", "garbled"}
            /\ \A i \in starts :
                 /\ \E j \in (i + 1)..Len(stream) : EndsTurn(stream[j])
                 /\ \A k \in starts : i < k => \E j \in (i + 1)..(k - 1) : EndsTurn(stream[j])
<1> DEFINE starts == {i \in DOMAIN stream : stream[i] = "started"}
<1>1. \E i \in DOMAIN stream : stream[i] \in {"right", "wrong"}
  BY DEF StreamIsWhole, Answer
<1>2. \A i \in DOMAIN stream : stream[i] \notin {"failed", "garbled"}
  BY DEF StreamIsWhole
<1>3. Len(stream) \in Nat /\ DOMAIN stream = 1..Len(stream)
  OBVIOUS
<1>4. ASSUME NEW i \in starts
      PROVE  \E j \in (i + 1)..Len(stream) : EndsTurn(stream[j])
  BY <1>3 DEF StreamIsWhole, TurnOpen
<1>5. ASSUME NEW i \in starts, NEW k \in starts, i < k
      PROVE  \E j \in (i + 1)..(k - 1) : EndsTurn(stream[j])
  BY <1>3, <1>5 DEF StreamIsWhole, TurnOpen
<1> QED BY <1>1, <1>2, <1>4, <1>5

\* An eligible attempt was answered.
LEMMA EligibleIsAnswered ==
  ASSUME IInv
  PROVE  EligibleAttemptsAreAnswered
<1>1. ASSUME NEW p \in Pairs, NEW a \in Arms,
             summary.item[p][a] # None, summary.item[p][a].eligible
      PROVE  /\ exchange[p][a] # None /\ exchange[p][a].reply # None
             /\ exchange[p][a].reply.exited /\ exchange[p][a].prompt = "right"
             /\ exchange[p][a].reply.stream \in Seq(Events)
             /\ StreamIsWhole(exchange[p][a].reply.stream)
  <2>1. ItemOK(summary.item[p][a], a, attempt[p][a].final)
    BY DEF IInv, SummaryOK
  <2>2. Completed(attempt[p][a].final) /\ attempt[p][a].final.transport.prompt = "right"
    BY <1>1, <2>1 DEF ItemOK
  <2>3. exchange[p][a] \in Exchanges \union {None}
    BY Known
  <2>4. /\ exchange[p][a] # None /\ exchange[p][a].reply # None
        /\ exchange[p][a].reply.exited /\ exchange[p][a].prompt = "right"
        /\ StreamIsWhole(exchange[p][a].reply.stream)
    BY <2>2, ToldByReply
  <2>5. exchange[p][a].reply \in Replies
    BY <2>3, <2>4 DEF Exchanges
  <2>6. exchange[p][a].reply.stream \in Seq(Events)
    BY <2>5, ConstantsAssumption
  <2> QED BY <2>4, <2>6
<1>2. ASSUME NEW p \in Pairs, NEW a \in Arms,
             summary.item[p][a] # None, summary.item[p][a].eligible
      PROVE  LET sent == exchange[p][a]
             IN /\ sent # None /\ sent.reply # None
                /\ sent.reply.exited /\ sent.prompt = "right"
                /\ LET stream == sent.reply.stream
                       starts == {i \in DOMAIN stream : stream[i] = "started"}
                   IN /\ \E i \in DOMAIN stream : stream[i] \in {"right", "wrong"}
                      /\ \A i \in DOMAIN stream : stream[i] \notin {"failed", "garbled"}
                      /\ \A i \in starts :
                           /\ \E j \in (i + 1)..Len(stream) : EndsTurn(stream[j])
                           /\ \A k \in starts : i < k =>
                                \E j \in (i + 1)..(k - 1) : EndsTurn(stream[j])
  BY <1>1, <1>2, WholeStreams
<1> QED BY <1>2 DEF EligibleAttemptsAreAnswered

\* No request that had been sent is left out.
LEMMA NoneIsLeftOut ==
  ASSUME IInv
  PROVE  NoPairIsLeftOut
<1> SUFFICES ASSUME summary.stage = "done", NEW pa \in summary.begun
             PROVE  /\ summary.item[pa[1]][pa[2]] # None
                    /\ \A c \in Contents : manifest[pa[1]].basis = c => pa[1] \in Group(c)
  BY DEF NoPairIsLeftOut
<1>1. summary.todo = {} /\ pa[1] \in Pairs /\ CountedOrToCome(pa[1], pa[2])
  BY LaunchedIsListed DEF IInv, SummaryOK
<1>2. summary.seen[pa[1]] # None /\ summary.item[pa[1]][pa[2]] # None
  BY <1>1 DEF CountedOrToCome
<1>3. manifest[pa[1]].basis = summary.seen[pa[1]].basis
  BY <1>1, <1>2 DEF IInv, SummaryOK
<1> QED BY <1>1, <1>2, <1>3 DEF Group

\* A verdict rests on what was answered.
LEMMA FoundedVerdicts ==
  ASSUME IInv
  PROVE  VerdictsAreFounded
<1> DEFINE Founded(p, c, v) ==
      /\ manifest[p] = [kind |-> "pair", status |-> "completed", basis |-> c]
      /\ \A a \in Arms :
           LET stream == exchange[p][a].reply.stream
           IN /\ attempt[p][a].final.transport.version = v
              /\ Answer(stream) = "right" /\ Counted(stream)
              /\ a = "task" \/ \E i \in DOMAIN stream : stream[i] = "sources"
<1> SUFFICES ASSUME NEW required \in RequiredPairs, NEW c \in Contents, Verdict(required, c)
             PROVE  \E v \in 1..MaxVersion : \A p \in Group(c) : Founded(p, c, v)
  BY DEF VerdictsAreFounded
<1>1. ASSUME NEW p \in Group(c)
      PROVE  /\ p \in Pairs /\ summary.seen[p] # None /\ summary.seen[p].basis = c
             /\ summary.seen[p].status = "completed"
             /\ \A a \in Arms :
                  LET item == summary.item[p][a]
                  IN /\ item # None /\ item.eligible
                     /\ item.delivered /\ item.correct /\ item.credit
  BY DEF Group, Verdict, Comparable
<1>2. ASSUME NEW p \in Group(c)
      PROVE  manifest[p] = [kind |-> "pair", status |-> "completed", basis |-> c]
  <2>1. /\ manifest[p] = summary.seen[p] /\ manifest[p] # None
        /\ summary.seen[p].kind = "pair"
    BY <1>1 DEF IInv, SummaryOK
  <2>2. manifest[p] \in Manifests
    BY <1>1, <2>1, Known
  <2>3. /\ manifest[p].kind = "pair" /\ manifest[p].status = "completed"
        /\ manifest[p].basis = c
    BY <1>1, <2>1
  <2> QED BY <2>2, <2>3 DEF Manifests
<1>3. ASSUME NEW p \in Group(c), NEW a \in Arms
      PROVE  LET final == attempt[p][a].final
                 stream == exchange[p][a].reply.stream
             IN /\ final.transport.version \in 1..MaxVersion
                /\ final.transport.version = summary.item[p][a].version
                /\ Answer(stream) = "right" /\ Counted(stream)
                /\ a = "task" \/ \E i \in DOMAIN stream : stream[i] = "sources"
  <2>1. ItemOK(summary.item[p][a], a, attempt[p][a].final)
    BY <1>1 DEF IInv, SummaryOK
  <2>2. /\ Completed(attempt[p][a].final)
        /\ summary.item[p][a].version = attempt[p][a].final.transport.version
        /\ attempt[p][a].final.transport.answer = "right"
        /\ attempt[p][a].final.transport.counted
        /\ a = "task" \/ attempt[p][a].final.transport.sources
    BY <1>1, <2>1 DEF ItemOK
  <2> QED BY <1>1, <2>2, ToldByReply
<1>4. \A p, q \in Group(c) : \A a, b \in Arms :
        summary.item[p][a].version = summary.item[q][b].version
  BY DEF Verdict
<1>5. CASE Group(c) = {}
  <2>1. 1 \in 1..MaxVersion
    BY ConstantsAssumption
  <2> QED BY <1>5, <2>1
<1>6. CASE Group(c) # {}
  <2>1. PICK q \in Group(c) : TRUE
    BY <1>6
  <2> DEFINE v == summary.item[q]["task"].version
  <2>2. v \in 1..MaxVersion
    BY <1>3 DEF Arms
  <2>3. ASSUME NEW p \in Group(c)
        PROVE  Founded(p, c, v)
    <3>1. \A a \in Arms : summary.item[p][a].version = v
      BY <1>4 DEF Arms
    <3> HIDE DEF v
    <3> QED BY <1>2, <1>3, <3>1
  <2> QED BY <2>2, <2>3
<1> QED BY <1>5, <1>6

\* Every variable keeps its type.
THEOREM TaskTypeCorrect == Spec => []TypeOK
<1>1. IInv => TypeOK
  BY DEF IInv
<1> QED BY <1>1, TaskInvariance, PTL

\* A pair is marked completed only when both attempts ended well, on the frozen basis
\* and told one version of the provider's program (task.go:230, task_attempt.go:173).
THEOREM CompletedPairsAreWholeAlways == Spec => []CompletedPairsAreWhole
<1>1. IInv => CompletedPairsAreWhole
  BY WholePairs
<1> QED BY <1>1, TaskInvariance, PTL

\* An attempt that a summary calls eligible was sent the frozen prompt and answered it
\* whole, whatever died, failed or was changed in between (task_integrity.go:85).
THEOREM EligibleAttemptsAreAnsweredAlways == Spec => []EligibleAttemptsAreAnswered
<1>1. IInv => EligibleAttemptsAreAnswered
  BY EligibleIsAnswered
<1> QED BY <1>1, TaskInvariance, PTL

\* Every request that had been sent when a summary began is in its inventory, and in
\* the group a verdict is about (task.go:404).
THEOREM NoPairIsLeftOutAlways == Spec => []NoPairIsLeftOut
<1>1. IInv => NoPairIsLeftOut
  BY NoneIsLeftOut
<1> QED BY <1>1, TaskInvariance, PTL

\* A verdict rests on pairs that stay as they were counted and on answers that were
\* right, priced and given by a program that had told one version (task.go:534).
THEOREM VerdictsAreFoundedAlways == Spec => []VerdictsAreFounded
<1>1. IInv => VerdictsAreFounded
  BY FoundedVerdicts
<1> QED BY <1>1, TaskInvariance, PTL
===============================================================================
