--------------------------- MODULE M2EvaluationProofs ---------------------------
(***************************************************************************)
(* Proofs about M2Evaluation, for any number of evaluations, conditions    *)
(* and repository contents.                                                *)
(*                                                                         *)
(* Between two comparisons an evaluation does not know what the repository *)
(* is.  What it has read since the last one is right, unless the           *)
(* repository is now different and the next comparison fails, or it was    *)
(* changed back meanwhile.                                                 *)
(***************************************************************************)
EXTENDS M2Evaluation, SequenceTheorems, TLAPS

\* The stages of an evaluation that has not yet scanned the repository,
Unscanned == {"idle", "failed", "scan"}

\* taken its evidence,
WithoutEvidence == Unscanned \union {"refresh", "facts", "evidence"}

\* validated what it made its contexts of,
Unvalidated == WithoutEvidence \union {"oracle", "validate"}

\* captured all content,
WithoutCapture == Unvalidated \union {"again", "capture"}

\* begun with the conditions.
Preparing == WithoutCapture \union {"cue", "recapture", "contexts"}

Answering == {"before", "basis", "launch", "runs", "after", "closing", "report"}

Answered == {"after", "closing", "report"}

Complete == {"stat", "staging", "rename", "returned"}

Basis(m) == [scan |-> m.scan, evidence |-> m.evidence]

\* What an evaluation has by a stage.
ProgressOK(m, s) ==
  /\ s \notin Unscanned => m.scan # None
  /\ s \notin WithoutEvidence => m.evidence # None
  /\ s \in {"capture", "cue", "recapture"} => m.mode = "calibration"
  /\ IF m.mode = "calibration" /\ s \notin WithoutCapture
     THEN m.proof # None /\ m.proof.tracked = m.scan
     ELSE m.proof = None

\* There is one runner, or none.
RunnerOK(m, s) ==
  /\ m.runner => (m.reports # <<>> => m.identity # None)
  /\ m.runner /\ s \in Answered => m.answer # None
  /\ ~m.runner => /\ m.identity = None /\ m.answer = None
                  /\ s \notin {"basis", "launch", "runs", "after", "closing"}
  /\ s = "report" => m.answer = m.identity
  /\ s \notin Answered => m.sees = None

\* The reports so far are of the first conditions.
ReportsOK(e, m, s) ==
  /\ \A i \in DOMAIN m.reports :
       LET report == m.reports[i]
       IN /\ report.by = e /\ report.condition = Conditions(m.mode)[i]
          /\ report.identity = m.identity /\ report.basis = Basis(m)
  /\ s \in Preparing => m.reports = <<>>
  /\ s \in Answering => Len(m.reports) < Len(Conditions(m.mode))
  /\ s \in Complete => Len(m.reports) = Len(Conditions(m.mode))

\* The draft holds the first reports, and everything before it is renamed.
DraftOK(m, s, d) ==
  /\ s = "staging" => /\ d # None /\ Len(d.reports) < Len(m.reports)
                      /\ \A i \in DOMAIN d.reports : d.reports[i] = m.reports[i]
  /\ s = "rename" => d = [reports |-> m.reports, proof |-> m.proof]

ReportIsClean(m, report) ==
  /\ report.contexts \subseteq {m.scan}
  /\ report.sees # None => report.sees.tracked = m.scan /\ m.proof \in {None, report.sees}

\* What has been read is of the basis, or the next comparison will tell.
IsClean(m, s, t) ==
  /\ \A i \in DOMAIN m.reports : ReportIsClean(m, m.reports[i])
  /\ s \notin Unvalidated => m.evidence = m.scan /\ m.contexts \subseteq {m.scan}
  /\ s \in {"evidence", "oracle", "validate"} /\ t.tracked = m.scan =>
       m.contexts \subseteq {m.scan} /\ (s # "evidence" => m.evidence = m.scan)
  /\ s \in Answered /\ m.sees # None =>
       IF m.proof # None THEN t = m.proof => m.sees = m.proof
       ELSE s # "after" \/ t.tracked = m.scan => m.sees.tracked = m.scan

\* All this of evaluation e, with memory m, at stage s, with draft d.
EvaluationOK(e, m, s, d) ==
  /\ ProgressOK(m, s)
  /\ RunnerOK(m, s)
  /\ ReportsOK(e, m, s)
  /\ DraftOK(m, s, d)
  /\ undone[e] \/ IsClean(m, s, tree)

SetOf(e) == [reports |-> memo[e].reports, proof |-> memo[e].proof]

\* The sets that are there are those of the evaluations that returned.
PublishedOK ==
  /\ \A e \in Evaluations : stage[e] = "returned" => published[Name(e)] = SetOf(e)
  /\ \A n \in Names : published[n] # None =>
       \E e \in Evaluations : stage[e] = "returned" /\ Name(e) = n

IInv ==
  /\ TypeOK
  /\ \A e \in Evaluations : EvaluationOK(e, memo[e], stage[e], draft[e])
  /\ PublishedOK

\* An evaluation that has ended relies on nothing.
LEMMA ForgottenIsOK ==
  ASSUME NEW e \in Evaluations, NEW d
  PROVE  Forgotten \in Memories /\ EvaluationOK(e, Forgotten, "failed", d)
<1>1. Forgotten \in Memories
  BY DEF Forgotten, Memories, Modes
<1>2. ProgressOK(Forgotten, "failed")
  BY DEF ProgressOK, Forgotten, Unscanned, WithoutEvidence, Unvalidated, WithoutCapture
<1>3. RunnerOK(Forgotten, "failed")
  BY DEF RunnerOK, Forgotten, Answered
<1>4. ReportsOK(e, Forgotten, "failed")
  BY DEF ReportsOK, Forgotten, Answering, Complete
<1>5. DraftOK(Forgotten, "failed", d)
  BY DEF DraftOK
<1>6. IsClean(Forgotten, "failed", tree)
  BY DEF IsClean, Forgotten, Unvalidated, WithoutEvidence, Unscanned, Answered
<1> QED BY <1>1, <1>2, <1>3, <1>4, <1>5, <1>6 DEF EvaluationOK

\* A step of one evaluation that publishes nothing keeps the invariant when it keeps
\* what that evaluation relies on.
LEMMA OwnStep ==
  ASSUME IInv, NEW e \in Evaluations, NEW m \in Memories, NEW s \in Stages,
         NEW d \in Sets \union {None},
         memo' = [memo EXCEPT ![e] = m], stage' = [stage EXCEPT ![e] = s],
         draft' = [draft EXCEPT ![e] = d], UNCHANGED <<tree, undone, published>>,
         troubles' \in Nat, stage[e] # "returned", s # "returned",
         EvaluationOK(e, m, s, d)
  PROVE  IInv'
<1>1. TypeOK'
  BY DEF IInv, TypeOK
<1>2. \A q \in Evaluations :
        /\ q # e => memo'[q] = memo[q] /\ stage'[q] = stage[q] /\ draft'[q] = draft[q]
        /\ q = e => memo'[q] = m /\ stage'[q] = s /\ draft'[q] = d
  BY DEF IInv, TypeOK
<1>3. ASSUME NEW q \in Evaluations
      PROVE  EvaluationOK(q, memo[q], stage[q], draft[q])'
  BY <1>2 DEF IInv, EvaluationOK
<1>4. PublishedOK'
  BY <1>2 DEF IInv, PublishedOK, Name, Fingerprint, SetOf
<1> QED BY <1>1, <1>3, <1>4 DEF IInv

\* The same of a step that leaves the draft alone.
LEMMA StepKeeps ==
  ASSUME IInv, NEW e \in Evaluations, NEW m \in Memories, NEW from \in Stages \ {"returned"},
         NEW to \in Stages \ {"returned"}, Step(e, from, m, to),
         EvaluationOK(e, m, to, draft[e])
  PROVE  IInv'
<1>1. draft' = [draft EXCEPT ![e] = draft[e]] /\ draft[e] \in Sets \union {None}
  BY DEF IInv, TypeOK, Step, directory
<1>2. troubles' \in Nat /\ UNCHANGED <<tree, undone, published>> /\ stage[e] # "returned"
  BY DEF IInv, TypeOK, Step, world, directory
<1> QED BY <1>1, <1>2, OwnStep DEF Step, Goto

\* An evaluation that ends early keeps nothing.
LEMMA ReturnKeeps ==
  ASSUME IInv, NEW e \in Evaluations, stage[e] # "returned",
         \/ Return(e) \/ Fail(e) \/ Die(e)
  PROVE  IInv'
<1>1. PICK d \in Sets \union {None} : draft' = [draft EXCEPT ![e] = d]
  <2>1. CASE Return(e) \/ Fail(e)
    BY <2>1 DEF Return, Fail
  <2>2. CASE Die(e)
    <3>1. draft' = [draft EXCEPT ![e] = draft[e]] /\ draft[e] \in Sets \union {None}
      BY <2>2 DEF IInv, TypeOK, Die, directory
    <3> QED BY <3>1
  <2> QED BY <2>1, <2>2
<1>2. /\ memo' = [memo EXCEPT ![e] = Forgotten] /\ stage' = [stage EXCEPT ![e] = "failed"]
      /\ UNCHANGED <<tree, undone, published>>
  BY DEF Return, Fail, Die, Goto, world, directory
<1>3. troubles' \in Nat
  BY DEF IInv, TypeOK, Return, Fail, Die, Trouble, world
<1>4. "failed" \in Stages
  BY DEF Stages
<1> QED BY <1>1, <1>2, <1>3, <1>4, ForgottenIsOK, OwnStep

\* A step that only compares keeps the invariant when the evaluation may go on to the
\* next stage in a repository for which the comparison holds.
LEMMA DemandKeeps ==
  ASSUME IInv, NEW e \in Evaluations, NEW from \in Stages \ {"returned"},
         NEW to \in Stages \ {"returned"}, NEW holds, Demand(e, from, holds, to),
         holds => EvaluationOK(e, memo[e], to, draft[e])
  PROVE  IInv'
<1>1. memo[e] \in Memories
  BY DEF IInv, TypeOK
<1>2. CASE holds
  BY <1>1, <1>2, StepKeeps DEF Demand
<1>3. CASE ~holds
  BY <1>3, ReturnKeeps DEF Demand
<1> QED BY <1>2, <1>3

\* What is known of an evaluation before its step.
LEMMA Known ==
  ASSUME IInv, NEW e \in Evaluations
  PROVE  /\ memo[e] \in Memories /\ stage[e] \in Stages /\ tree \in Trees
         /\ EvaluationOK(e, memo[e], stage[e], draft[e])
         /\ tree.tracked \in Tracked /\ tree.tracked # None /\ tree # None
BY NoneAssumption DEF IInv, TypeOK, Trees

\* The comparisons: what has been read since the last one is of the basis.
LEMMA ComparisonsKeep ==
  ASSUME IInv, NEW e \in Evaluations,
         \/ NoOpRefresh(e)  \/ ValidateContext(e) \/ TakeEvidenceAgain(e)
         \/ CaptureAgain(e) \/ CaptureBefore(e)   \/ ValidateBasis(e) \/ ValidateAfter(e)
  PROVE  IInv'
<1> USE Known DEF Stages
<1>1. CASE NoOpRefresh(e)
  <2> DEFINE to == "facts"
  <2>1. stage[e] = "refresh" /\ to \in Stages \ {"returned"}
    BY <1>1 DEF NoOpRefresh, Demand, Step
  <2>2. ASSUME tree.tracked = memo[e].scan
        PROVE  EvaluationOK(e, memo[e], to, draft[e])
    BY <2>1, <2>2 DEF EvaluationOK, ProgressOK, RunnerOK, ReportsOK, DraftOK, IsClean,
         Unscanned, WithoutEvidence, Unvalidated, WithoutCapture, Preparing, Answering, Answered,
         Complete
  <2> QED BY <1>1, <2>1, <2>2, DemandKeeps DEF NoOpRefresh
<1>2. CASE ValidateContext(e)
  <2> DEFINE to == "again"
  <2>1. stage[e] = "validate" /\ to \in Stages \ {"returned"}
    BY <1>2 DEF ValidateContext, Demand, Step
  <2>2. ASSUME tree.tracked = memo[e].scan
        PROVE  EvaluationOK(e, memo[e], to, draft[e])
    BY <2>1, <2>2 DEF EvaluationOK, ProgressOK, RunnerOK, ReportsOK, DraftOK, IsClean,
         Unscanned, WithoutEvidence, Unvalidated, WithoutCapture, Preparing, Answering, Answered,
         Complete
  <2> QED BY <1>2, <2>1, <2>2, DemandKeeps DEF ValidateContext
<1>3. CASE TakeEvidenceAgain(e)
  <2> DEFINE to == IF memo[e].mode = "standard" THEN "contexts" ELSE "capture"
  <2>1. stage[e] = "again" /\ to \in Stages \ {"returned"}
    BY <1>3 DEF TakeEvidenceAgain, Demand, Step
  <2> memo[e].mode \in {"standard", "calibration"}
    BY DEF Memories, Modes
  <2>2. ASSUME tree.tracked = memo[e].evidence
        PROVE  EvaluationOK(e, memo[e], to, draft[e])
    BY <2>1, <2>2 DEF EvaluationOK, ProgressOK, RunnerOK, ReportsOK, DraftOK, IsClean,
         Unscanned, WithoutEvidence, Unvalidated, WithoutCapture, Preparing, Answering, Answered,
         Complete
  <2> QED BY <1>3, <2>1, <2>2, DemandKeeps DEF TakeEvidenceAgain
<1>4. CASE CaptureAgain(e)
  <2> DEFINE to == "contexts"
  <2>1. stage[e] = "recapture" /\ to \in Stages \ {"returned"}
    BY <1>4 DEF CaptureAgain, Demand, Step
  <2>2. ASSUME tree = memo[e].proof
        PROVE  EvaluationOK(e, memo[e], to, draft[e])
    BY <2>1, <2>2 DEF EvaluationOK, ProgressOK, RunnerOK, ReportsOK, DraftOK, IsClean,
         Unscanned, WithoutEvidence, Unvalidated, WithoutCapture, Preparing, Answering, Answered,
         Complete
  <2> QED BY <1>4, <2>1, <2>2, DemandKeeps DEF CaptureAgain
<1>5. CASE CaptureBefore(e)
  <2> DEFINE to == AfterBefore(e)
             holds == memo[e].proof = None \/ tree = memo[e].proof
  <2>1. stage[e] = "before" /\ to \in Stages \ {"returned"}
    BY <1>5 DEF CaptureBefore, Demand, Step, AfterBefore
  <2>2. ASSUME holds
        PROVE  EvaluationOK(e, memo[e], to, draft[e])
    <3>1. CASE memo[e].runner
      <4>1. to = "basis"
        BY <3>1 DEF AfterBefore
      <4> HIDE DEF to
      <4> QED BY <2>1, <2>2, <3>1, <4>1 DEF EvaluationOK, ProgressOK, RunnerOK, ReportsOK, DraftOK, IsClean,
         Unscanned, WithoutEvidence, Unvalidated, WithoutCapture, Preparing, Answering, Answered,
         Complete
    <3>2. CASE ~memo[e].runner
      <4>1. to = "report"
        BY <3>2 DEF AfterBefore
      <4> HIDE DEF to
      <4>2. ProgressOK(memo[e], to)
        BY <2>1, <3>2, <4>1 DEF EvaluationOK, ProgressOK, Unscanned, WithoutEvidence, Unvalidated, WithoutCapture
      <4>3. RunnerOK(memo[e], to)
        BY <2>1, <3>2, <4>1 DEF EvaluationOK, RunnerOK, Answered
      <4>4. ReportsOK(e, memo[e], to)
        <5>1. ReportsOK(e, memo[e], "before")
          BY <2>1 DEF EvaluationOK
        <5> HIDE Known
        <5> QED BY <4>1, <5>1 DEF ReportsOK, Preparing, WithoutCapture, Unvalidated, WithoutEvidence,
                                  Unscanned, Answering, Complete
      <4>5. DraftOK(memo[e], to, draft[e])
        BY <2>1, <3>2, <4>1 DEF DraftOK
      <4>6. undone[e] \/ IsClean(memo[e], to, tree)
        BY <2>1, <3>2, <4>1 DEF EvaluationOK, RunnerOK, IsClean, Unscanned, WithoutEvidence, Unvalidated, Answered
      <4> QED BY <4>2, <4>3, <4>4, <4>5, <4>6 DEF EvaluationOK
    <3> QED BY <3>1, <3>2
  <2>3. Demand(e, "before", holds, to)
    BY <1>5 DEF CaptureBefore
  <2> HIDE DEF holds, to
  <2> QED BY <2>1, <2>2, <2>3, DemandKeeps
<1>6. CASE ValidateBasis(e)
  <2> DEFINE to == "launch"
  <2>1. stage[e] = "basis" /\ to \in Stages \ {"returned"}
    BY <1>6 DEF ValidateBasis, Demand, Step
  <2>2. ASSUME tree.tracked = memo[e].scan
        PROVE  EvaluationOK(e, memo[e], to, draft[e])
    BY <2>1, <2>2 DEF EvaluationOK, ProgressOK, RunnerOK, ReportsOK, DraftOK, IsClean,
         Unscanned, WithoutEvidence, Unvalidated, WithoutCapture, Preparing, Answering, Answered,
         Complete
  <2> QED BY <1>6, <2>1, <2>2, DemandKeeps DEF ValidateBasis
<1>7. CASE ValidateAfter(e)
  <2> DEFINE to == "closing"
  <2>1. stage[e] = "after" /\ to \in Stages \ {"returned"}
    BY <1>7 DEF ValidateAfter, Demand, Step
  <2>2. ASSUME tree.tracked = memo[e].scan
        PROVE  EvaluationOK(e, memo[e], to, draft[e])
    BY <2>1, <2>2 DEF EvaluationOK, ProgressOK, RunnerOK, ReportsOK, DraftOK, IsClean,
         Unscanned, WithoutEvidence, Unvalidated, WithoutCapture, Preparing, Answering, Answered,
         Complete
  <2> QED BY <1>7, <2>1, <2>2, DemandKeeps DEF ValidateAfter
<1> QED BY <1>1, <1>2, <1>3, <1>4, <1>5, <1>6, <1>7

\* The readings: what a step remembers is of the repository it found.
LEMMA ReadingsKeep ==
  ASSUME IInv, NEW e \in Evaluations,
         \/ FullScan(e)     \/ TakeEvidence(e)  \/ AskOracle(e)
         \/ WriteContexts(e) \/ Launch(e)
  PROVE  IInv'
<1> DEFINE m == memo[e]
<1>1. /\ m \in Memories /\ EvaluationOK(e, m, stage[e], draft[e])
      /\ tree \in Trees /\ tree.tracked \in Tracked /\ tree.tracked # None
  BY Known
<1>2. CASE FullScan(e)
  <2> DEFINE new == [m EXCEPT !.scan = tree.tracked]
             to == "refresh"
  <2>1. Step(e, "scan", new, to) /\ stage[e] = "scan"
    BY <1>2 DEF FullScan, Step
  <2>2. new \in Memories
    BY <1>1 DEF Memories
  <2>3. EvaluationOK(e, new, to, draft[e])
    BY <1>1, <2>1 DEF Memories, EvaluationOK, ProgressOK, RunnerOK, ReportsOK, DraftOK, IsClean,
         Unscanned, WithoutEvidence, Unvalidated, WithoutCapture, Preparing, Answering, Answered,
         Complete
  <2>4. "scan" \in Stages \ {"returned"} /\ to \in Stages \ {"returned"}
    BY DEF Stages
  <2> HIDE DEF new, to
  <2> QED BY <2>1, <2>2, <2>3, <2>4, StepKeeps
<1>3. CASE TakeEvidence(e)
  <2> DEFINE new == [m EXCEPT !.evidence = tree.tracked]
             to == IF m.mode = "standard" THEN "oracle" ELSE "validate"
  <2>1. Step(e, "evidence", new, to) /\ stage[e] = "evidence"
    BY <1>3 DEF TakeEvidence, Step
  <2>2. new \in Memories
    BY <1>1 DEF Memories
  <2>3. EvaluationOK(e, new, to, draft[e])
    BY <1>1, <2>1 DEF Memories, EvaluationOK, ProgressOK, RunnerOK, ReportsOK, DraftOK, IsClean,
         Unscanned, WithoutEvidence, Unvalidated, WithoutCapture, Preparing, Answering, Answered,
         Complete
  <2>4. "evidence" \in Stages \ {"returned"} /\ to \in Stages \ {"returned"}
    BY DEF Stages
  <2> HIDE DEF new, to
  <2> QED BY <2>1, <2>2, <2>3, <2>4, StepKeeps
<1>4. CASE AskOracle(e)
  <2> DEFINE new == [m EXCEPT !.contexts = @ \union {tree.tracked}]
             to == "validate"
  <2>1. Step(e, "oracle", new, to) /\ stage[e] = "oracle"
    BY <1>4 DEF AskOracle, Step
  <2>2. new \in Memories
    BY <1>1 DEF Memories
  <2>3. EvaluationOK(e, new, to, draft[e])
    BY <1>1, <2>1 DEF Memories, EvaluationOK, ProgressOK, RunnerOK, ReportsOK, DraftOK, IsClean,
         Unscanned, WithoutEvidence, Unvalidated, WithoutCapture, Preparing, Answering, Answered,
         Complete
  <2>4. "oracle" \in Stages \ {"returned"} /\ to \in Stages \ {"returned"}
    BY DEF Stages
  <2> HIDE DEF new, to
  <2> QED BY <2>1, <2>2, <2>3, <2>4, StepKeeps
<1>5. CASE WriteContexts(e)
  <2> DEFINE new == m
             to == "before"
  <2>1. Step(e, "contexts", new, to) /\ stage[e] = "contexts"
    BY <1>5 DEF WriteContexts, Step
  <2>2. new \in Memories
    BY <1>1 DEF Memories
  <2>3. EvaluationOK(e, new, to, draft[e])
    BY <1>1, <2>1, ConditionsAssumption DEF Memories, EvaluationOK, ProgressOK, RunnerOK, ReportsOK, DraftOK, IsClean,
         Unscanned, WithoutEvidence, Unvalidated, WithoutCapture, Preparing, Answering, Answered,
         Complete
  <2>4. "contexts" \in Stages \ {"returned"} /\ to \in Stages \ {"returned"}
    BY DEF Stages
  <2> HIDE DEF new, to
  <2> QED BY <2>1, <2>2, <2>3, <2>4, StepKeeps
<1>6. CASE Launch(e)
  <2> DEFINE new == [m EXCEPT !.before = tree.tracked]
             to == "runs"
  <2>1. Step(e, "launch", new, to) /\ stage[e] = "launch"
    BY <1>6 DEF Launch, Step
  <2>2. new \in Memories
    BY <1>1 DEF Memories
  <2>3. EvaluationOK(e, new, to, draft[e])
    BY <1>1, <2>1 DEF Memories, Basis, ReportIsClean, EvaluationOK, ProgressOK, RunnerOK, ReportsOK, DraftOK, IsClean,
         Unscanned, WithoutEvidence, Unvalidated, WithoutCapture, Preparing, Answering, Answered,
         Complete
  <2>4. "launch" \in Stages \ {"returned"} /\ to \in Stages \ {"returned"}
    BY DEF Stages
  <2> HIDE DEF new, to
  <2> QED BY <2>1, <2>2, <2>3, <2>4, StepKeeps
<1> QED BY <1>2, <1>3, <1>4, <1>5, <1>6

\* The beginning, and the readings that also compare.
LEMMA ValidatedReadingsKeep ==
  ASSUME IInv, NEW e \in Evaluations,
         \/ \E mode \in Modes, runner \in BOOLEAN : Start(e, mode, runner)
         \/ ReadFacts(e) \/ Capture(e) \/ ObserveCue(e)
         \/ \E identity \in Identities : Answer(e, identity)
         \/ CompareEvidence(e)
  PROVE  IInv'
<1> DEFINE m == memo[e]
<1>1. /\ m \in Memories /\ EvaluationOK(e, m, stage[e], draft[e])
      /\ tree \in Trees /\ tree.tracked \in Tracked /\ tree.tracked # None /\ tree # None
  BY Known
<1>2. CASE \E mode \in Modes, runner \in BOOLEAN : Start(e, mode, runner)
  <2>1. PICK mode \in Modes, runner \in BOOLEAN : Start(e, mode, runner)
    BY <1>2
  <2> DEFINE new == [Forgotten EXCEPT !.mode = mode, !.runner = runner]
  <2>2. Step(e, "idle", new, "scan")
    BY <2>1 DEF Start
  <2>3. new \in Memories
    <3>1. Forgotten \in Memories
      BY ForgottenIsOK
    <3> QED BY <3>1 DEF Memories
  <2>4. /\ new.scan = None /\ new.evidence = None /\ new.contexts = {} /\ new.proof = None
        /\ new.sees = None /\ new.answer = None /\ new.identity = None /\ new.reports = <<>>
    BY DEF Forgotten
  <2> HIDE DEF new
  <2>6. EvaluationOK(e, new, "scan", draft[e])
    BY <2>4 DEF EvaluationOK, ProgressOK, RunnerOK, ReportsOK, DraftOK, IsClean, Unscanned,
         WithoutEvidence, Unvalidated, WithoutCapture, Preparing, Answering, Answered, Complete
  <2>5. "idle" \in Stages \ {"returned"} /\ "scan" \in Stages \ {"returned"}
    BY DEF Stages
  <2> QED BY <2>2, <2>3, <2>5, <2>6, StepKeeps
<1>3. CASE ReadFacts(e)
  <2> DEFINE new == [m EXCEPT !.contexts = {tree.tracked}]
  <2>1. stage[e] = "facts"
    BY <1>3 DEF ReadFacts, Step
  <2>2. CASE tree.tracked = m.scan
    <3>1. Step(e, "facts", new, "evidence")
      BY <1>3, <2>2 DEF ReadFacts
    <3>2. new \in Memories
      BY <1>1, <2>2 DEF Memories
    <3>3. EvaluationOK(e, new, "evidence", draft[e])
      BY <1>1, <2>1, <2>2 DEF Memories, EvaluationOK, ProgressOK, RunnerOK, ReportsOK, DraftOK, IsClean, Basis,
         ReportIsClean, Unscanned, WithoutEvidence, Unvalidated, WithoutCapture, Preparing,
         Answering, Answered, Complete
    <3>4. "facts" \in Stages \ {"returned"} /\ "evidence" \in Stages \ {"returned"}
      BY DEF Stages
    <3> HIDE DEF new
    <3> QED BY <3>1, <3>2, <3>3, <3>4, StepKeeps
  <2>3. CASE ~(tree.tracked = m.scan)
    <3>1. Return(e)
      BY <1>3, <2>3 DEF ReadFacts
    <3> QED BY <2>1, <3>1, ReturnKeeps
  <2> QED BY <2>2, <2>3
<1>4. CASE Capture(e)
  <2> DEFINE new == [m EXCEPT !.proof = tree]
  <2>1. stage[e] = "capture"
    BY <1>4 DEF Capture, Step
  <2>2. CASE tree.tracked = m.scan
    <3>1. Step(e, "capture", new, "cue")
      BY <1>4, <2>2 DEF Capture
    <3>2. new \in Memories
      BY <1>1, <2>2 DEF Memories
    <3>3. EvaluationOK(e, new, "cue", draft[e])
      BY <1>1, <2>1, <2>2 DEF Memories, EvaluationOK, ProgressOK, RunnerOK, ReportsOK, DraftOK, IsClean, Basis,
         ReportIsClean, Unscanned, WithoutEvidence, Unvalidated, WithoutCapture, Preparing,
         Answering, Answered, Complete
    <3>4. "capture" \in Stages \ {"returned"} /\ "cue" \in Stages \ {"returned"}
      BY DEF Stages
    <3> HIDE DEF new
    <3> QED BY <3>1, <3>2, <3>3, <3>4, StepKeeps
  <2>3. CASE ~(tree.tracked = m.scan)
    <3>1. Return(e)
      BY <1>4, <2>3 DEF Capture
    <3> QED BY <2>1, <3>1, ReturnKeeps
  <2> QED BY <2>2, <2>3
<1>5. CASE ObserveCue(e)
  <2> DEFINE new == [m EXCEPT !.contexts = {m.scan}]
  <2>1. stage[e] = "cue"
    BY <1>5 DEF ObserveCue, Step
  <2>2. CASE tree.tracked = m.scan
    <3>1. Step(e, "cue", new, "recapture")
      BY <1>5, <2>2 DEF ObserveCue
    <3>2. new \in Memories
      BY <1>1, <2>2 DEF Memories
    <3>3. EvaluationOK(e, new, "recapture", draft[e])
      BY <1>1, <2>1, <2>2 DEF Memories, EvaluationOK, ProgressOK, RunnerOK, ReportsOK, DraftOK, IsClean, Basis,
         ReportIsClean, Unscanned, WithoutEvidence, Unvalidated, WithoutCapture, Preparing,
         Answering, Answered, Complete
    <3>4. "cue" \in Stages \ {"returned"} /\ "recapture" \in Stages \ {"returned"}
      BY DEF Stages
    <3> HIDE DEF new
    <3> QED BY <3>1, <3>2, <3>3, <3>4, StepKeeps
  <2>3. CASE ~(tree.tracked = m.scan)
    <3>1. Return(e)
      BY <1>5, <2>3 DEF ObserveCue
    <3> QED BY <2>1, <3>1, ReturnKeeps
  <2> QED BY <2>2, <2>3
<1>6. CASE CompareEvidence(e)
  <2> DEFINE new == [m EXCEPT !.identity = m.answer]
  <2>1. stage[e] = "closing"
    BY <1>6 DEF CompareEvidence, Step
  <2>2. CASE tree.tracked = m.before /\ m.identity \in {None, m.answer}
    <3>1. Step(e, "closing", new, "report")
      BY <1>6, <2>2 DEF CompareEvidence
    <3>2. new \in Memories
      BY <1>1, <2>2 DEF Memories
    <3>3. EvaluationOK(e, new, "report", draft[e])
      BY <1>1, <2>1, <2>2 DEF Memories, EvaluationOK, ProgressOK, RunnerOK, ReportsOK, DraftOK, IsClean, Basis,
         ReportIsClean, Unscanned, WithoutEvidence, Unvalidated, WithoutCapture, Preparing,
         Answering, Answered, Complete
    <3>4. "closing" \in Stages \ {"returned"} /\ "report" \in Stages \ {"returned"}
      BY DEF Stages
    <3> HIDE DEF new
    <3> QED BY <3>1, <3>2, <3>3, <3>4, StepKeeps
  <2>3. CASE ~(tree.tracked = m.before /\ m.identity \in {None, m.answer})
    <3>1. Return(e)
      BY <1>6, <2>3 DEF CompareEvidence
    <3> QED BY <2>1, <3>1, ReturnKeeps
  <2> QED BY <2>2, <2>3
<1>7. CASE \E identity \in Identities : Answer(e, identity)
  <2>1. PICK identity \in Identities : Answer(e, identity)
    BY <1>7
  <2> DEFINE new == [m EXCEPT !.sees = tree, !.answer = identity]
  <2>2. Step(e, "runs", new, "after") /\ stage[e] = "runs"
    BY <2>1 DEF Answer, Step
  <2>3. new \in Memories
    BY <1>1 DEF Memories
  <2>4. EvaluationOK(e, new, "after", draft[e])
    BY <1>1, <2>2, NoneAssumption DEF Memories, EvaluationOK, ProgressOK, RunnerOK, ReportsOK, DraftOK, IsClean, Basis,
         ReportIsClean, Unscanned, WithoutEvidence, Unvalidated, WithoutCapture, Preparing,
         Answering, Answered, Complete
  <2>5. "runs" \in Stages \ {"returned"} /\ "after" \in Stages \ {"returned"}
    BY DEF Stages
  <2> HIDE DEF new
  <2> QED BY <2>2, <2>3, <2>4, <2>5, StepKeeps
<1> QED BY <1>2, <1>3, <1>4, <1>5, <1>6, <1>7

\* An evaluation that has begun with the conditions has what its reports and the name
\* of its set are made of.
LEMMA BasisIsThere ==
  ASSUME IInv, NEW e \in Evaluations, stage[e] \in Answering \union Complete
  PROVE  /\ Fingerprint(e) \in Fingerprints /\ Fingerprint(e) = Basis(memo[e])
         /\ memo[e].mode \in Modes
         /\ Conditions(memo[e].mode) \in Seq(STRING) /\ Len(Conditions(memo[e].mode)) > 0
<1>1. memo[e] \in Memories /\ ProgressOK(memo[e], stage[e])
  BY Known DEF EvaluationOK
<1>2. memo[e].scan # None /\ memo[e].evidence # None
  BY <1>1 DEF ProgressOK, WithoutEvidence, Unscanned, Answering, Complete
<1>3. Fingerprint(e) \in Fingerprints /\ Fingerprint(e) = Basis(memo[e])
  BY <1>1, <1>2 DEF Memories, Fingerprint, Fingerprints, Basis
<1>4. memo[e].mode \in Modes
  BY <1>1 DEF Memories
<1> QED BY <1>3, <1>4, ConditionsAssumption

\* A report is appended that is of the basis, under the next condition.
LEMMA AppendReportKeeps ==
  ASSUME IInv, NEW e \in Evaluations, AppendReport(e)
  PROVE  IInv'
<1> DEFINE m == memo[e]
           report == Report(e)
           reports == Append(m.reports, report)
           new == [m EXCEPT !.reports = reports, !.answer = None, !.sees = None]
           to == IF Len(reports) < Len(Conditions(m.mode)) THEN "before" ELSE "stat"
<1>1. /\ stage[e] = "report" /\ m \in Memories
      /\ ProgressOK(m, "report") /\ RunnerOK(m, "report") /\ ReportsOK(e, m, "report")
      /\ undone[e] \/ IsClean(m, "report", tree)
  BY Known DEF EvaluationOK, AppendReport, Step
<1>2. CASE m.proof \in {None, tree}
  <2>1. Step(e, "report", new, to)
    BY <1>2 DEF AppendReport
  <2>2. /\ m.reports \in Seq(Reports) /\ Len(m.reports) \in Nat
        /\ Len(m.reports) < Len(Conditions(m.mode))
    BY <1>1 DEF Memories, ReportsOK, Answering
  <2>3. /\ Fingerprint(e) \in Fingerprints /\ Fingerprint(e) = Basis(m)
        /\ m.mode \in Modes /\ Conditions(m.mode) \in Seq(STRING)
    BY <1>1, BasisIsThere DEF Answering
  <2>4. /\ report.by = e /\ report.condition = Conditions(m.mode)[Len(m.reports) + 1]
        /\ report.basis = Basis(m) /\ report.identity = m.answer
        /\ report.contexts = m.contexts /\ report.sees = m.sees
    BY <2>3 DEF Report, Condition
  <2>5. report \in Reports
    <3>1. Conditions(m.mode)[Len(m.reports) + 1] \in STRING
      BY <2>2, <2>3
    <3> QED BY <1>1, <2>3, <3>1 DEF Report, Condition, Reports, Memories
  <2> HIDE DEF report
  <2>6. /\ reports \in Seq(Reports) /\ Len(reports) = Len(m.reports) + 1
        /\ DOMAIN reports = 1..(Len(m.reports) + 1)
        /\ \A i \in DOMAIN reports :
             \/ i \in DOMAIN m.reports /\ reports[i] = m.reports[i]
             \/ i = Len(m.reports) + 1 /\ reports[i] = report
    BY <2>2, <2>5
  <2> HIDE DEF reports
  <2>7. new \in Memories
    BY <1>1, <2>6 DEF Memories
  <2>8. /\ new.mode = m.mode /\ new.runner = m.runner /\ new.scan = m.scan
        /\ new.evidence = m.evidence /\ new.contexts = m.contexts /\ new.proof = m.proof
        /\ new.identity = m.identity /\ new.reports = reports /\ new.answer = None
        /\ new.sees = None
    BY <1>1 DEF Memories
  <2>9. to \in {"before", "stat"}
    OBVIOUS
  <2>10. /\ to = "before" => Len(reports) < Len(Conditions(m.mode))
         /\ to = "stat" => Len(reports) = Len(Conditions(m.mode))
    BY <2>2, <2>3, <2>6
  <2> HIDE DEF new, to
  <2>11. ProgressOK(new, to)
    BY <1>1, <2>8, <2>9 DEF ProgressOK, Unscanned, WithoutEvidence, Unvalidated, WithoutCapture
  <2>12. RunnerOK(new, to)
    BY <1>1, <2>8, <2>9 DEF RunnerOK, Answered
  <2>13. ReportsOK(e, new, to)
    <3>1. \A i \in DOMAIN reports :
            /\ reports[i].by = e /\ reports[i].condition = Conditions(m.mode)[i]
            /\ reports[i].identity = m.identity /\ reports[i].basis = Basis(m)
      BY <1>1, <2>4, <2>6 DEF ReportsOK, RunnerOK
    <3>2. Basis(new) = Basis(m)
      BY <2>8 DEF Basis
    <3>3. to \notin Preparing
      BY <2>9 DEF Preparing, WithoutCapture, Unvalidated, WithoutEvidence, Unscanned
    <3> QED BY <2>8, <2>9, <2>10, <3>1, <3>2, <3>3 DEF ReportsOK, Answering, Complete
  <2>14. DraftOK(new, to, draft[e])
    BY <2>9 DEF DraftOK
  <2>15. undone[e] \/ IsClean(new, to, tree)
    <3> SUFFICES ASSUME ~undone[e] PROVE IsClean(new, to, tree)
      OBVIOUS
    <3>1. /\ \A i \in DOMAIN m.reports : ReportIsClean(m, m.reports[i])
          /\ m.evidence = m.scan /\ m.contexts \subseteq {m.scan}
          /\ m.sees # None => IF m.proof # None THEN tree = m.proof => m.sees = m.proof
                              ELSE m.sees.tracked = m.scan
      BY <1>1 DEF IsClean, Answered, Unvalidated, WithoutEvidence, Unscanned
    <3>2. ReportIsClean(m, report)
      BY <1>1, <1>2, <2>4, <3>1 DEF ReportIsClean, ProgressOK
    <3>3. \A i \in DOMAIN reports : ReportIsClean(new, reports[i])
      BY <2>6, <2>8, <3>1, <3>2 DEF ReportIsClean
    <3> QED BY <2>8, <2>9, <3>1, <3>3 DEF IsClean, Answered, Unvalidated, WithoutEvidence, Unscanned
  <2>16. "report" \in Stages \ {"returned"} /\ to \in Stages \ {"returned"}
    BY <2>9 DEF Stages
  <2> QED BY <2>1, <2>7, <2>11, <2>12, <2>13, <2>14, <2>15, <2>16, StepKeeps DEF EvaluationOK
<1>3. CASE m.proof \notin {None, tree}
  <2>1. Return(e)
    BY <1>3 DEF AppendReport
  <2> QED BY <1>1, <2>1, ReturnKeeps
<1> QED BY <1>2, <1>3

\* What an evaluation relies on while it publishes is what it relied on before; only the
\* draft is new.
LEMMA PublishingIsOK ==
  ASSUME IInv, NEW e \in Evaluations, stage[e] \in {"stat", "staging", "rename"},
         NEW s \in {"staging", "rename", "returned"}, NEW d, DraftOK(memo[e], s, d)
  PROVE  EvaluationOK(e, memo[e], s, d)
<1> DEFINE m == memo[e]
<1>1. /\ ProgressOK(m, stage[e]) /\ RunnerOK(m, stage[e]) /\ ReportsOK(e, m, stage[e])
      /\ undone[e] \/ IsClean(m, stage[e], tree)
  BY Known DEF EvaluationOK
<1> HIDE DEF m
<1>2. ProgressOK(m, s)
  BY <1>1 DEF ProgressOK, Unscanned, WithoutEvidence, Unvalidated, WithoutCapture
<1>3. RunnerOK(m, s)
  BY <1>1 DEF RunnerOK, Answered
<1>4. ReportsOK(e, m, s)
  BY <1>1 DEF ReportsOK, Preparing, WithoutCapture, Unvalidated, WithoutEvidence, Unscanned,
     Answering, Complete
<1>5. undone[e] \/ IsClean(m, s, tree)
  BY <1>1 DEF IsClean, Unscanned, WithoutEvidence, Unvalidated, Answered
<1> QED BY <1>2, <1>3, <1>4, <1>5 DEF EvaluationOK, m

\* The draft is begun when no set is in the way.
LEMMA LookForSetKeeps ==
  ASSUME IInv, NEW e \in Evaluations, LookForSet(e)
  PROVE  IInv'
<1>1. stage[e] = "stat"
  BY DEF LookForSet
<1>2. CASE Return(e)
  BY <1>1, <1>2, ReturnKeeps
<1>3. CASE ~Return(e)
  <2> DEFINE d == [reports |-> <<>>, proof |-> None]
  <2>1. /\ draft' = [draft EXCEPT ![e] = d] /\ stage' = [stage EXCEPT ![e] = "staging"]
        /\ UNCHANGED <<tree, troubles, memo, undone, published>>
    BY <1>3 DEF LookForSet, Goto, world
  <2>2. d \in Sets
    BY DEF Sets
  <2>3. memo' = [memo EXCEPT ![e] = memo[e]] /\ memo[e] \in Memories /\ troubles' \in Nat
    BY <2>1 DEF IInv, TypeOK
  <2>4. DraftOK(memo[e], "staging", d)
    <3>1. Len(memo[e].reports) > 0
      BY <1>1, Known, BasisIsThere DEF EvaluationOK, ReportsOK, Complete
    <3>2. d # None
      BY <2>2, NoneAssumption
    <3> QED BY <3>1, <3>2 DEF DraftOK
  <2> HIDE DEF d
  <2>5. EvaluationOK(e, memo[e], "staging", d)
    BY <1>1, <2>4, PublishingIsOK
  <2> QED BY <1>1, <2>1, <2>2, <2>3, <2>5, OwnStep DEF Stages
<1> QED BY <1>2, <1>3

\* The draft grows by one report; with the last one it is what the evaluation remembers.
LEMMA WriteReportKeeps ==
  ASSUME IInv, NEW e \in Evaluations, WriteReport(e)
  PROVE  IInv'
<1> DEFINE m == memo[e]
           reports == Append(draft[e].reports, m.reports[Len(draft[e].reports) + 1])
           last == Len(reports) = Len(m.reports)
           d == [reports |-> reports, proof |-> IF last THEN m.proof ELSE None]
           to == IF last THEN "rename" ELSE "staging"
<1>1. /\ stage[e] = "staging" /\ draft' = [draft EXCEPT ![e] = d]
      /\ stage' = [stage EXCEPT ![e] = to]
      /\ UNCHANGED <<tree, troubles, memo, undone, published>>
  BY DEF WriteReport, Goto, world
<1>2. /\ m \in Memories /\ draft[e] \in Sets /\ Len(draft[e].reports) < Len(m.reports)
      /\ \A i \in DOMAIN draft[e].reports : draft[e].reports[i] = m.reports[i]
  BY <1>1, Known DEF EvaluationOK, DraftOK, IInv, TypeOK
<1>3. m.reports \in Seq(Reports) /\ draft[e].reports \in Seq(Reports)
      /\ m.proof \in Trees \union {None}
  BY <1>2 DEF Memories, Sets
<1>4. m.reports[Len(draft[e].reports) + 1] \in Reports
  BY <1>2, <1>3
<1>5. /\ reports \in Seq(Reports) /\ Len(reports) = Len(draft[e].reports) + 1
      /\ DOMAIN reports = 1..Len(reports)
      /\ \A i \in DOMAIN reports : reports[i] = m.reports[i]
  BY <1>2, <1>3, <1>4
<1>6. last => reports = m.reports
  BY <1>3, <1>5, SeqEqual
<1>7. Len(reports) <= Len(m.reports)
  BY <1>2, <1>3, <1>5
<1> HIDE DEF reports
<1>8. d \in Sets
  BY <1>3, <1>5 DEF Sets
<1>9. DraftOK(m, to, d)
  <2>1. CASE last
    BY <1>6, <2>1 DEF DraftOK
  <2>2. CASE ~last
    <3>1. Len(reports) < Len(m.reports)
      BY <1>3, <1>5, <1>7, <2>2
    <3>2. d # None
      BY <1>8, NoneAssumption
    <3> QED BY <1>5, <2>2, <3>1, <3>2 DEF DraftOK
  <2> QED BY <2>1, <2>2
<1>10. to \in {"staging", "rename"}
  OBVIOUS
<1>11. memo' = [memo EXCEPT ![e] = m] /\ troubles' \in Nat
  BY <1>1 DEF IInv, TypeOK
<1> HIDE DEF d, to
<1>12. EvaluationOK(e, m, to, d)
  BY <1>1, <1>9, <1>10, PublishingIsOK
<1> QED BY <1>1, <1>2, <1>8, <1>10, <1>11, <1>12, OwnStep DEF Stages

\* The rename makes a draft that is complete the set of its name, where there was none.
LEMMA PublishKeeps ==
  ASSUME IInv, NEW e \in Evaluations, Publish(e)
  PROVE  IInv'
<1>1. stage[e] = "rename"
  BY DEF Publish
<1>2. CASE Return(e)
  BY <1>1, <1>2, ReturnKeeps
<1>3. CASE ~Return(e)
  <2>1. /\ published[Name(e)] = None
        /\ published' = [published EXCEPT ![Name(e)] = draft[e]]
        /\ draft' = [draft EXCEPT ![e] = None] /\ stage' = [stage EXCEPT ![e] = "returned"]
        /\ UNCHANGED <<tree, troubles, memo, undone>>
    BY <1>3 DEF Publish, Goto, world
  <2>2. draft[e] = SetOf(e)
    BY <1>1, Known DEF EvaluationOK, DraftOK, SetOf
  <2>3. \A q \in Evaluations : SetOf(q) \in Sets /\ SetOf(q) # None
    <3> SUFFICES ASSUME NEW q \in Evaluations PROVE SetOf(q) \in Sets
      BY NoneAssumption
    <3> QED BY Known DEF Memories, SetOf, Sets
  <2>4. Name(e) \in Names
    <3>1. Fingerprint(e) \in Fingerprints /\ Len(memo[e].reports) > 0
      BY <1>1, Known, BasisIsThere DEF EvaluationOK, ReportsOK, Complete
    <3>2. memo[e].reports \in Seq(Reports)
      BY Known DEF Memories
    <3>3. memo[e].reports[1].identity \in Identities \union {None}
      <4>1. \A r \in Seq(Reports) : Len(r) > 0 => r[1] \in Reports
        OBVIOUS
      <4>2. memo[e].reports[1] \in Reports
        BY <3>1, <3>2, <4>1
      <4> QED BY <4>2 DEF Reports
    <3>4. ModelOf(memo[e].reports[1].identity) \in Models \union {None}
      BY <3>3 DEF ModelOf, Identities
    <3> QED BY <3>1, <3>4 DEF Name, Names
  <2>5. TypeOK'
    BY <2>1, <2>2, <2>3, <2>4 DEF IInv, TypeOK, Stages
  <2>6. \A q \in Evaluations :
          /\ q # e => stage'[q] = stage[q] /\ draft'[q] = draft[q]
          /\ q = e => stage'[q] = "returned" /\ draft'[q] = None
    BY <2>1 DEF IInv, TypeOK
  <2>7. ASSUME NEW q \in Evaluations
        PROVE  EvaluationOK(q, memo[q], stage[q], draft[q])'
    <3>1. CASE q = e
      <4>1. EvaluationOK(e, memo[e], "returned", None)
        BY <1>1, PublishingIsOK DEF DraftOK
      <4> QED BY <2>1, <2>6, <3>1, <4>1 DEF EvaluationOK
    <3>2. CASE q # e
      BY <2>1, <2>6, <3>2 DEF IInv, EvaluationOK
    <3> QED BY <3>1, <3>2
  <2>8. PublishedOK'
    <3>1. \A q \in Evaluations : Name(q)' = Name(q) /\ SetOf(q)' = SetOf(q)
      BY <2>1 DEF Name, Fingerprint, SetOf
    <3>2. \A n \in Names : published'[n] = IF n = Name(e) THEN SetOf(e) ELSE published[n]
      BY <2>1, <2>2, <2>4 DEF IInv, TypeOK
    <3>3. ASSUME NEW q \in Evaluations, stage'[q] = "returned"
          PROVE  published'[Name(q)] = SetOf(q)
      <4>1. CASE q = e
        BY <2>4, <3>2, <4>1
      <4>2. CASE q # e
        <5>1. published[Name(q)] = SetOf(q)
          BY <2>6, <3>3, <4>2 DEF IInv, PublishedOK
        <5>2. Name(q) # Name(e)
          BY <2>1, <2>3, <5>1
        <5> QED BY <2>1, <5>1, <5>2 DEF IInv, TypeOK
      <4> QED BY <4>1, <4>2
    <3>4. ASSUME NEW n \in Names, published'[n] # None
          PROVE  \E q \in Evaluations : stage'[q] = "returned" /\ Name(q) = n
      BY <2>6, <3>2, <3>4 DEF IInv, PublishedOK
    <3> QED BY <3>1, <3>3, <3>4 DEF PublishedOK
  <2> QED BY <2>5, <2>7, <2>8 DEF IInv
<1> QED BY <1>2, <1>3

\* An edit makes the next comparison fail, or changes the repository back.
LEMMA EditKeeps ==
  ASSUME IInv, NEW content \in Trees, Edit(content)
  PROVE  IInv'
<1>1. /\ tree' = content /\ content # tree /\ troubles' \in Nat
      /\ undone' = [e \in Evaluations |-> undone[e] \/ ChangedBack(e, content)]
      /\ UNCHANGED <<stage, memo, draft, published>>
  BY DEF IInv, TypeOK, Edit, Trouble, directory
<1>2. \A e \in Evaluations : ChangedBack(e, content) \in BOOLEAN
  BY DEF ChangedBack
<1>3. TypeOK'
  <2>1. undone' \in [Evaluations -> BOOLEAN]
    BY <1>1, <1>2
  <2> QED BY <1>1, <2>1 DEF IInv, TypeOK
<1>4. ASSUME NEW e \in Evaluations
      PROVE  EvaluationOK(e, memo[e], stage[e], draft[e])'
  <2>1. EvaluationOK(e, memo[e], stage[e], draft[e]) /\ stage[e] \in Stages
    BY Known
  <2>2. undone'[e] \/ IsClean(memo[e], stage[e], content)
    <3> SUFFICES ASSUME ~undone[e], ~ChangedBack(e, content)
                 PROVE  IsClean(memo[e], stage[e], content)
      BY <1>1
    <3>1. IsClean(memo[e], stage[e], tree)
      BY <2>1 DEF EvaluationOK
    <3>2. stage[e] \in {"evidence", "oracle", "validate"} /\ content.tracked = memo[e].scan =>
            tree.tracked = memo[e].scan
      BY <2>1 DEF EvaluationOK, ProgressOK, WithoutCapture, Unvalidated, WithoutEvidence, ChangedBack,
         Comparing, Running
    <3>3. stage[e] \in Answered /\ memo[e].proof # None => content # memo[e].proof
      BY DEF ChangedBack, Comparing, Running, Answered
    <3>4. stage[e] \in Answered /\ memo[e].proof = None /\ content.tracked = memo[e].scan =>
            tree.tracked = memo[e].scan
      BY DEF ChangedBack, Comparing, Running, Answered
    <3> QED BY <3>1, <3>2, <3>3, <3>4 DEF IsClean
  <2> QED BY <1>1, <2>1, <2>2 DEF EvaluationOK
<1>5. PublishedOK'
  BY <1>1 DEF IInv, PublishedOK, Name, Fingerprint, SetOf
<1> QED BY <1>3, <1>4, <1>5 DEF IInv

\* Every step keeps the invariant.
LEMMA NextKeeps == IInv /\ [Next]_vars => IInv'
<1> SUFFICES ASSUME IInv, [Next]_vars PROVE IInv'
  OBVIOUS
<1>1. CASE UNCHANGED vars
  <2>1. TypeOK' /\ PublishedOK'
    BY <1>1 DEF IInv, TypeOK, PublishedOK, Name, Fingerprint, SetOf, vars
  <2>2. \A e \in Evaluations : EvaluationOK(e, memo[e], stage[e], draft[e])'
    BY <1>1 DEF IInv, EvaluationOK, vars
  <2> QED BY <2>1, <2>2 DEF IInv
<1>2. CASE \E content \in Trees : Edit(content)
  BY <1>2, EditKeeps
<1>3. CASE \E e \in Evaluations : Evaluate(e)
  <2>1. PICK e \in Evaluations : Evaluate(e)
    BY <1>3
  <2>2. CASE \/ NoOpRefresh(e)  \/ ValidateContext(e) \/ TakeEvidenceAgain(e)
             \/ CaptureAgain(e) \/ CaptureBefore(e)   \/ ValidateBasis(e) \/ ValidateAfter(e)
    BY <2>2, ComparisonsKeep
  <2>3. CASE \/ FullScan(e)     \/ TakeEvidence(e)  \/ AskOracle(e)
             \/ WriteContexts(e) \/ Launch(e)
    BY <2>3, ReadingsKeep
  <2>4. CASE \/ \E mode \in Modes, runner \in BOOLEAN : Start(e, mode, runner)
             \/ ReadFacts(e) \/ Capture(e) \/ ObserveCue(e)
             \/ \E identity \in Identities : Answer(e, identity)
             \/ CompareEvidence(e)
    BY <2>4, ValidatedReadingsKeep
  <2>5. CASE AppendReport(e)
    BY <2>5, AppendReportKeeps
  <2>6. CASE LookForSet(e) \/ WriteReport(e) \/ Publish(e)
    BY <2>6, LookForSetKeeps, WriteReportKeeps, PublishKeeps
  <2>7. CASE Fail(e) \/ Die(e)
    BY <2>7, ReturnKeeps DEF Fail, Die, Running
  <2> QED BY <2>1, <2>2, <2>3, <2>4, <2>5, <2>6, <2>7 DEF Evaluate
<1> QED BY <1>1, <1>2, <1>3 DEF Next

\* Before any evaluation there is no set.
LEMMA InitIsOK == Init => IInv
<1> SUFFICES ASSUME Init PROVE IInv
  OBVIOUS
<1>1. TypeOK
  <2>1. Evaluations # {} => Forgotten \in Memories
    BY ForgottenIsOK
  <2> QED BY <2>1 DEF Init, TypeOK, Stages
<1>2. ASSUME NEW e \in Evaluations
      PROVE  EvaluationOK(e, Forgotten, "idle", None)
  BY DEF EvaluationOK, ProgressOK, RunnerOK, ReportsOK, DraftOK, IsClean, Forgotten, Unscanned,
     WithoutEvidence, Unvalidated, WithoutCapture, Answering, Answered, Complete
<1>3. PublishedOK
  BY DEF Init, PublishedOK
<1> QED BY <1>1, <1>2, <1>3 DEF Init, IInv

\* The invariant holds in every reachable state, for any number of evaluations,
\* conditions and states of the repository.
THEOREM M2Invariance == Spec => []IInv
BY InitIsOK, NextKeeps, PTL DEF Spec

\* The types of the module's variables.
THEOREM M2TypeCorrect == Spec => []TypeOK
<1>1. IInv => TypeOK
  BY DEF IInv
<1> QED BY <1>1, M2Invariance, PTL

\* A set is all of what the evaluation that returned it remembers.
LEMMA PublishedIsComplete ==
  ASSUME IInv, NEW n \in Names, published[n] # None
  PROVE  \E e \in Evaluations :
           /\ stage[e] = "returned" /\ Name(e) = n /\ published[n] = SetOf(e)
           /\ memo[e] \in Memories /\ Len(memo[e].reports) > 0
           /\ EvaluationOK(e, memo[e], "returned", draft[e])
           /\ Conditions(memo[e].mode) \in Seq(STRING)
<1>1. PICK e \in Evaluations : stage[e] = "returned" /\ Name(e) = n /\ published[n] = SetOf(e)
  BY DEF IInv, PublishedOK
<1>2. memo[e] \in Memories /\ EvaluationOK(e, memo[e], "returned", draft[e])
  BY <1>1, Known
<1>3. Conditions(memo[e].mode) \in Seq(STRING) /\ Len(Conditions(memo[e].mode)) > 0
  BY <1>1, BasisIsThere DEF Complete
<1>4. Len(memo[e].reports) > 0
  BY <1>2, <1>3 DEF EvaluationOK, ReportsOK, Complete
<1> QED BY <1>1, <1>2, <1>3, <1>4

\* Every set is of one state of the repository, however the repository was changed
\* between the comparisons (m2.go:286, m2_external.go).
THEOREM SetsShareOneBasisAlways == Spec => []SetsShareOneBasis
<1>1. ASSUME IInv PROVE SetsShareOneBasis
  <2> SUFFICES ASSUME NEW n \in Names, published[n] # None,
                      NEW i \in DOMAIN published[n].reports
               PROVE  LET report == published[n].reports[i]
                          proof == published[n].proof
                      IN \/ undone[report.by]
                         \/ /\ report.basis = n.basis /\ n.basis.evidence = n.basis.scan
                            /\ report.contexts \subseteq {n.basis.scan}
                            /\ report.sees # None =>
                                 report.sees.tracked = n.basis.scan /\ proof \in {None, report.sees}
    BY DEF SetsShareOneBasis
  <2>1. PICK e \in Evaluations :
          /\ stage[e] = "returned" /\ Name(e) = n /\ published[n] = SetOf(e)
          /\ EvaluationOK(e, memo[e], "returned", draft[e])
    BY <1>1, PublishedIsComplete
  <2>2. n.basis.scan = memo[e].scan /\ n.basis.evidence = memo[e].evidence
        /\ n.basis = Basis(memo[e])
    BY <2>1 DEF Name, Fingerprint, Basis
  <2>3. published[n].reports = memo[e].reports /\ published[n].proof = memo[e].proof
    BY <2>1 DEF SetOf
  <2>4. memo[e].reports[i].by = e /\ memo[e].reports[i].basis = Basis(memo[e])
    BY <2>1, <2>3 DEF EvaluationOK, ReportsOK
  <2>5. undone[e] \/ (ReportIsClean(memo[e], memo[e].reports[i]) /\ memo[e].evidence = memo[e].scan)
    BY <2>1, <2>3 DEF EvaluationOK, IsClean, Unvalidated, WithoutEvidence, Unscanned
  <2> QED BY <2>2, <2>3, <2>4, <2>5 DEF ReportIsClean
<1> QED BY <1>1, M2Invariance, PTL

\* A set is there exactly when it was returned, and has a report for every condition.
THEOREM SetsAreWholeAlways == Spec => []SetsAreWhole
<1>1. ASSUME IInv PROVE SetsAreWhole
  <2>1. ASSUME NEW e \in Evaluations, stage[e] = "returned"
        PROVE  published[Name(e)] = [reports |-> memo[e].reports, proof |-> memo[e].proof]
    BY <1>1, <2>1 DEF IInv, PublishedOK, SetOf
  <2>2. ASSUME NEW n \in Names, published[n] # None
        PROVE  \E e \in Evaluations : stage[e] = "returned" /\ Name(e) = n
                 /\ [i \in DOMAIN published[n].reports |-> published[n].reports[i].condition]
                      = Conditions(memo[e].mode)
                 /\ \A i \in DOMAIN published[n].reports :
                      published[n].reports[i].by = e
                        /\ published[n].reports[i].identity = published[n].reports[1].identity
                        /\ ModelOf(published[n].reports[i].identity) = n.model
                 /\ (published[n].proof # None) = (memo[e].mode = "calibration")
    <3>1. PICK e \in Evaluations :
            /\ stage[e] = "returned" /\ Name(e) = n /\ published[n] = SetOf(e)
            /\ memo[e] \in Memories /\ Len(memo[e].reports) > 0
            /\ EvaluationOK(e, memo[e], "returned", draft[e])
            /\ Conditions(memo[e].mode) \in Seq(STRING)
      BY <1>1, <2>2, PublishedIsComplete
    <3> DEFINE reports == memo[e].reports
               conditions == Conditions(memo[e].mode)
    <3>2. published[n].reports = reports /\ published[n].proof = memo[e].proof
      BY <3>1 DEF SetOf
    <3>3. /\ reports \in Seq(Reports) /\ Len(reports) = Len(conditions)
          /\ \A i \in DOMAIN reports :
               /\ reports[i].by = e /\ reports[i].condition = conditions[i]
               /\ reports[i].identity = memo[e].identity
      BY <3>1 DEF Memories, EvaluationOK, ReportsOK, Complete
    <3>4. conditions \in Seq(STRING) /\ Len(reports) > 0
      BY <3>1
    <3>5. n.model = ModelOf(reports[1].identity)
      BY <3>1 DEF Name
    <3>6. (memo[e].proof # None) = (memo[e].mode = "calibration")
      BY <3>1 DEF EvaluationOK, ProgressOK, WithoutCapture, Unvalidated, WithoutEvidence, Unscanned
    <3> HIDE DEF reports, conditions
    <3>7. DOMAIN reports = DOMAIN conditions /\ 1 \in DOMAIN reports
      BY <3>3, <3>4
    <3>8. [i \in DOMAIN reports |-> reports[i].condition] = conditions
      BY <3>3, <3>4, <3>7
    <3>9. \A i \in DOMAIN reports :
            reports[i].identity = reports[1].identity /\ ModelOf(reports[i].identity) = n.model
      BY <3>3, <3>5, <3>7
    <3> QED BY <3>1, <3>2, <3>3, <3>6, <3>8, <3>9 DEF conditions
  <2> QED BY <2>1, <2>2 DEF SetsAreWhole
<1> QED BY <1>1, M2Invariance, PTL

\* No set is replaced or removed, whatever races for its name or is run again (m2.go:801).
THEOREM SetsAreKeptAlways == Spec => SetsAreKept
<1>1. ASSUME IInv, [Next]_vars, NEW n \in Names, published[n] # None
      PROVE  published'[n] = published[n]
  <2>1. CASE published' = published
    BY <2>1
  <2>2. CASE published' # published
    <3>1. PICK e \in Evaluations : Publish(e)
      BY <1>1, <2>2 DEF Next, vars, Evaluate, Edit, Start, FullScan, NoOpRefresh, ReadFacts,
         TakeEvidence, AskOracle, ValidateContext, TakeEvidenceAgain, Capture, ObserveCue,
         CaptureAgain, WriteContexts, CaptureBefore, ValidateBasis, Launch, Answer,
         ValidateAfter, CompareEvidence, AppendReport, LookForSet, WriteReport, Fail, Die,
         Demand, Step, Return, directory
    <3>2. published' = [published EXCEPT ![Name(e)] = draft[e]] /\ published[Name(e)] = None
      BY <2>2, <3>1 DEF Publish, Return
    <3> QED BY <1>1, <3>2 DEF IInv, TypeOK
  <2> QED BY <2>1, <2>2
<1>2. IInv /\ [Next]_vars => [\A n \in Names : published[n] # None => published'[n] = published[n]]_vars
  BY <1>1
<1> QED BY <1>2, M2Invariance, PTL DEF Spec, SetsAreKept
===============================================================================
