----------------------------- MODULE M2Evaluation -----------------------------
(***************************************************************************)
(* `evaluate-m2`: one prepared repository state, several conditions, one    *)
(* published set of reports.                                                *)
(*                                                                          *)
(* An evaluation scans the repository into a private database, takes        *)
(* evidence of its state, builds the context of every condition, lets the   *)
(* external runner answer under each condition in turn, and publishes all   *)
(* the reports by one rename.  The comparisons between these steps are all  *)
(* that holds the repository still: nothing locks it.                       *)
(*                                                                          *)
(* A standard evaluation compares what Git tracks.  A calibration evaluation *)
(* compares the content of untracked files as well.  Evaluations race for   *)
(* one output directory; they fail or die at any step and are run again.    *)
(***************************************************************************)
EXTENDS Naturals, Sequences, FiniteSets

CONSTANTS
  None,
  Evaluations,          \* the invocations, all with the run index and output directory
  StandardConditions,   \* the sequence of conditions without and
  CalibrationConditions, \* with the selection of a calibration
  Tracked,              \* contents of what Git tracks, its status included
  Untracked,            \* contents of the untracked files
  Models,               \* models a runner may tell to work with, as file names
  Details,              \* the other things it tells of itself
  MaxTroubles           \* bound: edits, failures and deaths, all together, where so
                        \* many evaluations have been started

Modes == {"standard", "calibration"}

Conditions(mode) ==
  IF mode = "calibration" THEN CalibrationConditions ELSE StandardConditions

Trees == [tracked : Tracked, untracked : Untracked]

\* What a runner tells of itself.
Identities == [model : Models, details : Details]

ASSUME ConditionsAssumption ==
  \A mode \in Modes : Conditions(mode) \in Seq(STRING) /\ Conditions(mode) # <<>>

VARIABLES
  tree,      \* the repository
  troubles,  \* the counter for the bound
  stage,     \* where each evaluation is
  memo,      \* what it remembers
  undone,    \* history: the repository was changed and changed back meanwhile
  draft,     \* the staging directory of each evaluation
  published  \* the report sets, by name

vars == <<tree, troubles, stage, memo, undone, draft, published>>

world == <<tree, troubles>>

directory == <<draft, published>>

Stages ==
  {"idle", "scan", "refresh", "facts", "evidence", "oracle", "validate", "again", "capture",
   "cue", "recapture", "contexts", "before", "basis", "launch", "runs", "after", "closing",
   "report", "stat", "staging", "rename", "returned", "failed"}

\* The state fingerprint: of the scan and of the evidence.
Fingerprints == [scan : Tracked, evidence : Tracked]

\* History: `contexts` is of which contents the contexts were made, `sees` what the
\* runner found in the repository.
Reports ==
  [by : Evaluations, condition : STRING, basis : Fingerprints,
   identity : Identities \union {None}, contexts : SUBSET Tracked,
   sees : Trees \union {None}]

\* `proof` is the capture a calibration makes, None in a standard evaluation.
Memories ==
  [mode : Modes, runner : BOOLEAN, scan : Tracked \union {None},
   evidence : Tracked \union {None}, contexts : SUBSET Tracked,
   proof : Trees \union {None}, before : Tracked \union {None},
   sees : Trees \union {None}, answer : Identities \union {None},
   identity : Identities \union {None}, reports : Seq(Reports)]

Forgotten ==
  [mode |-> "standard", runner |-> FALSE, scan |-> None, evidence |-> None,
   contexts |-> {}, proof |-> None, before |-> None, sees |-> None, answer |-> None,
   identity |-> None, reports |-> <<>>]

Fingerprint(e) == [scan |-> memo[e].scan, evidence |-> memo[e].evidence]

\* The maintained state and the runner's model name a set, and no other detail of the
\* runner.  Sets of another run index have other names.
Names == [basis : Fingerprints, model : Models \union {None}]

ModelOf(identity) == IF identity = None THEN None ELSE identity.model

Name(e) ==
  [basis |-> Fingerprint(e), model |-> ModelOf(memo[e].reports[1].identity)]

Sets == [reports : Seq(Reports), proof : Trees \union {None}]

ASSUME NoneAssumption ==
  None \notin Tracked \union Trees \union Models \union Identities \union Sets

Init ==
  /\ tree \in Trees
  /\ troubles = 0
  /\ stage = [e \in Evaluations |-> "idle"]
  /\ memo = [e \in Evaluations |-> Forgotten]
  /\ undone = [e \in Evaluations |-> FALSE]
  /\ draft = [e \in Evaluations |-> None]
  /\ published = [n \in Names |-> None]

Running == {e \in Evaluations : stage[e] \notin {"idle", "returned", "failed"}}

Comparing == {e \in Running : stage[e] \notin {"stat", "staging", "rename"}}

Started == {e \in Evaluations : stage[e] # "idle"}

Trouble ==
  /\ Started # {}
  /\ troubles < MaxTroubles[Cardinality(Started)]
  /\ troubles' = troubles + 1

(***************************************************************************)
(* The repository is edited, by its users or by a runner or an oracle.     *)
(***************************************************************************)
ChangedBack(e, content) ==
  /\ e \in Comparing
  /\ IF memo[e].proof # None THEN content = memo[e].proof
     ELSE content.tracked = memo[e].scan /\ tree.tracked # memo[e].scan

Edit(content) ==
  /\ Trouble
  /\ content # tree
  /\ tree' = content
  /\ undone' = [e \in Evaluations |-> undone[e] \/ ChangedBack(e, content)]
  /\ UNCHANGED <<stage, memo, directory>>

(***************************************************************************)
(* RunM2: the preparation.                                                  *)
(***************************************************************************)
Goto(e, s) == stage' = [stage EXCEPT ![e] = s]

\* An early return: the deferred functions remove the workspace and the draft.
Return(e) ==
  /\ Goto(e, "failed")
  /\ memo' = [memo EXCEPT ![e] = Forgotten]
  /\ draft' = [draft EXCEPT ![e] = None]
  /\ UNCHANGED <<world, undone, published>>

\* The step remembers something and goes on.
Step(e, from, remembered, to) ==
  /\ stage[e] = from
  /\ memo' = [memo EXCEPT ![e] = remembered]
  /\ Goto(e, to)
  /\ UNCHANGED <<world, undone, directory>>

\* The step goes on when the comparison holds, and returns an error otherwise.
Demand(e, from, holds, to) ==
  IF holds THEN Step(e, from, memo[e], to) ELSE stage[e] = from /\ Return(e)

Start(e, mode, runner) ==
  /\ troubles <= MaxTroubles[Cardinality(Started \union {e})]
  /\ Step(e, "idle", [Forgotten EXCEPT !.mode = mode, !.runner = runner], "scan")

\* FullScan into the private database.
FullScan(e) == Step(e, "scan", [memo[e] EXCEPT !.scan = tree.tracked], "refresh")

\* The refresh must find nothing to do.
NoOpRefresh(e) == Demand(e, "refresh", tree.tracked = memo[e].scan, "facts")

\* ContextFactsAt reads between two validations; CueViews has what comes between.
ReadFacts(e) ==
  IF tree.tracked = memo[e].scan
  THEN Step(e, "facts", [memo[e] EXCEPT !.contexts = {tree.tracked}], "evidence")
  ELSE stage[e] = "facts" /\ Return(e)

TakeEvidence(e) ==
  Step(e, "evidence", [memo[e] EXCEPT !.evidence = tree.tracked],
       IF memo[e].mode = "standard" THEN "oracle" ELSE "validate")

\* An external tool that reads the repository.
AskOracle(e) ==
  Step(e, "oracle", [memo[e] EXCEPT !.contexts = @ \union {tree.tracked}], "validate")

ValidateContext(e) == Demand(e, "validate", tree.tracked = memo[e].scan, "again")

TakeEvidenceAgain(e) ==
  Demand(e, "again", tree.tracked = memo[e].evidence,
         IF memo[e].mode = "standard" THEN "contexts" ELSE "capture")

(***************************************************************************)
(* prepareCalibrationContext: the shipped command line makes the cue, over  *)
(* the private database, between two captures of all content.              *)
(***************************************************************************)
Capture(e) ==
  IF tree.tracked = memo[e].scan
  THEN Step(e, "capture", [memo[e] EXCEPT !.proof = tree], "cue")
  ELSE stage[e] = "capture" /\ Return(e)

ObserveCue(e) ==
  IF tree.tracked = memo[e].scan
  THEN Step(e, "cue", [memo[e] EXCEPT !.contexts = {memo[e].scan}], "recapture")
  ELSE stage[e] = "cue" /\ Return(e)

CaptureAgain(e) == Demand(e, "recapture", tree = memo[e].proof, "contexts")

\* The contexts of a standard evaluation are built of what is remembered.
WriteContexts(e) == Step(e, "contexts", memo[e], "before")

(***************************************************************************)
(* One condition after the other: runM2External between the two captures of *)
(* a calibration.                                                           *)
(***************************************************************************)
AfterBefore(e) == IF memo[e].runner THEN "basis" ELSE "report"

CaptureBefore(e) ==
  Demand(e, "before", memo[e].proof = None \/ tree = memo[e].proof, AfterBefore(e))

ValidateBasis(e) == Demand(e, "basis", tree.tracked = memo[e].scan, "launch")

Launch(e) == Step(e, "launch", [memo[e] EXCEPT !.before = tree.tracked], "runs")

\* The runner works in the repository and answers in the form that is asked for.
Answer(e, identity) ==
  Step(e, "runs", [memo[e] EXCEPT !.sees = tree, !.answer = identity], "after")

ValidateAfter(e) == Demand(e, "after", tree.tracked = memo[e].scan, "closing")

\* The evidence is what it was, and so is the runner.
CompareEvidence(e) ==
  LET same == memo[e].identity \in {None, memo[e].answer}
  IN IF tree.tracked = memo[e].before /\ same
     THEN Step(e, "closing", [memo[e] EXCEPT !.identity = memo[e].answer], "report")
     ELSE stage[e] = "closing" /\ Return(e)

Condition(e) == Conditions(memo[e].mode)[Len(memo[e].reports) + 1]

Report(e) ==
  [by |-> e, condition |-> Condition(e), basis |-> Fingerprint(e),
   identity |-> memo[e].answer, contexts |-> memo[e].contexts, sees |-> memo[e].sees]

\* Mutant: a calibration does not compare what the runner left behind.
AppendAnyReport(e) ==
  LET reports == Append(memo[e].reports, Report(e))
  IN Step(e, "report",
          [memo[e] EXCEPT !.reports = reports, !.answer = None, !.sees = None],
          IF Len(reports) < Len(Conditions(memo[e].mode)) THEN "before" ELSE "stat")

\* The report is appended, in a calibration after the second capture.
AppendReport(e) ==
  LET reports == Append(memo[e].reports, Report(e))
  IN IF memo[e].proof \in {None, tree}
     THEN Step(e, "report",
               [memo[e] EXCEPT !.reports = reports, !.answer = None, !.sees = None],
               IF Len(reports) < Len(Conditions(memo[e].mode)) THEN "before" ELSE "stat")
     ELSE stage[e] = "report" /\ Return(e)

(***************************************************************************)
(* publishM2ReportSet.                                                      *)
(***************************************************************************)
LookForSet(e) ==
  /\ stage[e] = "stat"
  /\ IF published[Name(e)] # None THEN Return(e)
     ELSE /\ draft' = [draft EXCEPT ![e] = [reports |-> <<>>, proof |-> None]]
          /\ Goto(e, "staging")
          /\ UNCHANGED <<world, memo, undone, published>>

\* The evidence of a calibration is written last.
WriteReport(e) ==
  LET reports == Append(draft[e].reports, memo[e].reports[Len(draft[e].reports) + 1])
      last == Len(reports) = Len(memo[e].reports)
  IN /\ stage[e] = "staging"
     /\ draft' = [draft EXCEPT ![e] = [reports |-> reports,
                                       proof |-> IF last THEN memo[e].proof ELSE None]]
     /\ Goto(e, IF last THEN "rename" ELSE "staging")
     /\ UNCHANGED <<world, memo, undone, published>>

\* Mutant: a set that is in the way is replaced.
PublishOver(e) ==
  /\ stage[e] = "rename"
  /\ published' = [published EXCEPT ![Name(e)] = draft[e]]
  /\ draft' = [draft EXCEPT ![e] = None]
  /\ Goto(e, "returned")
  /\ UNCHANGED <<world, memo, undone>>

\* A set that has come into the way meanwhile refuses the rename.
Publish(e) ==
  /\ stage[e] = "rename"
  /\ IF published[Name(e)] # None THEN Return(e)
     ELSE /\ published' = [published EXCEPT ![Name(e)] = draft[e]]
          /\ draft' = [draft EXCEPT ![e] = None]
          /\ Goto(e, "returned")
          /\ UNCHANGED <<world, memo, undone>>

(***************************************************************************)
(* Any other error, also one of the oracle or the runner, and the death of *)
(* the process, which leaves its draft where it is.                        *)
(***************************************************************************)
Fail(e) ==
  /\ e \in Running
  /\ Trouble
  /\ Goto(e, "failed")
  /\ memo' = [memo EXCEPT ![e] = Forgotten]
  /\ draft' = [draft EXCEPT ![e] = None]
  /\ UNCHANGED <<tree, undone, published>>

Die(e) ==
  /\ e \in Running
  /\ Trouble
  /\ Goto(e, "failed")
  /\ memo' = [memo EXCEPT ![e] = Forgotten]
  /\ UNCHANGED <<tree, undone, directory>>

(***************************************************************************)
(* The specification.                                                      *)
(***************************************************************************)
Evaluate(e) ==
  \/ \E mode \in Modes, runner \in BOOLEAN : Start(e, mode, runner)
  \/ FullScan(e)        \/ NoOpRefresh(e)   \/ ReadFacts(e)     \/ TakeEvidence(e)
  \/ AskOracle(e)       \/ ValidateContext(e) \/ TakeEvidenceAgain(e)
  \/ Capture(e)         \/ ObserveCue(e)    \/ CaptureAgain(e)  \/ WriteContexts(e)
  \/ CaptureBefore(e)   \/ ValidateBasis(e) \/ Launch(e)
  \/ \E identity \in Identities : Answer(e, identity)
  \/ ValidateAfter(e)   \/ CompareEvidence(e) \/ AppendReport(e)
  \/ LookForSet(e)      \/ WriteReport(e)   \/ Publish(e)
  \/ Fail(e)            \/ Die(e)

Next ==
  \/ \E e \in Evaluations : Evaluate(e)
  \/ \E content \in Trees : Edit(content)

Spec == Init /\ [][Next]_vars

(***************************************************************************)
(* Properties.                                                             *)
(***************************************************************************)

\* The type of each variable of RunM2 and publishM2ReportSet.
TypeOK ==
  /\ tree \in Trees /\ troubles \in Nat
  /\ stage \in [Evaluations -> Stages]
  /\ memo \in [Evaluations -> Memories]
  /\ undone \in [Evaluations -> BOOLEAN]
  /\ draft \in [Evaluations -> Sets \union {None}]
  /\ published \in [Names -> Sets \union {None}]

\* All reports of a set are of one state of the repository: the one the set is named
\* for, the contexts were made of and every runner found, and in a calibration the
\* untracked content was the captured one too, unless the repository was changed and
\* changed back while it was compared.  So every condition was met by the state it
\* reports, whatever earlier conditions did (docs/EVALUATION.md:61).
SetsShareOneBasis ==
  \A n \in Names : published[n] # None =>
    \A i \in DOMAIN published[n].reports :
      LET report == published[n].reports[i]
          proof == published[n].proof
      IN \/ undone[report.by]
         \/ /\ report.basis = n.basis /\ n.basis.evidence = n.basis.scan
            /\ report.contexts \subseteq {n.basis.scan}
            /\ report.sees # None =>
                 report.sees.tracked = n.basis.scan /\ proof \in {None, report.sees}

\* A set is there exactly when an evaluation returned it, with a report for every
\* condition in order, all by that evaluation and one runner, of the model the set is
\* named for, and in a calibration with its evidence; whatever failed, died or was run again left no part of a set ("A
\* failed run exposes no part of the set", docs/EVALUATION.md:65).
SetsAreWhole ==
  /\ \A e \in Evaluations : stage[e] = "returned" =>
       published[Name(e)] = [reports |-> memo[e].reports, proof |-> memo[e].proof]
  /\ \A n \in Names : published[n] # None =>
       \E e \in Evaluations : stage[e] = "returned" /\ Name(e) = n
         /\ [i \in DOMAIN published[n].reports |-> published[n].reports[i].condition]
              = Conditions(memo[e].mode)
         /\ \A i \in DOMAIN published[n].reports :
              published[n].reports[i].by = e
                /\ published[n].reports[i].identity = published[n].reports[1].identity
                /\ ModelOf(published[n].reports[i].identity) = n.model
         /\ (published[n].proof # None) = (memo[e].mode = "calibration")

\* No step of any evaluation, racing for the same name or run again, replaces or
\* removes a set (m2.go:801).
SetsAreKept == [][\A n \in Names : published[n] # None => published'[n] = published[n]]_vars
===============================================================================
