--------------------------- MODULE CacheStepsProofs ---------------------------
(***************************************************************************)
(* Theorems about the runs of any number of processes over a schedule of   *)
(* any length, whatever comes back and whatever fails.  The inductive      *)
(* invariant says who owns a reserved step: the one process at work on it, *)
(* while it has no record; nobody afterwards.  What the summary derives    *)
(* rests on a second one: what a record says of its request and its files. *)
(***************************************************************************)
EXTENDS CacheSteps, TLAPS

Unsent == {"reserved", "started", "copied", "wired", "ready"}

AfterSend == {"sent", "answered", "kept", "finishing"}

Working(p) == stage[p] \in Unsent \union AfterSend

\* A run has found finished the steps it has checked, and works on a step of
\* its own.
RunOK(p) ==
  /\ stage[p] = "idle" => checked[p] = 0
  /\ stage[p] = "checking" => checked[p] < at[p]
  /\ \A s \in Step : s <= checked[p] => Readable(s)
  /\ Working(p) => attempt[at[p]].dir /\ ~Finished(at[p])
  /\ stage[p] \in Unsent => sent[at[p]] = 0

Alone ==
  \A p, q \in Process : Working(p) /\ Working(q) /\ at[p] = at[q] => p = q

\* A step that nobody reserved was not sent and has no record.
StepOK(s) ==
  /\ sent[s] <= 1
  /\ ~attempt[s].dir => sent[s] = 0 /\ ~Finished(s)

IInv ==
  /\ TypeOK
  /\ \A p \in Process : RunOK(p)
  /\ Alone
  /\ \A s \in Step : StepOK(s)
  /\ ScheduleIsKept

\* Steps are numbered from 1.
LEMMA StepsAreNumbers == Step \subseteq Nat /\ 1 \in Step
BY ScheduleAssumption DEF Step

\* An attempt begins with a well-formed observation.
LEMMA StartedIsAnObservation == Started \in Observations /\ NoReply \in AllReplies
BY DEF Started, Observations, NoReply, AllReplies, Bodies, AllClocks

\* Before anything ran nothing is reserved, sent or recorded.
LEMMA InitIsOK == Init => IInv
<1> SUFFICES ASSUME Init PROVE IInv
  OBVIOUS
<1>1. NoAttempt \in Attempts
  BY StartedIsAnObservation DEF NoAttempt, Attempts, FileStates
<1>2. NotRun \in Items
  BY DEF NotRun, Items
<1>3. TypeOK
  BY <1>1, <1>2, StepsAreNumbers, StartedIsAnObservation, ScheduleAssumption DEF Init, TypeOK
<1>4. \A s \in Step : ~attempt[s].dir /\ ~Finished(s) /\ sent[s] = 0
  BY DEF Init, NoAttempt, Finished, Started
<1>5. \A p \in Process : stage[p] = "idle" /\ checked[p] = 0
  BY DEF Init
<1>6. \A p \in Process : RunOK(p) /\ ~Working(p)
  BY <1>5, StepsAreNumbers DEF RunOK, Working, Unsent, AfterSend, Step
<1> QED
  BY <1>3, <1>4, <1>6 DEF IInv, Alone, StepOK, ScheduleIsKept

(***************************************************************************)
(* Steps of one run.                                                       *)
(***************************************************************************)
\* What every action of p but Load, Check, Reserve and Send does: it stays at
\* its step or leaves, and touches its own attempt only, without a second
\* record of it.
OwnStep(p) ==
  /\ \/ /\ Working(p) /\ stage'[p] \in AfterSend \union Unsent
        /\ stage[p] \in AfterSend => stage'[p] \in AfterSend
        /\ at' = at /\ checked' = checked
        /\ attempt'[at[p]].final = attempt[at[p]].final
     \/ stage'[p] = "idle" /\ checked'[p] = 0
  /\ stage' = [stage EXCEPT ![p] = stage'[p]]
  /\ at' = [at EXCEPT ![p] = at'[p]]
  /\ checked' = [checked EXCEPT ![p] = checked'[p]]
  /\ \A s \in Step : attempt'[s] # attempt[s] => Working(p) /\ s = at[p] /\ attempt'[s].dir
  /\ sent' = sent

\* Such a step keeps the ownership of reserved steps: the others' are untouched.
LEMMA OwnStepKeeps ==
  ASSUME IInv, TypeOK', NEW p \in Process, OwnStep(p)
  PROVE  IInv'
<1> USE DEF IInv
<1>1. \A s \in Step : s # at[p] \/ ~Working(p) => attempt'[s] = attempt[s]
  BY DEF OwnStep
<1>2. \A s \in Step : attempt'[s].dir <=> attempt[s].dir
  BY <1>1 DEF OwnStep, RunOK
<1>3. \A s \in Step : Readable(s) => Readable(s)'
  BY <1>1 DEF Readable, Finished, RunOK
<1>4. \A q \in Process \ {p} :
        stage'[q] = stage[q] /\ at'[q] = at[q] /\ checked'[q] = checked[q]
  BY DEF OwnStep, TypeOK
<1>5. \A q \in Process : Working(q)' => Working(q) /\ at'[q] = at[q]
  BY <1>4 DEF OwnStep, Working, Unsent, AfterSend
<1>6. Alone'
  BY <1>5 DEF Alone
<1>7. ASSUME NEW q \in Process \ {p}
      PROVE  RunOK(q)'
  <2>1. Working(q) => attempt'[at[q]] = attempt[at[q]]
    BY <1>1 DEF Alone, TypeOK
  <2>2. sent' = sent
    BY DEF OwnStep
  <2> QED
    BY <1>3, <1>4, <2>1, <2>2 DEF RunOK, Working, Finished
<1>8. RunOK(p)'
  <2>1. CASE stage'[p] = "idle" /\ checked'[p] = 0
    BY <2>1, StepsAreNumbers DEF RunOK, Working, Unsent, AfterSend, Step
  <2>2. CASE /\ Working(p) /\ stage'[p] \in AfterSend \union Unsent
             /\ stage[p] \in AfterSend => stage'[p] \in AfterSend
             /\ at' = at /\ checked' = checked
             /\ attempt'[at[p]].final = attempt[at[p]].final
    <3>1. at[p] \in Step /\ at'[p] = at[p] /\ checked'[p] = checked[p]
      BY <2>2 DEF TypeOK
    <3>2. attempt'[at[p]].dir /\ ~Finished(at[p])'
      BY <1>2, <2>2, <3>1 DEF RunOK, Finished
    <3>3. stage'[p] \in Unsent => stage[p] \in Unsent
      BY <2>2 DEF Working, Unsent, AfterSend
    <3>4. stage'[p] \notin {"idle", "checking"}
      BY <2>2 DEF Unsent, AfterSend
    <3>5. sent'[at'[p]] = sent[at[p]]
      BY <3>1 DEF OwnStep
    <3> QED
      BY <1>3, <3>1, <3>2, <3>3, <3>4, <3>5 DEF RunOK
  <2> QED
    BY <2>1, <2>2 DEF OwnStep
<1>9. ASSUME NEW s \in Step
      PROVE  StepOK(s)'
  <2>1. sent'[s] = sent[s]
    BY DEF OwnStep
  <2>2. ~attempt'[s].dir => attempt'[s] = attempt[s]
    BY DEF OwnStep
  <2> QED
    BY <1>2, <2>1, <2>2 DEF StepOK, Finished
<1>10. ScheduleIsKept'
  BY <1>2, <1>3 DEF ScheduleIsKept
<1> QED
  BY <1>6, <1>7, <1>8, <1>9, <1>10

\* The types of what a run writes.
LEMMA RunTypes ==
  ASSUME TypeOK, NEW p \in Process
  PROVE  /\ \A f \in BOOLEAN :
              /\ [attempt EXCEPT ![at[p]].dir = f] \in [Step -> Attempts]
              /\ [attempt EXCEPT ![at[p]].start = f] \in [Step -> Attempts]
         /\ \A f \in FileStates :
              /\ [attempt EXCEPT ![at[p]].request = f] \in [Step -> Attempts]
              /\ [attempt EXCEPT ![at[p]].wire = f] \in [Step -> Attempts]
              /\ [attempt EXCEPT ![at[p]].response = f] \in [Step -> Attempts]
         /\ \A o \in Observations :
              /\ [attempt EXCEPT ![at[p]].final = o] \in [Step -> Attempts]
              /\ [memo EXCEPT ![p] = o] \in [Process -> Observations]
              /\ [o EXCEPT !.status = "failed"] \in Observations
              /\ [o EXCEPT !.status = "completed"] \in Observations
<1>1. at[p] \in Step /\ attempt[at[p]] \in Attempts
  BY DEF TypeOK
<1>2. /\ \A f \in BOOLEAN :
           /\ [attempt EXCEPT ![at[p]].dir = f] \in [Step -> Attempts]
           /\ [attempt EXCEPT ![at[p]].start = f] \in [Step -> Attempts]
  BY <1>1 DEF TypeOK, Attempts
<1>3. \A f \in FileStates :
        /\ [attempt EXCEPT ![at[p]].request = f] \in [Step -> Attempts]
        /\ [attempt EXCEPT ![at[p]].wire = f] \in [Step -> Attempts]
        /\ [attempt EXCEPT ![at[p]].response = f] \in [Step -> Attempts]
  BY <1>1 DEF TypeOK, Attempts
<1>4. \A o \in Observations :
        /\ [attempt EXCEPT ![at[p]].final = o] \in [Step -> Attempts]
        /\ [memo EXCEPT ![p] = o] \in [Process -> Observations]
  BY <1>1 DEF TypeOK, Attempts
<1>5. \A o \in Observations :
        /\ [o EXCEPT !.status = "failed"] \in Observations
        /\ [o EXCEPT !.status = "completed"] \in Observations
  BY DEF Observations
<1> QED
  BY <1>2, <1>3, <1>4, <1>5

\* A run that stays, leaves or fails keeps the types of its own variables.
LEMMA MoveTypes ==
  ASSUME TypeOK, NEW p \in Process
  PROVE  /\ \A next \in Unsent \union AfterSend :
              Goto(p, next) =>
                /\ stage' \in [Process -> {"idle", "checking", "reserved", "started",
                     "copied", "wired", "ready", "sent", "answered", "kept", "finishing"}]
                /\ at' \in [Process -> Step] /\ checked' \in [Process -> 0..NumSteps]
         /\ Leave(p) =>
                /\ stage' \in [Process -> {"idle", "checking", "reserved", "started",
                     "copied", "wired", "ready", "sent", "answered", "kept", "finishing"}]
                /\ at' \in [Process -> Step] /\ checked' \in [Process -> 0..NumSteps]
                /\ memo' \in [Process -> Observations]
BY StepsAreNumbers, StartedIsAnObservation, ScheduleAssumption
   DEF TypeOK, Goto, Leave, Unsent, AfterSend

\* The actions of a run that is at work on its step.
OwnAction(p) ==
  \/ Journal(p) \/ CopyRequest(p) \/ CopyWire(p) \/ Preflight(p) \/ Receive(p)
  \/ KeepResponse(p) \/ Postflight(p) \/ Finish(p) \/ Die(p) \/ Refuse(p)

\* They write what they should where they should.
LEMMA OwnActionTypes ==
  ASSUME IInv, NEW p \in Process, OwnAction(p)
  PROVE  TypeOK'
<1>1. TypeOK
  BY DEF IInv
<1>2. /\ prepared' = prepared /\ basis' = basis /\ repo' = repo /\ reader' = reader
      /\ turn' = turn /\ items' = items /\ begun' = begun /\ sent' = sent
  BY DEF OwnAction, Journal, CopyRequest, CopyWire, Preflight, Receive, KeepResponse,
         Postflight, Finish, Die, Refuse, Quiet, preparation, summary
<1>3. attempt' \in [Step -> Attempts]
  <2>1. "cut" \in FileStates /\ "whole" \in FileStates /\ Broken \subseteq FileStates
    BY DEF FileStates, Broken
  <2>2. \A c \in Clocks : [memo[p] EXCEPT !.clock = c] \in Observations
    BY <1>1, ReplyAssumption DEF TypeOK, Observations
  <2>3. attempt \in [Step -> Attempts]
    BY <1>1 DEF TypeOK
  <2>4. CASE Journal(p)
    <3>1. [attempt EXCEPT ![at[p]].start = TRUE] \in [Step -> Attempts]
      BY <1>1, RunTypes
    <3>2. attempt' = [attempt EXCEPT ![at[p]].start = TRUE] \/ attempt' = attempt
      BY <2>4 DEF Journal
    <3> QED
      BY <2>3, <3>1, <3>2
  <2>8. CASE CopyRequest(p)
    <3>1. PICK f \in FileStates : attempt' = [attempt EXCEPT ![at[p]].request = f]
      BY <2>1, <2>8 DEF CopyRequest
    <3> QED
      BY <1>1, <3>1, RunTypes
  <2>9. CASE CopyWire(p)
    <3>1. PICK f \in FileStates : attempt' = [attempt EXCEPT ![at[p]].wire = f]
      BY <2>1, <2>9 DEF CopyWire
    <3> QED
      BY <1>1, <3>1, RunTypes
  <2>10. CASE KeepResponse(p)
    <3>1. \/ attempt' = attempt
          \/ \E f \in FileStates : attempt' = [attempt EXCEPT ![at[p]].response = f]
      BY <2>1, <2>10 DEF KeepResponse
    <3>2. ASSUME NEW f \in FileStates, attempt' = [attempt EXCEPT ![at[p]].response = f]
          PROVE  attempt' \in [Step -> Attempts]
      BY <1>1, <3>2, RunTypes
    <3> QED
      BY <2>3, <3>1, <3>2
  <2>5. CASE Preflight(p) \/ Receive(p) \/ Postflight(p) \/ Refuse(p)
    BY <2>3, <2>5 DEF Preflight, Receive, Postflight, Refuse
  <2>6. CASE Finish(p)
    <3>1. \A c \in Clocks :
            [attempt EXCEPT ![at[p]].final = [memo[p] EXCEPT !.clock = c]]
              \in [Step -> Attempts]
      BY <1>1, <2>2, RunTypes
    <3> QED
      BY <2>3, <2>6, <3>1 DEF Finish
  <2>7. CASE Die(p)
    <3>1. /\ [attempt EXCEPT ![at[p]].request = "cut"] \in [Step -> Attempts]
          /\ [attempt EXCEPT ![at[p]].wire = "cut"] \in [Step -> Attempts]
          /\ [attempt EXCEPT ![at[p]].response = "cut"] \in [Step -> Attempts]
      BY <1>1, <2>1, RunTypes
    <3> QED
      BY <2>3, <2>7, <3>1 DEF Die
  <2> QED
    BY <2>4, <2>5, <2>6, <2>7, <2>8, <2>9, <2>10 DEF OwnAction
<1>4. memo' \in [Process -> Observations]
  <2>1. memo \in [Process -> Observations] /\ memo[p] \in Observations
    BY <1>1 DEF TypeOK
  <2>2. ASSUME NEW o \in Observations, Fail(p, o)
        PROVE  memo' \in [Process -> Observations]
    BY <1>1, <2>2, RunTypes DEF Fail
  <2>3. Leave(p) => memo' \in [Process -> Observations]
    BY <1>1, MoveTypes
  <2>4. CASE Journal(p) \/ CopyRequest(p) \/ CopyWire(p) \/ KeepResponse(p)
    BY <2>1, <2>2, <2>3, <2>4 DEF Journal, CopyRequest, CopyWire, KeepResponse
  <2>5. CASE Finish(p) \/ Die(p) \/ Refuse(p)
    BY <2>3, <2>5 DEF Finish, Die, Refuse
  <2>6. CASE Preflight(p)
    <3>1. [memo[p] EXCEPT !.before = repo] \in Observations
      BY <1>1, <2>1 DEF TypeOK, Observations
    <3> QED
      BY <1>1, <2>1, <2>2, <2>6, <3>1, RunTypes DEF Preflight
  <2>7. CASE Receive(p)
    <3>1. PICK r \in Replies, known \in BOOLEAN :
            memo' = [memo EXCEPT ![p] = [@ EXCEPT !.reply = r, !.written = known]]
      BY <2>7 DEF Receive
    <3>2. [memo[p] EXCEPT !.reply = r, !.written = known] \in Observations
      BY <2>1, ReplyAssumption DEF Observations
    <3>3. memo' = [memo EXCEPT ![p] = [memo[p] EXCEPT !.reply = r, !.written = known]]
      BY <3>1
    <3> QED
      BY <1>1, <3>2, <3>3, RunTypes
  <2>8. CASE Postflight(p)
    <3>1. PICK after \in {repo, None} :
            \/ memo' = [memo EXCEPT ![p] = [[memo[p] EXCEPT !.after = after]
                                             EXCEPT !.status = "completed"]]
            \/ Fail(p, [memo[p] EXCEPT !.after = after])
      BY <2>8 DEF Postflight
    <3>2. [memo[p] EXCEPT !.after = after] \in Observations
      BY <1>1, <2>1 DEF TypeOK, Observations
    <3>3. [[memo[p] EXCEPT !.after = after] EXCEPT !.status = "completed"] \in Observations
      BY <1>1, <3>2, RunTypes
    <3> QED
      BY <2>1, <2>2, <3>1, <3>2, <3>3
  <2> QED
    BY <2>4, <2>5, <2>6, <2>7, <2>8 DEF OwnAction
<1>5. /\ stage' \in [Process -> {"idle", "checking", "reserved", "started", "copied",
           "wired", "ready", "sent", "answered", "kept", "finishing"}]
      /\ at' \in [Process -> Step] /\ checked' \in [Process -> 0..NumSteps]
  <2>1. \/ Leave(p)
        \/ \E next \in Unsent \union AfterSend : Goto(p, next)
    BY DEF OwnAction, Journal, CopyRequest, CopyWire, Preflight, Receive, KeepResponse,
           Postflight, Finish, Die, Refuse, Fail, Unsent, AfterSend
  <2> QED
    BY <1>1, <2>1, MoveTypes
<1> QED
  BY <1>1, <1>2, <1>3, <1>4, <1>5 DEF TypeOK

\* It writes to the directory of its own step only, which stays reserved, and
\* makes the record only when it leaves.
Writes(p) ==
  \/ attempt' = attempt
  \/ /\ Working(p)
     /\ \A s \in Step \ {at[p]} : attempt'[s] = attempt[s]
     /\ attempt'[at[p]].dir = attempt[at[p]].dir
     /\ attempt'[at[p]].final = attempt[at[p]].final \/ Leave(p)

LEMMA OwnActionWrites ==
  ASSUME IInv, NEW p \in Process, OwnAction(p)
  PROVE  Writes(p)
<1>0. at[p] \in Step /\ attempt[at[p]] \in Attempts /\ attempt \in [Step -> Attempts]
  BY DEF IInv, TypeOK
<1>1. CASE Preflight(p) \/ Receive(p) \/ Postflight(p) \/ Refuse(p)
  BY <1>1 DEF Preflight, Receive, Postflight, Refuse, Writes
<1>2. CASE Journal(p)
  BY <1>0, <1>2 DEF Journal, Attempts, Working, Unsent, AfterSend, Writes
<1>3. CASE CopyRequest(p)
  BY <1>0, <1>3 DEF CopyRequest, Attempts, Working, Unsent, AfterSend, Writes
<1>4. CASE CopyWire(p)
  BY <1>0, <1>4 DEF CopyWire, Attempts, Working, Unsent, AfterSend, Writes
<1>5. CASE KeepResponse(p)
  <2>1. \/ attempt' = attempt
        \/ \E file \in FileStates : attempt' = [attempt EXCEPT ![at[p]].response = file]
    BY <1>5 DEF KeepResponse, Broken, FileStates
  <2>2. Working(p)
    BY <1>5 DEF KeepResponse, Working, Unsent, AfterSend
  <2>3. ASSUME NEW file \in FileStates, attempt' = [attempt EXCEPT ![at[p]].response = file]
        PROVE  Writes(p)
    BY <1>0, <2>2, <2>3 DEF Attempts, Writes
  <2> QED
    BY <2>1, <2>3 DEF Writes
<1>6. CASE Finish(p)
  BY <1>0, <1>6 DEF Finish, Attempts, Working, Unsent, AfterSend, Writes
<1>7. CASE Die(p)
  BY <1>0, <1>7 DEF Die, Attempts, Working, Unsent, AfterSend, Writes
<1> QED
  BY <1>1, <1>2, <1>3, <1>4, <1>5, <1>6, <1>7 DEF OwnAction

\* Each of these actions is a step of its own run.
LEMMA OwnActionKeeps ==
  ASSUME IInv, NEW p \in Process, OwnAction(p)
  PROVE  IInv'
<1>1. TypeOK'
  BY OwnActionTypes
<1>2. TypeOK /\ at[p] \in Step /\ attempt[at[p]] \in Attempts
  BY DEF IInv, TypeOK
<1>3. \/ \E next \in Unsent \union AfterSend :
           /\ Goto(p, next) /\ Working(p)
           /\ stage[p] \in AfterSend => next \in AfterSend
     \/ Leave(p)
  BY DEF OwnAction, Journal, CopyRequest, CopyWire, Preflight, Receive, KeepResponse,
         Postflight, Finish, Die, Refuse, Fail, Unsent, AfterSend, Working
<1>4. /\ stage' = [stage EXCEPT ![p] = stage'[p]]
      /\ at' = [at EXCEPT ![p] = at'[p]]
      /\ checked' = [checked EXCEPT ![p] = checked'[p]]
      /\ \/ /\ Working(p) /\ stage'[p] \in AfterSend \union Unsent
            /\ stage[p] \in AfterSend => stage'[p] \in AfterSend
            /\ at' = at /\ checked' = checked
         \/ stage'[p] = "idle" /\ checked'[p] = 0
  BY <1>2, <1>3 DEF Goto, Leave, TypeOK
<1>5. sent' = sent
  BY DEF OwnAction, Journal, CopyRequest, CopyWire, Preflight, Receive, KeepResponse,
         Postflight, Finish, Die, Refuse, Quiet
<1>6. Writes(p)
  BY OwnActionWrites
<1>7. Working(p) => attempt[at[p]].dir
  BY DEF IInv, RunOK
<1>8. Leave(p) => stage'[p] = "idle" /\ checked'[p] = 0
  BY <1>2 DEF Leave, TypeOK
<1>9. OwnStep(p)
  BY <1>2, <1>4, <1>5, <1>6, <1>7, <1>8 DEF OwnStep, Writes
<1> QED
  BY <1>1, <1>9, OwnStepKeeps

(***************************************************************************)
(* The steps by which a run gets hold of its step, and its request.        *)
(***************************************************************************)
\* A run that begins has checked nothing yet.
LEMMA LoadKeeps ==
  ASSUME IInv, NEW p \in Process, NEW s \in Step, Load(p, s)
  PROVE  IInv'
<1> USE DEF IInv, Load, Quiet, preparation, summary
<1>1. TypeOK'
  BY DEF TypeOK
<1>2. stage'[p] = "checking" /\ at'[p] = s /\ checked'[p] = 0
  BY DEF TypeOK, RunOK
<1>3. \A q \in Process \ {p} : stage'[q] = stage[q] /\ at'[q] = at[q]
  BY DEF TypeOK
<1>4. \A q \in Process : Working(q)' => Working(q) /\ at'[q] = at[q]
  BY <1>2, <1>3 DEF Working, Unsent, AfterSend
<1>5. RunOK(p)'
  BY <1>2, StepsAreNumbers DEF RunOK, Working, Unsent, AfterSend, Step
<1>6. ASSUME NEW q \in Process \ {p}
      PROVE  RunOK(q)'
  BY <1>3 DEF RunOK, Working, Readable, Finished
<1> QED
  BY <1>1, <1>4, <1>5, <1>6 DEF Alone, StepOK, ScheduleIsKept, Finished, Readable

\* What is checked next is finished, so all that is checked is.
LEMMA CheckKeeps ==
  ASSUME IInv, NEW p \in Process, Check(p)
  PROVE  IInv'
<1> USE DEF IInv, Check, Quiet, preparation, summary
<1>1. /\ checked[p] \in 0..NumSteps /\ at[p] \in 1..NumSteps /\ NumSteps \in Nat
      /\ checked'[p] = checked[p] + 1 /\ checked[p] + 1 < at[p]
  BY ScheduleAssumption DEF TypeOK, Step
<1>2. TypeOK'
  <2>1. checked[p] + 1 \in 0..NumSteps
    BY <1>1
  <2> QED
    BY <2>1 DEF TypeOK
<1>3. RunOK(p)'
  <2>1. \A s \in Step : s <= checked[p] + 1 => s <= checked[p] \/ s = checked[p] + 1
    BY <1>1 DEF Step
  <2>2. \A s \in Step : s <= checked'[p] => Readable(s)
    BY <1>1, <2>1 DEF RunOK
  <2>3. ~Working(p) /\ stage[p] = "checking"
    BY DEF Working, Unsent, AfterSend
  <2> QED
    BY <1>1, <2>2, <2>3 DEF RunOK, Working, Readable, Finished, Unsent, AfterSend
<1>4. ASSUME NEW q \in Process \ {p}
      PROVE  RunOK(q)'
  <2>1. checked'[q] = checked[q]
    BY DEF TypeOK
  <2> QED
    BY <2>1 DEF RunOK, Working, Readable, Finished
<1>5. Alone'
  BY DEF Alone, Working
<1>6. \A s \in Step : StepOK(s)'
  BY DEF StepOK, Finished
<1>7. ScheduleIsKept'
  BY DEF ScheduleIsKept, Finished, Readable
<1> QED
  BY <1>2, <1>3, <1>4, <1>5, <1>6, <1>7

\* mkdir succeeds for one process only, and all preceding steps are finished.
LEMMA ReserveKeeps ==
  ASSUME IInv, NEW p \in Process, Reserve(p)
  PROVE  IInv'
<1> USE DEF IInv, Reserve, Goto, Quiet, preparation, summary
<1>1. /\ at[p] \in Step /\ ~attempt[at[p]].dir /\ attempt[at[p]] \in Attempts
      /\ checked[p] \in Nat /\ checked[p] + 1 = at[p]
      /\ at' = at /\ checked' = checked
      /\ attempt'[at[p]] = [attempt[at[p]] EXCEPT !.dir = TRUE]
      /\ \A s \in Step \ {at[p]} : attempt'[s] = attempt[s]
  <2>1. at[p] \in Step /\ attempt \in [Step -> Attempts] /\ checked[p] \in 0..NumSteps
    BY DEF TypeOK
  <2>2. attempt' = [attempt EXCEPT ![at[p]] = [attempt[at[p]] EXCEPT !.dir = TRUE]]
    OBVIOUS
  <2>3. checked[p] \in Nat
    BY <2>1, ScheduleAssumption
  <2>4. /\ attempt'[at[p]] = [attempt[at[p]] EXCEPT !.dir = TRUE]
        /\ \A s \in Step \ {at[p]} : attempt'[s] = attempt[s]
    BY <2>1, <2>2
  <2> QED
    BY <2>1, <2>3, <2>4
<1>2. TypeOK'
  <2>1. attempt' \in [Step -> Attempts]
    BY RunTypes
  <2>2. stage' \in [Process -> {"idle", "checking", "reserved", "started", "copied",
           "wired", "ready", "sent", "answered", "kept", "finishing"}]
    BY DEF TypeOK
  <2> QED
    BY <2>1, <2>2 DEF TypeOK
<1>3. attempt'[at[p]].dir /\ attempt'[at[p]].final = attempt[at[p]].final
  BY <1>1 DEF Attempts
<1>4. \A s \in Step : attempt'[s].final = attempt[s].final
  BY <1>1, <1>3
<1>5. \A s \in Step : (Readable(s)' <=> Readable(s)) /\ (Finished(s)' <=> Finished(s))
  BY <1>4 DEF Readable, Finished
<1>6. stage'[p] = "reserved" /\ \A q \in Process \ {p} : stage'[q] = stage[q]
  BY DEF TypeOK
<1>7. \A q \in Process \ {p} : Working(q) => at[q] # at[p]
  BY <1>1 DEF RunOK
<1>8. Alone'
  BY <1>1, <1>6, <1>7 DEF Alone, Working
<1>9. RunOK(p)'
  <2>1. sent[at[p]] = 0 /\ ~Finished(at[p])
    BY <1>1 DEF StepOK
  <2>2. \A s \in Step : s <= checked[p] => Readable(s)
    BY DEF RunOK
  <2> QED
    BY <1>1, <1>3, <1>5, <1>6, <2>1, <2>2 DEF RunOK, Unsent, AfterSend
<1>10. ASSUME NEW q \in Process \ {p}
       PROVE  RunOK(q)'
  <2>1. at[q] \in Step
    BY DEF TypeOK
  <2>2. Working(q) => attempt'[at[q]] = attempt[at[q]]
    BY <1>1, <1>7, <2>1
  <2> QED
    BY <1>1, <1>5, <1>6, <2>1, <2>2 DEF RunOK, Working
<1>11. \A s \in Step : StepOK(s)'
  BY <1>1, <1>3, <1>5 DEF StepOK
<1>12. ScheduleIsKept'
  <2> SUFFICES ASSUME NEW s \in Step, NEW t \in Step, s < t, attempt'[t].dir
               PROVE  Readable(s)
    BY <1>5 DEF ScheduleIsKept
  <2>1. CASE t = at[p]
    <3>1. s <= checked[p]
      BY <1>1, <2>1, StepsAreNumbers
    <3> QED
      BY <3>1 DEF RunOK
  <2>2. CASE t # at[p]
    BY <1>1, <2>2 DEF ScheduleIsKept
  <2> QED
    BY <2>1, <2>2
<1> QED
  BY <1>2, <1>8, <1>9, <1>10, <1>11, <1>12

\* A request leaves the one process at work on its step, which has sent none.
LEMMA SendKeeps ==
  ASSUME IInv, NEW p \in Process, Send(p)
  PROVE  IInv'
<1> USE DEF IInv
<1>1. /\ at[p] \in Step /\ memo[p] \in Observations /\ sent \in [Step -> Nat]
      /\ attempt' = attempt /\ at' = at /\ checked' = checked /\ stage[p] = "ready"
      /\ stage'[p] \in AfterSend /\ stage' = [stage EXCEPT ![p] = stage'[p]]
      /\ prepared' = prepared /\ basis' = basis /\ repo' = repo
      /\ reader' = reader /\ turn' = turn /\ items' = items /\ begun' = begun
  BY DEF Send, Goto, TypeOK, Quiet, preparation, summary, AfterSend
<1>2. sent' = sent \/ sent' = [sent EXCEPT ![at[p]] = sent[at[p]] + 1]
  BY DEF Send
<1>3. memo' \in [Process -> Observations]
  <2>1. \A tried \in BOOLEAN : [memo[p] EXCEPT !.attempted = tried] \in Observations
    BY <1>1 DEF Observations
  <2>2. PICK tried \in BOOLEAN :
          memo' = [memo EXCEPT ![p] = [memo[p] EXCEPT !.attempted = tried]]
    BY DEF Send
  <2> QED
    BY <2>1, <2>2, RunTypes
<1>4. TypeOK'
  <2>1. sent' \in [Step -> Nat]
    BY <1>1, <1>2
  <2>2. stage' \in [Process -> {"idle", "checking", "reserved", "started", "copied",
           "wired", "ready", "sent", "answered", "kept", "finishing"}]
    BY <1>1 DEF TypeOK, AfterSend
  <2> QED
    BY <1>1, <1>3, <2>1, <2>2 DEF TypeOK
<1>5. sent[at[p]] = 0 /\ attempt[at[p]].dir /\ ~Finished(at[p]) /\ Working(p)
  BY <1>1 DEF RunOK, Working, Unsent
<1>6. \A s \in Step : Readable(s)' <=> Readable(s)
  BY <1>1 DEF Readable, Finished
<1>7. \A q \in Process \ {p} : stage'[q] = stage[q]
  BY <1>1 DEF TypeOK
<1>8. \A q \in Process : Working(q)' => Working(q)
  BY <1>5, <1>7 DEF Working
<1>9. Alone'
  BY <1>1, <1>8 DEF Alone
<1>10. RunOK(p)'
  BY <1>1, <1>5, <1>6 DEF RunOK, Unsent, AfterSend, Finished
<1>11. ASSUME NEW q \in Process \ {p}
       PROVE  RunOK(q)'
  <2>1. Working(q) => at[q] # at[p]
    BY <1>5 DEF Alone
  <2>2. at[q] \in Step
    BY DEF TypeOK
  <2>3. Working(q) => sent'[at[q]] = sent[at[q]]
    BY <1>1, <1>2, <2>1, <2>2
  <2> QED
    BY <1>1, <1>6, <1>7, <2>3 DEF RunOK, Working, Finished
<1>12. ASSUME NEW s \in Step
       PROVE  StepOK(s)'
  <2>1. s # at[p] => sent'[s] = sent[s]
    BY <1>1, <1>2
  <2>2. s = at[p] => sent'[s] <= 1
    BY <1>1, <1>2, <1>5
  <2> QED
    BY <1>1, <1>5, <2>1, <2>2 DEF StepOK, Finished
<1> QED
  BY <1>1, <1>4, <1>6, <1>9, <1>10, <1>11, <1>12 DEF ScheduleIsKept

\* What leaves the runs alone leaves what is known of them.
LEMMA OthersKeep ==
  ASSUME IInv, TypeOK', UNCHANGED runs
  PROVE  IInv'
BY DEF runs, IInv, RunOK, Alone, Working, StepOK, ScheduleIsKept, Finished, Readable

\* The preparation and an edit do not concern the runs.
LEMMA WorldKeeps ==
  ASSUME IInv, Capture \/ MakeCue \/ Freeze \/ FailPreparation \/ Edit
  PROVE  IInv'
<1>1. TypeOK' /\ UNCHANGED runs
  BY DEF IInv, TypeOK, Capture, MakeCue, Freeze, FailPreparation, Edit, preparation,
         runs, summary
<1> QED
  BY <1>1, OthersKeep

\* What the files amount to is an inventory line.
LEMMA ItemTypes ==
  ASSUME NEW a \in Attempts
  PROVE  /\ ItemOf(a) \in Items /\ NotRun \in Items /\ Invalid \in Items
         /\ [Invalid EXCEPT !.status = "started"] \in Items
         /\ Invalid.status = "invalid" /\ NotRun.status = "not_run"
         /\ ItemOf(a).status # "not_run"
<1>1. NotRun \in Items /\ Invalid \in Items /\ [Invalid EXCEPT !.status = "started"] \in Items
  BY DEF NotRun, Invalid, Items
<1>2. /\ a.final.status \in {"started", "completed", "failed"}
      /\ a.final.written \in BOOLEAN /\ a.final.reply.costed \in BOOLEAN
  BY DEF Attempts, Observations, AllReplies
<1>3. Good(a.final) \in BOOLEAN
  BY DEF Good
<1>4. ItemOf(a) \in Items
  <2> DEFINE bare == [NotRun EXCEPT !.status = a.final.status, !.integrity = TRUE,
                                    !.delivery = a.final.written]
  <2>1. bare \in Items
    BY <1>1, <1>2 DEF Items
  <2> HIDE DEF bare
  <2>2. /\ \A r \in BOOLEAN : [bare EXCEPT !.refused = r] \in Items
        /\ [bare EXCEPT !.integrity = FALSE, !.delivery = FALSE, !.refused = TRUE] \in Items
        /\ \A c, g, r \in BOOLEAN :
             [bare EXCEPT !.costed = c, !.scored = g, !.refused = r] \in Items
    BY <2>1 DEF Items
  <2>3. \/ ItemOf(a) = Invalid \/ ItemOf(a) = bare
        \/ ItemOf(a) = [bare EXCEPT !.refused = a.response # "absent"]
        \/ ItemOf(a) = [bare EXCEPT !.refused = TRUE]
        \/ ItemOf(a) = [bare EXCEPT !.integrity = FALSE, !.delivery = FALSE, !.refused = TRUE]
        \/ ItemOf(a) = [bare EXCEPT !.costed = a.final.reply.costed, !.scored = Good(a.final),
             !.refused = a.final.status = "completed" /\ ~Good(a.final)]
    BY DEF ItemOf, bare
  <2> QED
    BY <1>1, <1>2, <1>3, <2>1, <2>2, <2>3
<1>5. ItemOf(a).status # "not_run"
  BY <1>2 DEF ItemOf, NotRun, Invalid
<1> QED
  BY <1>1, <1>4, <1>5 DEF NotRun, Invalid

(***************************************************************************)
(* The summary.                                                            *)
(***************************************************************************)
\* A file is looked at, and a line may be added to the inventory.
LookStep ==
  /\ Looking
  /\ \/ UNCHANGED <<turn, items>> /\ reader' \in {"start", "final", "files"}
     \/ \E item \in Items : Inventory(item)

\* Every look at a file does that.
LEMMA LooksAreSteps == TypeOK /\ Look => LookStep
<1> SUFFICES ASSUME TypeOK, Look PROVE LookStep
  OBVIOUS
<1>1. turn \in Step /\ attempt[turn] \in Attempts
  BY DEF TypeOK
<1>2. CASE LookForDirectory
  BY <1>1, <1>2, ItemTypes DEF LookForDirectory, LookStep
<1>3. CASE LookForStart
  BY <1>1, <1>3, ItemTypes DEF LookForStart, LookStep
<1>4. CASE LookForRecord
  BY <1>1, <1>4, ItemTypes DEF LookForRecord, LookStep
<1>5. CASE ReadFiles
  BY <1>1, <1>5, ItemTypes DEF ReadFiles, LookStep
<1> QED
  BY <1>2, <1>3, <1>4, <1>5 DEF Look

\* The turn stays a step of the schedule.
LEMMA TurnTypes ==
  ASSUME TypeOK, LookStep
  PROVE  TypeOK' /\ UNCHANGED runs
<1>1. UNCHANGED <<prepared, basis, repo, runs, begun>>
  BY DEF LookStep, Looking, preparation
<1>2. turn \in 1..NumSteps /\ NumSteps \in Nat
  BY ScheduleAssumption DEF TypeOK, Step
<1>3. turn' \in Step /\ items' \in [Step -> Items]
      /\ reader' \in {"idle", "directory", "start", "final", "files", "done"}
  <2>1. CASE UNCHANGED <<turn, items>> /\ reader' \in {"start", "final", "files"}
    BY <2>1 DEF TypeOK
  <2>2. ASSUME NEW item \in Items, Inventory(item)
        PROVE  /\ turn' \in Step /\ items' \in [Step -> Items]
               /\ reader' \in {"directory", "done"}
    <3>1. turn' \in Step
      BY <1>2, <2>2 DEF Inventory, Step
    <3>2. items' \in [Step -> Items]
      BY <2>2 DEF Inventory, TypeOK
    <3> QED
      BY <2>2, <3>1, <3>2 DEF Inventory
  <2> QED
    BY <2>1, <2>2 DEF LookStep
<1> QED
  BY <1>1, <1>3 DEF TypeOK, runs

\* A summary only reads.
LEMMA SummaryKeeps ==
  ASSUME IInv, Summarize \/ Look \/ Report
  PROVE  IInv'
<1>0. TypeOK
  BY DEF IInv
<1>1. CASE Summarize
  <2>1. TypeOK' /\ UNCHANGED runs
    BY <1>0, <1>1 DEF Summarize, TypeOK, preparation, runs
  <2> QED
    BY <2>1, OthersKeep
<1>2. CASE Look
  BY <1>0, <1>2, LooksAreSteps, TurnTypes, OthersKeep
<1>3. CASE Report
  <2>1. NotRun \in Items
    BY DEF NotRun, Items
  <2>2. TypeOK' /\ UNCHANGED runs
    BY <1>0, <1>3, <2>1 DEF Report, TypeOK, preparation, runs
  <2> QED
    BY <2>2, OthersKeep
<1> QED
  BY <1>1, <1>2, <1>3

(***************************************************************************)
(* The theorems about the runs.                                            *)
(***************************************************************************)
RunAction(p) ==
  OwnAction(p) \/ Check(p) \/ Reserve(p) \/ Send(p) \/ \E s \in Step : Load(p, s)

\* The actions of the runs, those of the others, and nothing else.
LEMMA NextIsOneOf ==
  ASSUME [Next]_vars
  PROVE  \/ \E p \in Process : RunAction(p)
         \/ Capture \/ MakeCue \/ Freeze \/ FailPreparation \/ Edit
         \/ Summarize \/ Look \/ Report
         \/ UNCHANGED vars
BY DEF Next, Work, RunAction, OwnAction

\* Every step keeps the inductive invariant.
LEMMA NextKeeps == IInv /\ [Next]_vars => IInv'
<1> SUFFICES ASSUME IInv, [Next]_vars PROVE IInv'
  OBVIOUS
<1>1. ASSUME NEW p \in Process, RunAction(p)
      PROVE  IInv'
  BY <1>1, OwnActionKeeps, CheckKeeps, ReserveKeeps, SendKeeps, LoadKeeps DEF RunAction
<1>2. CASE Capture \/ MakeCue \/ Freeze \/ FailPreparation \/ Edit
  BY <1>2, WorldKeeps
<1>3. CASE Summarize \/ Look \/ Report
  BY <1>3, SummaryKeeps
<1>4. CASE UNCHANGED vars
  <2>1. TypeOK'
    BY <1>4 DEF IInv, TypeOK, vars, preparation, runs, summary
  <2> QED
    BY <1>4, <2>1, OthersKeep DEF vars
<1> QED
  BY <1>1, <1>2, <1>3, <1>4, NextIsOneOf

\* A reserved step has one owner until it has a record, whatever runs race,
\* fail or die: what the code relies on mkdir for.
THEOREM CacheInvariance == Spec => []IInv
<1>1. Init => IInv
  BY InitIsOK
<1>2. IInv /\ [Next]_vars => IInv'
  BY NextKeeps
<1> QED
  BY <1>1, <1>2, PTL DEF Spec

\* The type invariant.
THEOREM CacheTypeCorrect == Spec => []TypeOK
<1>1. IInv => TypeOK
  BY DEF IInv
<1> QED
  BY <1>1, CacheInvariance, PTL

\* No request of the schedule reaches the provider twice.
THEOREM RequestsAreNotRepeatedAlways == Spec => []RequestsAreNotRepeated
<1>1. IInv => RequestsAreNotRepeated
  BY DEF IInv, StepOK, RequestsAreNotRepeated
<1> QED
  BY <1>1, CacheInvariance, PTL

\* A step is only reserved when those before it are finished for good.
THEOREM ScheduleIsKeptAlways == Spec => []ScheduleIsKept
<1>1. IInv => ScheduleIsKept
  BY DEF IInv
<1> QED
  BY <1>1, CacheInvariance, PTL

\* What is reserved stays reserved, and what has a record stays as it is: only
\* the owner writes, and there is no owner after the record.
LEMMA RecordsStay ==
  ASSUME IInv, [Next]_vars, NEW s \in Step
  PROVE  /\ Finished(s) => attempt'[s] = attempt[s]
         /\ attempt[s].dir => attempt'[s].dir
<1>1. ASSUME NEW p \in Process, OwnAction(p)
      PROVE  /\ Finished(s) => attempt'[s] = attempt[s]
             /\ attempt[s].dir => attempt'[s].dir
  <2>1. Writes(p)
    BY <1>1, OwnActionWrites
  <2>2. Working(p) => ~Finished(at[p])
    BY DEF IInv, RunOK
  <2> QED
    BY <2>1, <2>2 DEF Writes
<1>2. ASSUME NEW p \in Process, Reserve(p)
      PROVE  /\ Finished(s) => attempt'[s] = attempt[s]
             /\ attempt[s].dir => attempt'[s].dir
  <2>1. at[p] \in Step /\ attempt \in [Step -> Attempts] /\ ~attempt[at[p]].dir
    BY <1>2 DEF IInv, TypeOK, Reserve
  <2>2. ~Finished(at[p])
    BY <2>1 DEF IInv, StepOK
  <2>3. s # at[p] => attempt'[s] = attempt[s]
    BY <1>2, <2>1 DEF Reserve
  <2> QED
    BY <2>1, <2>2, <2>3
<1>3. ASSUME attempt' = attempt
      PROVE  /\ Finished(s) => attempt'[s] = attempt[s]
             /\ attempt[s].dir => attempt'[s].dir
  BY <1>3
<1>4. ASSUME NEW p \in Process, Check(p) \/ Send(p) \/ \E t \in Step : Load(p, t)
      PROVE  attempt' = attempt
  BY <1>4 DEF Check, Send, Load
<1>5. Capture \/ MakeCue \/ Freeze \/ FailPreparation \/ Edit \/ Summarize \/ Report
        \/ UNCHANGED vars => attempt' = attempt
  BY DEF Capture, MakeCue, Freeze, FailPreparation, Edit, Summarize, Report, vars, runs
<1>6. Look => attempt' = attempt
  BY DEF Look, LookForDirectory, LookForStart, LookForRecord, ReadFiles, Looking, runs
<1> QED
  BY <1>1, <1>2, <1>3, <1>4, <1>5, <1>6, NextIsOneOf DEF RunAction

\* A finished attempt never changes again.
THEOREM RecordsAreFinalAlways == Spec => RecordsAreFinal
<1>1. IInv /\ [Next]_vars => [\A s \in Step : Finished(s) => attempt'[s] = attempt[s]]_vars
  BY RecordsStay
<1> QED
  BY <1>1, CacheInvariance, PTL DEF Spec, RecordsAreFinal

(***************************************************************************)
(* What a summary made of an attempt stays true.                           *)
(***************************************************************************)
\* The line of a step that the summary has passed.
Lasting(s) ==
  /\ items[s].status \in {"completed", "failed"} =>
       Finished(s) /\ items[s] = ItemOf(attempt[s])
  /\ items[s].status = "not_run" => s \notin begun

SummaryOK ==
  /\ reader # "idle" => prepared = "prepared"
  /\ reader \in {"idle", "done"} => turn = 1
  /\ \A s \in begun : attempt[s].dir
  /\ reader = "files" => Finished(turn)
  /\ \A s \in Step : reader = "done" \/ (reader # "idle" /\ s < turn) => Lasting(s)

SInv == IInv /\ SummaryOK

\* What the runs do cannot change a finished attempt, nor undo a reservation.
LEMMA RunsLeaveSummary ==
  ASSUME SInv, [Next]_vars, UNCHANGED <<preparation, summary>>
  PROVE  SummaryOK'
<1>1. \A s \in Step : /\ Finished(s) => attempt'[s] = attempt[s]
                      /\ attempt[s].dir => attempt'[s].dir
  BY RecordsStay DEF SInv
<1>2. /\ prepared' = prepared /\ basis' = basis /\ reader' = reader /\ turn' = turn
      /\ items' = items /\ begun' = begun
  BY DEF preparation, summary
<1>3. turn \in Step /\ begun \subseteq Step
  BY DEF SInv, IInv, TypeOK
<1>4. ASSUME NEW s \in Step, Lasting(s)
      PROVE  Lasting(s)'
  <2>1. Finished(s) => ItemOf(attempt[s])' = ItemOf(attempt[s]) /\ Finished(s)'
    BY <1>1, <1>2 DEF ItemOf, Good, Finished
  <2> QED
    BY <1>2, <1>4, <2>1 DEF Lasting
<1>5. Finished(turn) => Finished(turn)'
  BY <1>1, <1>2, <1>3 DEF Finished
<1>6. \A s \in begun' : attempt'[s].dir
  BY <1>1, <1>2, <1>3 DEF SInv, SummaryOK
<1> QED
  BY <1>2, <1>4, <1>5, <1>6 DEF SInv, SummaryOK

\* The files of a look are those of the attempts, which it leaves as they are.
LEMMA LooksLast ==
  ASSUME SInv, Look
  PROVE  SummaryOK'
<1>1. /\ prepared' = prepared /\ basis' = basis /\ attempt' = attempt /\ begun' = begun
      /\ reader \notin {"idle", "done"}
  BY DEF Look, LookForDirectory, LookForStart, LookForRecord, ReadFiles, Looking,
         preparation, runs
<1>2. /\ turn \in Step /\ attempt[turn] \in Attempts /\ items \in [Step -> Items]
      /\ NumSteps \in Nat /\ Step \subseteq Nat
  BY ScheduleAssumption, StepsAreNumbers DEF SInv, IInv, TypeOK
<1>3. prepared = "prepared" /\ \A s \in begun : attempt[s].dir
  BY <1>1 DEF SInv, SummaryOK
<1>4. CASE /\ UNCHANGED <<turn, items>> /\ reader' \in {"start", "final", "files"}
           /\ reader' = "files" => Finished(turn)
  <2>1. \A s \in Step : Lasting(s)' <=> Lasting(s)
    BY <1>1, <1>4 DEF Lasting, ItemOf, Good, Finished
  <2> QED
    BY <1>1, <1>3, <1>4, <2>1 DEF SInv, SummaryOK, Finished
<1>5. ASSUME NEW item \in Items, Inventory(item),
             item.status \in {"completed", "failed"} =>
               Finished(turn) /\ item = ItemOf(attempt[turn]),
             item.status = "not_run" => turn \notin begun
      PROVE  SummaryOK'
  <2>1. items'[turn] = item /\ \A s \in Step \ {turn} : items'[s] = items[s]
    BY <1>2, <1>5 DEF Inventory
  <2>2. ASSUME NEW s \in Step, s = turn \/ Lasting(s)
        PROVE  Lasting(s)'
    <3>1. ItemOf(attempt[s])' = ItemOf(attempt[s]) /\ (Finished(s)' <=> Finished(s))
      BY <1>1 DEF ItemOf, Good, Finished
    <3>2. CASE s = turn
      BY <1>1, <1>5, <2>1, <3>1, <3>2 DEF Lasting
    <3>3. CASE s # turn
      BY <1>1, <2>1, <2>2, <3>1, <3>3 DEF Lasting
    <3> QED
      BY <3>2, <3>3
  <2>3. \A s \in Step : s < turn => Lasting(s)
    BY <1>1 DEF SInv, SummaryOK
  <2>4. CASE turn = NumSteps
    <3>1. reader' = "done" /\ turn' = 1
      BY <1>5, <2>4 DEF Inventory
    <3>2. \A s \in Step : s < turn \/ s = turn
      BY <1>2, <2>4 DEF Step
    <3> QED
      BY <1>1, <1>3, <2>2, <2>3, <3>1, <3>2 DEF SummaryOK
  <2>5. CASE turn # NumSteps
    <3>1. reader' = "directory" /\ turn' = turn + 1
      BY <1>5, <2>5 DEF Inventory
    <3>2. \A s \in Step : s < turn + 1 => s < turn \/ s = turn
      BY <1>2
    <3> QED
      BY <1>1, <1>3, <2>2, <2>3, <3>1, <3>2 DEF SummaryOK
  <2> QED
    BY <2>4, <2>5
<1>6. NotRun \in Items /\ Invalid \in Items /\ [Invalid EXCEPT !.status = "started"] \in Items
  BY <1>2, ItemTypes
<1>7. /\ Invalid.status = "invalid" /\ NotRun.status = "not_run"
      /\ [Invalid EXCEPT !.status = "started"].status = "started"
  BY DEF Invalid, NotRun
<1>8. CASE LookForDirectory
  <2>1. ~attempt[turn].dir => turn \notin begun
    BY <1>3
  <2> QED
    BY <1>4, <1>5, <1>6, <1>7, <1>8, <2>1 DEF LookForDirectory
<1>9. CASE LookForStart
  BY <1>4, <1>5, <1>6, <1>7, <1>9 DEF LookForStart
<1>10. CASE LookForRecord
  BY <1>4, <1>5, <1>6, <1>7, <1>10 DEF LookForRecord
<1>11. CASE ReadFiles
  <2>1. Finished(turn)
    BY <1>11 DEF ReadFiles, SInv, SummaryOK
  <2>2. ItemOf(attempt[turn]) \in Items /\ ItemOf(attempt[turn]).status # "not_run"
    BY <1>2, ItemTypes
  <2> QED
    BY <1>5, <1>11, <2>1, <2>2 DEF ReadFiles
<1> QED
  BY <1>8, <1>9, <1>10, <1>11 DEF Look

\* Before the first look and after the report there is nothing to keep.
LEMMA NextKeepsSummary == SInv /\ [Next]_vars => SInv'
<1> SUFFICES ASSUME SInv, [Next]_vars PROVE SummaryOK'
  BY NextKeeps DEF SInv
<1>1. ASSUME NEW p \in Process, RunAction(p)
      PROVE  SummaryOK'
  <2>1. Quiet
    BY <1>1 DEF RunAction, OwnAction, Journal, CopyRequest, CopyWire, Preflight, Receive,
           KeepResponse, Postflight, Finish, Die, Refuse, Check, Reserve, Send, Load
  <2> QED
    BY <2>1, RunsLeaveSummary DEF Quiet
<1>2. CASE UNCHANGED vars
  BY <1>2, RunsLeaveSummary DEF vars
<1>3. CASE Edit
  BY <1>3, RunsLeaveSummary DEF Edit
<1>4. CASE Capture \/ MakeCue \/ Freeze \/ FailPreparation
  <2>1. reader = "idle"
    BY <1>4 DEF Capture, MakeCue, Freeze, FailPreparation, SInv, SummaryOK
  <2>2. reader' = reader /\ turn' = turn /\ begun' = begun /\ attempt' = attempt
    BY <1>4 DEF Capture, MakeCue, Freeze, FailPreparation, runs, summary
  <2> QED
    BY <2>1, <2>2 DEF SInv, SummaryOK
<1>5. CASE Summarize
  <2>1. /\ reader' = "directory" /\ prepared' = "prepared" /\ turn' = 1
        /\ attempt' = attempt /\ begun' = {s \in Step : attempt[s].dir}
    BY <1>5 DEF Summarize, preparation, runs, SInv, SummaryOK
  <2>2. \A s \in Step : ~(s < 1)
    BY ScheduleAssumption DEF Step
  <2> QED
    BY <2>1, <2>2 DEF SummaryOK
<1>6. CASE Look
  BY <1>6, LooksLast
<1>7. CASE Report
  <2>1. reader' = "idle" /\ turn' = 1 /\ begun' = {}
    BY <1>7 DEF Report, SInv, SummaryOK
  <2> QED
    BY <2>1 DEF SummaryOK
<1> QED
  BY <1>1, <1>2, <1>3, <1>4, <1>5, <1>6, <1>7, NextIsOneOf

\* A summary taken while runs go on tells what one taken after them will of the
\* attempts it saw finished.
THEOREM SummaryIsLastingAlways == Spec => []SummaryIsLasting
<1>1. Init => SInv
  <2>1. Init => SummaryOK
    BY DEF Init, SummaryOK
  <2> QED
    BY <2>1, InitIsOK DEF SInv
<1>2. SInv /\ [Next]_vars => SInv'
  BY NextKeepsSummary
<1>3. SInv => SummaryIsLasting
  <2> SUFFICES ASSUME SInv, reader = "done", NEW s \in Step
               PROVE  /\ items[s].status \in {"completed", "failed"} =>
                           items[s] = ItemOf(attempt[s])
                      /\ items[s].status = "not_run" => s \notin begun
    BY DEF SummaryIsLasting
  <2>1. Lasting(s)
    BY DEF SInv, SummaryOK
  <2> QED
    BY <2>1 DEF Lasting
<1> QED
  BY <1>1, <1>2, <1>3, PTL DEF Spec

(***************************************************************************)
(* What a record says of its request.                                      *)
(***************************************************************************)
Ready == {"ready", "sent", "answered", "kept"}

\* What observation o, kept with the files a, says of a step whose request was
\* sent n times: a reply came to a request that was sent, and what is completed
\* was answered, on the prepared basis, with all its files in place.
Founded(o, a, n) ==
  /\ o.reply # NoReply => n = 1
  /\ o.status = "completed" =>
       /\ o.before = basis /\ o.after = basis /\ o.reply.answered
       /\ a.request = "whole" /\ a.wire = "whole" /\ a.response = "whole"

\* The observation and the files of a run grow with its stage.
MemoOK(p) ==
  /\ ~Working(p) => memo[p] = Started
  /\ Working(p) => Founded(memo[p], attempt[at[p]], sent[at[p]])
  /\ Working(p) /\ stage[p] # "finishing" => memo[p].status = "started"
  /\ stage[p] = "sent" => sent[at[p]] = 1
  /\ stage[p] \in Ready => memo[p].before = basis
  /\ stage[p] \in {"copied", "wired"} \union Ready => attempt[at[p]].request = "whole"
  /\ stage[p] \in {"wired"} \union Ready => attempt[at[p]].wire = "whole"
  /\ stage[p] = "kept" /\ memo[p].reply.body # "none" => attempt[at[p]].response = "whole"

RecordOK(s) == Finished(s) => Founded(attempt[s].final, attempt[s], sent[s])

\* Nothing runs, and nothing has run, while the basis may still be chosen.
Settled ==
  prepared # "prepared" =>
    (\A p \in Process : stage[p] = "idle") /\ (\A s \in Step : ~Finished(s))

MInv ==
  /\ IInv
  /\ \A p \in Process : MemoOK(p)
  /\ \A s \in Step : RecordOK(s)
  /\ Settled

\* Each action of a run leaves the step or goes on with it, and does not concern
\* the preparation nor what was sent.
LEMMA OwnActionMoves ==
  ASSUME NEW p \in Process, OwnAction(p)
  PROVE  /\ Quiet /\ sent' = sent
         /\ Leave(p) \/ \E next \in Unsent \union AfterSend : Goto(p, next)
<1> USE DEF Unsent, AfterSend
<1>1. CASE Journal(p)
  BY <1>1 DEF Journal
<1>2. CASE CopyRequest(p)
  BY <1>2 DEF CopyRequest, Fail
<1>3. CASE CopyWire(p)
  BY <1>3 DEF CopyWire, Fail
<1>4. CASE Preflight(p)
  BY <1>4 DEF Preflight, Fail
<1>5. CASE Receive(p)
  BY <1>5 DEF Receive
<1>6. CASE KeepResponse(p)
  BY <1>6 DEF KeepResponse, Fail
<1>7. CASE Postflight(p)
  BY <1>7 DEF Postflight, Fail
<1>8. CASE Finish(p) \/ Die(p) \/ Refuse(p)
  BY <1>8 DEF Finish, Die, Refuse
<1> QED
  BY <1>1, <1>2, <1>3, <1>4, <1>5, <1>6, <1>7, <1>8 DEF OwnAction

\* A run does not touch what belongs to another.
LEMMA OtherRunsStay ==
  ASSUME IInv, NEW p \in Process, RunAction(p), NEW q \in Process \ {p}
  PROVE  /\ stage'[q] = stage[q] /\ at'[q] = at[q] /\ memo'[q] = memo[q]
         /\ Working(q) => attempt'[at[q]] = attempt[at[q]] /\ sent'[at[q]] = sent[at[q]]
<1>1. TypeOK /\ at[q] \in Step /\ at[p] \in Step
  BY DEF IInv, TypeOK
<1>2. Working(q) /\ Working(p) => at[q] # at[p]
  BY DEF IInv, Alone
<1>3. CASE OwnAction(p)
  <2>1. Leave(p) \/ \E next \in Unsent \union AfterSend : Goto(p, next)
    BY <1>3, OwnActionMoves
  <2>2. stage'[q] = stage[q] /\ at'[q] = at[q]
    BY <1>1, <2>1 DEF Leave, Goto, TypeOK
  <2>3. memo'[q] = memo[q]
    <3>1. CASE Journal(p) \/ Finish(p) \/ Die(p) \/ Refuse(p)
      BY <1>1, <3>1 DEF Journal, Finish, Die, Refuse, Leave, TypeOK
    <3>2. CASE CopyRequest(p) \/ CopyWire(p) \/ KeepResponse(p)
      BY <1>1, <3>2 DEF CopyRequest, CopyWire, KeepResponse, Fail, TypeOK
    <3>3. CASE Preflight(p)
      BY <1>1, <3>3 DEF Preflight, Fail, TypeOK
    <3>4. CASE Receive(p)
      BY <1>1, <3>4 DEF Receive, TypeOK
    <3>5. CASE Postflight(p)
      BY <1>1, <3>5 DEF Postflight, Fail, TypeOK
    <3> QED
      BY <1>3, <3>1, <3>2, <3>3, <3>4, <3>5 DEF OwnAction
  <2>4. sent' = sent
    BY <1>3, OwnActionMoves
  <2>5. Writes(p)
    BY <1>3, OwnActionWrites
  <2>6. Working(q) => attempt'[at[q]] = attempt[at[q]]
    BY <1>1, <1>2, <2>5 DEF Writes
  <2> QED
    BY <2>2, <2>3, <2>4, <2>6
<1>4. CASE Check(p) \/ \E s \in Step : Load(p, s)
  BY <1>1, <1>4 DEF Check, Load, TypeOK
<1>5. CASE Reserve(p)
  <2>1. Working(q) => at[q] # at[p]
    BY <1>5 DEF Reserve, IInv, RunOK
  <2> QED
    BY <1>1, <1>5, <2>1 DEF Reserve, Goto, TypeOK
<1>6. CASE Send(p)
  <2>1. Working(p)
    BY <1>6 DEF Send, Working, Unsent
  <2> QED
    BY <1>1, <1>2, <1>6, <2>1 DEF Send, Goto, TypeOK
<1> QED
  BY <1>3, <1>4, <1>5, <1>6 DEF RunAction

\* Nor does what they do concern the preparation.
LEMMA RunsAreQuiet ==
  ASSUME NEW p \in Process, RunAction(p)
  PROVE  /\ prepared' = prepared /\ basis' = basis /\ repo' = repo
         /\ UNCHANGED summary
<1>1. Quiet
  BY OwnActionMoves DEF RunAction, Check, Reserve, Send, Load
<1> QED
  BY <1>1 DEF Quiet, preparation

\* One that leaves starts anew.
LEMMA LeavingIsOK ==
  ASSUME TypeOK, NEW p \in Process, Leave(p)
  PROVE  MemoOK(p)'
<1>1. stage'[p] = "idle" /\ memo'[p] = Started
  BY DEF Leave, TypeOK
<1> QED
  BY <1>1 DEF MemoOK, Working, Unsent, AfterSend, Ready

\* A failed run keeps what it knows of its request.
LEMMA FailingIsOK ==
  ASSUME TypeOK, NEW p \in Process, NEW o \in Observations, Fail(p, o),
         o.reply # NoReply => sent'[at[p]] = 1
  PROVE  MemoOK(p)'
<1>1. stage'[p] = "finishing" /\ at'[p] = at[p]
  BY DEF Fail, Goto, TypeOK
<1>2. memo'[p] = [o EXCEPT !.status = "failed"]
  BY DEF Fail, TypeOK
<1>3. memo'[p].status = "failed" /\ memo'[p].reply = o.reply
  BY <1>2 DEF Observations
<1> QED
  BY <1>1, <1>3 DEF MemoOK, Founded, Working, AfterSend, Ready

\* Each action of a run brings its observation and its files along.
LEMMA RunActionMemo ==
  ASSUME MInv, NEW p \in Process, RunAction(p)
  PROVE  MemoOK(p)'
<1>1. /\ TypeOK /\ at[p] \in Step /\ memo[p] \in Observations /\ sent \in [Step -> Nat]
      /\ attempt \in [Step -> Attempts] /\ attempt[at[p]] \in Attempts
      /\ memo \in [Process -> Observations]
  BY DEF MInv, IInv, TypeOK
<1>2. MemoOK(p)
  BY DEF MInv
<1>3. basis' = basis
  BY RunsAreQuiet
<1>4. stage[p] \in Unsent => memo[p].reply = NoReply /\ sent[at[p]] = 0
  BY <1>2 DEF MInv, IInv, RunOK, MemoOK, Working, Founded
<1>5. ASSUME NEW next \in Unsent \union AfterSend, Goto(p, next)
      PROVE  stage'[p] = next /\ at'[p] = at[p]
  BY <1>1, <1>5 DEF Goto, TypeOK
<1>6. CASE Leave(p)
  BY <1>1, <1>6, LeavingIsOK
<1>7. CASE Check(p) \/ \E s \in Step : Load(p, s)
  <2>1. stage'[p] = "checking" /\ memo' = memo /\ ~Working(p)
    BY <1>1, <1>7 DEF Load, Check, TypeOK, Working, Unsent, AfterSend
  <2> QED
    BY <1>2, <2>1 DEF MemoOK, Working, Unsent, AfterSend, Ready
<1>8. CASE Reserve(p)
  <2>1. stage'[p] = "reserved" /\ memo' = memo /\ ~Working(p)
    BY <1>1, <1>5, <1>8 DEF Reserve, Unsent, AfterSend, Working
  <2>2. memo'[p] = Started
    BY <1>2, <2>1 DEF MemoOK
  <2> QED
    BY <2>1, <2>2 DEF MemoOK, Working, Unsent, AfterSend, Ready, Founded, Started
<1>9. CASE Journal(p)
  <2>1. ASSUME Goto(p, "started"), memo' = memo, stage[p] = "reserved"
        PROVE  MemoOK(p)'
    <3>1. stage'[p] = "started"
      BY <1>5, <2>1 DEF Unsent
    <3>2. memo[p].status = "started" /\ memo[p].reply = NoReply
      BY <1>2, <1>4, <2>1 DEF MemoOK, Working, Unsent
    <3> QED
      BY <2>1, <3>1, <3>2 DEF MemoOK, Working, Unsent, AfterSend, Ready, Founded
  <2> QED
    BY <1>6, <1>9, <2>1 DEF Journal
<1>10. CASE CopyRequest(p)
  <2>1. stage[p] = "started" /\ memo[p].reply = NoReply /\ memo[p].status = "started"
    BY <1>2, <1>4, <1>10 DEF CopyRequest, MemoOK, Working, Unsent
  <2>2. CASE Fail(p, memo[p])
    BY <1>1, <2>1, <2>2, FailingIsOK
  <2>3. CASE /\ attempt' = [attempt EXCEPT ![at[p]].request = "whole"]
             /\ Goto(p, "copied")
             /\ UNCHANGED memo
    <3>1. stage'[p] = "copied" /\ at'[p] = at[p]
      BY <1>5, <2>3 DEF Unsent
    <3>2. attempt'[at[p]].request = "whole"
      BY <1>1, <2>3 DEF Attempts
    <3> QED
      BY <2>1, <2>3, <3>1, <3>2 DEF MemoOK, Working, Unsent, AfterSend, Ready, Founded
  <2> QED
    BY <1>10, <2>2, <2>3 DEF CopyRequest
<1>11. CASE CopyWire(p)
  <2>1. /\ stage[p] = "copied" /\ memo[p].reply = NoReply /\ memo[p].status = "started"
        /\ attempt[at[p]].request = "whole"
    BY <1>2, <1>4, <1>11 DEF CopyWire, MemoOK, Working, Unsent
  <2>2. CASE Fail(p, memo[p])
    BY <1>1, <2>1, <2>2, FailingIsOK
  <2>3. CASE /\ attempt' = [attempt EXCEPT ![at[p]].wire = "whole"]
             /\ Goto(p, "wired")
             /\ UNCHANGED memo
    <3>1. stage'[p] = "wired" /\ at'[p] = at[p]
      BY <1>5, <2>3 DEF Unsent
    <3>2. attempt'[at[p]].wire = "whole" /\ attempt'[at[p]].request = "whole"
      BY <1>1, <2>1, <2>3 DEF Attempts
    <3> QED
      BY <2>1, <2>3, <3>1, <3>2 DEF MemoOK, Working, Unsent, AfterSend, Ready, Founded
  <2> QED
    BY <1>11, <2>2, <2>3 DEF CopyWire
<1>12. CASE Preflight(p)
  <2>1. /\ stage[p] = "wired" /\ memo[p].reply = NoReply /\ memo[p].status = "started"
        /\ attempt[at[p]].request = "whole" /\ attempt[at[p]].wire = "whole"
        /\ attempt' = attempt
    BY <1>2, <1>4, <1>12 DEF Preflight, MemoOK, Working, Unsent
  <2> DEFINE seen == [memo[p] EXCEPT !.before = repo]
  <2>2. /\ seen \in Observations /\ seen.reply = NoReply /\ seen.status = "started"
        /\ seen.before = repo
    BY <1>1, <2>1 DEF Observations, TypeOK
  <2>3. \/ Fail(p, memo[p])
        \/ Fail(p, seen)
        \/ repo = basis /\ Goto(p, "ready") /\ memo' = [memo EXCEPT ![p] = seen]
    BY <1>12 DEF Preflight
  <2> HIDE DEF seen
  <2>4. CASE Fail(p, memo[p]) \/ Fail(p, seen)
    BY <1>1, <2>1, <2>2, <2>4, FailingIsOK
  <2>5. CASE repo = basis /\ Goto(p, "ready") /\ memo' = [memo EXCEPT ![p] = seen]
    <3>1. stage'[p] = "ready" /\ at'[p] = at[p]
      BY <1>5, <2>5 DEF Unsent
    <3>2. memo'[p] = seen
      BY <1>1, <2>5
    <3> QED
      BY <1>3, <2>1, <2>2, <2>5, <3>1, <3>2
         DEF MemoOK, Working, Unsent, AfterSend, Ready, Founded
  <2> QED
    BY <2>3, <2>4, <2>5
<1>13. CASE Send(p)
  <2>1. /\ stage[p] = "ready" /\ memo[p].reply = NoReply /\ memo[p].status = "started"
        /\ attempt[at[p]].request = "whole" /\ attempt[at[p]].wire = "whole"
        /\ memo[p].before = basis /\ attempt' = attempt /\ sent[at[p]] = 0
    BY <1>2, <1>4, <1>13 DEF Send, MemoOK, Working, Unsent, Ready
  <2>2. PICK tried \in BOOLEAN : memo' = [memo EXCEPT ![p].attempted = tried]
    BY <1>13 DEF Send
  <2>3. /\ memo'[p].reply = NoReply /\ memo'[p].status = "started"
        /\ memo'[p].before = basis
    BY <1>1, <2>1, <2>2 DEF Observations
  <2>4. \/ Goto(p, "answered")
        \/ Goto(p, "sent") /\ sent' = [sent EXCEPT ![at[p]] = @ + 1]
    BY <1>13 DEF Send
  <2>5. /\ stage'[p] \in {"answered", "sent"} /\ at'[p] = at[p]
        /\ stage'[p] = "sent" => sent' = [sent EXCEPT ![at[p]] = @ + 1]
    BY <1>5, <2>4 DEF AfterSend
  <2>6. stage'[p] = "sent" => sent'[at[p]] = 1
    BY <1>1, <2>1, <2>5
  <2> QED
    BY <1>3, <2>1, <2>3, <2>5, <2>6
       DEF MemoOK, Working, Unsent, AfterSend, Ready, Founded
<1>14. CASE Receive(p)
  <2>1. /\ stage[p] = "sent" /\ memo[p].status = "started"
        /\ attempt[at[p]].request = "whole" /\ attempt[at[p]].wire = "whole"
        /\ memo[p].before = basis /\ attempt' = attempt
        /\ sent[at[p]] = 1 /\ sent' = sent
    BY <1>2, <1>14 DEF Receive, MemoOK, Working, AfterSend, Ready
  <2>2. PICK r \in Replies, known \in BOOLEAN :
          memo' = [memo EXCEPT ![p] = [@ EXCEPT !.reply = r, !.written = known]]
    BY <1>14, Zenon DEF Receive
  <2>3. memo'[p].status = "started" /\ memo'[p].before = basis
    BY <1>1, <2>1, <2>2 DEF Observations
  <2>4. stage'[p] = "answered" /\ at'[p] = at[p]
    BY <1>5, <1>14 DEF Receive, AfterSend
  <2> QED
    BY <1>3, <2>1, <2>3, <2>4 DEF MemoOK, Working, Unsent, AfterSend, Ready, Founded
<1>15. CASE KeepResponse(p)
  <2>1. /\ stage[p] = "answered" /\ memo[p].status = "started"
        /\ attempt[at[p]].request = "whole" /\ attempt[at[p]].wire = "whole"
        /\ memo[p].before = basis /\ sent' = sent
        /\ memo[p].reply # NoReply => sent[at[p]] = 1
    BY <1>2, <1>15 DEF KeepResponse, MemoOK, Working, AfterSend, Ready, Founded
  <2>2. CASE Fail(p, memo[p])
    BY <1>1, <2>1, <2>2, FailingIsOK
  <2>3. CASE /\ attempt' = IF memo[p].reply.body = "none" THEN attempt
                           ELSE [attempt EXCEPT ![at[p]].response = "whole"]
             /\ Goto(p, "kept")
             /\ UNCHANGED memo
    <3>1. stage'[p] = "kept" /\ at'[p] = at[p]
      BY <1>5, <2>3 DEF AfterSend
    <3>2. /\ attempt'[at[p]].request = "whole" /\ attempt'[at[p]].wire = "whole"
          /\ memo[p].reply.body # "none" => attempt'[at[p]].response = "whole"
      BY <1>1, <2>1, <2>3 DEF Attempts
    <3> QED
      BY <1>3, <2>1, <2>3, <3>1, <3>2
         DEF MemoOK, Working, Unsent, AfterSend, Ready, Founded
  <2> QED
    BY <1>15, <2>2, <2>3 DEF KeepResponse
<1>16. CASE Postflight(p)
  <2>1. /\ stage[p] = "kept" /\ memo[p].status = "started"
        /\ attempt[at[p]].request = "whole" /\ attempt[at[p]].wire = "whole"
        /\ memo[p].before = basis /\ sent' = sent /\ attempt' = attempt
        /\ memo[p].reply # NoReply => sent[at[p]] = 1
        /\ memo[p].reply.body # "none" => attempt[at[p]].response = "whole"
    BY <1>2, <1>16 DEF Postflight, MemoOK, Working, AfterSend, Ready, Founded
  <2>2. PICK after \in {repo, None} :
          LET seen == [memo[p] EXCEPT !.after = after]
          IN IF memo[p].reply.answered /\ after = basis
             THEN /\ Goto(p, "finishing")
                  /\ memo' = [memo EXCEPT ![p] = [seen EXCEPT !.status = "completed"]]
             ELSE Fail(p, seen)
    BY <1>16 DEF Postflight
  <2> DEFINE seen == [memo[p] EXCEPT !.after = after]
  <2>3. /\ seen \in Observations /\ seen.reply = memo[p].reply
        /\ seen.before = basis /\ seen.after = after
    BY <1>1, <2>1 DEF Observations, TypeOK
  <2>4. \/ Fail(p, seen)
        \/ /\ memo[p].reply.answered /\ after = basis /\ Goto(p, "finishing")
           /\ memo' = [memo EXCEPT ![p] = [seen EXCEPT !.status = "completed"]]
    BY <2>2
  <2> HIDE DEF seen
  <2>5. CASE Fail(p, seen)
    BY <1>1, <2>1, <2>3, <2>5, FailingIsOK
  <2>6. CASE /\ memo[p].reply.answered /\ after = basis /\ Goto(p, "finishing")
             /\ memo' = [memo EXCEPT ![p] = [seen EXCEPT !.status = "completed"]]
    <3>1. stage'[p] = "finishing" /\ at'[p] = at[p]
      BY <1>5, <2>6 DEF AfterSend
    <3>2. /\ memo'[p].reply = memo[p].reply /\ memo'[p].before = basis
          /\ memo'[p].after = basis
      BY <1>1, <2>3, <2>6 DEF Observations
    <3>3. memo[p].reply.body # "none"
      BY <1>1, <2>6 DEF Observations, AllReplies
    <3> QED
      BY <1>3, <2>1, <2>6, <3>1, <3>2, <3>3
         DEF MemoOK, Working, Unsent, AfterSend, Ready, Founded
  <2> QED
    BY <2>4, <2>5, <2>6
<1>17. CASE Finish(p) \/ Die(p) \/ Refuse(p)
  BY <1>6, <1>17 DEF Finish, Die, Refuse
<1> QED
  BY <1>7, <1>8, <1>9, <1>10, <1>11, <1>12, <1>13, <1>14, <1>15, <1>16, <1>17
     DEF RunAction, OwnAction

\* A record is what the run knew when it left; no request is sent for it later.
LEMMA RunActionRecords ==
  ASSUME MInv, NEW p \in Process, RunAction(p), NEW s \in Step
  PROVE  RecordOK(s)'
<1>1. /\ TypeOK /\ at[p] \in Step /\ memo[p] \in Observations /\ sent \in [Step -> Nat]
      /\ attempt \in [Step -> Attempts] /\ attempt[at[p]] \in Attempts
  BY DEF MInv, IInv, TypeOK
<1>2. MemoOK(p) /\ RecordOK(s)
  BY DEF MInv
<1>3. basis' = basis
  BY RunsAreQuiet
<1>4. [Next]_vars
  BY DEF RunAction, OwnAction, Next, Work
<1>5. CASE Finished(s)
  <2>1. attempt'[s] = attempt[s]
    BY <1>4, <1>5, RecordsStay DEF MInv
  <2>2. sent'[s] = sent[s]
    <3>1. Working(p) => ~Finished(at[p])
      BY DEF MInv, IInv, RunOK
    <3>2. Send(p) => Working(p)
      BY DEF Send, Working, Unsent
    <3>3. Send(p) => sent'[s] = sent[s]
      BY <1>1, <1>5, <3>1, <3>2 DEF Send
    <3>4. ~Send(p) => sent' = sent
      BY OwnActionMoves DEF RunAction, Check, Reserve, Load
    <3> QED
      BY <3>3, <3>4
  <2> QED
    BY <1>2, <1>3, <1>5, <2>1, <2>2 DEF RecordOK, Founded
<1>6. CASE ~Finished(s)
  <2>1. SUFFICES ASSUME Finished(s)' PROVE Founded(attempt[s].final, attempt[s], sent[s])'
    BY DEF RecordOK
  <2>2. attempt'[s].final # attempt[s].final
    BY <1>6, <2>1 DEF Finished
  <2>3. Finish(p)
    <3>1. CASE Journal(p)
      BY <1>1, <2>2, <3>1 DEF Journal, Attempts
    <3>6. CASE CopyRequest(p)
      <4>1. PICK file \in FileStates : attempt' = [attempt EXCEPT ![at[p]].request = file]
        BY <3>6 DEF CopyRequest, Broken, FileStates
      <4> QED
        BY <1>1, <2>2, <4>1 DEF Attempts
    <3>7. CASE CopyWire(p)
      <4>1. PICK file \in FileStates : attempt' = [attempt EXCEPT ![at[p]].wire = file]
        BY <3>7 DEF CopyWire, Broken, FileStates
      <4> QED
        BY <1>1, <2>2, <4>1 DEF Attempts
    <3>2. CASE KeepResponse(p)
      <4>1. PICK file \in FileStates : attempt' = [attempt EXCEPT ![at[p]].response = file]
        BY <2>2, <3>2 DEF KeepResponse, Broken, FileStates
      <4> QED
        BY <1>1, <2>2, <4>1 DEF Attempts
    <3>3. CASE Die(p)
      BY <1>1, <2>2, <3>3 DEF Die, Attempts
    <3>4. CASE Reserve(p)
      BY <1>1, <2>2, <3>4 DEF Reserve, Attempts
    <3>5. CASE Preflight(p) \/ Receive(p) \/ Postflight(p) \/ Refuse(p)
      BY <2>2, <3>5 DEF Preflight, Receive, Postflight, Refuse
    <3>8. CASE Check(p) \/ Send(p) \/ \E t \in Step : Load(p, t)
      BY <2>2, <3>8 DEF Check, Send, Load
    <3> QED
      BY <3>1, <3>2, <3>3, <3>4, <3>5, <3>6, <3>7, <3>8 DEF RunAction, OwnAction
  <2>4. PICK c \in Clocks :
          attempt' = [attempt EXCEPT ![at[p]].final = [memo[p] EXCEPT !.clock = c]]
    BY <1>1, <2>2, <2>3 DEF Finish
  <2>5. s = at[p]
    BY <1>1, <2>2, <2>4
  <2>6. /\ attempt'[s].final = [memo[p] EXCEPT !.clock = c]
        /\ attempt'[s].request = attempt[s].request /\ attempt'[s].wire = attempt[s].wire
        /\ attempt'[s].response = attempt[s].response
    BY <1>1, <2>4, <2>5 DEF Attempts
  <2>7. /\ attempt'[s].final.reply = memo[p].reply /\ attempt'[s].final.status = memo[p].status
        /\ attempt'[s].final.before = memo[p].before
        /\ attempt'[s].final.after = memo[p].after
    BY <1>1, <2>6 DEF Observations
  <2>8. Founded(memo[p], attempt[s], sent[s]) /\ sent' = sent
    BY <1>2, <2>3, <2>5 DEF Finish, MemoOK, Working, AfterSend
  <2> QED
    BY <1>3, <2>6, <2>7, <2>8 DEF Founded
<1> QED
  BY <1>5, <1>6

\* Every step keeps what the records say.
LEMMA NextKeepsRecords == MInv /\ [Next]_vars => MInv'
<1> SUFFICES ASSUME MInv, [Next]_vars PROVE MInv'
  OBVIOUS
<1>1. IInv'
  BY NextKeeps DEF MInv
<1>2. ASSUME NEW p \in Process, RunAction(p)
      PROVE  MInv'
  <2>1. ASSUME NEW q \in Process PROVE MemoOK(q)'
    <3>1. CASE q = p
      BY <1>2, <3>1, RunActionMemo
    <3>2. CASE q # p
      <4>1. /\ stage'[q] = stage[q] /\ at'[q] = at[q] /\ memo'[q] = memo[q]
            /\ Working(q) => attempt'[at[q]] = attempt[at[q]] /\ sent'[at[q]] = sent[at[q]]
        BY <1>2, <3>2, OtherRunsStay DEF MInv
      <4>2. basis' = basis
        BY <1>2, RunsAreQuiet
      <4>3. MemoOK(q)
        BY DEF MInv
      <4>4. CASE Working(q)
        BY <4>1, <4>2, <4>3, <4>4 DEF MemoOK, Working, Founded
      <4>5. CASE ~Working(q)
        BY <4>1, <4>3, <4>5 DEF MemoOK, Working, Unsent, AfterSend, Ready
      <4> QED
        BY <4>4, <4>5
    <3> QED
      BY <3>1, <3>2
  <2>2. \A s \in Step : RecordOK(s)'
    BY <1>2, RunActionRecords
  <2>3. Settled'
    <3>1. prepared = "prepared" /\ prepared' = prepared
      <4>1. CASE OwnAction(p)
        <5>1. stage[p] # "idle"
          BY <4>1 DEF OwnAction, Journal, CopyRequest, CopyWire, Preflight, Receive,
             KeepResponse, Postflight, Finish, Die, Refuse
        <5> QED
          BY <1>2, <5>1, RunsAreQuiet DEF MInv, Settled
      <4>2. CASE ~OwnAction(p)
        <5>1. stage[p] # "idle" \/ prepared = "prepared"
          BY <1>2, <4>2 DEF RunAction, Check, Reserve, Send, Load
        <5> QED
          BY <1>2, <5>1, RunsAreQuiet DEF MInv, Settled
      <4> QED
        BY <4>1, <4>2
    <3> QED
      BY <3>1 DEF Settled
  <2> QED
    BY <1>1, <2>1, <2>2, <2>3 DEF MInv
<1>3. ASSUME UNCHANGED runs, prepared' = prepared, basis' = basis
      PROVE  MInv'
  <2>1. \A p \in Process : MemoOK(p)'
    BY <1>3 DEF MInv, MemoOK, Working, Founded, runs
  <2>2. (\A s \in Step : RecordOK(s)') /\ Settled'
    BY <1>3 DEF MInv, RecordOK, Founded, Finished, Settled, runs
  <2> QED
    BY <1>1, <2>1, <2>2 DEF MInv
<1>4. CASE Capture \/ MakeCue \/ Freeze \/ FailPreparation
  <2>1. prepared # "prepared" /\ UNCHANGED runs
    BY <1>4 DEF Capture, MakeCue, Freeze, FailPreparation
  <2>2. (\A p \in Process : stage[p] = "idle") /\ (\A s \in Step : ~Finished(s))
    BY <2>1 DEF MInv, Settled
  <2>3. \A p \in Process : ~Working(p) /\ memo[p] = Started
    BY <2>2 DEF MInv, MemoOK, Working, Unsent, AfterSend
  <2>4. \A p \in Process : MemoOK(p)'
    BY <2>1, <2>2, <2>3 DEF MemoOK, Working, Unsent, AfterSend, Ready, runs
  <2>5. (\A s \in Step : RecordOK(s)') /\ Settled'
    BY <2>1, <2>2 DEF RecordOK, Finished, Settled, runs
  <2> QED
    BY <1>1, <2>4, <2>5 DEF MInv
<1>5. CASE Edit \/ Summarize \/ Look \/ Report
  BY <1>3, <1>5 DEF Edit, Summarize, Report, Look, LookForDirectory, LookForStart,
     LookForRecord, ReadFiles, Looking, preparation
<1>6. CASE UNCHANGED vars
  BY <1>3, <1>6 DEF vars, preparation
<1> QED
  BY <1>2, <1>4, <1>5, <1>6, NextIsOneOf

\* Nothing is recorded before anything ran.
LEMMA RecordsInit == Init => MInv
<1> SUFFICES ASSUME Init PROVE MInv
  OBVIOUS
<1>1. \A p \in Process : stage[p] = "idle" /\ memo[p] = Started
  BY DEF Init
<1>2. \A s \in Step : ~Finished(s)
  BY DEF Init, Finished, NoAttempt, Started
<1>3. \A p \in Process : MemoOK(p)
  BY <1>1 DEF MemoOK, Working, Unsent, AfterSend, Ready
<1> QED
  BY <1>1, <1>2, <1>3, InitIsOK DEF MInv, RecordOK, Settled

\* Whatever was answered was sent once, and whatever is completed has the basis
\* of the preparation before and after it, an answer, and its three files.
THEOREM RecordsInvariance == Spec => []MInv
<1>1. Init => MInv
  BY RecordsInit
<1>2. MInv /\ [Next]_vars => MInv'
  BY NextKeepsRecords
<1> QED
  BY <1>1, <1>2, PTL DEF Spec

\* An attempt that says it is completed is accepted by the summary, unless the
\* clock was set back or the reply overtook the note of its request.
THEOREM CompletedAttemptsAreAcceptedAlways == Spec => []CompletedAttemptsAreAccepted
<1>1. MInv => CompletedAttemptsAreAccepted
  <2> SUFFICES ASSUME MInv, NEW s \in Step, attempt[s].final.status = "completed",
                      attempt[s].final.clock = "sound", attempt[s].final.written
               PROVE  ItemOf(attempt[s]).scored /\ ~ItemOf(attempt[s]).refused
    BY DEF CompletedAttemptsAreAccepted
  <2> DEFINE o == attempt[s].final
  <2>1. attempt[s] \in Attempts /\ o \in Observations /\ o.reply \in AllReplies
    BY DEF MInv, IInv, TypeOK, Attempts, Observations
  <2>2. Founded(o, attempt[s], sent[s])
    BY DEF MInv, RecordOK, Finished
  <2>3. o.reply.decodes /\ o.reply.body = "whole" /\ Good(o)
    BY <2>1, <2>2 DEF Founded, AllReplies, Good
  <2>4. ItemOf(attempt[s]) =
          [[NotRun EXCEPT !.status = o.status, !.integrity = TRUE, !.delivery = o.written]
             EXCEPT !.costed = o.reply.costed, !.scored = Good(o),
                    !.refused = o.status = "completed" /\ ~Good(o)]
    BY <2>2, <2>3 DEF ItemOf, Founded
  <2> QED
    BY <2>3, <2>4 DEF NotRun
<1> QED
  BY <1>1, RecordsInvariance, PTL

(***************************************************************************)
(* What the summary derives rests on the records.                          *)
(***************************************************************************)
\* Only a finished attempt has a cost or a score.
LinesOK ==
  \A s \in Step : items[s].costed \/ items[s].scored =>
                    items[s].status \in {"completed", "failed"}

VInv == SInv /\ MInv /\ LinesOK

\* What a line says of a finished attempt is in its observation.
LEMMA ItemsTell ==
  ASSUME NEW a \in Attempts
  PROVE  /\ ItemOf(a).costed => a.final.reply.costed
         /\ ItemOf(a).scored => Good(a.final)
         /\ ItemOf(a).costed \/ ItemOf(a).scored => ItemOf(a).status = a.final.status
<1> DEFINE bare == [NotRun EXCEPT !.status = a.final.status, !.integrity = TRUE,
                                  !.delivery = a.final.written]
<1>1. \/ ItemOf(a) = Invalid \/ ItemOf(a) = bare
      \/ ItemOf(a) = [bare EXCEPT !.refused = a.response # "absent"]
      \/ ItemOf(a) = [bare EXCEPT !.refused = TRUE]
      \/ ItemOf(a) = [bare EXCEPT !.integrity = FALSE, !.delivery = FALSE, !.refused = TRUE]
      \/ ItemOf(a) = [bare EXCEPT !.costed = a.final.reply.costed, !.scored = Good(a.final),
           !.refused = a.final.status = "completed" /\ ~Good(a.final)]
  BY DEF ItemOf
<1> QED
  BY <1>1 DEF NotRun, Invalid

\* The inventory gains lines without a cost, or those of finished attempts.
LEMMA NextKeepsLines == VInv /\ [Next]_vars => VInv'
<1> SUFFICES ASSUME VInv, [Next]_vars PROVE LinesOK'
  BY NextKeepsSummary, NextKeepsRecords DEF VInv
<1>1. /\ turn \in Step /\ attempt[turn] \in Attempts /\ items \in [Step -> Items]
      /\ attempt \in [Step -> Attempts]
  BY DEF VInv, SInv, IInv, TypeOK
<1>2. ASSUME items' = items
      PROVE  LinesOK'
  BY <1>2 DEF VInv, LinesOK
<1>3. ASSUME NEW item \in Items, Inventory(item),
             item.costed \/ item.scored => item.status \in {"completed", "failed"}
      PROVE  LinesOK'
  BY <1>1, <1>3 DEF VInv, LinesOK, Inventory
<1>4. /\ NotRun \in Items /\ ~NotRun.costed /\ ~NotRun.scored
      /\ Invalid \in Items /\ ~Invalid.costed /\ ~Invalid.scored
      /\ [Invalid EXCEPT !.status = "started"] \in Items
      /\ ~[Invalid EXCEPT !.status = "started"].costed
      /\ ~[Invalid EXCEPT !.status = "started"].scored
  BY <1>1, ItemTypes DEF NotRun, Invalid
<1>5. CASE Look
  <2>1. CASE LookForDirectory
    BY <1>2, <1>3, <1>4, <2>1 DEF LookForDirectory
  <2>2. CASE LookForStart
    BY <1>2, <1>3, <1>4, <2>2 DEF LookForStart
  <2>3. CASE LookForRecord
    BY <1>2, <1>3, <1>4, <2>3 DEF LookForRecord
  <2>4. CASE ReadFiles
    <3>1. attempt[turn].final.status \in {"completed", "failed"}
      BY <1>1, <2>4 DEF ReadFiles, VInv, SInv, SummaryOK, Finished, Attempts, Observations
    <3>2. ItemOf(attempt[turn]) \in Items
      BY <1>1, ItemTypes
    <3>3. ItemOf(attempt[turn]).costed \/ ItemOf(attempt[turn]).scored =>
            ItemOf(attempt[turn]).status \in {"completed", "failed"}
      BY <1>1, <3>1, ItemsTell
    <3> QED
      BY <1>3, <2>4, <3>2, <3>3 DEF ReadFiles
  <2> QED
    BY <1>5, <2>1, <2>2, <2>3, <2>4 DEF Look
<1>6. CASE Report
  BY <1>4, <1>6 DEF Report, LinesOK
<1>7. CASE Capture \/ MakeCue \/ Freeze \/ FailPreparation \/ Edit \/ UNCHANGED vars
  BY <1>2, <1>7 DEF Capture, MakeCue, Freeze, FailPreparation, Edit, vars, summary
<1>8. CASE Summarize
  BY <1>2, <1>8 DEF Summarize
<1>9. ASSUME NEW p \in Process, RunAction(p)
      PROVE  LinesOK'
  BY <1>2, <1>9, RunsAreQuiet DEF summary
<1> QED
  BY <1>5, <1>6, <1>7, <1>8, <1>9, NextIsOneOf

\* Every line with a cost or a score is what its attempt, which is finished for
\* good, amounts to.
THEOREM LinesInvariance == Spec => []VInv
<1>1. Init => VInv
  <2> SUFFICES ASSUME Init PROVE VInv
    OBVIOUS
  <2>1. SummaryOK
    BY DEF Init, SummaryOK
  <2>2. LinesOK
    BY DEF Init, LinesOK, NotRun
  <2>3. MInv
    BY RecordsInit
  <2> QED
    BY <2>1, <2>2, <2>3 DEF VInv, SInv, MInv
<1>2. VInv /\ [Next]_vars => VInv'
  BY NextKeepsLines
<1> QED
  BY <1>1, <1>2, PTL DEF Spec

\* In a summary that is done, what counts of a step is what its record says.
LEMMA CountedLines ==
  ASSUME VInv, reader = "done", NEW s \in Step, items[s].costed \/ items[s].scored
  PROVE  /\ items[s] = ItemOf(attempt[s]) /\ attempt[s] \in Attempts
         /\ Founded(attempt[s].final, attempt[s], sent[s])
         /\ attempt[s].final.reply \in AllReplies
<1>1. Lasting(s) /\ items[s].status \in {"completed", "failed"}
  BY DEF VInv, SInv, SummaryOK, LinesOK
<1>2. Finished(s) /\ items[s] = ItemOf(attempt[s])
  BY <1>1 DEF Lasting
<1>3. attempt[s] \in Attempts /\ attempt[s].final.reply \in AllReplies
  BY DEF VInv, SInv, IInv, TypeOK, Attempts, Observations
<1> QED
  BY <1>2, <1>3 DEF VInv, MInv, RecordOK

\* A total is only given when it has the cost of every request of the schedule,
\* each of which the provider was sent once.
THEOREM TotalCountsEveryRequestAlways == Spec => []TotalCountsEveryRequest
<1>1. VInv => TotalCountsEveryRequest
  <2> SUFFICES ASSUME VInv, reader = "done", TotalKnown, NEW s \in Step
               PROVE  sent[s] = 1 /\ attempt[s].final.reply.costed
    BY DEF TotalCountsEveryRequest
  <2>1. items[s].costed
    BY DEF TotalKnown
  <2>2. /\ items[s] = ItemOf(attempt[s]) /\ attempt[s] \in Attempts
        /\ Founded(attempt[s].final, attempt[s], sent[s])
    BY <2>1, CountedLines
  <2>3. attempt[s].final.reply.costed
    BY <2>1, <2>2, ItemsTell
  <2>4. attempt[s].final.reply # NoReply
    BY <2>3 DEF NoReply
  <2> QED
    BY <2>2, <2>3, <2>4 DEF Founded
<1> QED
  BY <1>1, LinesInvariance, PTL

\* A verdict rests on requests that were each sent once and completed on the
\* basis of the preparation.
THEOREM VerdictsAreFoundedAlways == Spec => []VerdictsAreFounded
<1>1. VInv => VerdictsAreFounded
  <2> SUFFICES ASSUME VInv, reader = "done", Judged, NEW s \in Pair
               PROVE  /\ sent[s] = 1 /\ attempt[s].final.status = "completed"
                      /\ attempt[s].final.before = basis /\ attempt[s].final.after = basis
    BY DEF VerdictsAreFounded
  <2>1. s \in Step /\ items[s].scored
    BY ScheduleAssumption DEF Judged
  <2>2. /\ items[s] = ItemOf(attempt[s]) /\ attempt[s] \in Attempts
        /\ Founded(attempt[s].final, attempt[s], sent[s])
    BY <2>1, CountedLines
  <2>3. Good(attempt[s].final)
    BY <2>1, <2>2, ItemsTell
  <2>4. attempt[s].final.reply # NoReply
    BY <2>3 DEF Good, NoReply
  <2> QED
    BY <2>2, <2>3, <2>4 DEF Founded, Good
<1> QED
  BY <1>1, LinesInvariance, PTL
===============================================================================
