------------------------------ MODULE CacheSteps ------------------------------
(***************************************************************************)
(* evaluate-cache (internal/evaluation/cache.go, cache_summary.go,         *)
(* internal/claudeadapter): `prepare` freezes a schedule of requests to a  *)
(* paid provider in a directory, `run` sends the request of one step, and  *)
(* `summary` reads what the runs left behind.  The commands share nothing  *)
(* but that directory.  A run reserves its step by mkdir and leaves        *)
(*                                                                         *)
(*    attempt-start.json, request.json, submitted-request.json,            *)
(*    response.json, observation.json                                      *)
(*                                                                         *)
(* in this order; the first and the last are renamed into place, the       *)
(* others are written where they are and may stay cut off.  Any number of  *)
(* processes may run any step at any time, and each may die at any point.  *)
(*                                                                         *)
(* The endpoint, the matching of a baseline's prompts and cache counters   *)
(* with those of its pair, and the amounts are left out: of a reply the    *)
(* model keeps what decides whether it counts.                             *)
(***************************************************************************)
EXTENDS FiniteSets, Naturals

CONSTANTS Process,
          NumSteps,       \* requests in the frozen schedule
          Pair,           \* the steps of a baseline/cache pair
          Tracked,        \* contents of the repository's tracked files
          Untracked,      \* contents of its other files
          None,
          Replies,        \* what may come back from the provider
          Clocks,         \* how the wall clock may behave during an attempt
          Faults          \* whether files fail to be written and processes die

Step == 1..NumSteps

\* What a capture fingerprints; a cue names only the tracked part.
Fingerprint == [tracked : Tracked, untracked : Untracked]

Bodies == {"none", "cut", "whole"}

\* Whether DecodeResponse accepts the body, whether all usage counters have a
\* price, and whether it is a successful answer of the frozen model.
AllReplies ==
  {r \in [body : Bodies, decodes : BOOLEAN, costed : BOOLEAN, answered : BOOLEAN] :
     /\ r.decodes => r.body = "whole"
     /\ r.costed \/ r.answered => r.decodes}

NoReply == [body |-> "none", decodes |-> FALSE, costed |-> FALSE, answered |-> FALSE]

\* sound: the recorded times are in order.  odd: the clock was set back and they
\* are not.  unreadable: the duration became negative, or the provider's status
\* is none HTTP knows, and the schema refuses the record.
AllClocks == {"sound", "odd", "unreadable"}

ASSUME ScheduleAssumption == NumSteps \in Nat \ {0} /\ Pair \subseteq Step

ASSUME NoneIsNoFingerprint == None \notin Fingerprint

ASSUME ReplyAssumption ==
  NoReply \in Replies /\ Replies \subseteq AllReplies /\ Clocks \subseteq AllClocks

VARIABLES prepared,       \* the state of the preparation
          basis,          \* the repository it froze
          repo,           \* the repository now
          attempt,        \* the directory of each step's attempt
          stage, at,      \* where each run is, and its step
          checked,        \* preceding steps it has found finished
          memo,           \* the observation it is making
          sent,           \* requests the provider was sent for each step
          reader, turn,   \* where the summary is, and at which step
          items,          \* the inventory it has so far
          begun           \* the steps that were reserved when it began

preparation == <<prepared, basis>>

runs == <<attempt, stage, at, checked, memo, sent>>

summary == <<reader, turn, items, begun>>

vars == <<preparation, repo, runs, summary>>

FileStates == {"absent", "cut", "whole"}

Observations ==
  [status : {"started", "completed", "failed"}, attempted : BOOLEAN,
   written : BOOLEAN, before : Fingerprint \union {None},
   after : Fingerprint \union {None}, reply : AllReplies, clock : AllClocks]

Started ==
  [status |-> "started", attempted |-> FALSE, written |-> FALSE, before |-> None,
   after |-> None, reply |-> NoReply, clock |-> "sound"]

\* While there is no observation.json, `final` is the observation as started.
Attempts ==
  [dir : BOOLEAN, start : BOOLEAN, request : FileStates, wire : FileStates,
   response : FileStates, final : Observations]

NoAttempt ==
  [dir |-> FALSE, start |-> FALSE, request |-> "absent", wire |-> "absent",
   response |-> "absent", final |-> Started]

\* An inventory line of the summary; `refused` when it adds to its errors.
Items ==
  [status : {"not_run", "invalid", "started", "completed", "failed"},
   integrity : BOOLEAN, delivery : BOOLEAN, costed : BOOLEAN, scored : BOOLEAN,
   refused : BOOLEAN]

NotRun ==
  [status |-> "not_run", integrity |-> FALSE, delivery |-> FALSE,
   costed |-> FALSE, scored |-> FALSE, refused |-> FALSE]

Invalid == [NotRun EXCEPT !.status = "invalid", !.refused = TRUE]

Init ==
  /\ prepared = "no"
  /\ basis = None
  /\ repo \in Fingerprint
  /\ attempt = [s \in Step |-> NoAttempt]
  /\ stage = [p \in Process |-> "idle"]
  /\ at = [p \in Process |-> 1]
  /\ checked = [p \in Process |-> 0]
  /\ memo = [p \in Process |-> Started]
  /\ sent = [s \in Step |-> 0]
  /\ reader = "idle"
  /\ turn = 1
  /\ items = [s \in Step |-> NotRun]
  /\ begun = {}

(***************************************************************************)
(* prepare: refresh, capture the basis, make the cue, freeze the requests, *)
(* capture again.  The directory is new, so there is one preparation of it.*)
(* A preparation that failed or died leaves a manifest that no run accepts.*)
(***************************************************************************)
Capture ==
  /\ prepared = "no"
  /\ prepared' = "captured"
  /\ basis' = repo
  /\ UNCHANGED <<repo, runs, summary>>

\* `cue` refuses a repository other than the refreshed one, and the cue must be
\* of the tracked files and the status captured.
MakeCue ==
  /\ prepared = "captured"
  /\ prepared' = IF repo.tracked = basis.tracked THEN "cued" ELSE "failed"
  /\ UNCHANGED <<basis, repo, runs, summary>>

Freeze ==
  /\ prepared = "cued"
  /\ prepared' = IF repo = basis THEN "prepared" ELSE "failed"
  /\ UNCHANGED <<basis, repo, runs, summary>>

FailPreparation ==
  /\ prepared \in {"no", "captured", "cued"}
  /\ prepared' = "failed"
  /\ UNCHANGED <<basis, repo, runs, summary>>

(***************************************************************************)
(* run: what a step leaves to the next one.                                *)
(***************************************************************************)
Finished(s) == attempt[s].final.status # "started"

\* What the check of a preceding step accepts.
Readable(s) == Finished(s) /\ attempt[s].final.clock # "unreadable"

\* An action of p that leaves the preparation and the summary alone.
Quiet == UNCHANGED <<preparation, repo, summary>>

\* The run of p ends without (another) record of it.
Leave(p) ==
  /\ stage' = [stage EXCEPT ![p] = "idle"]
  /\ at' = [at EXCEPT ![p] = 1]
  /\ checked' = [checked EXCEPT ![p] = 0]
  /\ memo' = [memo EXCEPT ![p] = Started]

Goto(p, next) ==
  /\ stage' = [stage EXCEPT ![p] = next]
  /\ UNCHANGED <<at, checked>>

\* The run of p returns an error, which its deferred function records.
Fail(p, observation) ==
  /\ Goto(p, "finishing")
  /\ memo' = [memo EXCEPT ![p] = [observation EXCEPT !.status = "failed"]]

Load(p, s) ==
  /\ stage[p] = "idle" /\ prepared = "prepared"
  /\ stage' = [stage EXCEPT ![p] = "checking"]
  /\ at' = [at EXCEPT ![p] = s]
  /\ Quiet /\ UNCHANGED <<attempt, checked, memo, sent>>

\* Mutant: a preceding step need only be reserved.
CheckReserved(p) ==
  /\ stage[p] = "checking" /\ checked[p] + 1 < at[p]
  /\ attempt[checked[p] + 1].dir
  /\ checked' = [checked EXCEPT ![p] = @ + 1]
  /\ Quiet /\ UNCHANGED <<attempt, stage, at, memo, sent>>

Check(p) ==
  /\ stage[p] = "checking" /\ checked[p] + 1 < at[p]
  /\ Readable(checked[p] + 1)
  /\ checked' = [checked EXCEPT ![p] = @ + 1]
  /\ Quiet /\ UNCHANGED <<attempt, stage, at, memo, sent>>

Refuse(p) ==
  /\ stage[p] = "checking"
  /\ IF checked[p] + 1 < at[p]
     THEN ~Readable(checked[p] + 1)
     ELSE attempt[at[p]].dir \/ Faults
  /\ Leave(p)
  /\ Quiet /\ UNCHANGED <<attempt, sent>>

\* Mutant: a reserved step is taken over (os.MkdirAll).
ReserveAgain(p) ==
  /\ stage[p] = "checking" /\ checked[p] + 1 = at[p]
  /\ attempt' = [attempt EXCEPT ![at[p]].dir = TRUE]
  /\ Goto(p, "reserved")
  /\ Quiet /\ UNCHANGED <<memo, sent>>

Reserve(p) ==
  /\ stage[p] = "checking" /\ checked[p] + 1 = at[p]
  /\ ~attempt[at[p]].dir
  /\ attempt' = [attempt EXCEPT ![at[p]].dir = TRUE]
  /\ Goto(p, "reserved")
  /\ Quiet /\ UNCHANGED <<memo, sent>>

\* attempt-start.json; the deferred function comes after it.
Journal(p) ==
  /\ stage[p] = "reserved"
  /\ \/ /\ attempt' = [attempt EXCEPT ![at[p]].start = TRUE]
        /\ Goto(p, "started")
        /\ UNCHANGED memo
     \/ Faults /\ Leave(p) /\ UNCHANGED attempt
  /\ Quiet /\ UNCHANGED sent

\* writeTaskFile creates the file, fills it and closes it; each may fail.
Broken == {"absent", "cut", "whole"}

CopyRequest(p) ==
  /\ stage[p] = "started"
  /\ \/ /\ attempt' = [attempt EXCEPT ![at[p]].request = "whole"]
        /\ Goto(p, "copied")
        /\ UNCHANGED memo
     \/ /\ Faults
        /\ \E file \in Broken : attempt' = [attempt EXCEPT ![at[p]].request = file]
        /\ Fail(p, memo[p])
  /\ Quiet /\ UNCHANGED sent

CopyWire(p) ==
  /\ stage[p] = "copied"
  /\ \/ /\ attempt' = [attempt EXCEPT ![at[p]].wire = "whole"]
        /\ Goto(p, "wired")
        /\ UNCHANGED memo
     \/ /\ Faults
        /\ \E file \in Broken : attempt' = [attempt EXCEPT ![at[p]].wire = file]
        /\ Fail(p, memo[p])
  /\ Quiet /\ UNCHANGED sent

\* The repository may not be readable, be another one, or have other sources
\* by the time they are read.
Preflight(p) ==
  /\ stage[p] = "wired"
  /\ LET seen == [memo[p] EXCEPT !.before = repo]
     IN \/ Fail(p, memo[p])
        \/ Fail(p, seen)
        \/ /\ repo = basis
           /\ Goto(p, "ready")
           /\ memo' = [memo EXCEPT ![p] = seen]
  /\ Quiet /\ UNCHANGED <<attempt, sent>>

\* Without a key nothing is attempted; a connection may fail before anything
\* reaches the provider.
Send(p) ==
  /\ stage[p] = "ready"
  /\ \/ \E tried \in BOOLEAN :
          /\ memo' = [memo EXCEPT ![p].attempted = tried]
          /\ Goto(p, "answered")
          /\ UNCHANGED sent
     \/ /\ memo' = [memo EXCEPT ![p].attempted = TRUE]
        /\ sent' = [sent EXCEPT ![at[p]] = @ + 1]
        /\ Goto(p, "sent")
  /\ Quiet /\ UNCHANGED attempt

\* Mutant: a request without a reply is sent again.
ReceiveOrRetry(p) ==
  /\ stage[p] = "sent"
  /\ \E r \in Replies, known \in BOOLEAN :
       /\ memo' = [memo EXCEPT ![p] = [@ EXCEPT !.reply = r, !.written = known]]
       /\ Goto(p, IF r = NoReply THEN "ready" ELSE "answered")
  /\ Quiet /\ UNCHANGED <<attempt, sent>>

\* Whether the request is known to be written is noted by another goroutine,
\* which a reply may overtake.
Receive(p) ==
  /\ stage[p] = "sent"
  /\ \E r \in Replies, known \in BOOLEAN :
       memo' = [memo EXCEPT ![p] = [@ EXCEPT !.reply = r, !.written = known]]
  /\ Goto(p, "answered")
  /\ Quiet /\ UNCHANGED <<attempt, sent>>

KeepResponse(p) ==
  /\ stage[p] = "answered"
  /\ \/ /\ attempt' = IF memo[p].reply.body = "none" THEN attempt
                      ELSE [attempt EXCEPT ![at[p]].response = "whole"]
        /\ Goto(p, "kept")
        /\ UNCHANGED memo
     \/ /\ Faults /\ memo[p].reply.body # "none"
        /\ \E file \in Broken : attempt' = [attempt EXCEPT ![at[p]].response = file]
        /\ Fail(p, memo[p])
  /\ Quiet /\ UNCHANGED sent

\* Mutant: the evidence after the request is not compared.
PostflightUncompared(p) ==
  /\ stage[p] = "kept"
  /\ \E after \in {repo, None} :
       LET seen == [memo[p] EXCEPT !.after = after]
       IN IF memo[p].reply.answered
          THEN /\ Goto(p, "finishing")
               /\ memo' = [memo EXCEPT ![p] = [seen EXCEPT !.status = "completed"]]
          ELSE Fail(p, seen)
  /\ Quiet /\ UNCHANGED <<attempt, sent>>

Postflight(p) ==
  /\ stage[p] = "kept"
  /\ \E after \in {repo, None} :
       LET seen == [memo[p] EXCEPT !.after = after]
       IN IF memo[p].reply.answered /\ after = basis
          THEN /\ Goto(p, "finishing")
               /\ memo' = [memo EXCEPT ![p] = [seen EXCEPT !.status = "completed"]]
          ELSE Fail(p, seen)
  /\ Quiet /\ UNCHANGED <<attempt, sent>>

Finish(p) ==
  /\ stage[p] = "finishing"
  /\ \/ \E c \in Clocks :
          /\ c = "unreadable" => memo[p].attempted
          /\ attempt' = [attempt EXCEPT ![at[p]].final = [memo[p] EXCEPT !.clock = c]]
     \/ Faults /\ UNCHANGED attempt
  /\ Leave(p)
  /\ Quiet /\ UNCHANGED sent

\* A process dies, perhaps while it fills a file.
Die(p) ==
  /\ Faults /\ stage[p] # "idle"
  /\ \/ UNCHANGED attempt
     \/ /\ stage[p] = "started"
        /\ attempt' = [attempt EXCEPT ![at[p]].request = "cut"]
     \/ /\ stage[p] = "copied"
        /\ attempt' = [attempt EXCEPT ![at[p]].wire = "cut"]
     \/ /\ stage[p] = "answered" /\ memo[p].reply.body # "none"
        /\ attempt' = [attempt EXCEPT ![at[p]].response = "cut"]
  /\ Leave(p)
  /\ Quiet /\ UNCHANGED sent

Edit ==
  /\ repo' \in Fingerprint \ {repo}
  /\ UNCHANGED <<preparation, runs, summary>>

(***************************************************************************)
(* summary: step after step, file after file.                              *)
(***************************************************************************)
\* Mutant: whatever became of the attempt.
Answered(o) == o.written /\ o.reply.answered

\* A successful answer that was delivered, on the prepared basis.
Good(o) ==
  /\ o.status = "completed" /\ o.written /\ o.reply.answered
  /\ o.before = basis /\ o.after = basis

\* What the files of a finished attempt amount to.
ItemOf(a) ==
  LET o    == a.final
      bare == [NotRun EXCEPT !.status = o.status, !.integrity = TRUE, !.delivery = o.written]
  IN CASE o.clock # "sound" \/ a.request # "whole" \/ a.wire # "whole" -> Invalid
       [] o.reply.body = "none" ->
            [bare EXCEPT !.refused = a.response # "absent"]
       [] a.response # "whole" ->
            [bare EXCEPT !.integrity = FALSE, !.delivery = FALSE, !.refused = TRUE]
       [] o.reply.body = "cut" -> bare
       [] ~o.reply.decodes -> [bare EXCEPT !.refused = TRUE]
       [] OTHER ->
            [bare EXCEPT !.costed = o.reply.costed, !.scored = Good(o),
                         !.refused = o.status = "completed" /\ ~Good(o)]

Inventory(item) ==
  /\ items' = [items EXCEPT ![turn] = item]
  /\ turn' = IF turn = NumSteps THEN 1 ELSE turn + 1
  /\ reader' = IF turn = NumSteps THEN "done" ELSE "directory"

Looking == UNCHANGED <<preparation, repo, runs, begun>>

Summarize ==
  /\ reader = "idle" /\ prepared = "prepared"
  /\ reader' = "directory"
  /\ begun' = {s \in Step : attempt[s].dir}
  /\ UNCHANGED <<preparation, repo, runs, turn, items>>

\* Mutant: what is not finished is left out, as if it had not been run.
LookOnlyForRecords ==
  /\ reader = "directory"
  /\ IF Finished(turn) THEN reader' = "start" /\ UNCHANGED <<turn, items>>
     ELSE Inventory(NotRun)
  /\ Looking

LookForDirectory ==
  /\ reader = "directory"
  /\ IF attempt[turn].dir THEN reader' = "start" /\ UNCHANGED <<turn, items>>
     ELSE Inventory(NotRun)
  /\ Looking

LookForStart ==
  /\ reader = "start"
  /\ IF attempt[turn].start THEN reader' = "final" /\ UNCHANGED <<turn, items>>
     ELSE Inventory(Invalid)
  /\ Looking

LookForRecord ==
  /\ reader = "final"
  /\ IF Finished(turn) THEN reader' = "files" /\ UNCHANGED <<turn, items>>
     ELSE Inventory([Invalid EXCEPT !.status = "started"])
  /\ Looking

ReadFiles ==
  /\ reader = "files"
  /\ Inventory(ItemOf(attempt[turn]))
  /\ Looking

Report ==
  /\ reader = "done"
  /\ reader' = "idle"
  /\ items' = [s \in Step |-> NotRun]
  /\ begun' = {}
  /\ UNCHANGED <<preparation, repo, runs, turn>>

(***************************************************************************)
(* What the summary derives from its inventory.                            *)
(***************************************************************************)
Trusted == \A s \in Step : ~items[s].refused

\* Mutant: a step without a cost adds nothing.
TotalOfTheRun == Trusted /\ \A s \in Step : items[s].status # "not_run" => items[s].costed

\* The total is known.
TotalKnown == Trusted /\ \A s \in Step : items[s].costed

\* A verdict may be given on the pair.
Judged == Trusted /\ \A s \in Pair : items[s].integrity /\ items[s].scored

Work(p) ==
  \/ Check(p) \/ Refuse(p) \/ Reserve(p) \/ Journal(p) \/ CopyRequest(p)
  \/ CopyWire(p) \/ Preflight(p) \/ Send(p) \/ Receive(p) \/ KeepResponse(p)
  \/ Postflight(p) \/ Finish(p)

Look == LookForDirectory \/ LookForStart \/ LookForRecord \/ ReadFiles

Next ==
  \/ Capture \/ MakeCue \/ Freeze \/ FailPreparation \/ Edit
  \/ \E p \in Process : Work(p) \/ Die(p) \/ (\E s \in Step : Load(p, s))
  \/ Summarize \/ Look \/ Report

Spec == Init /\ [][Next]_vars

(***************************************************************************)
(* Properties.                                                             *)
(***************************************************************************)
TypeOK ==
  /\ prepared \in {"no", "captured", "cued", "prepared", "failed"}
  /\ basis \in Fingerprint \union {None}
  /\ repo \in Fingerprint
  /\ attempt \in [Step -> Attempts]
  /\ stage \in [Process -> {"idle", "checking", "reserved", "started", "copied", "wired",
                            "ready", "sent", "answered", "kept", "finishing"}]
  /\ at \in [Process -> Step]
  /\ checked \in [Process -> 0..NumSteps]
  /\ memo \in [Process -> Observations]
  /\ sent \in [Step -> Nat]
  /\ reader \in {"idle", "directory", "start", "final", "files", "done"}
  /\ turn \in Step
  /\ items \in [Step -> Items]
  /\ begun \subseteq Step

\* docs/PROMPT_CACHING.md: "Failed or interrupted attempts remain visible and
\* cannot be retried in that directory": whatever runs race, fail or die, the
\* provider is sent the request of a step at most once.
RequestsAreNotRepeated == \A s \in Step : sent[s] <= 1

\* The schedule is kept: a step is reserved only when the preceding ones are
\* finished, so their requests are answered or given up, and an attempt that was
\* interrupted stops the schedule for good.
ScheduleIsKept ==
  \A s, t \in Step : s < t /\ attempt[t].dir => Readable(s)

\* An attempt that is finished does not change: what a summary made of it stays
\* true, and what the next step checked of it too.
RecordsAreFinal ==
  [][\A s \in Step : Finished(s) => attempt'[s] = attempt[s]]_vars

\* A summary of runs still going on tells what a summary after them will: the
\* attempts it saw finished are in it as they are, and no step reserved before
\* it began is missing.
SummaryIsLasting ==
  reader = "done" =>
    \A s \in Step :
      /\ items[s].status \in {"completed", "failed"} => items[s] = ItemOf(attempt[s])
      /\ items[s].status = "not_run" => s \notin begun

\* The total is only given when it has the cost of every request the provider
\* was sent, and none that was not sent.
TotalCountsEveryRequest ==
  reader = "done" /\ TotalKnown =>
    \A s \in Step : sent[s] = 1 /\ attempt[s].final.reply.costed

\* A verdict rests on requests that were each sent once, on the basis of the
\* preparation, and completed on it.
VerdictsAreFounded ==
  reader = "done" /\ Judged =>
    \A s \in Pair :
      /\ sent[s] = 1 /\ attempt[s].final.status = "completed"
      /\ attempt[s].final.before = basis /\ attempt[s].final.after = basis

\* No completed attempt is lost to the summary unless the clock was set back or
\* the reply overtook the note that the request was written.
CompletedAttemptsAreAccepted ==
  \A s \in Step :
    LET o == attempt[s].final
    IN o.status = "completed" /\ o.clock = "sound" /\ o.written =>
         ItemOf(attempt[s]).scored /\ ~ItemOf(attempt[s]).refused
===============================================================================
