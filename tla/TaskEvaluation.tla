---------------------------- MODULE TaskEvaluation ----------------------------
(***************************************************************************)
(* `evaluate-task` and `evaluate-task summary` over one output directory.  *)
(*                                                                         *)
(* An evaluation prepares a *pair*: it refreshes the maintained cache, asks *)
(* the command line for an overview cue and for a task cue, and freezes    *)
(* them in a directory with the state of the repository they belong to.    *)
(* With a runner it then makes two attempts, one per cue.  Each attempt     *)
(* sends a request to a paid provider and keeps what came back.  A summary  *)
(* reads the directories, also while evaluations go on, and gives a verdict *)
(* only on complete pairs.                                                 *)
(*                                                                         *)
(* The repository, the maintained cache, the provider's program and the    *)
(* retained files change while all this happens.                           *)
(***************************************************************************)
EXTENDS Naturals, FiniteSets, Sequences

CONSTANTS
  None,           \* what is not there
  Pairs,          \* the invocations of evaluate-task, each with its directory
  RequiredPairs,  \* how many pairs the frozen policy may ask for
  UsedOrders,     \* the orders of the arms that are asked for
  Contents,       \* states of the repository, as their fingerprints
  Replies,        \* what the provider's program may do: a sequence of Events, and
                  \* whether it exits well
  Alterable,      \* the retained files that somebody may change
  MaxRunning,     \* bound: evaluations that run at the same time
  MaxVersion,     \* bound: versions of the provider's program
  MaxTroubles     \* bound: edits, refreshes by others, upgrades, changes of retained
                  \* files, failures, deaths and imperfect replies, all together,
                  \* where so many evaluations have been started

Arms == {"overview", "task"}

Orders == {o \in [1..2 -> Arms] : o[1] # o[2]}

\* The frozen file of each arm is named for it.
PairFiles == Arms \union {"benchmark", "schema"}

AttemptFiles ==
  {"cue", "prompt", "request", "submitted", "schema", "invocation", "provider", "stdout"}

FileStates == {"absent", "right", "wrong"}

Events ==
  {"started", "completed", "uncounted",   \* turns; uncounted: no token counters
   "failed", "sources",                   \* sources: a command printed them whole
   "right", "wrong", "garbled"}           \* answers, and what is neither

(***************************************************************************)
(* The provider's event stream, as `parseTaskEvents` reads it.             *)
(***************************************************************************)
EndsTurn(event) == event \in {"completed", "uncounted"}

\* The last answer counts.
Answer(stream) ==
  LET answers == {i \in DOMAIN stream : stream[i] \in {"right", "wrong"}}
      RightAtLast == \E i \in answers : stream[i] = "right" /\ \A j \in answers : j <= i
  IN IF answers = {} THEN None ELSE IF RightAtLast THEN "right" ELSE "wrong"

\* A turn that started before event n has not ended.
TurnOpen(stream, n) ==
  \E i \in 1..(n - 1) :
    stream[i] = "started" /\ \A j \in (i + 1)..(n - 1) : ~EndsTurn(stream[j])

StreamIsWhole(stream) ==
  /\ \A i \in DOMAIN stream :
       /\ stream[i] \notin {"garbled", "failed"}
       /\ stream[i] = "started" => ~TurnOpen(stream, i)
  /\ ~TurnOpen(stream, Len(stream) + 1)
  /\ Answer(stream) # None

\* The usage has a price when every turn that ended told its counters.
Counted(stream) ==
  /\ \E i \in DOMAIN stream : stream[i] = "completed"
  /\ \A i \in DOMAIN stream : stream[i] # "uncounted"

\* What the runner reports: the prompt and cue it read, the version of the
\* program, and what the stream told.  An observation of a failed run says no more.
Observation(read, reply) ==
  LET stream == reply.stream
  IN [status |-> IF ~StreamIsWhole(stream) THEN "invalid"
                 ELSE IF reply.exited THEN "completed" ELSE "failed",
      prompt |-> read.prompt, cue |-> read.cue, version |-> read.version,
      counted |-> Counted(stream), sources |-> \E i \in DOMAIN stream : stream[i] = "sources",
      answer |-> Answer(stream)]

Transports ==
  [status : {"completed", "failed", "invalid"}, prompt : FileStates, cue : FileStates,
   version : 0..MaxVersion, counted : BOOLEAN, sources : BOOLEAN,
   answer : {"right", "wrong", None}]

ASSUME ConstantsAssumption ==
  /\ MaxVersion \in Nat \ {0}
  /\ UsedOrders \subseteq Orders
  /\ Replies \subseteq [stream : Seq(Events), exited : BOOLEAN]

VARIABLES
  tree,        \* the state of the repository
  recorded,    \* the state the maintained cache holds
  version,     \* the installed version of the provider's program
  troubles,    \* the counter for the bound
  stage, run,  \* where each evaluation is, and what it remembers
  manifest,    \* manifest.json of each pair
  pairFile,    \* the frozen files of each pair
  attempt,     \* the attempt directories of each pair
  exchange,    \* what the provider was sent and answered, as it knows
  summary      \* the reader

world == <<tree, recorded, version>>

files == <<manifest, pairFile, attempt>>

vars == <<world, troubles, stage, run, files, exchange, summary>>

States == Contents \union {None}

\* What the runner has read when it starts the provider.
Readings == [prompt : FileStates, cue : FileStates, version : 0..MaxVersion]

NothingRead == [prompt |-> "absent", cue |-> "absent", version |-> 0]

Memories ==
  [order : Orders, next : 1..2, basis : States, cue : [Arms -> States],
   before : States, prompt : FileStates, read : Readings, sound : BOOLEAN,
   transport : Transports \union {None}, version : 0..MaxVersion]

\* `version` is what the first attempt's runner told.
Remember(order) ==
  [order |-> order, next |-> 1, basis |-> None, cue |-> [a \in Arms |-> None],
   before |-> None, prompt |-> "absent", read |-> NothingRead, sound |-> TRUE,
   transport |-> None, version |-> 0]

Forgotten == Remember(<<"overview", "task">>)

Arm(p) == run[p].order[run[p].next]

Manifests ==
  [kind : {"preparation", "pair"},
   status : {"preparing", "prepared", "running", "completed", "failed"}, basis : States]

FinalRecords ==
  [status : {"completed", "failed"}, before : States, after : States,
   transport : Transports \union {None}, digest : [AttemptFiles -> FileStates]]

Attempts ==
  [dir : BOOLEAN, start : BOOLEAN, file : [AttemptFiles -> FileStates],
   final : FinalRecords \union {None}]

NoAttempt ==
  [dir |-> FALSE, start |-> FALSE, file |-> [f \in AttemptFiles |-> "absent"], final |-> None]

\* A line of the inventory.
Items ==
  [status : {"invalid", "started", "completed", "failed"}, eligible : BOOLEAN,
   delivered : BOOLEAN, correct : BOOLEAN, credit : BOOLEAN, version : 0..MaxVersion]

Invalid ==
  [status |-> "invalid", eligible |-> FALSE, delivered |-> FALSE, correct |-> FALSE,
   credit |-> FALSE, version |-> 0]

NoSummary ==
  [stage |-> "idle", todo |-> {}, at |-> None, intact |-> FALSE, arms |-> {},
   seen |-> [p \in Pairs |-> None], item |-> [p \in Pairs |-> [a \in Arms |-> None]],
   errors |-> FALSE, begun |-> {}]

Summaries ==
  [stage : {"idle", "listing", "pair", "attempts", "done"}, todo : SUBSET Pairs,
   at : Pairs \union {None}, intact : BOOLEAN, arms : SUBSET Arms,
   seen : [Pairs -> Manifests \union {None}],
   item : [Pairs -> [Arms -> Items \union {None}]],
   errors : BOOLEAN, begun : SUBSET (Pairs \X Arms)]

Stages ==
  {"idle", "made", "refresh", "basis", "overview", "task", "again", "mkdir",
   "journal", "before", "launch", "ready", "sent", "after", "finish", "failing", "ended"}

Exchanges == [prompt : FileStates, reply : Replies \union {None}]

ASSUME NoneAssumption ==
  None \notin Contents \union Pairs \union Transports \union Manifests \union FinalRecords
                \union Items \union Exchanges \union Replies

Init ==
  /\ tree \in Contents
  /\ recorded \in Contents
  /\ version = 1
  /\ troubles = 0
  /\ stage = [p \in Pairs |-> "idle"]
  /\ run = [p \in Pairs |-> Forgotten]
  /\ manifest = [p \in Pairs |-> None]
  /\ pairFile = [p \in Pairs |-> [f \in PairFiles |-> "absent"]]
  /\ attempt = [p \in Pairs |-> [a \in Arms |-> NoAttempt]]
  /\ exchange = [p \in Pairs |-> [a \in Arms |-> None]]
  /\ summary = NoSummary

(***************************************************************************)
(* The world: the working tree is edited, another process refreshes the    *)
(* cache, the provider's program is upgraded, a retained file is changed.   *)
(***************************************************************************)
Started == {p \in Pairs : stage[p] # "idle"}

Trouble == Started # {} /\ troubles < MaxTroubles[Cardinality(Started)] /\ troubles' = troubles + 1

Edit(c) ==
  /\ Trouble
  /\ c # tree
  /\ tree' = c
  /\ UNCHANGED <<recorded, version, stage, run, files, exchange, summary>>

RefreshElsewhere ==
  /\ Trouble
  /\ recorded # tree
  /\ recorded' = tree
  /\ UNCHANGED <<tree, version, stage, run, files, exchange, summary>>

Upgrade ==
  /\ Trouble
  /\ version < MaxVersion
  /\ version' = version + 1
  /\ UNCHANGED <<tree, recorded, stage, run, files, exchange, summary>>

\* Assumed: nobody changes a retained file while a summary reads them.
AlterPairFile(p, f, content) ==
  /\ Trouble
  /\ summary.stage \in {"idle", "done"}
  /\ f \in Alterable
  /\ pairFile[p][f] \notin {"absent", content}
  /\ pairFile' = [pairFile EXCEPT ![p][f] = content]
  /\ UNCHANGED <<world, stage, run, manifest, attempt, exchange, summary>>

AlterAttemptFile(p, a, f, content) ==
  /\ Trouble
  /\ summary.stage \in {"idle", "done"}
  /\ f \in Alterable
  /\ attempt[p][a].file[f] \notin {"absent", content}
  /\ attempt' = [attempt EXCEPT ![p][a].file[f] = content]
  /\ UNCHANGED <<world, stage, run, manifest, pairFile, exchange, summary>>

(***************************************************************************)
(* RunTask: the preparation.                                                *)
(***************************************************************************)
Goto(p, s) == stage' = [stage EXCEPT ![p] = s]

\* The process ends, and its memory with it.
End(p) == Goto(p, "ended") /\ run' = [run EXCEPT ![p] = Forgotten]

Running == {p \in Pairs : stage[p] \notin {"idle", "ended"}}

\* The directory, benchmark.json, answer.schema.json.
MakeDirectory(p, order) ==
  /\ stage[p] = "idle"
  /\ Cardinality(Running) < MaxRunning
  /\ troubles <= MaxTroubles[Cardinality(Started) + 1]
  /\ run' = [run EXCEPT ![p] = Remember(order)]
  /\ pairFile' = [pairFile EXCEPT ![p].benchmark = "right", ![p].schema = "right"]
  /\ Goto(p, "made")
  /\ UNCHANGED <<world, troubles, manifest, attempt, exchange, summary>>

Manifest(p, kind, status) ==
  manifest' = [manifest EXCEPT ![p] = [kind |-> kind, status |-> status, basis |-> run[p].basis]]

Announce(p) ==
  /\ stage[p] = "made"
  /\ Manifest(p, "preparation", "preparing")
  /\ Goto(p, "refresh")
  /\ UNCHANGED <<world, troubles, run, pairFile, attempt, exchange, summary>>

RefreshCache(p) ==
  /\ stage[p] = "refresh"
  /\ recorded' = tree
  /\ Goto(p, "basis")
  /\ UNCHANGED <<tree, version, troubles, run, files, exchange, summary>>

CaptureBasis(p) ==
  /\ stage[p] = "basis"
  /\ run' = [run EXCEPT ![p].basis = tree]
  /\ Goto(p, "overview")
  /\ UNCHANGED <<world, troubles, files, exchange, summary>>

\* An overview is of whatever the cache holds, fresh or not.
CueOverview(p) ==
  /\ stage[p] = "overview"
  /\ run' = [run EXCEPT ![p].cue["overview"] = recorded]
  /\ pairFile' = [pairFile EXCEPT ![p]["overview"] = "right"]
  /\ Goto(p, "task")
  /\ UNCHANGED <<world, troubles, manifest, attempt, exchange, summary>>

\* `cue --view task` refuses a cache that is not fresh, and the evaluation a cue
\* that is not of the basis.
CueTask(p) ==
  /\ stage[p] = "task"
  /\ recorded = tree
  /\ recorded = run[p].basis
  /\ run' = [run EXCEPT ![p].cue["task"] = recorded]
  /\ pairFile' = [pairFile EXCEPT ![p]["task"] = "right"]
  /\ Goto(p, "again")
  /\ UNCHANGED <<world, troubles, manifest, attempt, exchange, summary>>

\* The basis is captured again; without a runner that is the end.
PrepareOnly(p) ==
  /\ stage[p] = "again"
  /\ tree = run[p].basis
  /\ Manifest(p, "preparation", "prepared")
  /\ End(p)
  /\ UNCHANGED <<world, troubles, pairFile, attempt, exchange, summary>>

StartPair(p) ==
  /\ stage[p] = "again"
  /\ tree = run[p].basis
  /\ Manifest(p, "pair", "running")
  /\ Goto(p, "mkdir")
  /\ UNCHANGED <<world, troubles, run, pairFile, attempt, exchange, summary>>

(***************************************************************************)
(* runTaskAttempt.  From the start record on, an error goes on to the      *)
(* deferred final record.                                                  *)
(***************************************************************************)
MakeAttempt(p) ==
  /\ stage[p] = "mkdir"
  /\ attempt' = [attempt EXCEPT ![p][Arm(p)].dir = TRUE]
  /\ run' = [run EXCEPT ![p].before = None, ![p].prompt = "absent", ![p].read = NothingRead,
                        ![p].transport = None]
  /\ Goto(p, "journal")
  /\ UNCHANGED <<world, troubles, manifest, pairFile, exchange, summary>>

Journal(p) ==
  /\ stage[p] = "journal"
  /\ attempt' = [attempt EXCEPT ![p][Arm(p)].start = TRUE]
  /\ Goto(p, "before")
  /\ UNCHANGED <<world, troubles, run, manifest, pairFile, exchange, summary>>

\* The copies the attempt makes of the frozen cue, and the prompt it makes of it.
Copies(p) ==
  LET frozen == pairFile[p][Arm(p)]
  IN [attempt[p][Arm(p)].file EXCEPT !["cue"] = frozen, !["prompt"] = frozen,
                                     !["request"] = "right"]

\* The copies the runner makes of what it is to send.
Submission(p) ==
  LET file == attempt[p][Arm(p)].file
  IN [file EXCEPT !["submitted"] = file["prompt"], !["schema"] = "right",
                  !["invocation"] = "right"]

\* Of the files that were to be written in this order, the first n are, and the next
\* one is not or is cut off.
PartlyWritten(old, new, order) ==
  {[f \in AttemptFiles |->
      IF \E i \in 1..n : order[i] = f THEN new[f]
      ELSE IF n < Len(order) /\ f = order[n + 1] THEN left ELSE old[f]] :
   n \in 0..Len(order), left \in {"absent", "wrong"}}

\* The repository is captured and must be the basis; then the copies are made.
CopyInputs(p) ==
  /\ stage[p] = "before"
  /\ tree = run[p].basis
  /\ pairFile[p][Arm(p)] # "absent"
  /\ run' = [run EXCEPT ![p].before = tree, ![p].prompt = pairFile[p][Arm(p)]]
  /\ attempt' = [attempt EXCEPT ![p][Arm(p)].file = Copies(p)]
  /\ Goto(p, "launch")
  /\ UNCHANGED <<world, troubles, manifest, pairFile, exchange, summary>>

\* The capture fails, finds another state, or a copy cannot be made.
FailCopies(p) ==
  LET file == attempt[p][Arm(p)].file
  IN /\ Trouble
     /\ stage[p] = "before"
     /\ \E before \in {tree, None} :
          \E left \in IF before = run[p].basis
                      THEN PartlyWritten(file, Copies(p), <<"cue", "prompt", "request">>)
                      ELSE {file} :
            /\ run' = [run EXCEPT ![p].before = before, ![p].sound = FALSE]
            /\ attempt' = [attempt EXCEPT ![p][Arm(p)].file = left]
     /\ Goto(p, "after")
     /\ UNCHANGED <<world, manifest, pairFile, exchange, summary>>

\* The runner reads what it is to send, keeps a copy, and asks the provider's program
\* for its version.
ReadInputs(p) ==
  LET file == attempt[p][Arm(p)].file
  IN /\ stage[p] = "launch"
     /\ "absent" \notin {file["prompt"], file["cue"]}
     /\ pairFile[p].schema = "right"
     /\ attempt' = [attempt EXCEPT ![p][Arm(p)].file = Submission(p)]
     /\ run' = [run EXCEPT ![p].read =
                  [prompt |-> file["prompt"], cue |-> file["cue"], version |-> version]]
     /\ Goto(p, "ready")
     /\ UNCHANGED <<world, troubles, manifest, pairFile, exchange, summary>>

\* It starts the program, which may be of a later version by now: nothing tells.
Launch(p) ==
  /\ stage[p] = "ready"
  /\ exchange' = [exchange EXCEPT ![p][Arm(p)] = [prompt |-> run[p].read.prompt, reply |-> None]]
  /\ Goto(p, "sent")
  /\ UNCHANGED <<world, troubles, run, files, summary>>

\* What a runner that fails prints: as much as it had read.
FailedObservation(read) ==
  [status |-> "failed", prompt |-> read.prompt, cue |-> read.cue, version |-> read.version,
   counted |-> FALSE, sources |-> FALSE, answer |-> None]

\* The runner fails, with an observation or without one, before the program has ended.
FailRunner(p) ==
  LET file == attempt[p][Arm(p)].file
      read == [prompt |-> file["prompt"], cue |-> file["cue"], version |-> 0]
  IN /\ Trouble
     /\ stage[p] \in {"launch", "ready", "sent"}
     /\ \E transport \in {None, FailedObservation(run[p].read)} \union
                         (IF stage[p] = "launch" THEN {FailedObservation(read)} ELSE {}) :
          \E left \in IF stage[p] = "launch"
                      THEN PartlyWritten(file, Submission(p),
                                         <<"submitted", "schema", "invocation">>)
                      ELSE {[file EXCEPT !["provider"] = "wrong"]} :
            /\ run' = [run EXCEPT ![p].transport = transport, ![p].sound = FALSE]
            /\ attempt' = [attempt EXCEPT ![p][Arm(p)].file =
                 [left EXCEPT !["stdout"] = IF transport = None THEN "wrong" ELSE "right"]]
     /\ Goto(p, "after")
     /\ UNCHANGED <<world, manifest, pairFile, exchange, summary>>

\* What the attempt asks of an observation, and of the files beside it.
Accepted(p, transport, file) ==
  /\ transport.status = "completed"
  /\ file["schema"] = "right" /\ file["invocation"] = "right"
  /\ file["submitted"] = run[p].prompt
  /\ transport.prompt = run[p].prompt
  /\ transport.cue = run[p].prompt

Perfect(transport) ==
  transport.status = "completed" /\ transport.counted /\ transport.sources
    /\ transport.answer = "right"

\* The provider's program ends, the runner prints its observation, and the
\* attempt examines it.
Answered(p, reply) ==
  LET transport == Observation(run[p].read, reply)
      file == [attempt[p][Arm(p)].file EXCEPT !["provider"] = "right", !["stdout"] = "right"]
  IN /\ stage[p] = "sent"
     /\ IF Perfect(transport) THEN UNCHANGED troubles ELSE Trouble
     /\ attempt' = [attempt EXCEPT ![p][Arm(p)].file = file]
     /\ exchange' = [exchange EXCEPT ![p][Arm(p)].reply = reply]
     /\ run' = [run EXCEPT ![p].transport = transport, ![p].sound = Accepted(p, transport, file)]
     /\ Goto(p, "after")
     /\ UNCHANGED <<world, manifest, pairFile, summary>>

\* The deferred function: the repository is captured again and must not have
\* changed, the artifacts are hashed, and attempt.json is renamed into place.
FinishAttempt(p) ==
  LET a == Arm(p)
      sound == run[p].sound /\ run[p].before = tree
  IN /\ stage[p] = "after"
     /\ attempt' = [attempt EXCEPT ![p][a].final =
          [status |-> IF sound THEN "completed" ELSE "failed",
           before |-> run[p].before, after |-> tree,
           transport |-> run[p].transport,
           digest |-> attempt[p][a].file]]
     /\ IF ~sound
        THEN Goto(p, "failing") /\ UNCHANGED run
        ELSE IF run[p].next = 1
             THEN /\ run' = [run EXCEPT ![p].next = 2,
                                        ![p].version = run[p].transport.version]
                  /\ Goto(p, "mkdir")
             ELSE Goto(p, "finish") /\ UNCHANGED run
     /\ UNCHANGED <<world, troubles, manifest, pairFile, exchange, summary>>

\* Mutant: whatever versions they met.
FinishAnyPair(p) ==
  /\ stage[p] = "finish"
  /\ Manifest(p, "pair", "completed")
  /\ End(p)
  /\ UNCHANGED <<world, troubles, pairFile, attempt, exchange, summary>>

\* Both attempts must have met the same version of the provider's program.
FinishPair(p) ==
  /\ stage[p] = "finish"
  /\ Manifest(p, "pair", IF run[p].transport.version = run[p].version
                         THEN "completed" ELSE "failed")
  /\ End(p)
  /\ UNCHANGED <<world, troubles, pairFile, attempt, exchange, summary>>

\* Any other error ends the evaluation, with a last manifest.
Fail(p) ==
  /\ Trouble
  /\ stage[p] \in {"made", "refresh", "basis", "overview", "task", "again", "mkdir",
                   "journal", "after"}
  /\ Goto(p, "failing")
  /\ UNCHANGED <<world, run, files, exchange, summary>>

\* What the failed evaluation calls itself: a pair that could not be announced as
\* running is one nevertheless.
KindsToKeep(p) ==
  (IF manifest[p] = None THEN {"preparation"} ELSE {manifest[p].kind})
    \union (IF run[p].cue["task"] = None THEN {} ELSE {"pair"})

KeepFailure(p) ==
  /\ stage[p] = "failing"
  /\ \E kind \in KindsToKeep(p) : Manifest(p, kind, "failed")
  /\ End(p)
  /\ UNCHANGED <<world, troubles, pairFile, attempt, exchange, summary>>

\* The process dies, or cannot write its last manifest.
Die(p) ==
  /\ Trouble
  /\ stage[p] \notin {"idle", "ended"}
  /\ End(p)
  /\ UNCHANGED <<world, files, exchange, summary>>

(***************************************************************************)
(* SummarizeTasks.  It lists the directories and reads each in turn: the   *)
(* manifest, then the frozen files and the names of the attempts, then each *)
(* attempt.                                                                *)
(***************************************************************************)
Launched == {pa \in Pairs \X Arms : exchange[pa[1]][pa[2]] # None}

\* One summary, at any time, stands for each of several: none depends on another.
Summarize ==
  /\ summary.stage = "idle"
  /\ Started # {}
  /\ summary' = [NoSummary EXCEPT !.stage = "listing", !.begun = Launched, !.todo = Started]
  /\ UNCHANGED <<world, troubles, stage, run, files, exchange>>

Children(p) == {a \in Arms : attempt[p][a].dir}

\* The reader goes on to the next pair when no attempt is left; the last pair ends
\* the summary.
Proceed(s) ==
  IF s.arms # {} THEN [s EXCEPT !.stage = "attempts"]
  ELSE [s EXCEPT !.stage = IF s.todo = {} THEN "done" ELSE "listing", !.at = None,
                 !.intact = FALSE]

\* Preparations are passed over.  An unreadable pair is an error, and its attempts
\* are listed all the same.
ReadManifest(p) ==
  /\ summary.stage = "listing"
  /\ p \in summary.todo
  /\ LET passed == [summary EXCEPT !.todo = @ \ {p}]
     IN summary' =
          IF manifest[p] = None
          THEN Proceed([passed EXCEPT !.errors = TRUE,
                  !.item[p] = [a \in Arms |-> IF a \in Children(p) THEN Invalid ELSE None]])
          ELSE IF manifest[p].kind # "pair" THEN Proceed(passed)
          ELSE [passed EXCEPT !.stage = "pair", !.at = p, !.seen[p] = manifest[p]]
  /\ UNCHANGED <<world, troubles, stage, run, files, exchange>>

\* verifyTaskPair: every frozen file is what the manifest says it is.
PairIsIntact(p) == \A f \in PairFiles : pairFile[p][f] = "right"

ReadPair ==
  /\ summary.stage = "pair"
  /\ summary' = Proceed([summary EXCEPT !.arms = Children(summary.at),
                                       !.intact = PairIsIntact(summary.at)])
  /\ UNCHANGED <<world, troubles, stage, run, files, exchange>>

\* Mutant: only the recorded digests are compared.
DigestsMatch(p, a) ==
  LET final == attempt[p][a].final
  IN final # None =>
       \A f \in AttemptFiles : final.digest[f] \in {"absent", attempt[p][a].file[f]}

\* verifyTaskAttempt: the retained files are those that were recorded, and tell
\* the story the record tells.
AttemptIsIntact(p, a) ==
  LET final == attempt[p][a].final
      file == attempt[p][a].file
  IN final # None =>
     /\ \A f \in AttemptFiles : final.digest[f] \in {"absent", file[f]}
     /\ final.status = "completed" => \A f \in AttemptFiles : final.digest[f] # "absent"
     /\ final.transport # None =>
          /\ file["stdout"] = "right"
          /\ file["cue"] # "absent" /\ file["cue"] = pairFile[p][a]
          /\ file["prompt"] = file["cue"]
          /\ file["submitted"] = file["prompt"]
          /\ final.transport.prompt = file["submitted"]
          /\ final.transport.cue = file["cue"]
          /\ file["request"] = "right" /\ file["schema"] = "right"
          /\ file["invocation"] = "right"

Eligible(final, basis) ==
  /\ final # None
  /\ final.status = "completed"
  /\ final.transport # None
  /\ final.transport.status = "completed"
  /\ final.before = basis
  /\ final.after = basis

\* DeliveryEvidence: a task cue holds the sources; of an overview the provider must
\* have read them itself.
Delivered(final, a, cue) ==
  /\ final # None /\ final.transport # None
  /\ (a = "task" /\ cue = "right") \/ final.transport.sources

\* Score and TaskCredit.
Correct(transport) == transport.status = "completed" /\ transport.answer = "right"

Credit(transport) == transport.status = "completed" /\ transport.counted

Line(p, a, basis, intact) ==
  LET final == attempt[p][a].final
      valid == intact /\ AttemptIsIntact(p, a)
      told == valid /\ final # None /\ final.transport # None
  IN IF final = None /\ ~attempt[p][a].start THEN Invalid
     ELSE [status |-> IF final = None THEN "started" ELSE final.status,
           eligible |-> valid /\ Eligible(final, basis),
           delivered |-> valid /\ Delivered(final, a, attempt[p][a].file["cue"]),
           correct |-> told /\ Correct(final.transport),
           credit |-> told /\ Credit(final.transport),
           version |-> IF final = None \/ final.transport = None THEN 0
                       ELSE final.transport.version]

ReadAttempt(a) ==
  LET p == summary.at
      line == Line(p, a, summary.seen[p].basis, summary.intact)
  IN /\ summary.stage = "attempts"
     /\ a \in summary.arms
     /\ summary' = Proceed([summary EXCEPT !.arms = @ \ {a}, !.item[p][a] = line,
                                          !.errors = @ \/ line = Invalid])
     /\ UNCHANGED <<world, troubles, stage, run, files, exchange>>

\* Mutant: only the pairs that were completed are counted.
CompletedGroup(basis) ==
  {p \in Pairs : summary.seen[p] # None /\ summary.seen[p].basis = basis
                 /\ summary.seen[p].status = "completed"}

\* The pairs of one group: all else being equal, those of one basis.
Group(basis) == {p \in Pairs : summary.seen[p] # None /\ summary.seen[p].basis = basis}

\* Mutant: a pair that still runs is compared once its attempts are eligible.
ComparableAttempts(p) ==
  \A a \in Arms : summary.item[p][a] # None /\ summary.item[p][a].eligible

Comparable(p) ==
  /\ summary.seen[p].status = "completed"
  /\ \A a \in Arms : summary.item[p][a] # None /\ summary.item[p][a].eligible

\* The group gets a verdict, of whatever sign, under a policy that asks for so many
\* pairs.  Nothing before the verdict reads the policy's number.
Verdict(required, basis) ==
  LET group == Group(basis)
  IN /\ ~summary.errors
     /\ Cardinality(group) = required
     /\ \A p \in group :
          /\ Comparable(p)
          /\ \A a \in Arms : LET item == summary.item[p][a]
                            IN item.delivered /\ item.correct /\ item.credit
     /\ \A p, q \in group : \A a, b \in Arms :
          summary.item[p][a].version = summary.item[q][b].version

(***************************************************************************)
(* The specification.                                                      *)
(***************************************************************************)
Evaluate(p) ==
  \/ \E o \in UsedOrders : MakeDirectory(p, o)
  \/ Announce(p)     \/ RefreshCache(p) \/ CaptureBasis(p) \/ CueOverview(p)
  \/ CueTask(p)      \/ PrepareOnly(p)  \/ StartPair(p)    \/ MakeAttempt(p)
  \/ Journal(p)      \/ CopyInputs(p)   \/ FailCopies(p)   \/ ReadInputs(p)
  \/ Launch(p)       \/ FailRunner(p)
  \/ \E r \in Replies : Answered(p, r)
  \/ FinishAttempt(p) \/ FinishPair(p)  \/ Fail(p)         \/ KeepFailure(p)
  \/ Die(p)

ReadSummary ==
  \/ Summarize \/ ReadPair
  \/ \E p \in Pairs : ReadManifest(p)
  \/ \E a \in Arms : ReadAttempt(a)

World ==
  \/ \E c \in Contents : Edit(c)
  \/ RefreshElsewhere
  \/ Upgrade
  \/ \E p \in Pairs, content \in FileStates :
       \/ \E f \in PairFiles : AlterPairFile(p, f, content)
       \/ \E a \in Arms, f \in AttemptFiles : AlterAttemptFile(p, a, f, content)

Next == World \/ ReadSummary \/ \E p \in Pairs : Evaluate(p)

Spec == Init /\ [][Next]_vars

(***************************************************************************)
(* Properties.                                                             *)
(***************************************************************************)

\* The type of each variable; of task.go and task_attempt.go, the records they keep.
TypeOK ==
  /\ tree \in Contents /\ recorded \in Contents /\ version \in 1..MaxVersion
  /\ troubles \in Nat
  /\ stage \in [Pairs -> Stages]
  /\ run \in [Pairs -> Memories]
  /\ manifest \in [Pairs -> Manifests \union {None}]
  /\ pairFile \in [Pairs -> [PairFiles -> FileStates]]
  /\ attempt \in [Pairs -> [Arms -> Attempts]]
  /\ exchange \in [Pairs -> [Arms -> Exchanges \union {None}]]
  /\ summary \in Summaries

\* A pair is marked completed only when both of its attempts ended well, on the
\* frozen basis before and after, and were told one version of the provider's program
\* before they started it (task.go:230, task_attempt.go:173).
CompletedPairsAreWhole ==
  \A p \in Pairs : manifest[p] # None /\ manifest[p].status = "completed" =>
    /\ \A a \in Arms : LET final == attempt[p][a].final
                      IN /\ final # None /\ final.status = "completed"
                         /\ final.before = manifest[p].basis
                         /\ final.after = manifest[p].basis
    /\ \A a, b \in Arms :
         attempt[p][a].final.transport.version = attempt[p][b].final.transport.version

\* A summary calls an attempt eligible only when the provider was sent the frozen prompt,
\* answered it and exited well, whatever died, failed or was changed in between: an
\* attempt that died has a start record and no more (task_attempt.go:128), and an altered
\* file does not tell the recorded story (task_integrity.go:85).  The answer came in a
\* stream without an error before or after it, in which no turn began inside another
\* and the last one ended (codexadapter/task.go:183).
EligibleAttemptsAreAnswered ==
  \A p \in Pairs : \A a \in Arms :
    summary.item[p][a] # None /\ summary.item[p][a].eligible =>
      LET sent == exchange[p][a]
      IN /\ sent # None /\ sent.reply # None
         /\ sent.reply.exited /\ sent.prompt = "right"
         /\ LET stream == sent.reply.stream
                starts == {i \in DOMAIN stream : stream[i] = "started"}
            IN /\ \E i \in DOMAIN stream : stream[i] \in {"right", "wrong"}
               /\ \A i \in DOMAIN stream : stream[i] \notin {"failed", "garbled"}
               /\ \A i \in starts :
                    /\ \E j \in (i + 1)..Len(stream) : EndsTurn(stream[j])
                    /\ \A k \in starts : i < k =>
                         \E j \in (i + 1)..(k - 1) : EndsTurn(stream[j])

\* Every request that had been sent when a summary began is in its inventory, also
\* when its evaluation has died or is still going on ("Incomplete journals remain
\* visible", docs/EVALUATION.md:265), and no retry is selected: where a group gets a
\* verdict, every pair of its basis that had sent a request by then is in the group.
NoPairIsLeftOut ==
  summary.stage = "done" =>
    /\ \A pa \in summary.begun : summary.item[pa[1]][pa[2]] # None
    /\ \A required \in RequiredPairs, c \in Contents : Verdict(required, c) =>
         \A pa \in summary.begun : manifest[pa[1]].basis = c => pa[1] \in Group(c)

\* A verdict, also one that was given while other evaluations went on, rests on pairs
\* that stay as they were counted, and on answers that were right, priced, and given
\* with all the sources by a program that had told one version (task.go:534).
VerdictsAreFounded ==
  summary.stage = "done" =>
    \A required \in RequiredPairs, c \in Contents : Verdict(required, c) =>
      \E v \in 1..MaxVersion : \A p \in Group(c) :
        /\ manifest[p] = [kind |-> "pair", status |-> "completed", basis |-> c]
        /\ \A a \in Arms :
             LET stream == exchange[p][a].reply.stream
             IN /\ attempt[p][a].final.transport.version = v
                /\ Answer(stream) = "right" /\ Counted(stream)
                /\ a = "task" \/ \E i \in DOMAIN stream : stream[i] = "sources"
===============================================================================
