------------------------------- MODULE CueViews -------------------------------
(***************************************************************************)
(* One `cue` command: what it reads, how it makes its view fit the token   *)
(* budget, and what it prints.                                             *)
(*                                                                         *)
(* The command loads the snapshot that is recorded and compares it with    *)
(* the checkout once.  The ranked view reads facts from the live checkout  *)
(* and the task view reads original sources from it, each between two      *)
(* validations of the snapshot; the other views are made of the snapshot.  *)
(* A view that is too large loses entries from the end of its lists, the   *)
(* least important list first; a task cue loses whole optional items.      *)
(*                                                                         *)
(* Files are edited at any moment while the command reads.  A refresh by   *)
(* another process after the snapshot is loaded changes nothing here.      *)
(***************************************************************************)
EXTENDS Naturals, Sequences, FiniteSets

CONSTANTS
  None,
  Path,          \* the files that ranked facts, declaration and sources are read from
  Version,       \* the contents a file can have
  Recorded,      \* the snapshots that may be recorded, each the contents of the files
  FactsFile,     \* the Makefile the ranked facts are read from
  Declaration,   \* the context file of the task view
  Items,         \* the declared items in the order of their IDs: whether each is
                 \* required, and the files it refers to
  TextBytes,     \* [Path -> Nat], what each source adds to a cue
  EntryBytes,    \* what an entry of a list adds
  OmissionBytes, \* what an omitted item adds
  HintBytes,     \* what the hint at a larger budget adds
  WarningBytes,  \* what the warning of omitted files adds, but for its count
  Sizes,         \* the envelopes that are asked for: the bytes of all the rest, and
                 \* the token budget
  MaxEntries,    \* bound: entries in all lists of a view
  MaxEdits       \* bound: edits while the command reads

ASSUME FilesAssumption ==
  /\ {FactsFile, Declaration} \subseteq Path
  /\ Recorded \subseteq [Path -> Version]
  /\ None \notin Version

ASSUME ItemsAssumption == Items \in Seq([required : BOOLEAN, refs : Seq(Path)])

ASSUME BytesAssumption ==
  /\ {EntryBytes, OmissionBytes, HintBytes, WarningBytes, MaxEntries, MaxEdits} \subseteq Nat
  /\ TextBytes \in [Path -> Nat]
  /\ Sizes \subseteq [rest : Nat, budget : Nat]

(***************************************************************************)
(* The views.  The sections of each are in the order in which they are cut. *)
(***************************************************************************)
Sections(view) ==
  CASE view = "overview"   -> <<"documents", "topLevel", "languages">>
    [] view \in {"delta", "delta-v2"} -> <<"changes">>
    [] view = "provenance" -> <<"files">>
    [] view = "ranked"     -> <<"deepDirectories", "documents", "makeTargets", "recentCommits",
                                "directories", "entryPoints">>
    [] view \in {"placebo", "task"} -> <<>>

Views == {"overview", "delta", "delta-v2", "provenance", "ranked", "placebo", "task"}

Hinting == {"overview", "delta"}   \* they point at a larger budget when they are cut

\* The entries of all sections, each by its section and its place there.
Total(lists) == Cardinality(UNION {{i} \X (1..lists[i]) : i \in DOMAIN lists})

\* How many entries each section of a view has.
Contents(view) ==
  {lists \in [DOMAIN Sections(view) -> 0..MaxEntries] : Total(lists) <= MaxEntries}

\* The required items are first, each kind in the order of the IDs.
Precedes(i, j) ==
  IF Items[i].required = Items[j].required THEN i < j ELSE Items[i].required

\* The files an item refers to, and the one file the declaration is.
RefsOf(item) == IF item = 0 THEN <<Declaration>> ELSE Items[item].refs

(***************************************************************************)
(* Size.  A cue states the estimate of its own size, which adds its digits *)
(* to that size.                                                            *)
(***************************************************************************)
EstimateTokens(bytes) == (bytes + 3) \div 4

\* The numbers that have a digit more, for sizes below a billion bytes.
Powers == <<10, 100, 1000, 10000, 100000, 1000000, 10000000, 100000000>>

Digits == [n \in Nat |-> 1 + Cardinality({d \in 1..8 : Powers[d] <= n})]

\* Mutant: the estimate is made once, of a cue that states none.
RoundsOnce(view) == 1

\* How often the envelope is serialized to find the estimate that fits.
Rounds(view) == IF view = "task" THEN 8 ELSE 4

\* The estimate in an envelope after each round; `rest` are its other bytes.
Stated(rest, rounds) ==
  LET stated[k \in 0..rounds] ==
        IF k = 0 THEN 0 ELSE EstimateTokens(rest + Digits[stated[k - 1]])
  IN stated

Marshal(rest, view) ==
  LET stated == Stated(rest, Rounds(view))[Rounds(view)]
  IN [stated |-> stated, bytes |-> rest + Digits[stated]]

\* Only a task cue is refused when the last round still changed the estimate.
Converged(rest, view) ==
  LET stated == Stated(rest, Rounds(view)) IN stated[Rounds(view)] = stated[Rounds(view) - 1]

VARIABLES
  snapshot,  \* the files as the recorded snapshot has them
  tree,      \* the files as they are
  edits,     \* the counter for the bound
  undone,    \* history: since the first validation, the checkout was changed back
  stage,     \* where the command is
  memo,      \* what it remembers
  output     \* the cue it printed

world == <<snapshot, tree, edits>>

vars == <<world, undone, stage, memo, output>>

Files == [Path -> Version]

Stages ==
  {"idle", "compare", "validate", "facts", "recheck", "items", "reading", "admit", "fit",
   "deliver", "delivered", "failed"}

\* A text as it was read, in two parts.
Texts == Path \X Version \X Version

Lists == UNION {[DOMAIN Sections(v) -> 0..MaxEntries] : v \in Views}

\* Of the lists, `full` is what there is and `left` what has not been cut.  Of a task
\* cue, `pins` is the version every file has by its declaration, `todo` the items to come,
\* `item` the one at hand (0 is the declaration), `refs` which of its references are to
\* come, `begun` the first part of the text being read, `unit` the texts read for it.
Memories ==
  [view : Views, size : Sizes, full : Lists, left : Lists, hint : BOOLEAN,
   fresh : BOOLEAN, facts : Version \union {None},
   selected : SUBSET DOMAIN Items, pins : Version \union {None},
   todo : SUBSET DOMAIN Items, required : BOOLEAN, item : DOMAIN Items \union {0},
   refs : SUBSET Nat, begun : Version \union {None}, checked : SUBSET Path,
   unit : SUBSET Texts, overflow : BOOLEAN, items : SUBSET DOMAIN Items,
   sources : SUBSET Texts]

Cues == [stated : Nat, bytes : Nat]

Init ==
  /\ snapshot \in Recorded
  /\ tree = snapshot
  /\ edits = 0
  /\ undone = FALSE
  /\ stage = "idle"
  /\ memo = None
  /\ output = None

(***************************************************************************)
(* The world.  An edit before the command begins is one before it compares. *)
(***************************************************************************)
Edit(p, v) ==
  /\ edits < MaxEdits
  /\ stage \notin {"idle", "fit", "deliver", "delivered", "failed"}
  /\ v # tree[p]
  /\ edits' = edits + 1
  /\ tree' = [tree EXCEPT ![p] = v]
  /\ undone' = (undone \/ tree' = snapshot)
  /\ UNCHANGED <<snapshot, stage, memo, output>>

(***************************************************************************)
(* runCue, as far as it is the same for every view.                        *)
(***************************************************************************)
Load(view, size, full, selected) ==
  /\ memo' =
       [view |-> view, size |-> size, full |-> full, left |-> full, hint |-> FALSE,
        fresh |-> FALSE, facts |-> None, selected |-> selected,
        pins |-> None, todo |-> {}, required |-> TRUE, item |-> 0, refs |-> {},
        begun |-> None, checked |-> {}, unit |-> {}, overflow |-> FALSE, items |-> {},
        sources |-> {}]
  /\ stage' = "compare"
  /\ UNCHANGED <<world, undone, output>>

Compare ==
  /\ stage = "compare"
  /\ memo' = [memo EXCEPT !.fresh = (snapshot = tree)]
  /\ stage' = IF memo.view \in {"ranked", "task"} THEN "validate" ELSE "fit"
  /\ UNCHANGED <<world, undone, output>>

\* The first of the two validations; a task cue is then refused when the comparison
\* before it had found a difference.
Validate ==
  /\ stage = "validate"
  /\ undone' = FALSE
  /\ IF tree # snapshot THEN stage' = "failed" /\ UNCHANGED memo
     ELSE IF memo.view = "ranked" THEN stage' = "facts" /\ UNCHANGED memo
     ELSE IF ~memo.fresh THEN stage' = "failed" /\ UNCHANGED memo
     ELSE stage' = "reading" /\ memo' = [memo EXCEPT !.refs = {1}]
  /\ UNCHANGED <<world, output>>

\* ContextFacts: nothing that is read here is compared with the snapshot.
ReadFacts ==
  /\ stage = "facts"
  /\ memo' = [memo EXCEPT !.facts = tree[FactsFile]]
  /\ stage' = "recheck"
  /\ UNCHANGED <<world, undone, output>>

\* The second validation: of a ranked cue before it is made, of a task cue when it is
\* ready.
Recheck ==
  /\ stage = "recheck"
  /\ stage' = IF tree # snapshot THEN "failed"
              ELSE IF memo.view = "ranked" THEN "fit" ELSE "deliver"
  /\ UNCHANGED <<world, undone, memo, output>>

(***************************************************************************)
(* Reader.Read.  The declaration is one of the sources; it says which       *)
(* content every other one must have.                                       *)
(***************************************************************************)
BytesOf(texts) == Cardinality(UNION {{text} \X (1..TextBytes[text[1]]) : text \in texts})

\* The bytes that are left for the text being read.
Remaining ==
  4 * memo.size.budget - BytesOf(memo.sources) - BytesOf(memo.unit)

\* The next reference.
Foremost(n) == n \in memo.refs /\ \A m \in memo.refs : n <= m

\* The file is looked up and opened.  A pin that is not the snapshot's is refused.
BeginRead ==
  /\ stage = "reading"
  /\ memo.begun = None
  /\ \E n \in memo.refs :
       LET path == RefsOf(memo.item)[n]
       IN /\ Foremost(n)
          /\ IF memo.item # 0 /\ snapshot[path] # memo.pins
             THEN stage' = "failed" /\ UNCHANGED memo
             ELSE memo' = [memo EXCEPT !.begun = tree[path]] /\ UNCHANGED stage
  /\ UNCHANGED <<world, undone, output>>

\* Mutant: the rest of a file that was right when it was opened is trusted.
MatchesWhenOpened(text) == text[2] = snapshot[text[1]]

\* The digest of what was read is the snapshot's.
Matches(text) == text[2] = snapshot[text[1]] /\ text[3] = snapshot[text[1]]

\* A text that does not fit leaves nothing of its unit, and the rest of the unit is
\* only validated.
EndRead ==
  /\ stage = "reading"
  /\ memo.begun # None
  /\ \E n \in memo.refs :
       LET path == RefsOf(memo.item)[n]
           text == <<path, memo.begun, tree[path]>>
           read == [memo EXCEPT !.refs = @ \ {n}, !.begun = None,
                                !.checked = @ \union {path}]
       IN /\ Foremost(n)
          /\ IF ~Matches(text) THEN stage' = "failed" /\ UNCHANGED memo
             ELSE IF memo.item = 0
             THEN /\ memo' = [read EXCEPT !.pins = text[2], !.todo = memo.selected]
                  /\ stage' = "items"
             ELSE /\ memo' = IF memo.overflow \/ TextBytes[path] > Remaining
                             THEN [read EXCEPT !.overflow = TRUE, !.unit = {}]
                             ELSE [read EXCEPT !.unit = @ \union {text}]
                  /\ stage' = IF memo.refs = {n} THEN "admit" ELSE "reading"
  /\ UNCHANGED <<world, undone, output>>

(***************************************************************************)
(* Task: the required items, then whichever optional items fit.            *)
(***************************************************************************)
TaskRest(items, sources) ==
  memo.size.rest + EntryBytes * Cardinality(items) + BytesOf(sources)
    + OmissionBytes * Cardinality(memo.selected \ items)

TaskFits(items, sources) ==
  Marshal(TaskRest(items, sources), "task").stated <= memo.size.budget

NextIsRequired == \E item \in memo.todo : Items[item].required

\* Sources that are in the cue already are not read again.
TakeItem ==
  /\ stage = "items"
  /\ memo.required => NextIsRequired
  /\ \E item \in memo.todo :
       LET held == {text[1] : text \in memo.sources}
           refs == {n \in DOMAIN Items[item].refs : Items[item].refs[n] \notin held}
       IN /\ \A other \in memo.todo \ {item} : Precedes(item, other)
          /\ memo' = [memo EXCEPT !.todo = @ \ {item}, !.item = item, !.refs = refs,
                                  !.unit = {}, !.overflow = FALSE]
          /\ stage' = IF refs = {} THEN "admit" ELSE "reading"
  /\ UNCHANGED <<world, undone, output>>

\* The mandatory envelope counts every optional item as omitted.
FitMandatory ==
  /\ stage = "items"
  /\ memo.required /\ ~NextIsRequired
  /\ IF TaskFits(memo.items, memo.sources) /\ Converged(TaskRest(memo.items, memo.sources), "task")
     THEN memo' = [memo EXCEPT !.required = FALSE] /\ UNCHANGED stage
     ELSE stage' = "failed" /\ UNCHANGED memo
  /\ UNCHANGED <<world, undone, output>>

Admit ==
  LET items == memo.items \union {memo.item}
      sources == memo.sources \union memo.unit
      admitted == [memo EXCEPT !.items = items, !.sources = sources]
  IN /\ stage = "admit"
     /\ IF memo.required
        THEN IF memo.overflow THEN stage' = "failed" /\ UNCHANGED memo
             ELSE stage' = "items" /\ memo' = admitted
        ELSE IF ~memo.overflow /\ ~Converged(TaskRest(items, sources), "task")
        THEN stage' = "failed" /\ UNCHANGED memo
        ELSE /\ stage' = "items"
             /\ IF ~memo.overflow /\ TaskFits(items, sources) THEN memo' = admitted
                ELSE UNCHANGED memo
     /\ UNCHANGED <<world, undone, output>>

FinishItems ==
  /\ stage = "items"
  /\ memo.todo = {} /\ ~memo.required
  /\ stage' = "recheck"
  /\ UNCHANGED <<world, undone, memo, output>>

(***************************************************************************)
(* The other views: cut until it fits.                                     *)
(***************************************************************************)
\* Only provenance counts the entries it has lost, and only once it has lost some.
WarningSize(m, left) ==
  LET omitted == Total(m.full) - Total(left)
  IN IF m.view = "provenance" /\ omitted > 0 THEN WarningBytes + Digits[omitted] ELSE 0

ViewRest(m, left, hint) ==
  m.size.rest + EntryBytes * Total(left) + (IF hint THEN HintBytes ELSE 0) + WarningSize(m, left)

ViewFits(m, left, hint) ==
  EstimateTokens(Marshal(ViewRest(m, left, hint), m.view).bytes) <= m.size.budget

\* The section whose last entry goes next.
Weakest(left) == CHOOSE i \in DOMAIN left : left[i] > 0 /\ \A j \in 1..(i - 1) : left[j] = 0

CutEntry(m) ==
  [m EXCEPT !.left[Weakest(m.left)] = @ - 1, !.hint = m.view \in Hinting]

\* Mutant: the hint is only given for entries of the least important list.
AfterCutQuietly(m) ==
  IF Total(m.left) > 0 THEN [CutEntry(m) EXCEPT !.hint = m.hint \/ Weakest(m.left) > 1]
  ELSE [m EXCEPT !.hint = FALSE]

\* Mutant: the hint is given again whenever there is none.
AfterCutForEver(m) ==
  IF Total(m.left) > 0 THEN CutEntry(m) ELSE [m EXCEPT !.hint = m.view \in Hinting]

\* The hint goes last and does not come back.
AfterCut(m) == IF Total(m.left) > 0 THEN CutEntry(m) ELSE [m EXCEPT !.hint = FALSE]

Cut ==
  /\ stage = "fit"
  /\ ~ViewFits(memo, memo.left, memo.hint)
  /\ Total(memo.left) > 0 \/ memo.hint
  /\ memo' = AfterCut(memo)
  /\ UNCHANGED <<world, undone, stage, output>>

Refuse ==
  /\ stage = "fit"
  /\ ~ViewFits(memo, memo.left, memo.hint)
  /\ Total(memo.left) = 0 /\ ~memo.hint
  /\ stage' = "failed"
  /\ UNCHANGED <<world, undone, memo, output>>

Fit ==
  /\ stage = "fit"
  /\ ViewFits(memo, memo.left, memo.hint)
  /\ stage' = "deliver"
  /\ UNCHANGED <<world, undone, memo, output>>

\* The cue is recorded with its size, and printed.
Deliver ==
  /\ stage = "deliver"
  /\ output' = Marshal(IF memo.view = "task" THEN TaskRest(memo.items, memo.sources)
                       ELSE ViewRest(memo, memo.left, memo.hint), memo.view)
  /\ stage' = "delivered"
  /\ UNCHANGED <<world, undone, memo>>

\* Any other error, of Git, a file or the database.
Fail ==
  /\ stage \notin {"idle", "delivered", "failed"}
  /\ stage' = "failed"
  /\ UNCHANGED <<world, undone, memo, output>>

(***************************************************************************)
(* The specification.                                                      *)
(***************************************************************************)
\* Entries are counted for the views made of lists, items selected for the task view.
Begin ==
  /\ stage = "idle"
  /\ \E view \in Views, size \in Sizes :
       IF view = "task"
       THEN \E selected \in SUBSET DOMAIN Items : Load(view, size, <<>>, selected)
       ELSE \E full \in Contents(view) : Load(view, size, full, {})

Proceed ==
  \/ Compare     \/ Validate  \/ ReadFacts    \/ Recheck \/ BeginRead   \/ EndRead
  \/ TakeItem    \/ FitMandatory \/ Admit     \/ FinishItems
  \/ Cut         \/ Refuse    \/ Fit          \/ Deliver

World == \E p \in Path, v \in Version : Edit(p, v)

Next == World \/ Begin \/ Proceed \/ Fail

Spec == Init /\ [][Next]_vars

\* A command that has begun goes on.
LiveSpec == Spec /\ WF_vars(Proceed)

(***************************************************************************)
(* Properties.                                                             *)
(***************************************************************************)

\* The type of each variable of runCue and of what it calls.
TypeOK ==
  /\ snapshot \in Recorded /\ tree \in Files
  /\ edits \in 0..MaxEdits /\ undone \in BOOLEAN
  /\ stage \in Stages
  /\ memo \in Memories \union {None}
  /\ output \in Cues \union {None}

\* Whatever was edited, also back and forth, while the command read: every source of a
\* printed task cue is, from its first byte to its last, what the snapshot recorded
\* (source.go:151), every selected reference was found valid, also of items that were
\* omitted (TASK_CONTEXT.md:97), and ranked facts are the snapshot's, unless the
\* checkout was changed and changed back between the validations (git.go:253).
DeliveredIsOfTheSnapshot ==
  stage = "delivered" =>
    /\ \A text \in memo.sources : {text[2], text[3]} = {snapshot[text[1]]}
    /\ \A i \in memo.selected : \A n \in DOMAIN Items[i].refs : Items[i].refs[n] \in memo.checked
    /\ memo.view = "ranked" => undone \/ memo.facts = snapshot[FactsFile]

\* A printed cue is within its budget, and the estimate it states is that of its own
\* bytes, which the statement is a part of (cue.go:318, experimental.go:292, task.go:209).
CuesFitAndTellTheirSize ==
  output # None =>
    output.stated = EstimateTokens(output.bytes) /\ output.stated <= memo.size.budget

\* A view made of lists lost an entry only when the less important lists were empty and
\* the cue did not fit with it, and an overview or a delta that lost any says so, but
\* for the smallest of all (cue.go:107).
ListsAreCutInOrder ==
  LET left == memo.left
      full == memo.full
  IN \A i \in DOMAIN full : left[i] < full[i] =>
       /\ \A j \in 1..(i - 1) : left[j] = 0
       /\ (\A j \in (i + 1)..Len(full) : left[j] = full[j]) =>
            LET more == [left EXCEPT ![i] = @ + 1]
            IN ~ViewFits(memo, more, memo.view \in Hinting /\ more # full)
       /\ memo.view \in Hinting => memo.hint \/ Total(left) = 0

\* A task cue has every required item, and with each of its items every source that
\* the item refers to, and no other source (task.go:61).
UnitsAreWhole ==
  /\ \A i \in memo.selected : Items[i].required => i \in memo.items
  /\ memo.items \subseteq memo.selected
  /\ {text[1] : text \in memo.sources}
       = UNION {{Items[i].refs[n] : n \in DOMAIN Items[i].refs} : i \in memo.items}

\* Both together, of every printed cue.
CutsAreNeededAndTold ==
  stage = "delivered" =>
    IF memo.view = "task" THEN UnitsAreWhole ELSE ListsAreCutInOrder

\* A command that has begun ends, however large its view and however small its budget:
\* the cutting stops (cue.go:120).
CuesEnd == stage = "compare" ~> stage \in {"delivered", "failed"}
===============================================================================
