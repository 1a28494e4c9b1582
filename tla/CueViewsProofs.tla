---------------------------- MODULE CueViewsProofs ----------------------------
(***************************************************************************)
(* Theorems about one cue of any view, of lists and items of any length,   *)
(* whatever is edited while the command reads.  The size comes first: the  *)
(* statement of a cue's size in the cue settles within three rounds.  Then *)
(* the invariant of the command: what has been cut so far, or which items  *)
(* and sources the cue has so far and what has been checked for them.      *)
(***************************************************************************)
EXTENDS CueViews, FiniteSetTheorems, TLAPS

(***************************************************************************)
(* Size.                                                                   *)
(***************************************************************************)
\* Counting to n.
LEMMA UpToIsFinite == \A n \in Nat : IsFiniteSet(1..n) /\ Cardinality(1..n) = n
<1> TAKE n \in Nat
<1>1. 1 \in Int /\ n \in Int
  OBVIOUS
<1>2. IsFiniteSet(1..n) /\ Cardinality(1..n) = IF 1 > n THEN 0 ELSE n - 1 + 1
  BY <1>1, FS_Interval, Zenon
<1>3. (IF 1 > n THEN 0 ELSE n - 1 + 1) = n
  OBVIOUS
<1> QED
  BY <1>2, <1>3

\* The digits of a number are one more than the powers of ten it has reached.
LEMMA DigitsCount ==
  ASSUME NEW n \in Nat
  PROVE  Digits[n] \in 1..9
<1> DEFINE Reached == {d \in 1..8 : Powers[d] <= n}
<1>1. IsFiniteSet(1..8) /\ Cardinality(1..8) = 8
  <2>1. 8 \in Nat
    OBVIOUS
  <2> QED
    BY <2>1, UpToIsFinite, Zenon
<1>2. IsFiniteSet(Reached) /\ Cardinality(Reached) <= 8
  BY <1>1, FS_Subset
<1>3. Cardinality(Reached) \in Nat
  BY <1>2, FS_CardinalityType
<1>4. Digits[n] = 1 + Cardinality(Reached)
  BY DEF Digits
<1> HIDE DEF Reached
<1> QED
  BY <1>2, <1>3, <1>4

\* They stay the same up to the next power, and no power follows another soon.
LEMMA DigitsGrow ==
  ASSUME NEW m \in Nat, NEW n \in Nat, m <= n, n <= m + 2
  PROVE  /\ Digits[n] \in {Digits[m], Digits[m] + 1}
         /\ Digits[n] # Digits[m] => \E d \in 1..8 : m < Powers[d] /\ Powers[d] <= n
<1> DEFINE Reached(k) == {d \in 1..8 : Powers[d] <= k}
<1>1. /\ Digits[m] = 1 + Cardinality(Reached(m)) /\ Digits[n] = 1 + Cardinality(Reached(n))
  BY DEF Digits
<1>2. \A d \in 1..8 : Powers[d] \in Nat
  BY DEF Powers
<1>3. IsFiniteSet(Reached(m)) /\ Cardinality(Reached(m)) \in Nat
  <2>1. IsFiniteSet(1..8)
    <3>1. 8 \in Nat
      OBVIOUS
    <3> QED
      BY <3>1, UpToIsFinite, Zenon
  <2>2. IsFiniteSet(Reached(m))
    BY <2>1, FS_Subset
  <2> QED
    BY <2>2, FS_CardinalityType
<1>4. CASE \E d \in 1..8 : m < Powers[d] /\ Powers[d] <= n
  <2>1. PICK d \in 1..8 : m < Powers[d] /\ Powers[d] <= n
    BY <1>4
  <2>2. \A e \in 1..8 : m < Powers[e] /\ Powers[e] <= n => e = d
    BY <2>1 DEF Powers
  <2>3. Reached(n) = Reached(m) \union {d}
    BY <1>2, <2>1, <2>2
  <2>4. Cardinality(Reached(n)) \in {Cardinality(Reached(m)), Cardinality(Reached(m)) + 1}
    BY <1>3, <2>3, FS_AddElement
  <2> HIDE DEF Reached
  <2> QED
    BY <1>1, <1>3, <1>4, <2>4
<1>5. CASE ~\E d \in 1..8 : m < Powers[d] /\ Powers[d] <= n
  <2>1. Reached(n) = Reached(m)
    BY <1>2, <1>5
  <2> QED
    BY <1>1, <2>1
<1> QED
  BY <1>4, <1>5

\* The next estimate of a cue whose other bytes are `rest`.
Again(rest, stated) == EstimateTokens(rest + Digits[stated])

\* The estimate is a number, and grows with the size, by at most a token for four
\* bytes.
LEMMA EstimatesGrow ==
  ASSUME NEW b \in Nat, NEW c \in Nat
  PROVE  /\ EstimateTokens(b) \in Nat
         /\ b <= c => EstimateTokens(b) <= EstimateTokens(c)
         /\ c <= b + 1 => EstimateTokens(c) <= EstimateTokens(b) + 1
         /\ c <= b + 8 => EstimateTokens(c) <= EstimateTokens(b) + 2
BY DEF EstimateTokens

\* An estimate that states none, one or the next number settles with the third: only
\* one of them can be the first of its length.
LEMMA EstimateSettles ==
  ASSUME NEW rest \in Nat
  PROVE  LET once   == Again(rest, 0)
             twice  == Again(rest, once)
             thrice == Again(rest, twice)
         IN /\ once \in Nat /\ twice \in Nat /\ thrice \in Nat
            /\ Again(rest, thrice) = thrice
<1> DEFINE once   == Again(rest, 0)
           twice  == Again(rest, once)
           thrice == Again(rest, twice)
<1>1. Digits[0] = 1
  <2>1. {d \in 1..8 : Powers[d] <= 0} = {}
    BY DEF Powers
  <2>2. Digits[0] = 1 + Cardinality({})
    BY <2>1 DEF Digits
  <2> QED
    BY <2>2, FS_EmptySet
<1>2. once = EstimateTokens(rest + 1) /\ once \in Nat
  BY <1>1, EstimatesGrow DEF Again
<1> HIDE DEF once
<1>3. Digits[once] \in 1..9
  BY <1>2, DigitsCount
<1>4. twice = EstimateTokens(rest + Digits[once]) /\ twice \in Nat
  BY <1>3, EstimatesGrow DEF Again
<1> HIDE DEF twice
<1>5. once <= twice /\ twice <= once + 2
  <2>1. /\ rest + 1 \in Nat /\ rest + Digits[once] \in Nat
        /\ rest + 1 <= rest + Digits[once] /\ rest + Digits[once] <= (rest + 1) + 8
    BY <1>3
  <2> QED
    BY <1>2, <1>4, <2>1, EstimatesGrow
<1>6. Digits[twice] \in 1..9
  BY <1>4, DigitsCount
<1>7. /\ Digits[twice] \in {Digits[once], Digits[once] + 1}
      /\ Digits[twice] # Digits[once] =>
           \E d \in 1..8 : once < Powers[d] /\ Powers[d] <= twice
  BY <1>2, <1>4, <1>5, DigitsGrow
<1>8. thrice = EstimateTokens(rest + Digits[twice]) /\ thrice \in Nat
  BY <1>6, EstimatesGrow DEF Again
<1>9. twice <= thrice /\ thrice <= twice + 1
  <2>1. /\ rest + Digits[once] \in Nat /\ rest + Digits[twice] \in Nat
        /\ rest + Digits[once] <= rest + Digits[twice]
        /\ rest + Digits[twice] <= (rest + Digits[once]) + 1
    BY <1>3, <1>6, <1>7
  <2> QED
    BY <1>4, <1>8, <2>1, EstimatesGrow
<1> HIDE DEF thrice
<1>10. Digits[thrice] = Digits[twice]
  <2>1. CASE Digits[twice] = Digits[once]
    <3>1. thrice = twice
      BY <1>4, <1>8, <2>1
    <3> QED
      BY <3>1
  <2>2. CASE Digits[twice] # Digits[once]
    <3>1. PICK d \in 1..8 : once < Powers[d] /\ Powers[d] <= twice
      BY <1>7, <2>2
    <3>2. ~\E e \in 1..8 : twice < Powers[e] /\ Powers[e] <= thrice
      <4> SUFFICES ASSUME NEW e \in 1..8, twice < Powers[e], Powers[e] <= thrice
                   PROVE  FALSE
        OBVIOUS
      <4>1. Powers[e] <= Powers[d] + 3 /\ Powers[d] < Powers[e]
        <5>1. Powers[d] \in Nat /\ Powers[e] \in Nat
          BY DEF Powers
        <5> QED
          BY <1>2, <1>4, <1>5, <1>8, <1>9, <3>1, <5>1
      <4> QED
        BY <4>1 DEF Powers
    <3> QED
      BY <1>4, <1>8, <1>9, <3>2, DigitsGrow
  <2> QED
    BY <2>1, <2>2
<1>11. Again(rest, thrice) = thrice
  BY <1>8, <1>10 DEF Again
<1> QED
  BY <1>2, <1>4, <1>8, <1>11 DEF once, twice, thrice

\* So both loops, of four and of eight rounds, end with the settled estimate.
LEMMA StatedSettles ==
  ASSUME NEW rest \in Nat, NEW rounds \in {4, 8}
  PROVE  LET stated == Stated(rest, rounds)[rounds]
         IN stated \in Nat /\ Again(rest, stated) = stated
<1> DEFINE once   == Again(rest, 0)
           twice  == Again(rest, once)
           thrice == Again(rest, twice)
           Unfolds(f) ==
             f = [k \in 0..rounds |->
                    IF k = 0 THEN 0 ELSE EstimateTokens(rest + Digits[f[k - 1]])]
           settled ==
             [k \in 0..rounds |-> IF k = 0 THEN 0 ELSE IF k = 1 THEN once
                                  ELSE IF k = 2 THEN twice ELSE thrice]
<1>1. /\ once \in Nat /\ twice \in Nat /\ thrice \in Nat
      /\ Again(rest, thrice) = thrice
  BY EstimateSettles
<1>2. Stated(rest, rounds) = CHOOSE f : Unfolds(f)
  BY DEF Stated
<1>3. /\ EstimateTokens(rest + Digits[0]) = once
      /\ EstimateTokens(rest + Digits[once]) = twice
      /\ EstimateTokens(rest + Digits[twice]) = thrice
      /\ EstimateTokens(rest + Digits[thrice]) = thrice
  BY <1>1 DEF Again
<1> HIDE DEF once, twice, thrice
<1>4. Unfolds(settled)
  <2>1. ASSUME NEW k \in 0..rounds
        PROVE  settled[k] =
                 IF k = 0 THEN 0 ELSE EstimateTokens(rest + Digits[settled[k - 1]])
    <3>1. CASE k \in {0, 1, 2, 3}
      BY <1>3, <3>1
    <3>2. CASE k \notin {0, 1, 2, 3}
      <4>1. k - 1 \in 0..rounds /\ k - 1 \notin {0, 1, 2}
        BY <3>2
      <4>2. settled[k] = thrice /\ settled[k - 1] = thrice
        BY <3>2, <4>1
      <4> QED
        BY <1>3, <3>2, <4>2
    <3> QED
      BY <3>1, <3>2
  <2> QED
    BY <2>1
<1>5. Unfolds(Stated(rest, rounds))
  <2> HIDE DEF Unfolds
  <2> QED
    BY <1>2, <1>4
<1> HIDE DEF settled
<1> DEFINE f == Stated(rest, rounds)
<1>6. \A k \in 0..rounds : f[k] = IF k = 0 THEN 0 ELSE EstimateTokens(rest + Digits[f[k - 1]])
  BY <1>5
<1> HIDE DEF f, Unfolds
<1>7. f[1] = once /\ f[2] = twice /\ f[3] = thrice /\ f[4] = thrice
  <2>1. f[0] = 0 /\ f[1] = EstimateTokens(rest + Digits[f[0]])
    BY <1>6
  <2>2. f[2] = EstimateTokens(rest + Digits[f[1]])
    BY <1>6
  <2>3. f[3] = EstimateTokens(rest + Digits[f[2]])
    BY <1>6
  <2>4. f[4] = EstimateTokens(rest + Digits[f[3]])
    BY <1>6
  <2> QED
    BY <1>3, <2>1, <2>2, <2>3, <2>4
<1>8. f[rounds] = thrice
  <2>1. CASE rounds = 4
    BY <1>7, <2>1
  <2>2. CASE rounds = 8
    <3>1. f[5] = EstimateTokens(rest + Digits[f[4]])
      BY <1>6, <2>2
    <3>2. f[6] = EstimateTokens(rest + Digits[f[5]])
      BY <1>6, <2>2
    <3>3. f[7] = EstimateTokens(rest + Digits[f[6]])
      BY <1>6, <2>2
    <3>4. f[8] = EstimateTokens(rest + Digits[f[7]])
      BY <1>6, <2>2
    <3> QED
      BY <1>3, <1>7, <2>2, <3>1, <3>2, <3>3, <3>4
  <2> QED
    BY <2>1, <2>2
<1> QED
  BY <1>1, <1>8 DEF f

\* The estimate a cue states is that of its own bytes.
LEMMA CuesTellTheirSize ==
  ASSUME NEW rest \in Nat, NEW view
  PROVE  LET cue == Marshal(rest, view)
         IN cue \in Cues /\ cue.stated = EstimateTokens(cue.bytes)
<1>1. Rounds(view) \in {4, 8}
  BY DEF Rounds
<1> DEFINE stated == Stated(rest, Rounds(view))[Rounds(view)]
<1>2. stated \in Nat /\ Again(rest, stated) = stated
  BY <1>1, StatedSettles
<1> HIDE DEF stated
<1>3. rest + Digits[stated] \in Nat
  BY <1>2, DigitsCount
<1>4. Marshal(rest, view) = [stated |-> stated, bytes |-> rest + Digits[stated]]
  BY DEF Marshal, stated
<1> QED
  BY <1>2, <1>3, <1>4 DEF Again, Cues

(***************************************************************************)
(* Numbers of entries and bytes.                                           *)
(***************************************************************************)
\* Finitely many things of finitely many places each.
LEMMA PlacesAreFinite ==
  ASSUME NEW S, IsFiniteSet(S), NEW size \in [S -> Nat]
  PROVE  IsFiniteSet(UNION {{x} \X (1..size[x]) : x \in S})
<1> DEFINE places == [x \in S |-> {x} \X (1..size[x])]
           T      == {{x} \X (1..size[x]) : x \in S}
<1>1. places \in Surjection(S, T)
  BY DEF Surjection
<1>2. IsFiniteSet(T)
  BY <1>1, FS_Surjection
<1>3. ASSUME NEW x \in S
      PROVE  IsFiniteSet({x} \X (1..size[x]))
  <2>1. IsFiniteSet({x})
    BY FS_Singleton
  <2>2. IsFiniteSet(1..size[x])
    BY UpToIsFinite
  <2> QED
    BY <2>1, <2>2, FS_Product
<1>4. \A s \in T : IsFiniteSet(s)
  BY <1>3
<1> HIDE DEF T
<1>5. IsFiniteSet(UNION T)
  BY <1>2, <1>4, FS_UNION
<1> QED
  BY <1>5 DEF T

\* The total of some lists is a number, and zero when all of them are empty.
LEMMA TotalCounts ==
  ASSUME NEW n \in Nat, NEW lists \in [1..n -> Nat]
  PROVE  /\ Total(lists) \in Nat
         /\ Total(lists) = 0 <=> \A i \in 1..n : lists[i] = 0
<1> DEFINE entries == UNION {{i} \X (1..lists[i]) : i \in DOMAIN lists}
<1>1. IsFiniteSet(entries)
  <2>1. IsFiniteSet(1..n)
    BY UpToIsFinite
  <2>2. IsFiniteSet(UNION {{i} \X (1..lists[i]) : i \in 1..n})
    BY <2>1, PlacesAreFinite
  <2>3. DOMAIN lists = 1..n
    OBVIOUS
  <2> QED
    BY <2>2, <2>3
<1>2. Total(lists) = Cardinality(entries)
  BY DEF Total
<1>3. (entries = {}) <=> \A i \in 1..n : lists[i] = 0
  <2>1. ASSUME NEW i \in 1..n, lists[i] # 0
        PROVE  entries # {}
    <3>1. 1 \in 1..lists[i]
      BY <2>1
    <3>2. <<i, 1>> \in {i} \X (1..lists[i])
      BY <3>1
    <3> QED
      BY <3>2
  <2>2. ASSUME \A i \in 1..n : lists[i] = 0, NEW e \in entries
        PROVE  FALSE
    <3>1. PICK i \in 1..n : e \in {i} \X (1..lists[i])
      BY <2>2
    <3> QED
      BY <2>2, <3>1
  <2> QED
    BY <2>1, <2>2
<1> HIDE DEF entries
<1> QED
  BY <1>1, <1>2, <1>3, FS_EmptySet, FS_CardinalityType

\* What some sources add is a number of bytes.
LEMMA BytesAreCounted ==
  ASSUME NEW texts \in SUBSET Texts, IsFiniteSet(texts)
  PROVE  BytesOf(texts) \in Nat
<1> DEFINE size == [text \in texts |-> TextBytes[text[1]]]
<1>1. size \in [texts -> Nat]
  BY BytesAssumption DEF Texts
<1>2. IsFiniteSet(UNION {{text} \X (1..size[text]) : text \in texts})
  BY <1>1, PlacesAreFinite
<1>3. UNION {{text} \X (1..size[text]) : text \in texts}
        = UNION {{text} \X (1..TextBytes[text[1]]) : text \in texts}
  OBVIOUS
<1> QED
  BY <1>2, <1>3, FS_CardinalityType DEF BytesOf

\* The declared items are finitely many records.
LEMMA ItemFacts ==
  /\ IsFiniteSet(DOMAIN Items) /\ 0 \notin DOMAIN Items
  /\ \A i \in DOMAIN Items :
       /\ i \in Nat /\ Items[i].required \in BOOLEAN
       /\ Items[i].refs \in Seq(Path) /\ DOMAIN Items[i].refs \subseteq Nat
       /\ \A n \in DOMAIN Items[i].refs : Items[i].refs[n] \in Path
<1> DEFINE Item == [required : BOOLEAN, refs : Seq(Path)]
<1>0. Items \in Seq(Item)
  BY ItemsAssumption
<1> HIDE DEF Item
<1>1. /\ DOMAIN Items = 1..Len(Items) /\ Len(Items) \in Nat
      /\ \A i \in DOMAIN Items : Items[i] \in Item
  BY <1>0
<1>2. IsFiniteSet(DOMAIN Items)
  BY <1>1, UpToIsFinite
<1>3. \A i \in DOMAIN Items : Items[i].required \in BOOLEAN /\ Items[i].refs \in Seq(Path)
  BY <1>1 DEF Item
<1>4. \A refs \in Seq(Path) :
        DOMAIN refs \subseteq Nat /\ \A n \in DOMAIN refs : refs[n] \in Path
  OBVIOUS
<1> QED
  BY <1>1, <1>2, <1>3, <1>4

\* The rest of a task cue is a number of bytes.
LEMMA TaskRestIsCounted ==
  ASSUME memo \in Memories, NEW items \in SUBSET DOMAIN Items,
         NEW sources \in SUBSET Texts, IsFiniteSet(sources)
  PROVE  TaskRest(items, sources) \in Nat
<1>1. IsFiniteSet(items) /\ IsFiniteSet(memo.selected \ items)
  <2>1. IsFiniteSet(DOMAIN Items)
    BY ItemFacts
  <2>2. items \in SUBSET DOMAIN Items /\ memo.selected \ items \in SUBSET DOMAIN Items
    BY DEF Memories
  <2> QED
    BY <2>1, <2>2, FS_Subset
<1>2. Cardinality(items) \in Nat /\ Cardinality(memo.selected \ items) \in Nat
  BY <1>1, FS_CardinalityType
<1>3. /\ BytesOf(sources) \in Nat /\ EntryBytes \in Nat /\ OmissionBytes \in Nat
  BY BytesAssumption, BytesAreCounted
<1>4. memo.size.rest \in Nat
  BY BytesAssumption DEF Memories
<1> QED
  BY <1>2, <1>3, <1>4 DEF TaskRest

\* So is that of a view made of lists.
LEMMA ViewRestIsCounted ==
  ASSUME NEW m \in Memories, NEW n \in Nat, m.full \in [1..n -> Nat],
         NEW left \in [1..n -> Nat], NEW hint \in BOOLEAN
  PROVE  ViewRest(m, left, hint) \in Nat
<1>1. Total(m.full) \in Nat /\ Total(left) \in Nat
  BY TotalCounts
<1>2. WarningSize(m, left) \in Nat
  <2>1. CASE Total(m.full) - Total(left) > 0
    <3>1. Digits[Total(m.full) - Total(left)] \in 1..9
      BY <1>1, <2>1, DigitsCount
    <3>2. WarningBytes \in Nat
      BY BytesAssumption
    <3>3. WarningBytes + Digits[Total(m.full) - Total(left)] \in Nat
      BY <3>1, <3>2
    <3>4. WarningSize(m, left) \in {WarningBytes + Digits[Total(m.full) - Total(left)], 0}
      BY <2>1, Zenon DEF WarningSize
    <3> QED
      BY <3>3, <3>4
  <2>2. CASE ~(Total(m.full) - Total(left) > 0)
    BY <2>2 DEF WarningSize
  <2> QED
    BY <2>1, <2>2
<1>3. m.size.rest \in Nat /\ EntryBytes \in Nat /\ HintBytes \in Nat
  <2>1. m.size \in Sizes
    BY DEF Memories
  <2> QED
    BY <2>1, BytesAssumption
<1>4. EntryBytes * Total(left) \in Nat
  BY <1>1, <1>3
<1>5. (IF hint THEN HintBytes ELSE 0) \in Nat
  BY <1>3
<1> QED
  BY <1>2, <1>3, <1>4, <1>5 DEF ViewRest

\* No view has more than six sections.
LEMMA FewSections ==
  ASSUME NEW view \in Views
  PROVE  \E n \in 0..6 : DOMAIN Sections(view) = 1..n
<1>1. CASE view = "overview"
  BY <1>1 DEF Sections
<1>2. CASE view \in {"delta", "delta-v2", "provenance"}
  BY <1>2 DEF Sections
<1>3. CASE view = "ranked"
  BY <1>3 DEF Sections
<1>4. CASE view \in {"placebo", "task"}
  BY <1>4 DEF Sections
<1> QED
  BY <1>1, <1>2, <1>3, <1>4 DEF Views

(***************************************************************************)
(* The inductive invariant.                                                *)
(***************************************************************************)
PathsOf(texts) == {text[1] : text \in texts}

RefPaths(i) == {Items[i].refs[n] : n \in DOMAIN Items[i].refs}

\* A view made of lists has lost what ListsAreCutInOrder says, and while entries are
\* left it gives the hint if and only if it has lost some.
ListsOK ==
  /\ stage \in {"compare", "validate", "facts", "recheck", "fit", "deliver", "delivered",
                "failed"}
  /\ stage \in {"validate", "facts", "recheck"} => memo.view = "ranked"
  /\ {memo.full, memo.left} \subseteq [DOMAIN Sections(memo.view) -> 0..MaxEntries]
  /\ \A i \in DOMAIN memo.full : memo.left[i] <= memo.full[i]
  /\ ListsAreCutInOrder
  /\ Total(memo.left) > 0 =>
       (memo.hint <=> memo.view \in Hinting /\ memo.left # memo.full)
  /\ memo.selected = {} /\ memo.sources = {}
  /\ stage \in {"deliver", "delivered"} => ViewFits(memo, memo.left, memo.hint)

\* The facts of a ranked view are the snapshot's when the checkout is the snapshot's
\* again, unless it was changed back in between.
FactsOK ==
  /\ stage = "recheck" => undone \/ tree # snapshot \/ memo.facts = snapshot[FactsFile]
  /\ stage \in {"fit", "deliver", "delivered"} => undone \/ memo.facts = snapshot[FactsFile]

\* Before the declaration is read there is nothing.
Undeclared ==
  \/ stage \in {"compare", "validate"}
  \/ stage = "reading" /\ memo.item = 0

\* What was read is the snapshot's.
SourcesOK ==
  /\ \A text \in memo.sources \union memo.unit : Matches(text)
  /\ IsFiniteSet(memo.sources) /\ IsFiniteSet(memo.unit)

NothingYet ==
  /\ memo.required /\ memo.item = 0
  /\ memo.todo = {} /\ memo.items = {} /\ memo.sources = {} /\ memo.unit = {}

\* The item at hand, its files that were checked, and those that were read for it.
UnitOK ==
  /\ memo.item \in memo.selected \ memo.todo
  /\ memo.item \notin memo.items
  /\ memo.required = Items[memo.item].required
  /\ \A n \in DOMAIN Items[memo.item].refs \ memo.refs :
       Items[memo.item].refs[n] \in memo.checked
  /\ ~memo.overflow =>
       PathsOf(memo.sources) \union PathsOf(memo.unit)
         = PathsOf(memo.sources) \union
             {Items[memo.item].refs[n] : n \in DOMAIN Items[memo.item].refs \ memo.refs}
  /\ stage = "admit" => memo.refs = {}

\* The items that are done with: what they refer to was checked, and those in the cue
\* are there with all of it.
ItemsOK ==
  /\ memo.todo \subseteq memo.selected
  /\ memo.items \subseteq memo.selected \ memo.todo
  /\ PathsOf(memo.sources) = UNION {RefPaths(i) : i \in memo.items}
  /\ PathsOf(memo.sources) \subseteq memo.checked
  /\ \A i \in memo.selected \ memo.todo :
       \/ stage \in {"reading", "admit"} /\ i = memo.item
       \/ RefPaths(i) \subseteq memo.checked /\ (Items[i].required => i \in memo.items)
  /\ ~memo.required => \A i \in memo.todo : ~Items[i].required
  /\ stage \in {"recheck", "deliver", "delivered"} => memo.todo = {} /\ ~memo.required

TaskOK ==
  /\ stage \notin {"facts", "fit"}
  /\ SourcesOK
  /\ Undeclared => NothingYet
  /\ stage = "reading" => memo.refs \subseteq DOMAIN RefsOf(memo.item)
  /\ stage \in {"reading", "admit"} /\ ~Undeclared => UnitOK
  /\ stage # "failed" /\ ~Undeclared => ItemsOK
  /\ ~memo.required => TaskFits(memo.items, memo.sources)

\* What was printed is the cue at hand.
OutputOK ==
  /\ stage # "delivered" => output = None
  /\ stage = "delivered" =>
       output = Marshal(IF memo.view = "task" THEN TaskRest(memo.items, memo.sources)
                        ELSE ViewRest(memo, memo.left, memo.hint), memo.view)

CueOK ==
  /\ memo \in Memories
  /\ IF memo.view = "task" THEN TaskOK ELSE ListsOK
  /\ memo.view = "ranked" => FactsOK

IInv ==
  /\ TypeOK
  /\ OutputOK
  /\ stage = "idle" => memo = None
  /\ stage # "idle" => CueOK

(***************************************************************************)
(* The steps of every view.                                                *)
(***************************************************************************)
\* Nothing is read or printed before a command begins.
LEMMA InitIsOK == Init => IInv
<1> SUFFICES ASSUME Init PROVE IInv
  OBVIOUS
<1>1. tree \in Files /\ 0 \in 0..MaxEdits
  BY FilesAssumption, BytesAssumption DEF Init, Files
<1> QED
  BY <1>1 DEF Init, IInv, TypeOK, OutputOK, Stages

\* The memory a command begins with.
LEMMA LoadIsOK ==
  ASSUME IInv, stage = "idle", NEW view \in Views, NEW size \in Sizes,
         NEW full \in [DOMAIN Sections(view) -> 0..MaxEntries],
         NEW selected \in SUBSET DOMAIN Items, Load(view, size, full, selected),
         view # "task" => selected = {}
  PROVE  IInv'
<1>1. /\ memo'.view = view /\ memo'.size = size /\ memo'.full = full /\ memo'.left = full
      /\ memo'.hint = FALSE /\ memo'.fresh = FALSE /\ memo'.facts = None
      /\ memo'.selected = selected /\ memo'.pins = None /\ memo'.todo = {}
      /\ memo'.required = TRUE /\ memo'.item = 0 /\ memo'.refs = {} /\ memo'.begun = None
      /\ memo'.checked = {} /\ memo'.unit = {} /\ memo'.overflow = FALSE
      /\ memo'.items = {} /\ memo'.sources = {}
  BY DEF Load
<1>2. memo' \in Memories
  <2>1. full \in Lists
    BY DEF Lists
  <2>2. memo' =
          [view |-> view, size |-> size, full |-> full, left |-> full, hint |-> FALSE,
           fresh |-> FALSE, facts |-> None, selected |-> selected,
           pins |-> None, todo |-> {}, required |-> TRUE, item |-> 0, refs |-> {},
           begun |-> None, checked |-> {}, unit |-> {}, overflow |-> FALSE, items |-> {},
           sources |-> {}]
    BY DEF Load
  <2> HIDE DEF Lists, Texts
  <2> QED
    BY <2>1, <2>2 DEF Memories
<1>3. /\ stage' = "compare" /\ snapshot' = snapshot /\ tree' = tree /\ edits' = edits
      /\ undone' = undone /\ output' = output
  BY DEF Load, world
<1>4. TypeOK' /\ OutputOK'
  BY <1>2, <1>3 DEF IInv, TypeOK, OutputOK, Stages
<1>5. CASE view = "task"
  <2>1. TaskOK'
    BY <1>1, <1>3, FS_EmptySet DEF TaskOK, SourcesOK, NothingYet, Undeclared
  <2> QED
    BY <1>1, <1>2, <1>3, <1>4, <1>5, <2>1 DEF IInv, CueOK
<1>6. CASE view # "task"
  <2>1. \A i \in DOMAIN full : full[i] \in Nat
    BY BytesAssumption
  <2>2. \A i \in DOMAIN full : full[i] <= full[i] /\ ~(full[i] < full[i])
    BY <2>1
  <2>3. ListsAreCutInOrder'
    BY <1>1, <2>2 DEF ListsAreCutInOrder
  <2>4. ListsOK'
    BY <1>1, <1>3, <1>6, <2>2, <2>3 DEF ListsOK
  <2>5. FactsOK'
    BY <1>3 DEF FactsOK
  <2> QED
    BY <1>1, <1>2, <1>3, <1>4, <1>6, <2>4, <2>5 DEF IInv, CueOK
<1> QED
  BY <1>5, <1>6

\* A command begins with such a memory.
LEMMA BeginKeeps == IInv /\ Begin => IInv'
<1> SUFFICES ASSUME IInv, Begin PROVE IInv'
  OBVIOUS
<1>1. PICK view \in Views, size \in Sizes :
        IF view = "task"
        THEN \E selected \in SUBSET DOMAIN Items : Load(view, size, <<>>, selected)
        ELSE \E full \in Contents(view) : Load(view, size, full, {})
  BY DEF Begin
<1>2. stage = "idle"
  BY DEF Begin
<1>3. CASE view = "task"
  <2>1. <<>> \in [DOMAIN Sections(view) -> 0..MaxEntries]
    BY <1>3 DEF Sections
  <2> QED
    BY <1>1, <1>2, <1>3, <2>1, LoadIsOK
<1>4. CASE view # "task"
  <2>1. PICK full \in Contents(view) : Load(view, size, full, {})
    BY <1>1, <1>4
  <2>2. full \in [DOMAIN Sections(view) -> 0..MaxEntries]
    BY <2>1 DEF Contents
  <2> QED
    BY <1>2, <1>4, <2>1, <2>2, LoadIsOK
<1> QED
  BY <1>3, <1>4

\* Steps that leave alone what a view is made of, and the snapshot.
SameLists ==
  /\ memo'.view = memo.view /\ memo'.size = memo.size /\ memo'.full = memo.full
  /\ memo'.left = memo.left /\ memo'.hint = memo.hint
  /\ memo'.selected = memo.selected /\ memo'.sources = memo.sources

\* Such a step keeps what is known of the lists.
LEMMA ListsStay ==
  ASSUME ListsOK, SameLists,
         \/ stage' \in {"compare", "fit", "failed"}
         \/ stage' \in {"validate", "facts", "recheck"} /\ memo.view = "ranked"
         \/ stage' \in {"deliver", "delivered"} /\ ViewFits(memo, memo.left, memo.hint)
  PROVE  ListsOK'
<1>1. \A left, hint :
        ViewFits(memo, left, hint)' = ViewFits(memo', left, hint)
  OBVIOUS
<1>2. \A left, hint : ViewFits(memo', left, hint) <=> ViewFits(memo, left, hint)
  BY DEF SameLists, ViewFits, ViewRest, WarningSize
<1>3. ListsAreCutInOrder'
  BY <1>2 DEF ListsOK, ListsAreCutInOrder, SameLists
<1> QED
  BY <1>2, <1>3 DEF ListsOK, SameLists

SameTask ==
  /\ memo'.view = memo.view /\ memo'.size = memo.size /\ memo'.selected = memo.selected
  /\ memo'.todo = memo.todo /\ memo'.required = memo.required /\ memo'.item = memo.item
  /\ memo'.items = memo.items /\ memo'.sources = memo.sources /\ memo'.unit = memo.unit
  /\ memo'.checked = memo.checked /\ memo'.overflow = memo.overflow
  /\ snapshot' = snapshot

\* Such a step keeps what is known of the items and sources.
LEMMA TaskStays ==
  ASSUME TaskOK, SameTask
  PROVE  /\ SourcesOK'
         /\ ~memo'.required => TaskFits(memo.items, memo.sources)'
         /\ NothingYet => NothingYet'
         /\ stage' = stage /\ memo'.refs = memo.refs => TaskOK'
         /\ stage' = "failed" => TaskOK'
<1>1. SourcesOK'
  BY DEF TaskOK, SourcesOK, SameTask, Matches
<1>2. ~memo'.required => TaskFits(memo.items, memo.sources)'
  BY DEF TaskOK, SameTask, TaskFits, TaskRest
<1>3. NothingYet => NothingYet'
  BY DEF SameTask, NothingYet
<1>4. ASSUME stage' = stage, memo'.refs = memo.refs
      PROVE  TaskOK'
  <2>1. UnitOK => UnitOK'
    <3>1. /\ PathsOf(memo.sources)' = PathsOf(memo.sources)
          /\ PathsOf(memo.unit)' = PathsOf(memo.unit)
      BY DEF SameTask, PathsOf
    <3> QED
      BY <1>4, <3>1 DEF SameTask, UnitOK
  <2>2. ItemsOK => ItemsOK'
    <3>1. PathsOf(memo.sources)' = PathsOf(memo.sources)
      BY DEF SameTask, PathsOf
    <3> QED
      BY <1>4, <3>1 DEF SameTask, ItemsOK
  <2>3. Undeclared' <=> Undeclared
    BY <1>4 DEF SameTask, Undeclared
  <2> QED
    BY <1>1, <1>2, <1>3, <1>4, <2>1, <2>2, <2>3 DEF TaskOK, SameTask
<1>5. stage' = "failed" => TaskOK'
  BY <1>1, <1>2 DEF TaskOK, Undeclared
<1> QED
  BY <1>1, <1>2, <1>3, <1>4, <1>5

\* An edit does not change what was read, and brings the checkout back to the snapshot
\* only when that is noted.
LEMMA EditKeeps ==
  ASSUME IInv, NEW p \in Path, NEW v \in Version, Edit(p, v)
  PROVE  IInv'
<1>1. /\ snapshot' = snapshot /\ stage' = stage /\ memo' = memo /\ output' = output
      /\ edits < MaxEdits /\ edits' = edits + 1
      /\ stage \notin {"idle", "fit", "deliver", "delivered", "failed"}
  BY DEF Edit
<1>2. TypeOK'
  <2>1. edits' \in 0..MaxEdits
    BY <1>1, BytesAssumption DEF IInv, TypeOK
  <2>2. tree' \in Files
    BY DEF Edit, IInv, TypeOK, Files
  <2>3. undone' \in BOOLEAN
    BY DEF Edit, IInv, TypeOK
  <2> QED
    BY <1>1, <2>1, <2>2, <2>3 DEF IInv, TypeOK
<1>3. OutputOK'
  BY <1>1 DEF IInv, OutputOK
<1>4. CueOK
  BY <1>1 DEF IInv
<1>5. memo.view = "ranked" => FactsOK'
  BY <1>1, <1>4 DEF CueOK, FactsOK, Edit
<1>6. CASE memo.view # "task"
  <2>1. ListsOK /\ SameLists
    BY <1>1, <1>4, <1>6 DEF CueOK, SameLists
  <2>2. \/ stage' \in {"compare", "fit", "failed"}
        \/ stage' \in {"validate", "facts", "recheck"} /\ memo.view = "ranked"
    BY <1>1, <2>1 DEF ListsOK
  <2>3. ListsOK'
    BY <2>1, <2>2, ListsStay
  <2> QED
    BY <1>1, <1>2, <1>3, <1>4, <1>5, <1>6, <2>3 DEF IInv, CueOK
<1>7. CASE memo.view = "task"
  <2>1. TaskOK /\ SameTask
    BY <1>1, <1>4, <1>7 DEF CueOK, SameTask
  <2>2. TaskOK'
    BY <1>1, <2>1, TaskStays
  <2> QED
    BY <1>1, <1>2, <1>3, <1>4, <1>5, <1>7, <2>2 DEF IInv, CueOK
<1> QED
  BY <1>6, <1>7

\* A command that goes on without printing: what is left to show of its step.
LEMMA GoingOn ==
  ASSUME IInv, UNCHANGED <<world, output>>, undone' \in BOOLEAN,
         stage \notin {"idle", "delivered"}, stage' \in Stages \ {"idle", "delivered"},
         memo' \in Memories, IF memo'.view = "task" THEN TaskOK' ELSE ListsOK',
         memo'.view = "ranked" => FactsOK'
  PROVE  IInv'
<1>1. TypeOK' /\ OutputOK'
  BY DEF IInv, TypeOK, OutputOK, world
<1> QED
  BY <1>1 DEF IInv, CueOK

\* A command may fail at any point.
LEMMA FailKeeps ==
  ASSUME IInv, stage \notin {"idle", "delivered"}, stage' = "failed", memo' = memo,
         UNCHANGED <<world, output>>, undone' \in BOOLEAN
  PROVE  IInv'
<1>1. CueOK /\ snapshot' = snapshot
  BY DEF IInv, world
<1>2. CASE memo.view = "task"
  <2>1. TaskOK'
    BY <1>1, <1>2, TaskStays DEF CueOK, SameTask
  <2> QED
    BY <1>1, <1>2, <2>1, GoingOn DEF CueOK, Stages
<1>3. CASE memo.view # "task"
  <2>1. ListsOK'
    BY <1>1, <1>3, ListsStay DEF CueOK, SameLists
  <2>2. FactsOK'
    BY DEF FactsOK
  <2> QED
    BY <1>1, <1>3, <2>1, <2>2, GoingOn DEF CueOK, Stages
<1> QED
  BY <1>2, <1>3

\* The comparison of a task cue is followed by a validation.
LEMMA CompareKeeps == IInv /\ Compare => IInv'
<1> SUFFICES ASSUME IInv, Compare PROVE IInv'
  OBVIOUS
<1>1. /\ stage = "compare" /\ memo \in Memories /\ CueOK /\ UNCHANGED <<world, output>>
      /\ undone' = undone /\ snapshot' = snapshot
      /\ stage' = IF memo.view \in {"ranked", "task"} THEN "validate" ELSE "fit"
  BY DEF Compare, IInv, CueOK, world
<1>2. /\ memo' \in Memories /\ SameLists
      /\ SameTask /\ memo'.view = memo.view /\ memo'.refs = memo.refs
  <2> DEFINE fresh == snapshot = tree
  <2>1. fresh \in BOOLEAN /\ memo' = [memo EXCEPT !.fresh = fresh]
    BY DEF Compare
  <2> HIDE DEF fresh
  <2>2. memo' \in Memories /\ memo'.refs = memo.refs
    BY <1>1, <2>1 DEF Memories
  <2>3. SameLists
    BY <1>1, <2>1 DEF Memories, SameLists
  <2>4. SameTask
    BY <1>1, <2>1 DEF Memories, SameTask
  <2> QED
    BY <2>2, <2>3, <2>4 DEF SameTask
<1>3. undone' \in BOOLEAN /\ stage' \in Stages \ {"idle", "delivered"}
  BY <1>1 DEF IInv, TypeOK, Stages
<1>4. CASE memo.view = "task"
  <2>1. stage' = "validate" /\ TaskOK /\ NothingYet
    BY <1>1, <1>4 DEF CueOK, TaskOK, Undeclared
  <2>2. SourcesOK' /\ (~memo'.required => TaskFits(memo.items, memo.sources)') /\ NothingYet'
    BY <1>2, <2>1, TaskStays
  <2>3. TaskOK'
    BY <2>1, <2>2 DEF TaskOK, Undeclared, NothingYet
  <2> QED
    BY <1>1, <1>2, <1>3, <1>4, <2>3, GoingOn
<1>5. CASE memo.view # "task"
  <2>1. ListsOK'
    BY <1>1, <1>2, <1>5, ListsStay DEF CueOK
  <2>2. memo.view = "ranked" => FactsOK'
    BY <1>1 DEF FactsOK
  <2> QED
    BY <1>1, <1>2, <1>3, <1>5, <2>1, <2>2, GoingOn
<1> QED
  BY <1>4, <1>5

\* A task cue begins with its declaration.
LEMMA ValidateKeeps == IInv /\ Validate => IInv'
<1> SUFFICES ASSUME IInv, Validate PROVE IInv'
  OBVIOUS
<1>1. /\ stage = "validate" /\ memo \in Memories /\ CueOK /\ UNCHANGED <<world, output>>
      /\ undone' \in BOOLEAN /\ snapshot' = snapshot
  BY DEF Validate, IInv, CueOK, world
<1>2. CASE stage' = "failed" /\ UNCHANGED memo
  BY <1>1, <1>2, FailKeeps
<1>3. CASE memo.view = "ranked" /\ stage' = "facts" /\ UNCHANGED memo
  <2>1. ListsOK'
    BY <1>1, <1>3, ListsStay DEF CueOK, SameLists
  <2>2. FactsOK'
    BY <1>3 DEF FactsOK
  <2> QED
    BY <1>1, <1>3, <2>1, <2>2, GoingOn DEF Stages
<1>4. CASE memo.view # "ranked" /\ stage' = "reading" /\ memo' = [memo EXCEPT !.refs = {1}]
  <2>1. memo' \in Memories /\ SameTask /\ memo'.view = memo.view
    <3>1. {1} \in SUBSET Nat
      OBVIOUS
    <3> QED
      BY <1>1, <1>4, <3>1 DEF Memories, SameTask
  <2>2. memo.view = "task" /\ TaskOK /\ NothingYet
    BY <1>1, <1>4 DEF CueOK, ListsOK, TaskOK, Undeclared, Validate
  <2>3. SourcesOK' /\ (~memo'.required => TaskFits(memo.items, memo.sources)') /\ NothingYet'
    BY <2>1, <2>2, TaskStays
  <2>4. memo'.refs = {1} /\ DOMAIN <<Declaration>> = {1}
    BY <1>1, <1>4 DEF Memories
  <2>5. TaskOK'
    BY <1>4, <2>3, <2>4 DEF TaskOK, Undeclared, NothingYet, RefsOf
  <2> QED
    BY <1>1, <1>4, <2>1, <2>2, <2>5, GoingOn DEF Stages
<1> QED
  BY <1>2, <1>3, <1>4 DEF Validate

\* The facts are those of the checkout: the snapshot's if it is the snapshot.
LEMMA ReadFactsKeeps == IInv /\ ReadFacts => IInv'
<1> SUFFICES ASSUME IInv, ReadFacts PROVE IInv'
  OBVIOUS
<1>1. /\ stage = "facts" /\ stage' = "recheck" /\ memo \in Memories /\ CueOK
      /\ UNCHANGED <<world, output>> /\ undone' = undone /\ undone \in BOOLEAN
      /\ snapshot' = snapshot /\ tree' = tree /\ tree \in Files
      /\ memo' = [memo EXCEPT !.facts = tree[FactsFile]]
  BY DEF ReadFacts, IInv, CueOK, TypeOK, world
<1>2. memo.view = "ranked" /\ ListsOK
  BY <1>1 DEF CueOK, TaskOK, ListsOK
<1>3. tree[FactsFile] \in Version
  BY <1>1, FilesAssumption DEF Files
<1>4. memo' \in Memories /\ SameLists /\ memo'.view = "ranked" /\ memo'.facts = tree[FactsFile]
  BY <1>1, <1>2, <1>3 DEF Memories, SameLists
<1>5. ListsOK'
  BY <1>1, <1>2, <1>4, ListsStay
<1>6. FactsOK'
  BY <1>1, <1>4 DEF FactsOK
<1> QED
  BY <1>1, <1>4, <1>5, <1>6, GoingOn DEF Stages

\* The work on a task cue does not depend on the stage after the last item.
LEMMA ItemsStay ==
  ASSUME ItemsOK, SameTask, stage \in {"items", "recheck", "deliver"},
         stage' = "items" \/ (memo.todo = {} /\ ~memo.required)
  PROVE  ItemsOK'
<1>1. PathsOf(memo.sources)' = PathsOf(memo.sources)
  BY DEF SameTask, PathsOf
<1> QED
  BY <1>1 DEF SameTask, ItemsOK

\* After the second validation nothing is read.
LEMMA RecheckKeeps == IInv /\ Recheck => IInv'
<1> SUFFICES ASSUME IInv, Recheck PROVE IInv'
  OBVIOUS
<1>1. /\ stage = "recheck" /\ memo' = memo /\ memo \in Memories /\ CueOK
      /\ UNCHANGED <<world, output>> /\ undone' = undone /\ undone \in BOOLEAN
      /\ snapshot' = snapshot /\ tree' = tree
      /\ stage' = IF tree # snapshot THEN "failed"
                  ELSE IF memo.view = "ranked" THEN "fit" ELSE "deliver"
  BY DEF Recheck, IInv, CueOK, TypeOK, world
<1>2. CASE tree # snapshot
  BY <1>1, <1>2, FailKeeps
<1>3. CASE tree = snapshot /\ memo.view = "ranked"
  <2>1. ListsOK'
    BY <1>1, <1>3, ListsStay DEF CueOK, SameLists
  <2>2. FactsOK'
    BY <1>1, <1>3 DEF CueOK, FactsOK
  <2> QED
    BY <1>1, <1>3, <2>1, <2>2, GoingOn DEF Stages
<1>4. CASE tree = snapshot /\ memo.view # "ranked"
  <2>1. memo.view = "task" /\ TaskOK
    BY <1>1, <1>4 DEF CueOK, ListsOK
  <2>2. ItemsOK /\ SameTask
    BY <1>1, <2>1 DEF TaskOK, Undeclared, SameTask
  <2>3. memo.todo = {} /\ ~memo.required
    BY <1>1, <2>2 DEF ItemsOK
  <2>4. ItemsOK'
    BY <1>1, <2>2, <2>3, ItemsStay
  <2>5. SourcesOK' /\ (~memo'.required => TaskFits(memo.items, memo.sources)')
    BY <2>1, <2>2, TaskStays
  <2>6. TaskOK'
    BY <1>1, <1>4, <2>4, <2>5 DEF TaskOK, Undeclared
  <2> QED
    BY <1>1, <1>4, <2>1, <2>6, GoingOn DEF Stages
<1> QED
  BY <1>2, <1>3, <1>4

(***************************************************************************)
(* The steps of a task cue.                                                *)
(***************************************************************************)
\* A reference is to a file.
LEMMA RefsArePaths ==
  ASSUME NEW item \in DOMAIN Items \union {0}, NEW n \in DOMAIN RefsOf(item)
  PROVE  RefsOf(item)[n] \in Path
<1>1. CASE item = 0
  <2>1. DOMAIN <<Declaration>> = {1} /\ <<Declaration>>[1] = Declaration
    OBVIOUS
  <2> QED
    BY <1>1, <2>1, FilesAssumption DEF RefsOf
<1>2. CASE item # 0
  BY <1>2, ItemFacts DEF RefsOf
<1> QED
  BY <1>1, <1>2

\* Only a task cue reads sources and has items.
LEMMA ReadingIsOfATask ==
  ASSUME IInv, stage \in {"reading", "items", "admit"}
  PROVE  /\ memo \in Memories /\ memo.view = "task" /\ TaskOK
         /\ tree \in Files /\ undone \in BOOLEAN
BY DEF IInv, CueOK, ListsOK, TypeOK

\* Nothing is known of a text that has only been begun.
LEMMA BeginReadKeeps == IInv /\ BeginRead => IInv'
<1> SUFFICES ASSUME IInv, BeginRead PROVE IInv'
  OBVIOUS
<1>1. /\ stage = "reading" /\ UNCHANGED <<world, output>> /\ undone' = undone
      /\ snapshot' = snapshot
  BY DEF BeginRead, world
<1>2. /\ memo \in Memories /\ memo.view = "task" /\ TaskOK
      /\ tree \in Files /\ undone \in BOOLEAN
  BY <1>1, ReadingIsOfATask
<1>3. PICK n \in memo.refs :
        LET path == RefsOf(memo.item)[n]
        IN IF memo.item # 0 /\ snapshot[path] # memo.pins
           THEN stage' = "failed" /\ UNCHANGED memo
           ELSE memo' = [memo EXCEPT !.begun = tree[path]] /\ UNCHANGED stage
  BY DEF BeginRead
<1>4. CASE stage' = "failed" /\ UNCHANGED memo
  BY <1>1, <1>2, <1>4, FailKeeps
<1>5. CASE memo' = [memo EXCEPT !.begun = tree[RefsOf(memo.item)[n]]] /\ UNCHANGED stage
  <2>1. n \in DOMAIN RefsOf(memo.item) /\ memo.item \in DOMAIN Items \union {0}
    BY <1>1, <1>2, <1>3 DEF TaskOK, Memories
  <2>2. tree[RefsOf(memo.item)[n]] \in Version
    BY <1>2, <2>1, RefsArePaths DEF Files
  <2>3. memo' \in Memories /\ SameTask /\ memo'.refs = memo.refs
    BY <1>1, <1>2, <1>5, <2>2 DEF Memories, SameTask
  <2>4. TaskOK'
    BY <1>2, <1>5, <2>3, TaskStays
  <2> QED
    BY <1>1, <1>2, <1>5, <2>3, <2>4, GoingOn DEF SameTask, Stages
<1> QED
  BY <1>3, <1>4, <1>5

\* The declaration is read first; nothing is in the cue then.
LEMMA DeclarationIsRead ==
  ASSUME IInv, EndRead, stage' = "items", memo.item = 0,
         NEW text \in Texts, NEW n \in memo.refs,
         memo' = [[memo EXCEPT !.refs = @ \ {n}, !.begun = None,
                               !.checked = @ \union {text[1]}]
                    EXCEPT !.pins = text[2], !.todo = memo.selected]
  PROVE  IInv'
<1>1. /\ stage = "reading" /\ UNCHANGED <<world, output>> /\ undone' = undone
      /\ snapshot' = snapshot
  BY DEF EndRead, world
<1>2. /\ memo \in Memories /\ memo.view = "task" /\ TaskOK /\ undone \in BOOLEAN
  BY <1>1, ReadingIsOfATask
<1>3. text[1] \in Path /\ text[2] \in Version
  BY DEF Texts
<1>4. /\ memo' \in Memories /\ memo'.view = memo.view /\ memo'.item = 0
      /\ memo'.required = memo.required /\ memo'.items = memo.items
      /\ memo'.sources = memo.sources /\ memo'.unit = memo.unit
      /\ memo'.todo = memo.selected /\ memo'.selected = memo.selected
  <2>1. memo' \in Memories
    <3> DEFINE read == [memo EXCEPT !.refs = @ \ {n}, !.begun = None,
                                    !.checked = @ \union {text[1]}]
    <3>1. read \in Memories /\ read.selected = memo.selected
      BY <1>2, <1>3 DEF Memories
    <3>2. memo.selected \in SUBSET DOMAIN Items
      BY <1>2 DEF Memories
    <3>3. memo' = [read EXCEPT !.pins = text[2], !.todo = memo.selected]
      OBVIOUS
    <3> HIDE DEF read
    <3> QED
      BY <1>3, <3>1, <3>2, <3>3 DEF Memories
  <2>2. /\ memo'.view = memo.view /\ memo'.item = memo.item
        /\ memo'.required = memo.required /\ memo'.items = memo.items
        /\ memo'.sources = memo.sources /\ memo'.unit = memo.unit
        /\ memo'.todo = memo.selected /\ memo'.selected = memo.selected
    BY <1>2 DEF Memories
  <2> QED
    BY <2>1, <2>2
<1>5. NothingYet
  BY <1>1, <1>2 DEF TaskOK, Undeclared
<1>6. PathsOf({}) = {} /\ UNION {RefPaths(i) : i \in {}} = {}
  BY DEF PathsOf
<1>7. ItemsOK'
  <2>1. PathsOf(memo.sources)' = {} /\ memo'.items = {}
    BY <1>4, <1>5, <1>6 DEF NothingYet, PathsOf
  <2>2. UNION {RefPaths(i) : i \in memo'.items} = {}
    BY <2>1
  <2> QED
    BY <1>4, <1>5, <2>1, <2>2 DEF ItemsOK, NothingYet
<1>8. SourcesOK'
  BY <1>4, <1>5, FS_EmptySet DEF SourcesOK, NothingYet
<1>9. TaskOK'
  BY <1>4, <1>5, <1>7, <1>8 DEF TaskOK, Undeclared, NothingYet
<1> QED
  BY <1>1, <1>2, <1>4, <1>9, GoingOn DEF Stages

\* A source that was read is checked, and in the unit unless the unit is too large.
LEMMA SourceIsRead ==
  ASSUME IInv, EndRead, memo.item # 0, NEW n \in memo.refs, NEW text \in Texts,
         text[1] = RefsOf(memo.item)[n], Matches(text),
         stage' = IF memo.refs = {n} THEN "admit" ELSE "reading",
         memo' \in Memories, memo'.view = memo.view, memo'.size = memo.size,
         memo'.selected = memo.selected, memo'.todo = memo.todo,
         memo'.required = memo.required, memo'.item = memo.item,
         memo'.items = memo.items, memo'.sources = memo.sources,
         memo'.refs = memo.refs \ {n}, memo'.checked = memo.checked \union {text[1]},
         \/ memo'.overflow /\ memo'.unit = {}
         \/ /\ memo'.overflow = memo.overflow /\ ~memo.overflow
            /\ memo'.unit = memo.unit \union {text}
  PROVE  IInv'
<1>1. /\ stage = "reading" /\ UNCHANGED <<world, output>> /\ undone' = undone
      /\ snapshot' = snapshot
  BY DEF EndRead, world
<1>2. /\ memo \in Memories /\ memo.view = "task" /\ TaskOK /\ undone \in BOOLEAN
  BY <1>1, ReadingIsOfATask
<1>3. UnitOK /\ ItemsOK /\ SourcesOK /\ memo.refs \subseteq DOMAIN RefsOf(memo.item)
  BY <1>1, <1>2 DEF TaskOK, Undeclared
<1>4. /\ text[1] = Items[memo.item].refs[n] /\ n \in DOMAIN Items[memo.item].refs
      /\ RefsOf(memo.item) = Items[memo.item].refs
  BY <1>3 DEF RefsOf
<1>5. /\ stage' \in {"reading", "admit"} /\ (stage' = "admit" => memo'.refs = {})
      /\ ~Undeclared'
  BY DEF Undeclared
<1>6. SourcesOK'
  <2>1. IsFiniteSet(memo.unit \union {text}) /\ IsFiniteSet({})
    BY <1>3, FS_AddElement, FS_EmptySet DEF SourcesOK
  <2>2. \A t : Matches(t)' <=> Matches(t)
    BY <1>1 DEF Matches
  <2> QED
    BY <1>3, <2>1, <2>2 DEF SourcesOK
<1>7. PathsOf(memo.sources)' = PathsOf(memo.sources)
  BY DEF PathsOf
<1>8. ItemsOK'
  BY <1>1, <1>3, <1>5, <1>7 DEF ItemsOK
<1>9. UnitOK'
  <2> DEFINE refs == Items[memo.item].refs
  <2>1. \A m \in DOMAIN refs \ memo'.refs : m \in DOMAIN refs \ memo.refs \/ m = n
    OBVIOUS
  <2>2. \A m \in DOMAIN refs \ memo'.refs : refs[m] \in memo'.checked
    BY <1>3, <1>4, <2>1 DEF UnitOK
  <2>3. ASSUME ~memo'.overflow
        PROVE  PathsOf(memo.sources) \union PathsOf(memo'.unit)
                 = PathsOf(memo.sources) \union {refs[m] : m \in DOMAIN refs \ memo'.refs}
    <3>1. memo'.unit = memo.unit \union {text} /\ ~memo.overflow
      BY <2>3
    <3>2. PathsOf(memo'.unit) = PathsOf(memo.unit) \union {text[1]}
      BY <3>1 DEF PathsOf
    <3>3. {refs[m] : m \in DOMAIN refs \ memo'.refs}
            = {refs[m] : m \in DOMAIN refs \ memo.refs} \union {refs[n]}
      BY <1>4
    <3>4. PathsOf(memo.sources) \union PathsOf(memo.unit)
            = PathsOf(memo.sources) \union {refs[m] : m \in DOMAIN refs \ memo.refs}
      BY <1>3, <3>1 DEF UnitOK
    <3> HIDE DEF refs
    <3> QED
      BY <1>4, <3>2, <3>3, <3>4 DEF refs
  <2>4. PathsOf(memo.unit)' = PathsOf(memo'.unit)
    BY DEF PathsOf
  <2> QED
    BY <1>3, <1>5, <1>7, <2>2, <2>3, <2>4 DEF UnitOK
<1>10. ~memo'.required => TaskFits(memo.items, memo.sources)'
  BY <1>2 DEF TaskOK, TaskFits, TaskRest
<1>11. stage' = "reading" => memo'.refs \subseteq DOMAIN RefsOf(memo'.item)
  BY <1>3
<1>12. TaskOK'
  BY <1>5, <1>6, <1>8, <1>9, <1>10, <1>11 DEF TaskOK
<1> QED
  BY <1>1, <1>2, <1>5, <1>12, GoingOn DEF Stages

\* A text is read to its end: of the declaration, or of the item at hand.
LEMMA EndReadKeeps == IInv /\ EndRead => IInv'
<1> SUFFICES ASSUME IInv, EndRead PROVE IInv'
  OBVIOUS
<1>1. /\ stage = "reading" /\ UNCHANGED <<world, output>> /\ undone' = undone
      /\ memo.begun # None
  BY DEF EndRead
<1>2. /\ memo \in Memories /\ memo.view = "task" /\ TaskOK
      /\ tree \in Files /\ undone \in BOOLEAN
  BY <1>1, ReadingIsOfATask
<1> DEFINE text(n) == <<RefsOf(memo.item)[n], memo.begun, tree[RefsOf(memo.item)[n]]>>
           read(n) == [memo EXCEPT !.refs = @ \ {n}, !.begun = None,
                                   !.checked = @ \union {RefsOf(memo.item)[n]}]
<1>3. PICK n \in memo.refs :
        IF ~Matches(text(n)) THEN stage' = "failed" /\ UNCHANGED memo
        ELSE IF memo.item = 0
        THEN /\ memo' = [read(n) EXCEPT !.pins = text(n)[2], !.todo = memo.selected]
             /\ stage' = "items"
        ELSE /\ memo' = IF memo.overflow \/ TextBytes[RefsOf(memo.item)[n]] > Remaining
                        THEN [read(n) EXCEPT !.overflow = TRUE, !.unit = {}]
                        ELSE [read(n) EXCEPT !.unit = @ \union {text(n)}]
             /\ stage' = IF memo.refs = {n} THEN "admit" ELSE "reading"
  BY DEF EndRead
<1>4. RefsOf(memo.item)[n] \in Path
  <2>1. n \in DOMAIN RefsOf(memo.item) /\ memo.item \in DOMAIN Items \union {0}
    BY <1>1, <1>2, <1>3 DEF TaskOK, Memories
  <2> QED
    BY <2>1, RefsArePaths
<1>5. text(n) \in Texts /\ text(n)[1] = RefsOf(memo.item)[n]
  BY <1>1, <1>2, <1>4 DEF Texts, Files, Memories
<1> HIDE DEF text
<1>6. CASE ~Matches(text(n))
  BY <1>1, <1>2, <1>3, <1>6, FailKeeps
<1>7. CASE Matches(text(n)) /\ memo.item = 0
  BY <1>3, <1>5, <1>7, DeclarationIsRead
<1>8. CASE Matches(text(n)) /\ memo.item # 0
  <2>1. \/ memo' = [read(n) EXCEPT !.overflow = TRUE, !.unit = {}]
        \/ ~memo.overflow /\ memo' = [read(n) EXCEPT !.unit = @ \union {text(n)}]
    BY <1>3, <1>8
  <2>2. stage' = IF memo.refs = {n} THEN "admit" ELSE "reading"
    BY <1>3, <1>8
  <2>3. /\ memo' \in Memories /\ memo'.view = memo.view /\ memo'.size = memo.size
        /\ memo'.selected = memo.selected /\ memo'.todo = memo.todo
        /\ memo'.required = memo.required /\ memo'.item = memo.item
        /\ memo'.items = memo.items /\ memo'.sources = memo.sources
        /\ memo'.refs = memo.refs \ {n}
        /\ memo'.checked = memo.checked \union {text(n)[1]}
        /\ \/ memo'.overflow /\ memo'.unit = {}
           \/ /\ memo'.overflow = memo.overflow /\ ~memo.overflow
              /\ memo'.unit = memo.unit \union {text(n)}
    <3>1. CASE memo' = [read(n) EXCEPT !.overflow = TRUE, !.unit = {}]
      BY <1>2, <1>4, <1>5, <3>1 DEF Memories
    <3>2. CASE ~memo.overflow /\ memo' = [read(n) EXCEPT !.unit = @ \union {text(n)}]
      BY <1>2, <1>4, <1>5, <3>2 DEF Memories
    <3> QED
      BY <2>1, <3>1, <3>2
  <2> HIDE DEF read
  <2> QED
    BY <1>5, <1>8, <2>2, <2>3, SourceIsRead
<1> QED
  BY <1>6, <1>7, <1>8

\* An item is taken with those of its files that are not in the cue.
LEMMA TakeItemKeeps == IInv /\ TakeItem => IInv'
<1> SUFFICES ASSUME IInv, TakeItem PROVE IInv'
  OBVIOUS
<1>1. /\ stage = "items" /\ UNCHANGED <<world, output>> /\ undone' = undone
      /\ snapshot' = snapshot
      /\ memo.required => NextIsRequired
  BY DEF TakeItem, world
<1>2. /\ memo \in Memories /\ memo.view = "task" /\ TaskOK /\ undone \in BOOLEAN
  BY <1>1, ReadingIsOfATask
<1> DEFINE rest(item) == {n \in DOMAIN Items[item].refs :
                            Items[item].refs[n] \notin PathsOf(memo.sources)}
<1>3. PICK item \in memo.todo :
        /\ \A other \in memo.todo \ {item} : Precedes(item, other)
        /\ memo' = [memo EXCEPT !.todo = @ \ {item}, !.item = item, !.refs = rest(item),
                                !.unit = {}, !.overflow = FALSE]
        /\ stage' = IF rest(item) = {} THEN "admit" ELSE "reading"
  BY DEF TakeItem, PathsOf
<1>4. item \in DOMAIN Items /\ item # 0 /\ rest(item) \subseteq Nat
  BY <1>2, <1>3, ItemFacts DEF Memories
<1>5. /\ memo' \in Memories /\ memo'.view = memo.view /\ memo'.size = memo.size
      /\ memo'.selected = memo.selected /\ memo'.todo = memo.todo \ {item}
      /\ memo'.required = memo.required /\ memo'.item = item
      /\ memo'.items = memo.items /\ memo'.sources = memo.sources
      /\ memo'.refs = rest(item) /\ memo'.checked = memo.checked
      /\ memo'.overflow = FALSE /\ memo'.unit = {}
  BY <1>2, <1>3, <1>4 DEF Memories
<1>6. /\ stage' \in {"reading", "admit"} /\ ~Undeclared'
      /\ stage' = "admit" => rest(item) = {}
  BY <1>3, <1>4, <1>5 DEF Undeclared
<1>7. ItemsOK /\ SourcesOK /\ rest(item) \subseteq DOMAIN Items[item].refs
  BY <1>1, <1>2 DEF TaskOK, Undeclared
<1>8. \A n \in DOMAIN Items[item].refs \ rest(item) :
        Items[item].refs[n] \in PathsOf(memo.sources)
  OBVIOUS
<1> HIDE DEF rest
<1>9. SourcesOK'
  <2>1. IsFiniteSet({})
    BY FS_EmptySet
  <2>2. \A text \in memo.sources : Matches(text)' <=> Matches(text)
    BY <1>1 DEF Matches
  <2> QED
    BY <1>5, <1>7, <2>1, <2>2 DEF SourcesOK
<1>10. PathsOf(memo.sources)' = PathsOf(memo.sources) /\ PathsOf(memo.unit)' = {}
  BY <1>5 DEF PathsOf
<1>11. ItemsOK'
  BY <1>1, <1>3, <1>5, <1>6, <1>7, <1>10 DEF ItemsOK
<1>12. memo.required = Items[item].required
  <2>1. CASE memo.required
    <3>1. PICK other \in memo.todo : Items[other].required
      BY <1>1, <2>1 DEF NextIsRequired
    <3>2. other # item => Precedes(item, other)
      BY <1>3
    <3>3. Items[item].required = TRUE
      BY <1>2, <1>4, <3>1, <3>2, ItemFacts DEF Precedes, Memories
    <3>4. memo.required = TRUE
      BY <1>2, <2>1 DEF Memories
    <3> QED
      BY <3>3, <3>4
  <2>2. CASE ~memo.required
    <3>1. Items[item].required = FALSE
      BY <1>3, <1>4, <1>7, <2>2, ItemFacts DEF ItemsOK
    <3>2. memo.required = FALSE
      BY <1>2, <2>2 DEF Memories
    <3> QED
      BY <3>1, <3>2
  <2> QED
    BY <2>1, <2>2
<1>13. UnitOK'
  <2>1. item \in memo.selected /\ item \notin memo.items
    BY <1>3, <1>7 DEF ItemsOK
  <2>2. PathsOf(memo.sources) \subseteq memo.checked
    BY <1>7 DEF ItemsOK
  <2>3. {Items[item].refs[n] : n \in DOMAIN Items[item].refs \ rest(item)}
          \subseteq PathsOf(memo.sources)
    BY <1>8
  <2>4. PathsOf(memo.sources) \union {}
          = PathsOf(memo.sources)
              \union {Items[item].refs[n] : n \in DOMAIN Items[item].refs \ rest(item)}
    BY <2>3
  <2> QED
    BY <1>5, <1>6, <1>8, <1>10, <1>12, <2>1, <2>2, <2>4 DEF UnitOK
<1>14. ~memo'.required => TaskFits(memo.items, memo.sources)'
  BY <1>2, <1>5 DEF TaskOK, TaskFits, TaskRest
<1>15. memo'.refs \subseteq DOMAIN RefsOf(memo'.item)
  BY <1>4, <1>5, <1>7 DEF RefsOf
<1>16. TaskOK'
  BY <1>6, <1>9, <1>11, <1>13, <1>14, <1>15 DEF TaskOK
<1> QED
  BY <1>1, <1>2, <1>5, <1>6, <1>16, GoingOn DEF Stages

\* No required item is left when the mandatory cue is made to fit.
LEMMA FitMandatoryKeeps == IInv /\ FitMandatory => IInv'
<1> SUFFICES ASSUME IInv, FitMandatory PROVE IInv'
  OBVIOUS
<1>1. /\ stage = "items" /\ UNCHANGED <<world, output>> /\ undone' = undone
      /\ snapshot' = snapshot /\ ~NextIsRequired
  BY DEF FitMandatory, world
<1>2. /\ memo \in Memories /\ memo.view = "task" /\ TaskOK /\ undone \in BOOLEAN
  BY <1>1, ReadingIsOfATask
<1>3. CASE stage' = "failed" /\ UNCHANGED memo
  BY <1>1, <1>2, <1>3, FailKeeps
<1>4. CASE /\ TaskFits(memo.items, memo.sources)
           /\ memo' = [memo EXCEPT !.required = FALSE] /\ UNCHANGED stage
  <2>1. /\ memo' \in Memories /\ memo'.view = memo.view /\ memo'.size = memo.size
        /\ memo'.selected = memo.selected /\ memo'.todo = memo.todo
        /\ memo'.required = FALSE
        /\ memo'.items = memo.items /\ memo'.sources = memo.sources
        /\ memo'.unit = memo.unit /\ memo'.checked = memo.checked
    BY <1>2, <1>4 DEF Memories
  <2>2. ItemsOK /\ SourcesOK /\ ~Undeclared'
    BY <1>1, <1>2, <1>4 DEF TaskOK, Undeclared
  <2>3. PathsOf(memo.sources)' = PathsOf(memo.sources)
    BY <2>1 DEF PathsOf
  <2>4. ItemsOK'
    BY <1>1, <1>4, <2>1, <2>2, <2>3 DEF ItemsOK, NextIsRequired
  <2>5. SourcesOK'
    BY <1>1, <2>1, <2>2 DEF SourcesOK, Matches
  <2>6. TaskFits(memo.items, memo.sources)'
    BY <1>4, <2>1 DEF TaskFits, TaskRest
  <2>7. TaskOK'
    BY <1>1, <1>4, <2>2, <2>4, <2>5, <2>6 DEF TaskOK
  <2> QED
    BY <1>1, <1>2, <1>4, <2>1, <2>7, GoingOn DEF Stages
<1> QED
  BY <1>3, <1>4 DEF FitMandatory

\* The files of some items and one more.
LEMMA OneItemMore ==
  ASSUME NEW others, NEW item
  PROVE  UNION {RefPaths(i) : i \in others \union {item}}
           = (UNION {RefPaths(i) : i \in others}) \union RefPaths(item)
<1>1. ASSUME NEW p, p \in UNION {RefPaths(i) : i \in others \union {item}}
      PROVE  p \in (UNION {RefPaths(i) : i \in others}) \union RefPaths(item)
  <2>1. PICK i \in others \union {item} : p \in RefPaths(i)
    BY <1>1
  <2> QED
    BY <2>1
<1>2. ASSUME NEW p, p \in (UNION {RefPaths(i) : i \in others}) \union RefPaths(item)
      PROVE  p \in UNION {RefPaths(i) : i \in others \union {item}}
  <2>1. CASE p \in RefPaths(item)
    BY <2>1
  <2>2. CASE p \in UNION {RefPaths(i) : i \in others}
    <3>1. PICK i \in others : p \in RefPaths(i)
      BY <2>2
    <3> QED
      BY <3>1
  <2> QED
    BY <1>2, <2>1, <2>2
<1> QED
  BY <1>1, <1>2

\* An item is admitted with its unit, which is all that was not in the cue.
LEMMA ItemIsAdmitted ==
  ASSUME IInv, stage = "admit", stage' = "items", ~memo.overflow,
         memo' = [memo EXCEPT !.items = memo.items \union {memo.item},
                              !.sources = memo.sources \union memo.unit],
         memo.required
           \/ TaskFits(memo.items \union {memo.item}, memo.sources \union memo.unit),
         UNCHANGED <<world, undone, output>>
  PROVE  IInv'
<1>1. /\ memo \in Memories /\ memo.view = "task" /\ TaskOK /\ undone \in BOOLEAN
      /\ snapshot' = snapshot
  BY ReadingIsOfATask DEF world
<1>2. UnitOK /\ ItemsOK /\ SourcesOK /\ ~Undeclared'
  BY <1>1 DEF TaskOK, Undeclared
<1>3. memo.item \in DOMAIN Items
  BY <1>1, <1>2 DEF UnitOK, Memories
<1> DEFINE items == memo.items \union {memo.item}
           sources == memo.sources \union memo.unit
<1>4. /\ memo' \in Memories /\ memo'.view = memo.view /\ memo'.size = memo.size
      /\ memo'.selected = memo.selected /\ memo'.todo = memo.todo
      /\ memo'.required = memo.required /\ memo'.item = memo.item
      /\ memo'.items = items /\ memo'.sources = sources
      /\ memo'.unit = memo.unit /\ memo'.checked = memo.checked
  BY <1>1, <1>3 DEF Memories
<1>5. PathsOf(sources) = PathsOf(memo.sources) \union RefPaths(memo.item)
  <2>1. PathsOf(sources) = PathsOf(memo.sources) \union PathsOf(memo.unit)
    BY DEF PathsOf
  <2>2. DOMAIN Items[memo.item].refs \ memo.refs = DOMAIN Items[memo.item].refs
    BY <1>2 DEF UnitOK
  <2>3. PathsOf(memo.sources) \union PathsOf(memo.unit)
          = PathsOf(memo.sources) \union RefPaths(memo.item)
    BY <1>2, <2>2 DEF UnitOK, RefPaths
  <2> QED
    BY <2>1, <2>3
<1>6. RefPaths(memo.item) \subseteq memo.checked
  <2>1. \A n \in DOMAIN Items[memo.item].refs : Items[memo.item].refs[n] \in memo.checked
    BY <1>2 DEF UnitOK
  <2> QED
    BY <2>1 DEF RefPaths
<1>7. UNION {RefPaths(i) : i \in items}
        = (UNION {RefPaths(i) : i \in memo.items}) \union RefPaths(memo.item)
  BY OneItemMore
<1>8. ItemsOK'
  <2>1. PathsOf(memo.sources)' = PathsOf(sources)
    BY <1>4 DEF PathsOf
  <2>2. PathsOf(sources) = UNION {RefPaths(i) : i \in items}
    BY <1>2, <1>5, <1>7 DEF ItemsOK
  <2>3. PathsOf(sources) \subseteq memo.checked
    BY <1>2, <1>5, <1>6 DEF ItemsOK
  <2>4. items \subseteq memo.selected \ memo.todo
    BY <1>2 DEF UnitOK, ItemsOK
  <2>5. \A i \in memo.selected \ memo.todo :
          RefPaths(i) \subseteq memo.checked /\ (Items[i].required => i \in items)
    BY <1>2, <1>6 DEF ItemsOK
  <2> HIDE DEF items, sources
  <2> QED
    BY <1>2, <1>4, <2>1, <2>2, <2>3, <2>4, <2>5 DEF ItemsOK
<1>9. SourcesOK'
  <2>1. IsFiniteSet(sources)
    BY <1>2, FS_Union DEF SourcesOK
  <2> QED
    BY <1>1, <1>2, <1>4, <2>1 DEF SourcesOK, Matches
<1>10. ~memo'.required => TaskFits(memo.items, memo.sources)'
  <2>1. ~memo.required => TaskFits(items, sources)
    OBVIOUS
  <2> HIDE DEF items, sources
  <2> QED
    BY <1>4, <2>1 DEF TaskFits, TaskRest
<1>11. TaskOK'
  BY <1>2, <1>8, <1>9, <1>10 DEF TaskOK
<1> QED
  BY <1>1, <1>4, <1>11, GoingOn DEF Stages

\* An optional item that does not fit is left out; it was checked.
LEMMA ItemIsOmitted ==
  ASSUME IInv, stage = "admit", stage' = "items", memo' = memo, ~memo.required,
         UNCHANGED <<world, undone, output>>
  PROVE  IInv'
<1>1. /\ memo \in Memories /\ memo.view = "task" /\ TaskOK /\ undone \in BOOLEAN
      /\ snapshot' = snapshot
  BY ReadingIsOfATask DEF world
<1>2. UnitOK /\ ItemsOK /\ SourcesOK /\ ~Undeclared'
  BY <1>1 DEF TaskOK, Undeclared
<1>3. \A n \in DOMAIN Items[memo.item].refs : Items[memo.item].refs[n] \in memo.checked
  BY <1>2 DEF UnitOK
<1>4. RefPaths(memo.item) \subseteq memo.checked /\ ~Items[memo.item].required
  BY <1>2, <1>3 DEF RefPaths, UnitOK
<1>5. ItemsOK'
  <2>1. PathsOf(memo.sources)' = PathsOf(memo.sources)
    BY DEF PathsOf
  <2>2. \A i \in memo.selected \ memo.todo :
          RefPaths(i) \subseteq memo.checked /\ (Items[i].required => i \in memo.items)
    BY <1>2, <1>4 DEF ItemsOK
  <2> QED
    BY <1>2, <2>1, <2>2 DEF ItemsOK
<1>6. SourcesOK' /\ (~memo'.required => TaskFits(memo.items, memo.sources)')
  BY <1>1, TaskStays DEF SameTask
<1>7. TaskOK'
  BY <1>2, <1>5, <1>6 DEF TaskOK
<1> QED
  BY <1>1, <1>7, GoingOn DEF Stages

\* An item is refused, omitted or admitted.
LEMMA AdmitKeeps == IInv /\ Admit => IInv'
<1> SUFFICES ASSUME IInv, Admit PROVE IInv'
  OBVIOUS
<1>1. stage = "admit" /\ UNCHANGED <<world, undone, output>>
  BY DEF Admit
<1>2. undone \in BOOLEAN
  BY DEF IInv, TypeOK
<1> DEFINE items == memo.items \union {memo.item}
           sources == memo.sources \union memo.unit
           admitted == [memo EXCEPT !.items = items, !.sources = sources]
<1>3. \/ stage' = "failed" /\ UNCHANGED memo
      \/ stage' = "items" /\ memo' = memo /\ ~memo.required
      \/ /\ stage' = "items" /\ ~memo.overflow /\ memo' = admitted
         /\ memo.required \/ TaskFits(items, sources)
  BY DEF Admit
<1>4. CASE stage' = "failed" /\ UNCHANGED memo
  BY <1>1, <1>2, <1>4, FailKeeps
<1>5. CASE stage' = "items" /\ memo' = memo /\ ~memo.required
  BY <1>1, <1>5, ItemIsOmitted
<1>6. CASE /\ stage' = "items" /\ ~memo.overflow /\ memo' = admitted
           /\ memo.required \/ TaskFits(items, sources)
  BY <1>1, <1>6, ItemIsAdmitted
<1> QED
  BY <1>3, <1>4, <1>5, <1>6

\* When no item is left the cue has what it will have.
LEMMA FinishItemsKeeps == IInv /\ FinishItems => IInv'
<1> SUFFICES ASSUME IInv, FinishItems PROVE IInv'
  OBVIOUS
<1>1. /\ stage = "items" /\ stage' = "recheck" /\ memo' = memo
      /\ memo.todo = {} /\ ~memo.required
      /\ UNCHANGED <<world, output>> /\ undone' = undone /\ snapshot' = snapshot
  BY DEF FinishItems, world
<1>2. /\ memo \in Memories /\ memo.view = "task" /\ TaskOK /\ undone \in BOOLEAN
  BY <1>1, ReadingIsOfATask
<1>3. ItemsOK /\ SameTask /\ ~Undeclared'
  BY <1>1, <1>2 DEF TaskOK, Undeclared, SameTask
<1>4. ItemsOK'
  BY <1>1, <1>3, ItemsStay
<1>5. SourcesOK' /\ (~memo'.required => TaskFits(memo.items, memo.sources)')
  BY <1>2, <1>3, TaskStays
<1>6. TaskOK'
  BY <1>1, <1>3, <1>4, <1>5 DEF TaskOK
<1> QED
  BY <1>1, <1>2, <1>6, GoingOn DEF Stages

(***************************************************************************)
(* Cutting the lists.                                                      *)
(***************************************************************************)
\* While entries are left there is a first section that has some, at most the sixth.
LEMMA WeakestIsFirst ==
  ASSUME NEW n \in 0..6, NEW left \in [1..n -> Nat], Total(left) > 0
  PROVE  /\ Weakest(left) \in 1..n
         /\ left[Weakest(left)] > 0
         /\ \A j \in 1..(Weakest(left) - 1) : left[j] = 0
<1> DEFINE First(i) == left[i] > 0 /\ \A j \in 1..(i - 1) : left[j] = 0
<1>1. PICK some \in 1..n : left[some] # 0
  BY TotalCounts
<1>2. \E i \in 1..n : First(i)
  <2> SUFFICES ASSUME \A i \in 1..n : ~First(i) PROVE FALSE
    OBVIOUS
  <2> DEFINE Empty(k) == \A i \in 1..n : i <= k => left[i] = 0
  <2>1. ASSUME NEW k \in 0..5, Empty(k)
        PROVE  Empty(k + 1)
    <3> SUFFICES ASSUME NEW i \in 1..n, i <= k + 1, left[i] # 0 PROVE FALSE
      OBVIOUS
    <3>1. left[i] > 0
      OBVIOUS
    <3>2. \A j \in 1..(i - 1) : left[j] = 0
      BY <2>1
    <3> QED
      BY <3>1, <3>2
  <2>2. Empty(0)
    OBVIOUS
  <2> HIDE DEF Empty
  <2>3. Empty(1) /\ Empty(2) /\ Empty(3)
    <3>1. Empty(0 + 1)
      BY <2>1, <2>2
    <3>2. Empty(1 + 1)
      BY <2>1, <3>1
    <3>3. Empty(2 + 1)
      BY <2>1, <3>2
    <3> QED
      BY <3>1, <3>2, <3>3
  <2>4. Empty(6)
    <3>1. Empty(3 + 1)
      BY <2>1, <2>3
    <3>2. Empty(4 + 1)
      BY <2>1, <3>1
    <3>3. Empty(5 + 1)
      BY <2>1, <3>2
    <3> QED
      BY <3>3
  <2> QED
    BY <1>1, <2>4 DEF Empty
<1>3. Weakest(left) = CHOOSE i \in 1..n : First(i)
  BY DEF Weakest
<1> HIDE DEF First
<1>4. Weakest(left) \in 1..n /\ First(Weakest(left))
  BY <1>2, <1>3
<1> QED
  BY <1>4 DEF First

\* The lists of a view, as functions from the numbers of its sections.
LEMMA ListsAreFunctions ==
  ASSUME CueOK, memo.view # "task"
  PROVE  \E n \in 0..6 :
           /\ DOMAIN Sections(memo.view) = 1..n
           /\ memo.left \in [1..n -> Nat] /\ memo.full \in [1..n -> Nat]
<1>1. memo.view \in Views /\ ListsOK
  BY DEF CueOK, Memories
<1>2. PICK n \in 0..6 : DOMAIN Sections(memo.view) = 1..n
  BY <1>1, FewSections
<1>3. {memo.full, memo.left} \subseteq [1..n -> 0..MaxEntries]
  BY <1>1, <1>2 DEF ListsOK
<1>4. 0..MaxEntries \subseteq Nat
  BY BytesAssumption
<1>5. memo.left \in [1..n -> Nat] /\ memo.full \in [1..n -> Nat]
  BY <1>3, <1>4
<1> QED
  BY <1>2, <1>5

\* The last entry of the first section that has one is cut: the cue did not fit with it,
\* and what comes later has been cut before only if this was empty.
LEMMA EntryIsCut ==
  ASSUME CueOK, memo.view # "task", stage = "fit", stage' = stage,
         ~ViewFits(memo, memo.left, memo.hint), Total(memo.left) > 0,
         memo' = CutEntry(memo)
  PROVE  memo' \in Memories /\ ListsOK'
<1>1. memo \in Memories /\ ListsOK
  BY DEF CueOK
<1>2. PICK n \in 0..6 :
        /\ DOMAIN Sections(memo.view) = 1..n
        /\ memo.left \in [1..n -> Nat] /\ memo.full \in [1..n -> Nat]
  BY ListsAreFunctions
<1> DEFINE w == Weakest(memo.left)
           cut == [memo.left EXCEPT ![w] = @ - 1]
<1>3. w \in 1..n /\ memo.left[w] > 0 /\ \A j \in 1..(w - 1) : memo.left[j] = 0
  BY <1>2, WeakestIsFirst
<1>4. memo' = [memo EXCEPT !.left = cut, !.hint = memo.view \in Hinting]
  BY <1>1 DEF CutEntry, Memories
<1> HIDE DEF w
<1>5. memo.left \in [1..n -> 0..MaxEntries] /\ memo.full \in [1..n -> 0..MaxEntries]
  BY <1>1, <1>2 DEF ListsOK
<1>6. /\ cut \in [1..n -> 0..MaxEntries] /\ cut[w] = memo.left[w] - 1
      /\ \A i \in 1..n : i # w => cut[i] = memo.left[i]
  <2>1. MaxEntries \in Nat
    BY BytesAssumption
  <2>2. memo.left[w] - 1 \in 0..MaxEntries
    BY <1>3, <1>5, <2>1
  <2> QED
    BY <1>3, <1>5, <2>2
<1>7. [cut EXCEPT ![w] = @ + 1] = memo.left
  BY <1>2, <1>3
<1> HIDE DEF cut
<1>8. /\ memo' \in Memories /\ memo'.view = memo.view /\ memo'.size = memo.size
      /\ memo'.full = memo.full /\ memo'.left = cut
      /\ memo'.hint = (memo.view \in Hinting)
      /\ memo'.selected = memo.selected /\ memo'.sources = memo.sources
  <2>1. cut \in Lists
    <3>1. memo.view \in Views /\ cut \in [DOMAIN Sections(memo.view) -> 0..MaxEntries]
      BY <1>1, <1>2, <1>6 DEF Memories
    <3> QED
      BY <3>1 DEF Lists
  <2> DEFINE hinting == memo.view \in Hinting
  <2>2. hinting \in BOOLEAN /\ memo' = [memo EXCEPT !.left = cut, !.hint = hinting]
    BY <1>4
  <2> HIDE DEF hinting
  <2>3. memo' \in Memories /\ memo'.hint = hinting
    <3>1. memo' \in Memories
      BY <1>1, <2>1, <2>2 DEF Memories
    <3>2. memo'.hint = hinting
      BY <1>1, <2>2 DEF Memories
    <3> QED
      BY <3>1, <3>2
  <2>4. /\ memo'.view = memo.view /\ memo'.size = memo.size
        /\ memo'.full = memo.full /\ memo'.left = cut
        /\ memo'.selected = memo.selected /\ memo'.sources = memo.sources
    BY <1>1, <2>2 DEF Memories
  <2> QED
    BY <2>3, <2>4 DEF hinting
<1>9. /\ \A i \in 1..n : memo.left[i] <= memo.full[i]
      /\ DOMAIN memo.full = 1..n /\ Len(memo.full) = n
  BY <1>1, <1>2 DEF ListsOK
<1>10. /\ \A i \in 1..n : cut[i] <= memo.full[i]
       /\ cut[w] < memo.full[w] /\ cut # memo.full
  <2>1. /\ \A i \in 1..n : memo.left[i] \in Nat /\ memo.full[i] \in Nat
        /\ memo.left[w] <= memo.full[w]
    BY <1>2, <1>3, <1>9
  <2>2. cut[w] < memo.full[w]
    BY <1>3, <1>6, <2>1
  <2>3. \A i \in 1..n : cut[i] <= memo.full[i]
    <3> SUFFICES ASSUME NEW i \in 1..n PROVE cut[i] <= memo.full[i]
      OBVIOUS
    <3>1. CASE i = w
      BY <1>3, <1>6, <2>1, <3>1
    <3>2. CASE i # w
      BY <1>6, <1>9, <3>2
    <3> QED
      BY <3>1, <3>2
  <2> QED
    BY <1>3, <2>1, <2>2, <2>3
<1>13. \A i \in 1..n : memo.left[i] < memo.full[i] => \A j \in 1..(i - 1) : memo.left[j] = 0
  BY <1>1, <1>9 DEF ListsOK, ListsAreCutInOrder
<1>11. ListsAreCutInOrder'
  <2> SUFFICES
        ASSUME NEW i \in 1..n, cut[i] < memo.full[i]
        PROVE  /\ \A j \in 1..(i - 1) : cut[j] = 0
               /\ (\A j \in (i + 1)..n : cut[j] = memo.full[j]) =>
                    LET more == [cut EXCEPT ![i] = @ + 1]
                    IN ~ViewFits(memo', more, memo.view \in Hinting /\ more # memo.full)
               /\ memo.view \in Hinting => memo'.hint \/ Total(cut) = 0
    <3> DEFINE Ordered(view, full, left, hint) ==
          \A i \in DOMAIN full : left[i] < full[i] =>
            /\ \A j \in 1..(i - 1) : left[j] = 0
            /\ (\A j \in (i + 1)..Len(full) : left[j] = full[j]) =>
                 LET more == [left EXCEPT ![i] = @ + 1]
                 IN ~ViewFits(memo', more, view \in Hinting /\ more # full)
            /\ view \in Hinting => hint \/ Total(left) = 0
    <3>1. ListsAreCutInOrder' <=> Ordered(memo'.view, memo'.full, memo'.left, memo'.hint)
      BY DEF ListsAreCutInOrder
    <3>2. Ordered(memo.view, memo.full, cut, memo'.hint)
      BY <1>9
    <3> HIDE DEF Ordered
    <3> QED
      BY <1>8, <3>1, <3>2
  <2>1. i <= w
    <3> SUFFICES ASSUME i > w PROVE FALSE
      BY <1>3
    <3>1. memo.left[i] < memo.full[i]
      BY <1>6
    <3>2. memo.left[w] = 0
      <4>1. w \in 1..(i - 1)
        BY <1>3
      <4> QED
        BY <1>13, <3>1, <4>1
    <3> QED
      BY <1>3, <3>2
  <2>2. \A j \in 1..(i - 1) : cut[j] = 0
    BY <1>3, <1>6, <2>1
  <2>3. ASSUME \A j \in (i + 1)..n : cut[j] = memo.full[j]
        PROVE  ~ViewFits(memo', memo.left, memo.view \in Hinting /\ memo.left # memo.full)
               /\ i = w
    <3>1. i = w
      <4> SUFFICES ASSUME i # w PROVE FALSE
        OBVIOUS
      <4>1. w \in (i + 1)..n
        BY <1>3, <2>1
      <4>2. memo.full[w] \in Nat
        BY <1>2, <1>3
      <4> QED
        BY <1>10, <2>3, <4>1, <4>2
    <3>2. memo.hint = (memo.view \in Hinting /\ memo.left # memo.full)
      BY <1>1 DEF ListsOK, Memories
    <3>3. ViewFits(memo', memo.left, memo.hint) <=> ViewFits(memo, memo.left, memo.hint)
      BY <1>8 DEF ViewFits, ViewRest, WarningSize
    <3> QED
      BY <3>1, <3>2, <3>3
  <2>4. (\A j \in (i + 1)..n : cut[j] = memo.full[j]) =>
          LET more == [cut EXCEPT ![i] = @ + 1]
          IN ~ViewFits(memo', more, memo.view \in Hinting /\ more # memo.full)
    <3> SUFFICES ASSUME \A j \in (i + 1)..n : cut[j] = memo.full[j]
                 PROVE  LET more == [cut EXCEPT ![i] = @ + 1]
                        IN ~ViewFits(memo', more, memo.view \in Hinting /\ more # memo.full)
      OBVIOUS
    <3>1. i = w /\ ~ViewFits(memo', memo.left, memo.view \in Hinting /\ memo.left # memo.full)
      BY <2>3
    <3>2. [cut EXCEPT ![i] = @ + 1] = memo.left
      BY <1>7, <3>1
    <3> QED
      BY <3>1, <3>2
  <2>5. memo.view \in Hinting => memo'.hint \/ Total(cut) = 0
    BY <1>8
  <2> QED
    BY <2>2, <2>4, <2>5
<1>12. {memo'.full, memo'.left} \subseteq [DOMAIN Sections(memo'.view) -> 0..MaxEntries]
  BY <1>2, <1>5, <1>6, <1>8
<1> QED
  BY <1>1, <1>8, <1>9, <1>10, <1>11, <1>12 DEF ListsOK

\* When nothing is left but the hint, the hint goes.
LEMMA HintIsCut ==
  ASSUME CueOK, memo.view # "task", stage = "fit", stage' = stage,
         ~(Total(memo.left) > 0), memo' = [memo EXCEPT !.hint = FALSE]
  PROVE  memo' \in Memories /\ ListsOK'
<1>1. memo \in Memories /\ ListsOK
  BY DEF CueOK
<1>2. /\ memo' \in Memories /\ memo'.view = memo.view /\ memo'.size = memo.size
      /\ memo'.full = memo.full /\ memo'.left = memo.left /\ memo'.hint = FALSE
      /\ memo'.selected = memo.selected /\ memo'.sources = memo.sources
  BY <1>1 DEF Memories
<1>3. Total(memo.left) = 0
  <2>1. PICK n \in 0..6 : memo.left \in [1..n -> Nat]
    BY ListsAreFunctions
  <2>2. Total(memo.left) \in Nat
    BY <2>1, TotalCounts
  <2> QED
    BY <2>2
<1>4. \A left, hint : ViewFits(memo', left, hint) <=> ViewFits(memo, left, hint)
  BY <1>2 DEF ViewFits, ViewRest, WarningSize
<1>5. ListsAreCutInOrder'
  <2> DEFINE Ordered(view, full, left) ==
        \A i \in DOMAIN full : left[i] < full[i] =>
          /\ \A j \in 1..(i - 1) : left[j] = 0
          /\ (\A j \in (i + 1)..Len(full) : left[j] = full[j]) =>
               LET more == [left EXCEPT ![i] = @ + 1]
               IN ~ViewFits(memo', more, view \in Hinting /\ more # full)
  <2>1. ListsAreCutInOrder
    BY <1>1 DEF ListsOK
  <2>2. Ordered(memo.view, memo.full, memo.left)
    BY <1>4, <2>1 DEF ListsAreCutInOrder
  <2> HIDE DEF Ordered
  <2>3. Ordered(memo'.view, memo'.full, memo'.left) /\ Total(memo'.left) = 0
    BY <1>2, <1>3, <2>2
  <2> QED
    BY <2>3 DEF ListsAreCutInOrder, Ordered
<1> QED
  BY <1>1, <1>2, <1>3, <1>5 DEF ListsOK

\* Lists are cut in order, one entry at a time.
LEMMA CutKeeps == IInv /\ Cut => IInv'
<1> SUFFICES ASSUME IInv, Cut PROVE IInv'
  OBVIOUS
<1>1. /\ stage = "fit" /\ UNCHANGED <<world, output>> /\ undone' = undone
      /\ stage' = stage /\ snapshot' = snapshot
      /\ ~ViewFits(memo, memo.left, memo.hint)
      /\ memo' = AfterCut(memo)
  BY DEF Cut, world
<1>2. CueOK /\ undone \in BOOLEAN
  BY <1>1 DEF IInv, TypeOK
<1>3. memo.view # "task"
  BY <1>1, <1>2 DEF CueOK, TaskOK
<1>4. memo' \in Memories /\ ListsOK'
  <2>1. CASE Total(memo.left) > 0
    BY <1>1, <1>2, <1>3, <2>1, EntryIsCut DEF AfterCut
  <2>2. CASE ~(Total(memo.left) > 0)
    BY <1>1, <1>2, <1>3, <2>2, HintIsCut DEF AfterCut
  <2> QED
    BY <2>1, <2>2
<1>5. memo'.view = memo.view /\ memo'.facts = memo.facts
  BY <1>1, <1>2 DEF AfterCut, CutEntry, CueOK, Memories
<1>6. memo'.view = "ranked" => FactsOK'
  BY <1>1, <1>2, <1>5 DEF CueOK, FactsOK
<1> QED
  BY <1>1, <1>2, <1>3, <1>4, <1>5, <1>6, GoingOn DEF Stages

\* A view fits as it is.
LEMMA FitKeeps == IInv /\ Fit => IInv'
<1> SUFFICES ASSUME IInv, Fit PROVE IInv'
  OBVIOUS
<1>1. /\ stage = "fit" /\ UNCHANGED <<world, output>> /\ undone' = undone
      /\ stage' = "deliver" /\ snapshot' = snapshot /\ memo' = memo
      /\ ViewFits(memo, memo.left, memo.hint)
  BY DEF Fit, world
<1>2. CueOK /\ undone \in BOOLEAN
  BY <1>1 DEF IInv, TypeOK
<1>3. memo.view # "task"
  BY <1>1, <1>2 DEF CueOK, TaskOK
<1>4. ListsOK'
  BY <1>1, <1>2, <1>3, ListsStay DEF CueOK, SameLists
<1>5. memo'.view = "ranked" => FactsOK'
  BY <1>1, <1>2 DEF CueOK, FactsOK
<1> QED
  BY <1>1, <1>2, <1>3, <1>4, <1>5, GoingOn DEF CueOK, Stages

\* What the cue at hand is besides its estimate is a number of bytes.
LEMMA RestIsCounted ==
  ASSUME CueOK
  PROVE  /\ memo.view = "task" => TaskRest(memo.items, memo.sources) \in Nat
         /\ memo.view # "task" => ViewRest(memo, memo.left, memo.hint) \in Nat
<1>1. memo \in Memories /\ memo.items \in SUBSET DOMAIN Items
      /\ memo.sources \in SUBSET Texts /\ memo.hint \in BOOLEAN
  <2> HIDE DEF Lists, Texts
  <2> QED
    BY DEF CueOK, Memories
<1>2. CASE memo.view = "task"
  <2>1. IsFiniteSet(memo.sources)
    BY <1>2 DEF CueOK, TaskOK, SourcesOK
  <2> QED
    BY <1>1, <1>2, <2>1, TaskRestIsCounted
<1>3. CASE memo.view # "task"
  <2>1. PICK n \in 0..6 : memo.left \in [1..n -> Nat] /\ memo.full \in [1..n -> Nat]
    BY <1>3, ListsAreFunctions
  <2>2. n \in Nat
    OBVIOUS
  <2> QED
    BY <1>1, <1>3, <2>1, <2>2, ViewRestIsCounted
<1> QED
  BY <1>2, <1>3

\* The cue at hand is printed.
LEMMA DeliverKeeps == IInv /\ Deliver => IInv'
<1> SUFFICES ASSUME IInv, Deliver PROVE IInv'
  OBVIOUS
<1>1. /\ stage = "deliver" /\ UNCHANGED <<world, undone>> /\ memo' = memo
      /\ stage' = "delivered" /\ snapshot' = snapshot
  BY DEF Deliver, world
<1>2. CueOK /\ TypeOK
  BY <1>1 DEF IInv
<1> DEFINE rest == IF memo.view = "task" THEN TaskRest(memo.items, memo.sources)
                   ELSE ViewRest(memo, memo.left, memo.hint)
<1>3. output' = Marshal(rest, memo.view)
  BY DEF Deliver
<1>4. rest \in Nat
  BY <1>2, RestIsCounted
<1>5. output' \in Cues
  <2> HIDE DEF rest
  <2> QED
    BY <1>3, <1>4, CuesTellTheirSize
<1>6. TypeOK'
  BY <1>1, <1>2, <1>5 DEF TypeOK, Stages, world
<1>7. OutputOK'
  <2>1. TaskRest(memo.items, memo.sources)' = TaskRest(memo.items, memo.sources)
    BY <1>1 DEF TaskRest
  <2> QED
    BY <1>1, <1>3, <2>1 DEF OutputOK
<1>8. IF memo'.view = "task" THEN TaskOK' ELSE ListsOK'
  <2>1. CASE memo.view = "task"
    <3>1. TaskOK /\ SameTask /\ ItemsOK /\ ~Undeclared'
      BY <1>1, <1>2, <2>1 DEF CueOK, SameTask, TaskOK, Undeclared
    <3>2. ItemsOK'
      <4>1. memo.todo = {} /\ ~memo.required
        BY <1>1, <3>1 DEF ItemsOK
      <4> QED
        BY <1>1, <3>1, <4>1, ItemsStay
    <3>3. SourcesOK' /\ (~memo'.required => TaskFits(memo.items, memo.sources)')
      BY <3>1, TaskStays
    <3>4. TaskOK'
      BY <1>1, <3>1, <3>2, <3>3 DEF TaskOK
    <3> QED
      BY <1>1, <2>1, <3>4
  <2>2. CASE memo.view # "task"
    <3>1. ListsOK /\ SameLists
      BY <1>1, <1>2, <2>2 DEF CueOK, SameLists
    <3>2. ViewFits(memo, memo.left, memo.hint)
      BY <1>1, <3>1 DEF ListsOK
    <3> QED
      BY <1>1, <2>2, <3>1, <3>2, ListsStay
  <2> QED
    BY <2>1, <2>2
<1>9. memo'.view = "ranked" => FactsOK'
  BY <1>1, <1>2 DEF CueOK, FactsOK
<1> QED
  BY <1>1, <1>2, <1>6, <1>7, <1>8, <1>9 DEF IInv, CueOK

\* What is too large when nothing is left to cut is refused.
LEMMA RefuseKeeps == IInv /\ Refuse => IInv'
<1> SUFFICES ASSUME IInv, Refuse PROVE IInv'
  OBVIOUS
<1>1. /\ stage = "fit" /\ UNCHANGED <<world, output>> /\ undone' = undone
      /\ stage' = "failed" /\ memo' = memo
  BY DEF Refuse
<1>2. undone \in BOOLEAN
  BY DEF IInv, TypeOK
<1> QED
  BY <1>1, <1>2, FailKeeps

\* So is whatever meets an error.
LEMMA ErrorKeeps == IInv /\ Fail => IInv'
<1> SUFFICES ASSUME IInv, Fail PROVE IInv'
  OBVIOUS
<1>1. /\ stage \notin {"idle", "delivered"} /\ UNCHANGED <<world, output>> /\ undone' = undone
      /\ stage' = "failed" /\ memo' = memo
  BY DEF Fail
<1>2. undone \in BOOLEAN
  BY DEF IInv, TypeOK
<1> QED
  BY <1>1, <1>2, FailKeeps

\* The invariant does not depend on anything else.
LEMMA StutterKeeps == IInv /\ UNCHANGED vars => IInv'
<1> SUFFICES ASSUME IInv, UNCHANGED vars PROVE IInv'
  OBVIOUS
<1>1. /\ snapshot' = snapshot /\ tree' = tree /\ edits' = edits /\ undone' = undone
      /\ stage' = stage /\ memo' = memo /\ output' = output
  BY DEF vars, world
<1>2. /\ TypeOK' = TypeOK /\ SourcesOK' = SourcesOK /\ FactsOK' = FactsOK
      /\ ItemsOK' = ItemsOK /\ UnitOK' = UnitOK /\ NothingYet' = NothingYet
      /\ Undeclared' = Undeclared
  BY <1>1 DEF TypeOK, SourcesOK, FactsOK, ItemsOK, UnitOK, NothingYet, Undeclared,
              Matches, PathsOf
<1>3. TaskFits(memo.items, memo.sources)' = TaskFits(memo.items, memo.sources)
  BY <1>1 DEF TaskFits, TaskRest
<1>4. TaskRest(memo.items, memo.sources)' = TaskRest(memo.items, memo.sources)
  BY <1>1 DEF TaskRest
<1>5. TaskOK' = TaskOK
  BY <1>1, <1>2, <1>3 DEF TaskOK
<1>6. ListsOK' = ListsOK
  <2>1. ListsAreCutInOrder' = ListsAreCutInOrder
    BY <1>1 DEF ListsAreCutInOrder
  <2> QED
    BY <1>1, <2>1 DEF ListsOK
<1>7. OutputOK' = OutputOK
  BY <1>1, <1>4 DEF OutputOK
<1> QED
  BY <1>1, <1>2, <1>5, <1>6, <1>7 DEF IInv, CueOK

(***************************************************************************)
(* The theorems.                                                           *)
(***************************************************************************)
\* Every step of the command and of the world preserves the invariant.
LEMMA NextKeeps == IInv /\ [Next]_vars => IInv'
<1> SUFFICES ASSUME IInv, [Next]_vars PROVE IInv'
  OBVIOUS
<1>1. CASE World
  BY <1>1, EditKeeps DEF World
<1>2. CASE Begin
  BY <1>2, BeginKeeps
<1>3. CASE Compare
  BY <1>3, CompareKeeps
<1>4. CASE Validate
  BY <1>4, ValidateKeeps
<1>5. CASE ReadFacts
  BY <1>5, ReadFactsKeeps
<1>6. CASE Recheck
  BY <1>6, RecheckKeeps
<1>7. CASE BeginRead
  BY <1>7, BeginReadKeeps
<1>8. CASE EndRead
  BY <1>8, EndReadKeeps
<1>9. CASE TakeItem
  BY <1>9, TakeItemKeeps
<1>10. CASE FitMandatory
  BY <1>10, FitMandatoryKeeps
<1>11. CASE Admit
  BY <1>11, AdmitKeeps
<1>12. CASE FinishItems
  BY <1>12, FinishItemsKeeps
<1>13. CASE Cut
  BY <1>13, CutKeeps
<1>14. CASE Refuse
  BY <1>14, RefuseKeeps
<1>15. CASE Fit
  BY <1>15, FitKeeps
<1>16. CASE Deliver
  BY <1>16, DeliverKeeps
<1>17. CASE Fail
  BY <1>17, ErrorKeeps
<1>18. CASE UNCHANGED vars
  BY <1>18, StutterKeeps
<1> QED
  BY <1>1, <1>2, <1>3, <1>4, <1>5, <1>6, <1>7, <1>8, <1>9, <1>10, <1>11, <1>12, <1>13,
     <1>14, <1>15, <1>16, <1>17, <1>18 DEF Next, Proceed

\* The invariant holds of every command, whatever is edited while it reads (runCue and
\* all that it calls).
THEOREM CueInvariance == Spec => []IInv
<1>1. Init => IInv
  BY InitIsOK
<1>2. IInv /\ [Next]_vars => IInv'
  BY NextKeeps
<1> QED
  BY <1>1, <1>2, PTL DEF Spec

\* Each variable has its type.
THEOREM CueTypeCorrect == Spec => []TypeOK
<1>1. IInv => TypeOK
  BY DEF IInv
<1> QED
  BY <1>1, CueInvariance, PTL

\* A printed task cue has what the snapshot recorded and nothing else; every selected
\* reference was found valid; ranked facts are the snapshot's unless the checkout was
\* changed and changed back (Reader.Read, Task, ContextFacts).
THEOREM DeliveredIsOfTheSnapshotAlways == Spec => []DeliveredIsOfTheSnapshot
<1>1. IInv => DeliveredIsOfTheSnapshot
  <2> SUFFICES ASSUME IInv, stage = "delivered" PROVE DeliveredIsOfTheSnapshot
    BY DEF DeliveredIsOfTheSnapshot
  <2>1. CueOK
    BY DEF IInv
  <2>2. memo.view = "ranked" => undone \/ memo.facts = snapshot[FactsFile]
    BY <2>1 DEF CueOK, FactsOK
  <2>3. CASE memo.view = "task"
    <3>1. SourcesOK /\ ItemsOK
      BY <2>1, <2>3 DEF CueOK, TaskOK, Undeclared
    <3>2. \A text \in memo.sources : {text[2], text[3]} = {snapshot[text[1]]}
      BY <3>1 DEF SourcesOK, Matches
    <3>3. \A i \in memo.selected : RefPaths(i) \subseteq memo.checked
      BY <3>1 DEF ItemsOK
    <3>4. \A i \in memo.selected : \A n \in DOMAIN Items[i].refs :
            Items[i].refs[n] \in memo.checked
      BY <3>3 DEF RefPaths
    <3> QED
      BY <2>2, <3>2, <3>4 DEF DeliveredIsOfTheSnapshot
  <2>4. CASE memo.view # "task"
    <3>1. memo.selected = {} /\ memo.sources = {}
      BY <2>1, <2>4 DEF CueOK, ListsOK
    <3> QED
      BY <2>2, <3>1 DEF DeliveredIsOfTheSnapshot
  <2> QED
    BY <2>3, <2>4
<1> QED
  BY <1>1, CueInvariance, PTL

\* A printed cue is within its budget, and states the size it has (MarshalBounded,
\* boundView, Task).
THEOREM CuesFitAndTellTheirSizeAlways == Spec => []CuesFitAndTellTheirSize
<1>1. IInv => CuesFitAndTellTheirSize
  <2> SUFFICES ASSUME IInv, output # None
               PROVE  output.stated = EstimateTokens(output.bytes)
                        /\ output.stated <= memo.size.budget
    BY DEF CuesFitAndTellTheirSize
  <2>1. stage = "delivered" /\ CueOK
    BY DEF IInv, OutputOK
  <2>2. CASE memo.view = "task"
    <3>1. output = Marshal(TaskRest(memo.items, memo.sources), "task")
      BY <2>1, <2>2 DEF IInv, OutputOK
    <3>2. TaskRest(memo.items, memo.sources) \in Nat
      BY <2>1, <2>2, RestIsCounted
    <3>3. output.stated = EstimateTokens(output.bytes)
      BY <3>1, <3>2, CuesTellTheirSize
    <3>4. ItemsOK /\ (~memo.required => TaskFits(memo.items, memo.sources))
      BY <2>1, <2>2 DEF CueOK, TaskOK, Undeclared
    <3>5. TaskFits(memo.items, memo.sources)
      BY <2>1, <3>4 DEF ItemsOK
    <3> QED
      BY <3>1, <3>3, <3>5 DEF TaskFits
  <2>3. CASE memo.view # "task"
    <3>1. output = Marshal(ViewRest(memo, memo.left, memo.hint), memo.view)
      BY <2>1, <2>3 DEF IInv, OutputOK
    <3>2. ViewRest(memo, memo.left, memo.hint) \in Nat
      BY <2>1, <2>3, RestIsCounted
    <3>3. output.stated = EstimateTokens(output.bytes)
      BY <3>1, <3>2, CuesTellTheirSize
    <3>4. ViewFits(memo, memo.left, memo.hint)
      BY <2>1, <2>3 DEF CueOK, ListsOK
    <3> QED
      BY <3>1, <3>3, <3>4 DEF ViewFits
  <2> QED
    BY <2>2, <2>3
<1> QED
  BY <1>1, CueInvariance, PTL

\* Lists are cut in their order, only as far as needed, and an overview or a delta says
\* so; a task cue has whole items and every required one (boundView, Task).
THEOREM CutsAreNeededAndToldAlways == Spec => []CutsAreNeededAndTold
<1>1. IInv => CutsAreNeededAndTold
  <2> SUFFICES ASSUME IInv, stage = "delivered"
               PROVE  IF memo.view = "task" THEN UnitsAreWhole ELSE ListsAreCutInOrder
    BY DEF CutsAreNeededAndTold
  <2>1. CueOK
    BY DEF IInv
  <2>2. CASE memo.view = "task"
    <3>1. ItemsOK
      BY <2>1, <2>2 DEF CueOK, TaskOK, Undeclared
    <3>2. \A i \in memo.selected : Items[i].required => i \in memo.items
      BY <3>1 DEF ItemsOK
    <3>3. memo.items \subseteq memo.selected
      BY <3>1 DEF ItemsOK
    <3>4. PathsOf(memo.sources) = UNION {RefPaths(i) : i \in memo.items}
      BY <3>1 DEF ItemsOK
    <3>5. UnitsAreWhole
      BY <3>2, <3>3, <3>4, Zenon DEF UnitsAreWhole, PathsOf, RefPaths
    <3> QED
      BY <2>2, <3>5
  <2>3. CASE memo.view # "task"
    BY <2>1, <2>3 DEF CueOK, ListsOK
  <2> QED
    BY <2>2, <2>3
<1> QED
  BY <1>1, CueInvariance, PTL
===============================================================================
