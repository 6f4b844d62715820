------------------------ MODULE TifReliabilityProofs ------------------------
(***************************************************************************)
(* What a verdict of the reliability validator rests on, for any memories, *)
(* scenarios and answers of the engine.                                    *)
(*                                                                         *)
(* The invariant says that the last verdict is the evaluation of an answer *)
(* that the engine may give, and how far the run has got; what a verdict   *)
(* means is then a matter of the program's functions on lists of memories, *)
(* which the lemmas are about: reading an answer gives back what was put   *)
(* into it, and the first of the greatest exists.                          *)
(***************************************************************************)
EXTENDS TifReliability, FiniteSetTheorems, SequenceTheorems, WellFoundedInduction, TLAPS

Recalled == [fixture : FixtureIds, importance : Scores, meta : BOOLEAN, rel : Reliabilities]

\* The metadata of an answer is there or is not.
Uniform(ms) == \A i, j \in DOMAIN ms : ms[i].meta = ms[j].meta

-----------------------------------------------------------------------------
(* Choosing *)

\* A set of natural numbers that is not empty has a least one.
LEMMA LeastIndex ==
    ASSUME NEW S \in SUBSET Nat, S # {}
    PROVE  \E i \in S : \A j \in S : i <= j
<1>1. PICK i \in S : \A j \in S : ~(<<j, i>> \in OpToRel(<, Nat))
  BY NatLessThanWellFounded, WFMin, Zenon
<1>2. \A j \in S : ~(j < i)
  BY <1>1 DEF OpToRel
<1>3. QED
  BY <1>2

\* Python's max finds an element that is as great as any.
LEMMA FirstMaxIsGreatest ==
    ASSUME NEW D \in SUBSET Nat, D # {}, NEW score, \A j \in D : score[j] \in Scores
    PROVE  /\ FirstMax(D, score) \in D
           /\ \A j \in D : score[j] <= score[FirstMax(D, score)]
<1> DEFINE gaps == {100 - score[j] : j \in D}
           First(i) == i \in D /\ \A j \in D : score[j] < score[i] \/ (score[j] = score[i] /\ i <= j)
<1>1. \A j \in D : score[j] \in Int /\ 100 - score[j] \in Nat
  <2> SUFFICES ASSUME NEW j \in D PROVE score[j] \in Int /\ 100 - score[j] \in Nat
    OBVIOUS
  <2> DEFINE v == score[j]
  <2>1. v \in Scores
    OBVIOUS
  <2> HIDE DEF v
  <2>2. v \in Int /\ 100 - v \in Nat
    BY <2>1 DEF Scores
  <2>3. QED
    BY <2>2 DEF v
<1>2. PICK gap \in gaps : \A other \in gaps : gap <= other
  <2>1. gaps \in SUBSET Nat /\ gaps # {}
    BY <1>1, Zenon
  <2>2. QED
    BY <2>1, LeastIndex
<1> DEFINE tops == {j \in D : 100 - score[j] = gap}
<1>3. PICK i \in tops : \A j \in tops : i <= j
  <2>1. tops \in SUBSET Nat /\ tops # {}
    BY <1>2
  <2>2. QED
    BY <2>1, LeastIndex
<1>4. First(i)
  <2> SUFFICES ASSUME NEW j \in D PROVE score[j] < score[i] \/ (score[j] = score[i] /\ i <= j)
    BY <1>3
  <2>1. gap = 100 - score[i] /\ gap <= 100 - score[j]
    BY <1>2, <1>3
  <2>2. CASE score[j] = score[i]
    BY <1>3, <2>1, <2>2
  <2>3. CASE score[j] # score[i]
    <3> DEFINE v == score[j]
               w == score[i]
    <3>1. v \in Int /\ w \in Int /\ 100 - w <= 100 - v /\ v # w
      BY <1>1, <1>3, <2>1, <2>3
    <3> HIDE DEF v, w
    <3>2. v < w
      BY <3>1
    <3>3. QED
      BY <3>2 DEF v, w
  <2>4. QED
    BY <2>2, <2>3
<1> DEFINE c == CHOOSE x \in D : \A j \in D : score[j] < score[x] \/ (score[j] = score[x] /\ x <= j)
<1>5. First(c)
  BY <1>4
<1>6. FirstMax(D, score) = c
  BY DEF FirstMax
<1> HIDE DEF c
<1>7. \A j \in D : score[j] <= score[c]
  <2> SUFFICES ASSUME NEW j \in D PROVE score[j] <= score[c]
    OBVIOUS
  <2>1. score[j] \in Int /\ score[c] \in Int /\ (score[j] < score[c] \/ score[j] = score[c])
    BY <1>1, <1>5
  <2>2. QED
    BY <2>1
<1>8. QED
  BY <1>5, <1>6, <1>7

-----------------------------------------------------------------------------
(* Reading an answer *)

LEMMA SequenceAsFunction ==
    ASSUME NEW S, NEW s \in Seq(S)
    PROVE  s = [j \in DOMAIN s |-> s[j]] /\ DOMAIN s = 1 .. Len(s) /\ Len(s) \in Nat
OBVIOUS

LEMMA FunctionAsSequence ==
    ASSUME NEW S, NEW len \in Nat, NEW s \in [1 .. len -> S]
    PROVE  s \in Seq(S)
OBVIOUS

LEMMA EmptyHasNone ==
    DOMAIN <<>> = {} /\ ToSet(<<>>) = {}
BY DEF ToSet

\* A list of objects loses none of them.
LEMMA ObjectsAll ==
    ASSUME NEW S, NEW items \in Seq(S), \A j \in DOMAIN items : items[j].dict
    PROVE  Objects(items) = items
<1> DEFINE len == Len(items)
           KeptAt(f, j) == IF j = 0 THEN <<>>
                          ELSE IF items[j].dict THEN Append(f[j - 1], items[j]) ELSE f[j - 1]
           Kept(f) == f = [j \in 0 .. len |-> KeptAt(f, j)]
           g == [j \in 0 .. len |-> SubSeq(items, 1, j)]
           f == CHOOSE h : Kept(h)
<1>1. len \in Nat /\ DOMAIN items = 1 .. len
  OBVIOUS
<1>2. Objects(items) = f[len]
  BY DEF Objects
<1> HIDE DEF len
<1>3. \A j \in 1 .. len : SubSeq(items, 1, j) = Append(SubSeq(items, 1, j - 1), items[j])
  <2> SUFFICES ASSUME NEW j \in 1 .. len
               PROVE  SubSeq(items, 1, j) = Append(SubSeq(items, 1, j - 1), items[j])
    OBVIOUS
  <2>1. SubSeq(items, 1, j) = SubSeq(items, 1, j - 1) \o <<items[j]>>
    BY <1>1, SubSeqRecursiveSecond DEF len
  <2>2. SubSeq(items, 1, j - 1) \in Seq(S) /\ items[j] \in S
    BY <1>1, SubSeqProperties
  <2>3. QED
    BY <2>1, <2>2, AppendIsConcat
<1>4. SubSeq(items, 1, 0) = <<>>
  BY SubSeqEmpty
<1>5. Kept(g)
  <2>1. \A j \in 0 .. len : KeptAt(g, j) = SubSeq(items, 1, j)
    <3> SUFFICES ASSUME NEW j \in 0 .. len PROVE KeptAt(g, j) = SubSeq(items, 1, j)
      OBVIOUS
    <3>1. CASE j = 0
      BY <1>4, <3>1
    <3>2. CASE j # 0
      <4>1. j \in 1 .. len /\ j - 1 \in 0 .. len /\ items[j].dict
        BY <1>1, <3>2
      <4>2. g[j - 1] = SubSeq(items, 1, j - 1)
        BY <4>1
      <4> HIDE DEF g
      <4>3. QED
        BY <1>3, <3>2, <4>1, <4>2
    <3>3. QED
      BY <3>1, <3>2
  <2> HIDE DEF KeptAt
  <2>2. QED
    BY <2>1
<1>6. Kept(f)
  BY <1>5
<1> HIDE DEF f
<1>7. \A j \in 0 .. len : f[j] = KeptAt(f, j)
  BY <1>6
<1>8. \A j \in 0 .. len : f[j] = SubSeq(items, 1, j)
  <2> DEFINE Bad == {j \in 0 .. len : f[j] # SubSeq(items, 1, j)}
  <2> SUFFICES ASSUME Bad # {} PROVE FALSE
    OBVIOUS
  <2>1. PICK j \in Bad : \A i \in Bad : j <= i
    <3>1. Bad \in SUBSET Nat
      BY <1>1
    <3>2. QED
      BY <3>1, LeastIndex
  <2>2. f[j] = KeptAt(f, j) /\ j \in 0 .. len
    BY <1>7
  <2>3. j # 0
    BY <1>4, <2>2
  <2>4. j - 1 \in 0 .. len /\ j \in 1 .. len /\ items[j].dict
    BY <1>1, <2>2, <2>3
  <2>5. f[j - 1] = SubSeq(items, 1, j - 1)
    BY <1>1, <2>1, <2>4
  <2>6. f[j] = Append(SubSeq(items, 1, j - 1), items[j])
    BY <2>2, <2>3, <2>4, <2>5
  <2>7. f[j] = SubSeq(items, 1, j)
    BY <1>3, <2>4, <2>6
  <2>8. QED
    BY <2>7
<1>9. f[len] = SubSeq(items, 1, len)
  BY <1>1, <1>8
<1>10. QED
  BY <1>2, <1>9, SubSeqFull DEF len
\* How an answer of a given shape is made.
LEMMA ResponseParts ==
    ASSUME NEW shape, NEW ms
    PROVE  /\ Response(shape, ms).kind = IF shape \in {"list", "wrapped list"} THEN "list" ELSE "dict"
           /\ Response(shape, ms).lists =
                CASE shape = "memories" -> [memories |-> Response(shape, ms).items]
                  [] shape = "wrapped results" -> [results |-> Response(shape, ms).items]
                  [] OTHER -> <<>>
           /\ Response(shape, ms).items =
                [k \in DOMAIN ms |-> AsItem(ms[k], shape \in {"wrapped list", "wrapped results"})]
BY DEF Response

\* Every item of an answer is an object: none is dropped.
LEMMA ItemsAreObjects ==
    ASSUME NEW shape, NEW ms \in Seq(Recalled), NEW items,
           items = [k \in DOMAIN ms |-> AsItem(ms[k], shape \in {"wrapped list", "wrapped results"})]
    PROVE  DOMAIN items = DOMAIN ms /\ Objects(items) = items
<1> DEFINE S == {items[j] : j \in DOMAIN ms}
<1>1. DOMAIN items = DOMAIN ms /\ items = [j \in DOMAIN items |-> items[j]]
  OBVIOUS
<1>2. DOMAIN ms = 1 .. Len(ms) /\ Len(ms) \in Nat
  BY SequenceAsFunction
<1>3. items \in Seq(S)
  <2>1. \A j \in 1 .. Len(ms) : items[j] \in S
    BY <1>2, Zenon
  <2> HIDE DEF S
  <2>2. items \in [1 .. Len(ms) -> S]
    BY <1>1, <1>2, <2>1, Zenon
  <2>3. QED
    BY <1>2, <2>2, FunctionAsSequence, Zenon
<1>4. \A j \in DOMAIN items : items[j].dict
  BY DEF AsItem
<1>5. Objects(items) = items
  BY <1>3, <1>4, ObjectsAll, Zenon
<1>6. QED
  BY <1>1, <1>5

LEMMA KeysOfRecall ==
    /\ DOMAIN RecallKeys = 1 .. 4
    /\ RecallKeys[1] = "memories" /\ RecallKeys[2] = "results"
    /\ RecallKeys[3] = "items" /\ RecallKeys[4] = "data"
BY DEF RecallKeys

\* The list of an answer is under one of the keys that are looked for.
LEMMA OnlyKey ==
    ASSUME NEW key \in {"memories", "results"}, NEW held,
           held = {o \in DOMAIN RecallKeys : RecallKeys[o] \in {key}}
    PROVE  /\ held # {}
           /\ RecallKeys[CHOOSE j \in held : \A o \in held : j <= o] = key
<1>1. held = {1} \/ held = {2}
  <2>1. CASE key = "memories"
    BY KeysOfRecall, <2>1
  <2>2. CASE key = "results"
    BY KeysOfRecall, <2>2
  <2>3. QED
    BY <2>1, <2>2
<1>2. \A o \in held : RecallKeys[o] = key
  OBVIOUS
<1>3. \E j \in held : \A o \in held : j <= o
  BY <1>1
<1> DEFINE first == CHOOSE j \in held : \A o \in held : j <= o
<1>4. first \in held
  BY <1>3, Zenon
<1>5. QED
  BY <1>1, <1>2, <1>4, Zenon

\* The list of an object is read item by item.
LEMMA ReadList ==
    ASSUME NEW key \in {"memories", "results"}, NEW resp, NEW items, NEW ms,
           resp.kind = "dict", DOMAIN resp.lists = {key}, resp.lists[key] = items,
           MemoriesOf(items) = ms
    PROVE  NormalizeRecall(resp) = ms
<1> DEFINE held == {o \in DOMAIN RecallKeys : RecallKeys[o] \in DOMAIN resp.lists}
           first == CHOOSE j \in held : \A o \in held : j <= o
<1>1. held = {o \in DOMAIN RecallKeys : RecallKeys[o] \in {key}}
  OBVIOUS
<1>2. held # {} /\ RecallKeys[first] = key
  <2> HIDE DEF held
  <2>1. QED
    BY <1>1, OnlyKey
<1>3. NormalizeMemoryList(resp, RecallKeys) = MemoriesOf(resp.lists[RecallKeys[first]])
  BY <1>2 DEF NormalizeMemoryList
<1> HIDE DEF held, first
<1>4. QED
  BY <1>2, <1>3 DEF NormalizeRecall

\* The program reads the memories of an answer, whatever its shape; of a list
\* that wraps them it reads the wrappers.
LEMMA ReadBack ==
    ASSUME NEW ms \in Seq(Recalled),
           NEW shape \in {"list", "wrapped list", "memories", "wrapped results"}
    PROVE  NormalizeRecall(Response(shape, ms)) =
              IF shape = "wrapped list" THEN [j \in DOMAIN ms |-> Wrapper(ms[j])] ELSE ms
<1>1. ms = [j \in DOMAIN ms |-> ms[j]]
  BY SequenceAsFunction
<1>2. PICK items : items = Response(shape, ms).items
  OBVIOUS
<1>3. items = [k \in DOMAIN ms |-> AsItem(ms[k], shape \in {"wrapped list", "wrapped results"})]
  BY <1>2, ResponseParts
<1>4. DOMAIN items = DOMAIN ms /\ Objects(items) = items
  BY <1>3, ItemsAreObjects
<1>5. \A j \in DOMAIN ms :
         /\ items[j].memory = ms[j]
         /\ items[j].wrapped <=> shape \in {"wrapped list", "wrapped results"}
         /\ items[j].self = IF shape \in {"wrapped list", "wrapped results"}
                            THEN Wrapper(ms[j]) ELSE ms[j]
  BY <1>3 DEF AsItem
<1>6. shape \notin {"list", "wrapped list"} => MemoriesOf(items) = ms
  <2> SUFFICES ASSUME shape \notin {"list", "wrapped list"} PROVE MemoriesOf(items) = ms
    OBVIOUS
  <2>1. \A j \in DOMAIN ms : NormalizeMemoryItem(items[j]) = ms[j]
    BY <1>5 DEF NormalizeMemoryItem
  <2>2. MemoriesOf(items) = [j \in DOMAIN ms |-> NormalizeMemoryItem(items[j])]
    BY <1>4 DEF MemoriesOf
  <2>3. QED
    BY <1>1, <2>1, <2>2
<1>7. CASE shape \in {"list", "wrapped list"}
  <2>1. Response(shape, ms).kind = "list"
    BY <1>7, ResponseParts
  <2>2. NormalizeRecall(Response(shape, ms)) = [j \in DOMAIN ms |-> items[j].self]
    BY <1>2, <1>4, <2>1 DEF NormalizeRecall
  <2>3. CASE shape = "list"
    BY <1>1, <1>5, <2>2, <2>3
  <2>4. CASE shape = "wrapped list"
    BY <1>5, <2>2, <2>4
  <2>5. QED
    BY <1>7, <2>3, <2>4
<1>8. CASE shape = "memories"
  <2>1. Response(shape, ms).lists = [memories |-> items] /\ Response(shape, ms).kind = "dict"
    BY <1>2, <1>8, ResponseParts
  <2>2. DOMAIN Response(shape, ms).lists = {"memories"} /\ Response(shape, ms).lists["memories"] = items
    <3>1. DOMAIN [memories |-> items] = {"memories"} /\ [memories |-> items]["memories"] = items
      OBVIOUS
    <3>2. QED
      BY <2>1, <3>1, Zenon
  <2>3. QED
    BY <1>6, <1>8, <2>1, <2>2, ReadList
<1>9. CASE shape = "wrapped results"
  <2>1. Response(shape, ms).lists = [results |-> items] /\ Response(shape, ms).kind = "dict"
    BY <1>2, <1>9, ResponseParts
  <2>2. DOMAIN Response(shape, ms).lists = {"results"} /\ Response(shape, ms).lists["results"] = items
    <3>1. DOMAIN [results |-> items] = {"results"} /\ [results |-> items]["results"] = items
      OBVIOUS
    <3>2. QED
      BY <2>1, <3>1, Zenon
  <2>3. QED
    BY <1>6, <1>9, <2>1, <2>2, ReadList
<1>10. QED
  BY <1>7, <1>8, <1>9

\* What the engine may answer is a list of memories of the fixture.
LEMMA AnswerShape ==
    ASSUME recallable \subseteq FixtureIds, NEW topK, NEW a \in Answers(topK)
    PROVE  a \in Seq(Recalled) /\ Uniform(a)
<1>1. IsFiniteSet(FixtureIds)
  <2> DEFINE f == [j \in DOMAIN Memories |-> Memories[j].fixture]
  <2>1. IsFiniteSet(DOMAIN Memories)
    <3>1. DOMAIN Memories = 1 .. Len(Memories) /\ Len(Memories) \in Nat
      <4> DEFINE S == ToSet(Memories)
      <4>1. Memories \in Seq(S)
        BY TifAssumption
      <4> HIDE DEF S
      <4>2. QED
        BY <4>1
    <3>2. QED
      BY <3>1, FS_Interval
  <2>2. f \in Surjection(DOMAIN Memories, FixtureIds)
    BY DEF FixtureIds, Surjection
  <2>3. QED
    BY <2>1, <2>2, FS_Surjection
<1>2. \A id \in FixtureIds : FixtureMemory(id) \in [fixture : FixtureIds, importance : Scores,
                                                    meta : {TRUE}, rel : Reliabilities]
  <2> SUFFICES ASSUME NEW id \in FixtureIds PROVE FixtureMemory(id) \in ToSet(Memories)
    BY TifAssumption
  <2>1. \E mem \in ToSet(Memories) : mem.fixture = id
    BY DEF FixtureIds, ToSet
  <2>2. QED
    BY <2>1 DEF FixtureMemory
<1>3. PICK ids \in Recallable(topK), meta \in BOOLEAN :
         a = [j \in DOMAIN ids |-> [FixtureMemory(ids[j]) EXCEPT !.meta = meta]]
  BY DEF Answers
<1>4. PICK s \in SUBSET recallable : ids \in SetToSeqs(s)
  BY <1>3 DEF Recallable
<1>5. Cardinality(s) \in Nat
  BY <1>1, FS_Subset, FS_CardinalityType
<1>6. ids \in [1 .. Cardinality(s) -> s]
  BY <1>4 DEF SetToSeqs
<1>7. \A j \in 1 .. Cardinality(s) : a[j] \in Recalled /\ a[j].meta = meta
  <2> SUFFICES ASSUME NEW j \in 1 .. Cardinality(s) PROVE a[j] \in Recalled /\ a[j].meta = meta
    OBVIOUS
  <2>1. FixtureMemory(ids[j]) \in [fixture : FixtureIds, importance : Scores,
                                   meta : {TRUE}, rel : Reliabilities]
    BY <1>2, <1>6
  <2>2. a[j] = [FixtureMemory(ids[j]) EXCEPT !.meta = meta]
    BY <1>3, <1>6
  <2>3. QED
    BY <2>1, <2>2 DEF Recalled
<1>8. DOMAIN a = 1 .. Cardinality(s) /\ a = [j \in 1 .. Cardinality(s) |-> a[j]]
  BY <1>3, <1>6
<1>9. a \in Seq(Recalled)
  BY <1>5, <1>7, <1>8
<1>10. Uniform(a)
  BY <1>7, <1>8 DEF Uniform
<1>11. QED
  BY <1>9, <1>10
-----------------------------------------------------------------------------
(* Deciding *)

LEMMA Below50 ==
    ASSUME NEW rel \in Reliabilities
    PROVE  (~(rel.f >= 50) => rel.f < 50) /\ (~(rel.i >= 50) => rel.i < 50)
<1>1. PICK f \in Scores, i \in Scores : rel.f = f /\ rel.i = i
  BY DEF Reliabilities
<1>2. f \in Int /\ i \in Int
  BY DEF Scores
<1>3. (~(f >= 50) => f < 50) /\ (~(i >= 50) => i < 50)
  BY <1>2
<1>4. QED
  BY <1>1, <1>3

LEMMA ClassifyMeans ==
    ASSUME NEW rel \in Reliabilities
    PROVE  /\ rel.f >= 50 <=> Classify(rel) = "surface_contradiction"
           /\ (rel.f < 50 /\ rel.i >= 50) <=> Classify(rel) = "ask_clarification"
           /\ (rel.f < 50 /\ rel.i < 50) <=> Classify(rel) \in Reuse
           /\ Classify(rel) \in Actions
<1>1. PICK t \in Scores, i \in Scores, f \in Scores : rel.t = t /\ rel.i = i /\ rel.f = f
  BY DEF Reliabilities
<1>2. Classify(rel) =
        CASE f >= 50 -> "surface_contradiction"
          [] f < 50 /\ i >= 50 -> "ask_clarification"
          [] t >= 70 /\ i <= 35 /\ f <= 35 -> "reuse_confidently"
          [] OTHER -> "reuse_with_caveat"
  BY <1>1 DEF Classify
<1>3. t \in Int /\ i \in Int /\ f \in Int
  BY DEF Scores
<1> DEFINE action == Classify(rel)
<1>4. CASE f >= 50
  <2>1. action = "surface_contradiction"
    BY <1>2, <1>3, <1>4
  <2>2. ~(f < 50)
    BY <1>3, <1>4
  <2> HIDE DEF action
  <2>3. QED
    BY <1>1, <1>4, <2>1, <2>2 DEF Reuse, Actions, action
<1>5. CASE f < 50 /\ i >= 50
  <2>1. action = "ask_clarification"
    BY <1>2, <1>3, <1>5
  <2>2. ~(f >= 50) /\ ~(i < 50)
    BY <1>3, <1>5
  <2> HIDE DEF action
  <2>3. QED
    BY <1>1, <1>5, <2>1, <2>2 DEF Reuse, Actions, action
<1>6. CASE f < 50 /\ i < 50
  <2>1. action \in {"reuse_confidently", "reuse_with_caveat"}
    BY <1>2, <1>3, <1>6
  <2>2. ~(f >= 50) /\ ~(i >= 50)
    BY <1>3, <1>6
  <2> HIDE DEF action
  <2>3. QED
    BY <1>1, <1>6, <2>1, <2>2 DEF Reuse, Actions, action
<1>7. QED
  BY <1>3, <1>4, <1>5, <1>6

\* Without metadata nothing is certain and nothing is false.
LEMMA ZeroMeans ==
    Zero \in Reliabilities /\ Classify(Zero) = "reuse_with_caveat"
BY DEF Zero, Reliabilities, Scores, Classify

LEMMA Classes ==
    ASSUME NEW rels, \A j \in DOMAIN rels : rels[j] \in Reliabilities
    PROVE  /\ ClassOf(rels, "surface_contradiction") = {j \in DOMAIN rels : rels[j].f >= 50}
           /\ ClassOf(rels, "ask_clarification") =
                {j \in DOMAIN rels : rels[j].f < 50 /\ rels[j].i >= 50}
<1>1. \A j \in DOMAIN rels :
         /\ rels[j].f >= 50 <=> Classify(rels[j]) = "surface_contradiction"
         /\ (rels[j].f < 50 /\ rels[j].i >= 50) <=> Classify(rels[j]) = "ask_clarification"
  BY ClassifyMeans
<1>2. QED
  BY <1>1 DEF ClassOf

\* The baseline is as important as any.
LEMMA BaselineMeans ==
    ASSUME NEW S, NEW ms \in Seq(S), ms # <<>>, \A j \in DOMAIN ms : ms[j].importance \in Scores
    PROVE  /\ ChooseBaseline(ms) \in DOMAIN ms
           /\ \A j \in DOMAIN ms : ms[j].importance <= ms[ChooseBaseline(ms)].importance
<1> DEFINE score == [j \in DOMAIN ms |-> ms[j].importance]
<1>1. DOMAIN ms \in SUBSET Nat /\ DOMAIN ms # {}
  <2>1. DOMAIN ms = 1 .. Len(ms) /\ Len(ms) \in Nat
    BY SequenceAsFunction
  <2>2. Len(ms) # 0
    BY EmptySeq
  <2>3. QED
    BY <2>1, <2>2
<1>2. \A j \in DOMAIN ms : score[j] \in Scores
  OBVIOUS
<1>3. ChooseBaseline(ms) = FirstMax(DOMAIN ms, score)
  BY DEF ChooseBaseline
<1> DEFINE c == ChooseBaseline(ms)
<1>4. c \in DOMAIN ms /\ \A j \in DOMAIN ms : score[j] <= score[c]
  <2> HIDE DEF score, c
  <2>1. QED
    BY <1>1, <1>2, <1>3, FirstMaxIsGreatest DEF c
<1> HIDE DEF c
<1>5. QED
  BY <1>4 DEF c

\* The first of the greatest in a component, among some of the memories.
LEMMA ForemostMeans ==
    ASSUME NEW S, NEW ms \in Seq(S), NEW rels, DOMAIN rels = DOMAIN ms,
           \A j \in DOMAIN ms : rels[j] \in Reliabilities,
           NEW key \in {"t", "i", "f"}, NEW D \in SUBSET DOMAIN ms, D # {}
    PROVE  LET pos == FirstMax(D, Component(rels, key))
           IN  pos \in D /\ \A j \in D : rels[j][key] <= rels[pos][key]
<1> DEFINE score == Component(rels, key)
           pos == FirstMax(D, score)
<1>1. \A j \in D : score[j] = rels[j][key]
  BY DEF Component
<1>2. \A j \in D : score[j] \in Scores
  <2> SUFFICES ASSUME NEW j \in D PROVE score[j] \in Scores
    OBVIOUS
  <2>1. rels[j] \in Reliabilities
    OBVIOUS
  <2>2. rels[j][key] \in Scores
    BY <2>1 DEF Reliabilities
  <2> HIDE DEF score
  <2>3. QED
    BY <1>1, <2>2
<1>3. D \in SUBSET Nat
  <2>1. DOMAIN ms = 1 .. Len(ms) /\ Len(ms) \in Nat
    BY SequenceAsFunction
  <2>2. QED
    BY <2>1
<1> HIDE DEF score
<1>4. pos \in D /\ \A j \in D : score[j] <= score[pos]
  BY <1>2, <1>3, FirstMaxIsGreatest
<1> HIDE DEF pos
<1>5. pos \in D /\ \A j \in D : rels[j][key] <= rels[pos][key]
  BY <1>1, <1>4
<1>6. QED
  BY <1>5 DEF pos, score

\* The memory at pos is the one to act on: the falsest contradiction, else the
\* least resolved memory, else the most important.
Foremost(ms, rels, pos) ==
    LET At50(k) == {j \in DOMAIN rels : rels[j][k] >= 50}
        Greatest(k) == pos \in At50(k) /\ \A j \in At50(k) : rels[j][k] <= rels[pos][k]
    IN IF At50("f") # {} THEN Greatest("f")
       ELSE IF At50("i") # {} THEN Greatest("i")
       ELSE \A j \in DOMAIN ms : ms[j].importance <= ms[pos].importance

\* The program acts on the foremost memory.
LEMMA TifAwareMeans ==
    ASSUME NEW S, NEW ms \in Seq(S), ms # <<>>,
           \A j \in DOMAIN ms : ms[j].importance \in Scores,
           NEW rels, DOMAIN rels = DOMAIN ms,
           \A j \in DOMAIN ms : rels[j] \in Reliabilities
    PROVE  LET pos == TifAwarePosition(ms, rels)
           IN  pos \in DOMAIN ms /\ Foremost(ms, rels, pos)
<1> DEFINE F == {j \in DOMAIN rels : rels[j].f >= 50}
           I == {j \in DOMAIN rels : rels[j].i >= 50}
           U == {j \in DOMAIN rels : rels[j].f < 50 /\ rels[j].i >= 50}
           pos == TifAwarePosition(ms, rels)
<1>1. /\ ClassOf(rels, "surface_contradiction") = F
      /\ ClassOf(rels, "ask_clarification") = U
  BY Classes
<1>2. F = {} => U = I
  <2> SUFFICES ASSUME F = {} PROVE \A j \in DOMAIN rels : rels[j].f < 50
    OBVIOUS
  <2> TAKE j \in DOMAIN rels
  <2>1. rels[j].f \in Int
    <3>1. rels[j] \in Reliabilities
      OBVIOUS
    <3>2. PICK f \in Scores : rels[j].f = f
      BY <3>1 DEF Reliabilities
    <3>3. QED
      BY <3>2 DEF Scores
  <2>2. ~(rels[j].f >= 50)
    OBVIOUS
  <2> DEFINE v == rels[j].f
  <2> HIDE DEF v
  <2>3. v < 50
    BY <2>1, <2>2 DEF v
  <2>4. QED
    BY <2>3 DEF v
<1>3. F \in SUBSET DOMAIN ms /\ I \in SUBSET DOMAIN ms /\ U \in SUBSET DOMAIN ms
  OBVIOUS
<1>4. pos = IF F # {} THEN FirstMax(F, Component(rels, "f"))
            ELSE IF U # {} THEN FirstMax(U, Component(rels, "i"))
            ELSE ChooseBaseline(ms)
  <2> HIDE DEF F, U
  <2>1. QED
    BY <1>1 DEF TifAwarePosition
<1>5. Foremost(ms, rels, pos) <=>
        IF F # {} THEN pos \in F /\ \A j \in F : rels[j].f <= rels[pos].f
        ELSE IF I # {} THEN pos \in I /\ \A j \in I : rels[j].i <= rels[pos].i
        ELSE \A j \in DOMAIN ms : ms[j].importance <= ms[pos].importance
  <2> HIDE DEF pos
  <2>1. QED
    BY DEF Foremost
<1> HIDE DEF F, I, U, pos
<1>6. CASE F # {}
  <2>1. pos = FirstMax(F, Component(rels, "f"))
    BY <1>4, <1>6
  <2>2. pos \in F /\ \A j \in F : rels[j].f <= rels[pos].f
    BY <1>3, <1>6, <2>1, ForemostMeans
  <2>3. QED
    BY <1>3, <1>5, <1>6, <2>2 DEF pos
<1>7. CASE F = {} /\ I # {}
  <2>1. pos = FirstMax(I, Component(rels, "i"))
    BY <1>2, <1>4, <1>7
  <2>2. pos \in I /\ \A j \in I : rels[j].i <= rels[pos].i
    BY <1>3, <1>7, <2>1, ForemostMeans
  <2>3. QED
    BY <1>3, <1>5, <1>7, <2>2 DEF pos
<1>8. CASE F = {} /\ I = {}
  <2>1. pos = ChooseBaseline(ms)
    BY <1>2, <1>4, <1>8
  <2>2. pos \in DOMAIN ms /\ \A j \in DOMAIN ms : ms[j].importance <= ms[pos].importance
    BY <2>1, BaselineMeans
  <2>3. QED
    BY <1>5, <1>8, <2>2 DEF pos
<1>9. QED
  BY <1>6, <1>7, <1>8
-----------------------------------------------------------------------------
(* The verdict on an answer *)

\* The verdict that the program reaches on an answer to a scenario's recall.
LastOf(scenario, a, shape) ==
    LET verdict == Evaluate(Scenarios[scenario], NormalizeRecall(Response(shape, a)))
    IN [scenario |-> scenario, seen |-> a, shape |-> shape,
        action |-> verdict.action, memory |-> verdict.memory,
        changed |-> verdict.changed, passed |-> verdict.passed]

ReliabilitiesOf(ms) == [j \in DOMAIN ms |-> Reliability(ms[j])]

\* A wrapper is a memory without metadata.
LEMMA WrapperMeans ==
    ASSUME NEW m \in Recalled
    PROVE  /\ Wrapper(m) \in Recalled /\ Reliability(Wrapper(m)) = Zero
           /\ Wrapper(m).fixture = m.fixture
<1> DEFINE plain == [m EXCEPT !.meta = FALSE]
<1>1. plain \in Recalled /\ plain.fixture = m.fixture /\ plain.meta = FALSE
  BY DEF Recalled
<1>2. Wrapper(m) = [plain EXCEPT !.importance = 0]
  BY DEF Wrapper
<1>3. 0 \in Scores
  BY DEF Scores
<1> HIDE DEF plain
<1>4. [plain EXCEPT !.importance = 0] \in Recalled
  BY <1>1, <1>3 DEF Recalled
<1>5. /\ [plain EXCEPT !.importance = 0].fixture = m.fixture
      /\ [plain EXCEPT !.importance = 0].meta = FALSE
  BY <1>1 DEF Recalled
<1>6. QED
  BY <1>2, <1>4, <1>5 DEF Reliability

LEMMA ReliabilityType ==
    ASSUME NEW m \in Recalled
    PROVE  Reliability(m) \in Reliabilities /\ m.importance \in Scores
<1>1. m.rel \in Reliabilities /\ m.importance \in Scores
  BY DEF Recalled
<1>2. QED
  BY <1>1, ZeroMeans DEF Reliability

\* What the program makes of an answer: as many memories, and the same ones
\* unless a bare list wraps them.
LEMMA Readings ==
    ASSUME NEW a \in Seq(Recalled),
           NEW shape \in {"list", "wrapped list", "memories", "wrapped results"},
           NEW read, read = NormalizeRecall(Response(shape, a))
    PROVE  /\ read \in Seq(Recalled) /\ DOMAIN read = DOMAIN a
           /\ shape # "wrapped list" => read = a
<1>1. DOMAIN a = 1 .. Len(a) /\ Len(a) \in Nat
  BY SequenceAsFunction
<1>2. CASE shape = "wrapped list"
  <2>1. read = [j \in DOMAIN a |-> Wrapper(a[j])]
    BY <1>2, ReadBack
  <2>2. \A j \in DOMAIN a : a[j] \in Recalled
    BY ElementOfSeq, <1>1
  <2>3. \A j \in DOMAIN a : Wrapper(a[j]) \in Recalled /\ Reliability(Wrapper(a[j])) = Zero
    BY <2>2, WrapperMeans
  <2>4. read \in [1 .. Len(a) -> Recalled]
    BY <1>1, <2>1, <2>3, Zenon
  <2>5. read \in Seq(Recalled)
    BY <1>1, <2>4, FunctionAsSequence, Zenon
  <2>6. QED
    BY <1>2, <2>1, <2>3, <2>5
<1>3. CASE shape # "wrapped list"
  BY <1>3, ReadBack
<1>4. QED
  BY <1>2, <1>3

\* A verdict is about the foremost of the memories read.
LEMMA EvaluateMeans ==
    ASSUME NEW read \in Seq(Recalled), NEW scenario, NEW v, v = Evaluate(scenario, read)
    PROVE  /\ v.passed \in BOOLEAN /\ (v.passed => v.action = scenario.expectedAction)
           /\ read = <<>> => v.action = "no_memory"
           /\ read # <<>> => \E pos \in DOMAIN read :
                 /\ v.action = Classify(Reliability(read[pos]))
                 /\ v.memory = read[pos].fixture
                 /\ Foremost(read, ReliabilitiesOf(read), pos)
<1> DEFINE rels == ReliabilitiesOf(read)
           pos == TifAwarePosition(read, rels)
<1>1. /\ v.action = ChooseTifAware(read).action
      /\ v.memory = IF read = <<>> THEN "none" ELSE read[ChooseTifAware(read).pos].fixture
  BY DEF Evaluate
<1>2. v.passed \in BOOLEAN /\ (v.passed => v.action = scenario.expectedAction)
  BY DEF Evaluate
<1>3. CASE read = <<>>
  <2>1. ChooseTifAware(read) = [pos |-> 0, action |-> "no_memory"]
    BY <1>3 DEF ChooseTifAware
  <2>2. QED
    BY <1>1, <1>2, <1>3, <2>1
<1>4. CASE read # <<>>
  <2>1. \A j \in DOMAIN read : read[j] \in Recalled
    OBVIOUS
  <2>2. DOMAIN rels = DOMAIN read /\ \A j \in DOMAIN read : rels[j] = Reliability(read[j])
    BY DEF ReliabilitiesOf
  <2>3. \A j \in DOMAIN read : rels[j] \in Reliabilities /\ read[j].importance \in Scores
    BY <2>1, <2>2, ReliabilityType
  <2> HIDE DEF rels
  <2>4. pos \in DOMAIN read /\ Foremost(read, rels, pos)
    BY <1>4, <2>2, <2>3, TifAwareMeans
  <2> HIDE DEF pos
  <2>5. ChooseTifAware(read) = [pos |-> pos, action |-> Classify(Reliability(read[pos]))]
    BY <1>4 DEF ChooseTifAware, ClassifyTif, pos, rels, ReliabilitiesOf
  <2>6. v.action = Classify(Reliability(read[pos])) /\ v.memory = read[pos].fixture
    BY <1>1, <1>4, <2>5
  <2>7. QED
    BY <1>2, <1>4, <2>4, <2>6 DEF rels
<1>5. QED
  BY <1>3, <1>4

\* What comes without metadata has no reliability.
LEMMA WithoutMetadata ==
    ASSUME NEW a \in Seq(Recalled), NEW shape \in Shapes, NEW scenario \in DOMAIN Scenarios,
           NEW l, l = LastOf(scenario, a, shape),
           shape # "wrapped list" => \A j \in DOMAIN a : a[j].meta = FALSE
    PROVE  l.action \in {"no_memory", "reuse_with_caveat"} /\ l.passed = FALSE
<1>1. shape \in {"list", "wrapped list", "memories", "wrapped results"}
  BY TifAssumption
<1>2. PICK read \in Seq(Recalled) : read = NormalizeRecall(Response(shape, a))
  BY <1>1, Readings
<1>3. PICK v : v = Evaluate(Scenarios[scenario], read)
  OBVIOUS
<1>4. l.action = v.action /\ l.passed = v.passed
  BY <1>2, <1>3 DEF LastOf
<1>5. read \in Seq(Recalled) /\ DOMAIN read = DOMAIN a
  BY <1>1, <1>2, Readings
<1>6. shape # "wrapped list" => read = a
  BY <1>1, <1>2, Readings
<1>7. ASSUME shape = "wrapped list", NEW j \in DOMAIN a PROVE Reliability(read[j]) = Zero
  <2>1. read = [k \in DOMAIN a |-> Wrapper(a[k])]
    BY <1>1, <1>2, <1>7, ReadBack
  <2>2. a[j] \in Recalled
    BY <1>7, ElementOfSeq, SequenceAsFunction
  <2>3. QED
    BY <1>7, <2>1, <2>2, WrapperMeans
<1>8. v.passed \in BOOLEAN /\ (v.passed => v.action = Scenarios[scenario].expectedAction)
  BY <1>3, <1>5, EvaluateMeans
<1>9. read = <<>> => v.action = "no_memory"
  BY <1>3, <1>5, EvaluateMeans
<1>10. ASSUME NEW j \in DOMAIN read PROVE Reliability(read[j]) = Zero
  BY <1>5, <1>6, <1>7 DEF Reliability
<1>11. ASSUME read # <<>> PROVE v.action = "reuse_with_caveat"
  <2>1. PICK pos \in DOMAIN read : v.action = Classify(Reliability(read[pos]))
    <3>1. \E pos \in DOMAIN read :
             /\ v.action = Classify(Reliability(read[pos]))
             /\ v.memory = read[pos].fixture
             /\ Foremost(read, ReliabilitiesOf(read), pos)
      BY <1>3, <1>5, <1>11, EvaluateMeans
    <3>2. QED
      BY <3>1
  <2>2. QED
    BY <1>10, <2>1, ZeroMeans
<1>12. v.action \in {"no_memory", "reuse_with_caveat"}
  BY <1>9, <1>11
<1>13. Scenarios[scenario].expectedAction \in Actions \ {"reuse_with_caveat"}
  BY TifAssumption
<1>14. ~v.passed
  BY <1>8, <1>12, <1>13 DEF Actions, Reuse
<1>15. QED
  BY <1>4, <1>8, <1>12, <1>14

\* With metadata, the verdict is about the foremost of the memories themselves.
LEMMA WithMetadata ==
    ASSUME NEW a \in Seq(Recalled), NEW shape \in Shapes, NEW scenario \in DOMAIN Scenarios,
           NEW l, l = LastOf(scenario, a, shape),
           shape # "wrapped list", \A j \in DOMAIN a : a[j].meta, a # <<>>
    PROVE  \E pos \in DOMAIN a : /\ l.memory = a[pos].fixture /\ l.action = Classify(a[pos].rel)
                                 /\ Foremost(a, [j \in DOMAIN a |-> a[j].rel], pos)
<1> DEFINE read == NormalizeRecall(Response(shape, a))
           v == Evaluate(Scenarios[scenario], read)
<1>1. shape \in {"list", "wrapped list", "memories", "wrapped results"}
  BY TifAssumption
<1>2. l.action = v.action /\ l.memory = v.memory
  BY DEF LastOf
<1> HIDE DEF read
<1>3. read = a
  BY <1>1, Readings DEF read
<1> HIDE DEF v
<1>4. \E pos \in DOMAIN a : /\ v.action = Classify(Reliability(a[pos])) /\ v.memory = a[pos].fixture
                            /\ Foremost(a, ReliabilitiesOf(a), pos)
  BY <1>3, EvaluateMeans DEF v
<1>5. \A j \in DOMAIN a : Reliability(a[j]) = a[j].rel
  BY DEF Reliability
<1>6. ReliabilitiesOf(a) = [j \in DOMAIN a |-> a[j].rel]
  BY <1>5 DEF ReliabilitiesOf
<1>7. QED
  BY <1>2, <1>4, <1>5, <1>6
\* The last verdict is the program's on an answer that the engine may give.
VerdictInv ==
    \/ last = NoVerdict
    \/ \E scenario \in DOMAIN Scenarios, shape \in Shapes, a \in Seq(Recalled) :
          Uniform(a) /\ last = LastOf(scenario, a, shape)

LEMMA VerdictType ==
    ASSUME VerdictInv
    PROVE  /\ last.action \in Actions \cup {"none", "no_memory"} /\ last.passed \in BOOLEAN
           /\ last.seen \in Seq(Recalled)
<1>1. CASE last = NoVerdict
  <2>1. <<>> \in Seq(Recalled)
    BY EmptySeq
  <2>2. last.action = "none" /\ last.passed = FALSE /\ last.seen = <<>>
    BY <1>1 DEF NoVerdict
  <2>3. QED
    BY <2>1, <2>2
<1>2. ASSUME NEW scenario \in DOMAIN Scenarios, NEW shape \in Shapes, NEW a \in Seq(Recalled),
             last = LastOf(scenario, a, shape)
      PROVE  /\ last.action \in Actions \cup {"none", "no_memory"} /\ last.passed \in BOOLEAN
             /\ last.seen \in Seq(Recalled)
  <2>1. shape \in {"list", "wrapped list", "memories", "wrapped results"}
    BY TifAssumption
  <2>2. PICK read \in Seq(Recalled) : read = NormalizeRecall(Response(shape, a))
    BY <2>1, Readings
  <2>3. PICK v : v = Evaluate(Scenarios[scenario], read)
    OBVIOUS
  <2>4. last.action = v.action /\ last.passed = v.passed /\ last.seen = a
    BY <1>2, <2>2, <2>3 DEF LastOf
  <2>5. v.passed \in BOOLEAN
    BY <2>3, EvaluateMeans
  <2>6. CASE read = <<>>
    <3>1. v.action = "no_memory"
      BY <2>3, <2>6, EvaluateMeans
    <3>2. QED
      BY <2>4, <2>5, <3>1
  <2>7. CASE read # <<>>
    <3>1. PICK pos \in DOMAIN read :
             /\ v.action = Classify(Reliability(read[pos]))
             /\ v.memory = read[pos].fixture
             /\ Foremost(read, ReliabilitiesOf(read), pos)
      BY <2>3, <2>7, EvaluateMeans
    <3>2. read[pos] \in Recalled
      BY ElementOfSeq, SequenceAsFunction
    <3>3. Reliability(read[pos]) \in Reliabilities
      BY <3>2, ReliabilityType
    <3>4. v.action \in Actions
      BY <3>1, <3>3, ClassifyMeans
    <3>5. QED
      BY <2>4, <2>5, <3>4
  <2>8. QED
    BY <2>6, <2>7
<1>3. QED
  BY <1>1, <1>2 DEF VerdictInv

\* A scenario passes on metadata only.
LEMMA PassNeedsMetadata ==
    ASSUME VerdictInv, last.passed
    PROVE  /\ last.shape # "wrapped list"
           /\ \E m \in ToSet(last.seen) : m.meta /\ m.fixture = last.memory
<1>1. last # NoVerdict
  BY DEF NoVerdict
<1>2. PICK scenario \in DOMAIN Scenarios, shape \in Shapes, a \in Seq(Recalled) :
         Uniform(a) /\ last = LastOf(scenario, a, shape)
  BY <1>1 DEF VerdictInv
<1>3. last.shape = shape /\ last.seen = a
  BY <1>2 DEF LastOf
<1>4. shape # "wrapped list" /\ \E j \in DOMAIN a : a[j].meta # FALSE
  BY <1>2, WithoutMetadata
<1>5. \A j \in DOMAIN a : a[j] \in Recalled
  BY ElementOfSeq, SequenceAsFunction
<1>6. \A j \in DOMAIN a : a[j].meta
  <2>1. PICK j \in DOMAIN a : a[j].meta # FALSE
    BY <1>4
  <2>2. a[j].meta \in BOOLEAN
    BY <1>5 DEF Recalled
  <2>3. a[j].meta
    BY <2>1, <2>2, Zenon
  <2>4. \A i \in DOMAIN a : a[i].meta = a[j].meta
    BY <1>2, Zenon DEF Uniform
  <2>5. QED
    BY <2>3, <2>4, Zenon
<1>7. a # <<>>
  BY <1>4, EmptyHasNone, Zenon
<1>8. PICK pos \in DOMAIN a : last.memory = a[pos].fixture
  BY <1>2, <1>4, <1>6, <1>7, WithMetadata
<1>9. a[pos] \in ToSet(last.seen)
  BY <1>3 DEF ToSet
<1>10. QED
  BY <1>3, <1>4, <1>6, <1>8, <1>9

\* A verdict follows from the memories of the answer.
LEMMA VerdictIsRead ==
    ASSUME VerdictInv
    PROVE  VerdictReadsTheAnswer
<1> DEFINE seen == {m \in ToSet(last.seen) : m.meta}
           At50(k) == {m \in seen : m.rel[k] >= 50}
           Best(k) == \E m \in At50(k) : /\ m.fixture = last.memory
                                         /\ \A o \in At50(k) : o.rel[k] <= m.rel[k]
           MostImportant == \E m \in seen : /\ m.fixture = last.memory
                                            /\ \A o \in seen : o.importance <= m.importance
<1> SUFFICES ASSUME last.shape # "wrapped list", seen # {}
             PROVE  IF At50("f") # {} THEN last.action = "surface_contradiction" /\ Best("f")
                    ELSE IF At50("i") # {} THEN last.action = "ask_clarification" /\ Best("i")
                    ELSE last.action \in Reuse /\ MostImportant
  BY DEF VerdictReadsTheAnswer
<1>1. last # NoVerdict
  <2> SUFFICES ASSUME last = NoVerdict PROVE seen = {}
    OBVIOUS
  <2>1. last.seen = <<>>
    BY DEF NoVerdict
  <2>2. ToSet(last.seen) = {}
    BY <2>1, EmptyHasNone, Zenon
  <2>3. QED
    BY <2>2
<1>2. PICK scenario \in DOMAIN Scenarios, shape \in Shapes, a \in Seq(Recalled) :
         Uniform(a) /\ last = LastOf(scenario, a, shape)
  BY <1>1 DEF VerdictInv
<1>3. last.shape = shape /\ last.seen = a
  BY <1>2 DEF LastOf
<1>4. a # <<>> /\ \A j \in DOMAIN a : a[j].meta
  <2>1. PICK j \in DOMAIN a : a[j].meta
    BY <1>3 DEF ToSet
  <2>2. \A i \in DOMAIN a : a[i].meta = a[j].meta
    BY <1>2, Zenon DEF Uniform
  <2>3. \A i \in DOMAIN a : a[i].meta
    BY <2>1, <2>2, Zenon
  <2>4. a # <<>>
    BY <2>1, EmptyHasNone, Zenon
  <2>5. QED
    BY <2>3, <2>4
<1>5. PICK pos \in DOMAIN a : /\ last.memory = a[pos].fixture /\ last.action = Classify(a[pos].rel)
                              /\ Foremost(a, [j \in DOMAIN a |-> a[j].rel], pos)
  <2>1. shape # "wrapped list"
    BY <1>3
  <2>2. last = LastOf(scenario, a, shape)
    BY <1>2
  <2> HIDE DEF seen, At50, Best, MostImportant
  <2>3. QED
    BY <1>4, <2>1, <2>2, WithMetadata
<1>6. seen = {a[j] : j \in DOMAIN a}
  BY <1>3, <1>4 DEF ToSet
<1>7. a[pos].rel \in Reliabilities
  <2>1. a[pos] \in Recalled
    BY ElementOfSeq, SequenceAsFunction
  <2>2. QED
    BY <2>1 DEF Recalled
<1> DEFINE Over(k) == {j \in DOMAIN a : a[j].rel[k] >= 50}
<1>8. IF Over("f") # {} THEN pos \in Over("f") /\ \A j \in Over("f") : a[j].rel["f"] <= a[pos].rel["f"]
      ELSE IF Over("i") # {}
      THEN pos \in Over("i") /\ \A j \in Over("i") : a[j].rel["i"] <= a[pos].rel["i"]
      ELSE \A j \in DOMAIN a : a[j].importance <= a[pos].importance
  BY <1>5 DEF Foremost
<1>9. ASSUME NEW k \in {"f", "i"}
      PROVE  /\ At50(k) = {a[j] : j \in Over(k)} /\ (At50(k) # {} <=> Over(k) # {})
             /\ (pos \in Over(k) /\ \A j \in Over(k) : a[j].rel[k] <= a[pos].rel[k]) => Best(k)
  <2>1. At50(k) = {a[j] : j \in Over(k)}
    BY <1>6
  <2>2. At50(k) # {} <=> Over(k) # {}
    BY <2>1
  <2>3. ASSUME pos \in Over(k), \A j \in Over(k) : a[j].rel[k] <= a[pos].rel[k]
        PROVE  Best(k)
    <3>1. a[pos] \in At50(k) /\ a[pos].fixture = last.memory
      BY <1>5, <2>1, <2>3
    <3>2. \A o \in At50(k) : o.rel[k] <= a[pos].rel[k]
      BY <2>1, <2>3
    <3> HIDE DEF At50
    <3>3. QED
      BY <3>1, <3>2
  <2>4. QED
    BY <2>1, <2>2, <2>3
<1>10. /\ a[pos].rel.f >= 50 <=> last.action = "surface_contradiction"
       /\ (a[pos].rel.f < 50 /\ a[pos].rel.i >= 50) <=> last.action = "ask_clarification"
       /\ (a[pos].rel.f < 50 /\ a[pos].rel.i < 50) <=> last.action \in Reuse
  BY <1>5, <1>7, ClassifyMeans
<1>11. /\ ~(a[pos].rel.f >= 50) => a[pos].rel.f < 50
       /\ ~(a[pos].rel.i >= 50) => a[pos].rel.i < 50
  BY <1>7, Below50
<1> HIDE DEF seen, At50, Best
<1>12. CASE Over("f") # {}
  <2>1. pos \in Over("f") /\ \A j \in Over("f") : a[j].rel["f"] <= a[pos].rel["f"]
    BY <1>8, <1>12
  <2>2. last.action = "surface_contradiction"
    BY <1>10, <2>1
  <2> HIDE DEF Over, MostImportant
  <2>3. QED
    BY <1>9, <1>12, <2>1, <2>2
<1>13. CASE Over("f") = {}
  <2>1. a[pos].rel.f < 50
    <3>1. ~(a[pos].rel.f >= 50)
      BY <1>13
    <3>2. QED
      BY <1>11, <3>1
  <2>2. At50("f") = {}
    <3> HIDE DEF Over
    <3>1. QED
      BY <1>9, <1>13
  <2>3. CASE Over("i") # {}
    <3>1. pos \in Over("i") /\ \A j \in Over("i") : a[j].rel["i"] <= a[pos].rel["i"]
      BY <1>8, <1>13, <2>3
    <3>2. last.action = "ask_clarification"
      BY <1>10, <2>1, <3>1
    <3> HIDE DEF Over, MostImportant
    <3>3. QED
      BY <1>9, <2>2, <2>3, <3>1, <3>2
  <2>4. CASE Over("i") = {}
    <3>1. a[pos].rel.i < 50
      <4>1. ~(a[pos].rel.i >= 50)
        BY <2>4
      <4>2. QED
        BY <1>11, <4>1
    <3>2. last.action \in Reuse
      BY <1>10, <2>1, <3>1
    <3>3. \A j \in DOMAIN a : a[j].importance <= a[pos].importance
      BY <1>8, <1>13, <2>4
    <3>4. MostImportant
      BY <1>5, <1>6, <3>3
    <3> HIDE DEF Over, MostImportant
    <3>5. QED
      BY <1>9, <2>2, <2>4, <3>2, <3>4
  <2>5. QED
    BY <2>3, <2>4
<1>14. QED
  BY <1>12, <1>13
-----------------------------------------------------------------------------
(* The two phases *)

\* Without feedback nothing is derived.
LEMMA DeriveWithout ==
    ASSUME NEW m, m.feedback = <<>>
    PROVE  DeriveReliability(m) = InitialReliability(m)
<1> DEFINE base == InitialReliability(m)
           At(f, j) == IF j = 0 THEN base ELSE ApplySignal(f[j - 1], m.feedback[j])
           f == CHOOSE h : h = [j \in 0 .. 0 |-> At(h, j)]
           g == [j \in 0 .. 0 |-> base]
<1>1. Len(m.feedback) = 0
  OBVIOUS
<1>2. DeriveReliability(m) = f[0]
  BY <1>1 DEF DeriveReliability, Derived
<1>3. \A j \in 0 .. 0 : j = 0
  OBVIOUS
<1> HIDE DEF base
<1>4. g = [j \in 0 .. 0 |-> At(g, j)]
  BY <1>3
<1> HIDE DEF g
<1>5. f = [j \in 0 .. 0 |-> At(f, j)]
  BY <1>4
<1> HIDE DEF f
<1>6. f[0] = base
  BY <1>5
<1>7. QED
  BY <1>2, <1>6 DEF base

\* The second phase differs from the first where there is nothing to surface or
\* to ask about and something to reuse with confidence, and only there.
LEMMA PositionsAgree ==
    ASSUME NEW S, NEW ms \in Seq(S), ms # <<>>,
           \A j \in DOMAIN ms : ms[j].importance \in Scores,
           NEW rels, DOMAIN rels = DOMAIN ms,
           \A j \in DOMAIN ms : rels[j] \in Reliabilities,
           NEW p, p = TifAwarePosition(ms, rels),
           NEW q, q = FeedbackAwarePosition(ms, rels)
    PROVE  \/ p = q
           \/ Classify(rels[p]) \in Reuse /\ Classify(rels[q]) = "reuse_confidently"
<1> DEFINE C == ClassOf(rels, "surface_contradiction")
           U == ClassOf(rels, "ask_clarification")
           K == ClassOf(rels, "reuse_confidently")
<1>1. /\ p = IF C # {} THEN FirstMax(C, Component(rels, "f"))
             ELSE IF U # {} THEN FirstMax(U, Component(rels, "i"))
             ELSE ChooseBaseline(ms)
      /\ q = IF C # {} THEN FirstMax(C, Component(rels, "f"))
             ELSE IF U # {} THEN FirstMax(U, Component(rels, "i"))
             ELSE IF K # {} THEN FirstMax(K, Component(rels, "t"))
             ELSE ChooseBaseline(ms)
  BY DEF TifAwarePosition, FeedbackAwarePosition
<1>2. p \in DOMAIN ms
  BY TifAwareMeans
<1>3. K \in SUBSET DOMAIN ms /\ \A j \in K : Classify(rels[j]) = "reuse_confidently"
  BY DEF ClassOf
<1>4. C = {} /\ U = {} => Classify(rels[p]) \in Reuse
  <2> SUFFICES ASSUME C = {}, U = {} PROVE Classify(rels[p]) \in Reuse
    OBVIOUS
  <2>1. Classify(rels[p]) \in Actions
    BY <1>2, ClassifyMeans
  <2>2. Classify(rels[p]) # "surface_contradiction" /\ Classify(rels[p]) # "ask_clarification"
    BY <1>2 DEF ClassOf
  <2>3. QED
    BY <2>1, <2>2 DEF Actions
<1> HIDE DEF C, U, K
<1>5. CASE C # {} \/ U # {} \/ K = {}
  BY <1>1, <1>5
<1>6. CASE C = {} /\ U = {} /\ K # {}
  <2>1. q = FirstMax(K, Component(rels, "t"))
    BY <1>1, <1>6
  <2>2. q \in K
    BY <1>3, <1>6, <2>1, ForemostMeans
  <2>3. QED
    BY <1>3, <1>4, <1>6, <2>2
<1>7. QED
  BY <1>5, <1>6

LEMMA PhasesAgreeOnSeen ==
    ASSUME last.seen \in Seq(Recalled)
    PROVE  PhasesAgree
<1> DEFINE a == last.seen
           ms == [k \in DOMAIN last.seen |->
                   [fixture |-> last.seen[k].fixture, importance |-> last.seen[k].importance,
                    meta |-> last.seen[k].meta, rel |-> last.seen[k].rel, feedback |-> <<>>]]
           rels == [j \in DOMAIN ms |-> Reliability(ms[j])]
           p == TifAwarePosition(ms, rels)
           q == FeedbackAwarePosition(ms, rels)
           one == ChooseTifAware(ms)
           two == ChooseFeedbackAware(ms)
<1> SUFFICES
      /\ one.action \in {"surface_contradiction", "ask_clarification", "no_memory"} => one = two
      /\ one.action = "reuse_confidently" => two.action = "reuse_confidently"
      /\ two.action = "reuse_with_caveat" => one = two
  BY DEF PhasesAgree
<1>1. DOMAIN a = 1 .. Len(a) /\ Len(a) \in Nat /\ \A j \in DOMAIN a : a[j] \in Recalled
  BY ElementOfSeq, SequenceAsFunction
<1>2. \A j \in DOMAIN a : /\ ms[j].importance = a[j].importance /\ ms[j].meta = a[j].meta
                          /\ ms[j].rel = a[j].rel /\ ms[j].feedback = <<>>
  OBVIOUS
<1>3. DOMAIN ms = DOMAIN a /\ ms = [j \in DOMAIN a |-> ms[j]]
  OBVIOUS
<1> HIDE DEF ms
<1>4. \A j \in DOMAIN ms : /\ ms[j].importance \in Scores /\ Reliability(ms[j]) \in Reliabilities
                           /\ DeriveReliability(ms[j]) = Reliability(ms[j])
  <2> SUFFICES ASSUME NEW j \in DOMAIN ms
               PROVE  /\ ms[j].importance \in Scores /\ Reliability(ms[j]) \in Reliabilities
                      /\ DeriveReliability(ms[j]) = Reliability(ms[j])
    OBVIOUS
  <2>1. ms[j].importance \in Scores /\ ms[j].rel \in Reliabilities
    BY <1>1, <1>2, <1>3 DEF Recalled
  <2>2. Reliability(ms[j]) \in Reliabilities
    BY <2>1, ZeroMeans DEF Reliability
  <2>3. ms[j].feedback = <<>>
    BY <1>2, <1>3
  <2>4. DeriveReliability(ms[j]) = Reliability(ms[j])
    BY <2>3, DeriveWithout DEF InitialReliability, Reliability
  <2>5. QED
    BY <2>1, <2>2, <2>4
<1>5. /\ DOMAIN rels = DOMAIN ms /\ \A j \in DOMAIN ms : rels[j] = Reliability(ms[j])
      /\ rels = [j \in DOMAIN ms |-> DeriveReliability(ms[j])]
  BY <1>4
<1>6. CASE ms = <<>>
  BY <1>6 DEF ChooseTifAware, ChooseFeedbackAware
<1>7. CASE ms # <<>>
  <2> DEFINE S == {ms[j] : j \in DOMAIN a}
  <2>1. ms \in Seq(S)
    <3>1. \A j \in 1 .. Len(a) : ms[j] \in S
      BY <1>1
    <3> HIDE DEF S
    <3>2. ms \in [1 .. Len(a) -> S]
      BY <1>1, <1>3, <3>1, Zenon
    <3>3. QED
      BY <1>1, <3>2, FunctionAsSequence, Zenon
  <2>2. two = [pos |-> q, action |-> Classify(rels[q])]
    BY <1>5, <1>7 DEF ChooseFeedbackAware
  <2>3. one = [pos |-> p, action |-> Classify(Reliability(ms[p]))]
    BY <1>7 DEF ChooseTifAware, ClassifyTif
  <2> HIDE DEF rels, S
  <2>4. \A j \in DOMAIN ms : rels[j] \in Reliabilities
    BY <1>4, <1>5
  <2>5. p \in DOMAIN ms
    BY <1>4, <1>5, <1>7, <2>1, <2>4, TifAwareMeans
  <2>6. \/ p = q
        \/ Classify(rels[p]) \in Reuse /\ Classify(rels[q]) = "reuse_confidently"
    BY <1>4, <1>5, <1>7, <2>1, <2>4, PositionsAgree
  <2>7. one = [pos |-> p, action |-> Classify(rels[p])]
    BY <1>5, <2>3, <2>5
  <2> HIDE DEF p, q, one, two
  <2>8. CASE p = q
    BY <2>2, <2>7, <2>8
  <2>9. CASE Classify(rels[p]) \in Reuse /\ Classify(rels[q]) = "reuse_confidently"
    BY <2>2, <2>7, <2>9 DEF Reuse
  <2>10. QED
    BY <2>6, <2>8, <2>9
<1>8. QED
  BY <1>6, <1>7
-----------------------------------------------------------------------------
(* The run *)

Running == pc \notin {"exited", "tested"}

TypeInv ==
    /\ recallable \subseteq FixtureIds
    /\ pc \in {"main", "health", "store", "recall", "exited", "tested"}
    /\ n \in Nat
    /\ pc = "store" => n \in DOMAIN Memories
    /\ pc = "recall" => n \in DOMAIN Scenarios
    /\ allPassed \in BOOLEAN
    /\ exit \in {-1, 0, 1} /\ (exit = -1 <=> Running)

\* Memories are stored one by one before the first recall, and the last verdict
\* decides with the others whether the run exits with 0.
ProgressInv ==
    /\ pc = "store" => \A j \in DOMAIN Memories : j < n => Memories[j].fixture \in recallable
    /\ pc = "recall" => recallable = FixtureIds
    /\ pc = "exited" /\ exit = 0 => /\ recallable = FixtureIds
                                    /\ last.passed /\ last.scenario = Len(Scenarios)

TifInv == TypeInv /\ ProgressInv /\ VerdictInv

LEMMA Lengths ==
    /\ DOMAIN Memories = 1 .. Len(Memories) /\ Len(Memories) \in Nat /\ Len(Memories) # 0
    /\ DOMAIN Scenarios = 1 .. Len(Scenarios) /\ Len(Scenarios) \in Nat /\ Len(Scenarios) # 0
<1>1. ASSUME NEW s, s \in Seq(ToSet(s)), s # <<>>
      PROVE  DOMAIN s = 1 .. Len(s) /\ Len(s) \in Nat /\ Len(s) # 0
  <2> DEFINE S == ToSet(s)
  <2>1. s \in Seq(S)
    BY <1>1
  <2> HIDE DEF S
  <2>2. DOMAIN s = 1 .. Len(s) /\ Len(s) \in Nat
    BY <2>1, SequenceAsFunction
  <2>3. Len(s) # 0
    BY <1>1, <2>1, EmptySeq
  <2>4. QED
    BY <2>2, <2>3
<1>2. QED
  BY <1>1, TifAssumption

LEMMA TifInvInit ==
    Init => TifInv
<1> SUFFICES ASSUME Init PROVE TifInv
  OBVIOUS
<1>1. recallable \subseteq FixtureIds
  BY TifAssumption DEF Init
<1>2. TypeInv
  BY <1>1 DEF Init, TypeInv, Running
<1>3. ProgressInv
  BY DEF Init, ProgressInv
<1>4. VerdictInv
  BY DEF Init, VerdictInv
<1>5. QED
  BY <1>2, <1>3, <1>4 DEF TifInv

\* An exception ends the run with exit code 1.
LEMMA RaiseStep ==
    ASSUME TifInv, Raise, recallable' \subseteq FixtureIds
    PROVE  TifInv'
<1>1. pc' = "exited" /\ exit' = 1 /\ n' = n /\ allPassed' = allPassed /\ last' = last
  BY DEF Raise
<1>2. TypeInv'
  BY <1>1 DEF TifInv, TypeInv, Running
<1>3. ProgressInv'
  BY <1>1 DEF ProgressInv
<1>4. VerdictInv'
  BY <1>1 DEF TifInv, VerdictInv
<1>5. QED
  BY <1>2, <1>3, <1>4 DEF TifInv

LEMMA StoreStep ==
    ASSUME TifInv, Store
    PROVE  TifInv'
<1>1. /\ pc = "store" /\ recallable' = recallable \cup {Memories[n].fixture}
      /\ allPassed' = allPassed /\ exit' = exit /\ last' = last
  BY DEF Store
<1>2. n \in DOMAIN Memories /\ recallable \subseteq FixtureIds /\ Running /\ exit = -1
  BY <1>1 DEF TifInv, TypeInv, Running
<1>3. recallable' \subseteq FixtureIds
  BY <1>1, <1>2 DEF FixtureIds
<1>4. \A j \in DOMAIN Memories : j <= n => Memories[j].fixture \in recallable'
  <2> SUFFICES ASSUME NEW j \in DOMAIN Memories, j <= n PROVE Memories[j].fixture \in recallable'
    OBVIOUS
  <2>1. j = n \/ j < n
    BY <1>2, Lengths
  <2>2. QED
    BY <1>1, <2>1 DEF TifInv, ProgressInv
<1>5. VerdictInv'
  BY <1>1 DEF TifInv, VerdictInv
<1>6. CASE HasMoreMemories
  <2>1. pc' = "store" /\ n' = n + 1
    BY <1>6 DEF Store, AfterStore
  <2>2. n + 1 \in DOMAIN Memories /\ n + 1 \in Nat
    BY <1>2, <1>6, Lengths DEF HasMoreMemories
  <2>3. TypeInv'
    BY <1>1, <1>2, <1>3, <2>1, <2>2 DEF TifInv, TypeInv, Running
  <2>4. \A j \in DOMAIN Memories : j < n + 1 => j <= n
    BY <1>2, Lengths
  <2>5. ProgressInv'
    BY <1>4, <2>1, <2>4 DEF ProgressInv
  <2>6. QED
    BY <1>5, <2>3, <2>5 DEF TifInv
<1>7. CASE ~HasMoreMemories
  <2>1. pc' = "recall" /\ n' = 1
    BY <1>7 DEF Store, AfterStore
  <2>2. 1 \in DOMAIN Scenarios
    BY Lengths
  <2>3. TypeInv'
    BY <1>1, <1>2, <1>3, <2>1, <2>2 DEF TifInv, TypeInv, Running
  <2>4. \A j \in DOMAIN Memories : j <= n
    BY <1>2, <1>7, Lengths DEF HasMoreMemories
  <2>5. recallable' = FixtureIds
    BY <1>3, <1>4, <2>4 DEF FixtureIds
  <2>6. ProgressInv'
    BY <2>1, <2>5 DEF ProgressInv
  <2>7. QED
    BY <1>5, <2>3, <2>6 DEF TifInv
<1>8. QED
  BY <1>6, <1>7

LEMMA RecallStep ==
    ASSUME TifInv, Recall
    PROVE  TifInv'
<1>1. pc = "recall" /\ recallable' = recallable
  BY DEF Recall
<1>2. /\ n \in DOMAIN Scenarios /\ recallable = FixtureIds /\ exit = -1
      /\ allPassed \in BOOLEAN
  BY <1>1 DEF TifInv, TypeInv, ProgressInv, Running
<1>3. PICK shape \in Shapes, a \in Answers(Scenarios[n].topK) :
         LET verdict == Evaluate(Scenarios[n], NormalizeRecall(Response(shape, a)))
             passed == allPassed /\ verdict.passed
         IN /\ last' = [scenario |-> n, seen |-> a, shape |-> shape,
                        action |-> verdict.action, memory |-> verdict.memory,
                        changed |-> verdict.changed, passed |-> verdict.passed]
            /\ allPassed' = passed
            /\ IF n < Len(Scenarios)
               THEN n' = n + 1 /\ UNCHANGED <<pc, exit>>
               ELSE /\ pc' = "exited"
                    /\ exit' = IF passed THEN 0 ELSE 1
                    /\ UNCHANGED n
  BY DEF Recall
<1> DEFINE verdict == Evaluate(Scenarios[n], NormalizeRecall(Response(shape, a)))
           passed == allPassed /\ verdict.passed
<1>4. /\ last' = LastOf(n, a, shape) /\ last'.passed = verdict.passed
      /\ last'.scenario = n /\ allPassed' = passed
  BY <1>3 DEF LastOf
<1>5. n < Len(Scenarios) => n' = n + 1 /\ pc' = pc /\ exit' = exit
  BY <1>3
<1>6. ~(n < Len(Scenarios)) => pc' = "exited" /\ exit' = (IF passed THEN 0 ELSE 1) /\ n' = n
  BY <1>3
<1> HIDE DEF verdict
<1>7. a \in Seq(Recalled) /\ Uniform(a)
  BY <1>2, AnswerShape
<1>8. VerdictInv'
  <2>1. last' = LastOf(n, a, shape) /\ n \in DOMAIN Scenarios /\ Uniform(a)
    BY <1>2, <1>4, <1>7
  <2>2. \E scenario \in DOMAIN Scenarios, sh \in Shapes, b \in Seq(Recalled) :
           Uniform(b) /\ last' = LastOf(scenario, b, sh)
    BY <1>7, <2>1, Zenon
  <2>3. QED
    BY <2>2, Zenon DEF VerdictInv
<1>9. passed \in BOOLEAN
  BY <1>2
<1>10. CASE n < Len(Scenarios)
  <2>1. n + 1 \in DOMAIN Scenarios /\ n + 1 \in Nat
    BY <1>2, <1>10, Lengths
  <2>2. TypeInv'
    BY <1>1, <1>2, <1>4, <1>5, <1>9, <1>10, <2>1 DEF TifInv, TypeInv, Running
  <2>3. ProgressInv'
    BY <1>1, <1>2, <1>5, <1>10 DEF ProgressInv
  <2>4. QED
    BY <1>8, <2>2, <2>3 DEF TifInv
<1>11. CASE ~(n < Len(Scenarios))
  <2>1. n = Len(Scenarios) /\ n \in Nat
    BY <1>2, <1>11, Lengths
  <2>2. exit' \in {0, 1} /\ (exit' = 0 => verdict.passed)
    BY <1>6, <1>9, <1>11
  <2>3. TypeInv'
    BY <1>1, <1>2, <1>4, <1>6, <1>9, <1>11, <2>1, <2>2 DEF TifInv, TypeInv, Running
  <2>4. ProgressInv'
    BY <1>1, <1>2, <1>4, <1>6, <1>11, <2>1, <2>2 DEF ProgressInv
  <2>5. QED
    BY <1>8, <2>3, <2>4 DEF TifInv
<1>12. QED
  BY <1>10, <1>11

LEMMA TifInvStep ==
    TifInv /\ [Next]_vars => TifInv'
<1> SUFFICES ASSUME TifInv, [Next]_vars PROVE TifInv'
  OBVIOUS
<1>1. CASE SelfTest
  <2>1. /\ pc' = "tested" /\ exit' \in {0, 1} /\ recallable' = recallable
        /\ n' = n /\ allPassed' = allPassed /\ last' = last
    BY <1>1 DEF SelfTest
  <2>2. TypeInv' /\ ProgressInv'
    BY <2>1 DEF TifInv, TypeInv, ProgressInv, Running
  <2>3. VerdictInv'
    BY <2>1 DEF TifInv, VerdictInv
  <2>4. QED
    BY <2>2, <2>3 DEF TifInv
<1>2. CASE RunRuntimeValidation
  <2>1. /\ pc = "main" /\ pc' = "health" /\ recallable' = recallable
        /\ n' = n /\ allPassed' = allPassed /\ exit' = exit /\ last' = last
    BY <1>2 DEF RunRuntimeValidation
  <2>2. TypeInv' /\ ProgressInv'
    BY <2>1 DEF TifInv, TypeInv, ProgressInv, Running
  <2>3. VerdictInv'
    BY <2>1 DEF TifInv, VerdictInv
  <2>4. QED
    BY <2>2, <2>3 DEF TifInv
<1>3. CASE Ready
  <2>1. /\ pc = "health" /\ pc' = "store" /\ n' = 1 /\ recallable' = recallable
        /\ allPassed' = allPassed /\ exit' = exit /\ last' = last
    BY <1>3 DEF Ready
  <2>2. 1 \in DOMAIN Memories /\ \A j \in DOMAIN Memories : ~(j < 1)
    BY Lengths
  <2>3. TypeInv' /\ ProgressInv'
    BY <2>1, <2>2 DEF TifInv, TypeInv, ProgressInv, Running
  <2>4. VerdictInv'
    BY <2>1 DEF TifInv, VerdictInv
  <2>5. QED
    BY <2>3, <2>4 DEF TifInv
<1>4. CASE NotReady
  <2>1. pc = "health" /\ recallable' = recallable
    BY <1>4 DEF NotReady
  <2>2. CASE n < HealthRetries
    <3>1. n' = n + 1 /\ pc' = pc /\ exit' = exit /\ allPassed' = allPassed /\ last' = last
      BY <1>4, <2>2 DEF NotReady
    <3>2. n + 1 \in Nat
      BY DEF TifInv, TypeInv
    <3>3. TypeInv' /\ ProgressInv'
      BY <2>1, <3>1, <3>2 DEF TifInv, TypeInv, ProgressInv, Running
    <3>4. VerdictInv'
      BY <3>1 DEF TifInv, VerdictInv
    <3>5. QED
      BY <3>3, <3>4 DEF TifInv
  <2>3. CASE ~(n < HealthRetries)
    <3>1. Raise
      BY <1>4, <2>3 DEF NotReady
    <3>2. QED
      BY <2>1, <3>1, RaiseStep DEF TifInv, TypeInv
  <2>4. QED
    BY <2>2, <2>3
<1>5. CASE Store
  BY <1>5, StoreStep
<1>6. CASE StoreFails
  <2>1. recallable' \in {recallable, recallable \cup {Memories[n].fixture}} /\ pc = "store" /\ Raise
    BY <1>6 DEF StoreFails
  <2>2. recallable' \subseteq FixtureIds
    BY <2>1 DEF TifInv, TypeInv, FixtureIds
  <2>3. QED
    BY <2>1, <2>2, RaiseStep
<1>7. CASE Recall
  BY <1>7, RecallStep
<1>8. CASE RecallFails
  <2>1. Raise /\ recallable' = recallable
    BY <1>8 DEF RecallFails
  <2>2. QED
    BY <2>1, RaiseStep DEF TifInv, TypeInv
<1>9. CASE UNCHANGED vars
  <2>1. /\ pc' = pc /\ exit' = exit /\ recallable' = recallable
        /\ n' = n /\ allPassed' = allPassed /\ last' = last
    BY <1>9 DEF vars
  <2>2. TypeInv' /\ ProgressInv'
    BY <2>1 DEF TifInv, TypeInv, ProgressInv, Running
  <2>3. VerdictInv'
    BY <2>1 DEF TifInv, VerdictInv
  <2>4. QED
    BY <2>2, <2>3 DEF TifInv
<1>10. QED
  BY <1>1, <1>2, <1>3, <1>4, <1>5, <1>6, <1>7, <1>8, <1>9 DEF Next, Exited

-----------------------------------------------------------------------------
(* The theorems *)

(* The program's state has the shape that the code gives it, whatever the    *)
(* engine answers and whichever request fails.                               *)
THEOREM TifTypeCorrect == Spec => []TifTypeOK
<1>1. TifInv => TifTypeOK
  <2> SUFFICES ASSUME TifInv PROVE TifTypeOK
    OBVIOUS
  <2>1. last.action \in Actions \cup {"none", "no_memory"} /\ last.passed \in BOOLEAN
    BY VerdictType DEF TifInv
  <2>2. n \in CASE pc = "store" -> DOMAIN Memories
                [] pc = "recall" -> DOMAIN Scenarios
                [] OTHER -> Nat
    BY DEF TifInv, TypeInv
  <2>3. QED
    BY <2>1, <2>2 DEF TifInv, TypeInv, TifTypeOK, Running
<1>2. QED
  BY <1>1, TifInvInit, TifInvStep, PTL DEF Spec

(* A scenario passes on metadata that came back from the engine where the    *)
(* program looks for it, and a run exits with code 0 only when its last      *)
(* scenario passed and every memory of the fixture was stored (main).        *)
THEOREM PassesOnMetadata == Spec => []PassMeansRoundTrip
<1>1. TifInv => PassMeansRoundTrip
  BY PassNeedsMetadata DEF TifInv, ProgressInv, PassMeansRoundTrip
<1>2. QED
  BY <1>1, TifInvInit, TifInvStep, PTL DEF Spec

(* A verdict is a function of the memories in the answer: their order and    *)
(* the shape of the answer decide nothing (choose_tif_aware,                 *)
(* normalize_recall_response).                                               *)
THEOREM VerdictFromMemories == Spec => []VerdictReadsTheAnswer
<1>1. TifInv => VerdictReadsTheAnswer
  BY VerdictIsRead DEF TifInv
<1>2. QED
  BY <1>1, TifInvInit, TifInvStep, PTL DEF Spec

(* On any answer the engine may give, the two phases agree on what to surface*)
(* and what to ask about, and phase two reuses what phase one does           *)
(* (choose_tif_aware, choose_feedback_aware).                                *)
THEOREM PhasesChooseAlike == Spec => []PhasesAgree
<1>1. TifInv => PhasesAgree
  BY VerdictType, PhasesAgreeOnSeen DEF TifInv
<1>2. QED
  BY <1>1, TifInvInit, TifInvStep, PTL DEF Spec
=============================================================================
