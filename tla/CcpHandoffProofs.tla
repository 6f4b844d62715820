--------------------------- MODULE CcpHandoffProofs ---------------------------
(***************************************************************************)
(* The CCP handoff validator, for every fixture, every number of attempts  *)
(* and every answer of the engine.                                         *)
(*                                                                         *)
(* That the session is closed follows from where the program is.  That     *)
(* everything is in place before a scenario is judged needs what the loops *)
(* have done so far; what a verdict means needs, besides, that the engine  *)
(* answers with memories of the fixture, none of them twice.               *)
(***************************************************************************)
EXTENDS SwarmBenchmark, FiniteSetTheorems, SequenceTheorems, WellFoundedInduction, TLAPS

-----------------------------------------------------------------------------
(* Lists *)

\* A set of natural numbers that is not empty has a least one.
LEMMA LeastIndex ==
    ASSUME NEW S \in SUBSET Nat, S # {}
    PROVE  \E i \in S : \A j \in S : i <= j
<1>1. PICK i \in S : \A j \in S : ~(<<j, i>> \in OpToRel(<, Nat))
  BY NatLessThanWellFounded, WFMin, Zenon
<1>2. \A j \in S : ~(j < i)
  BY <1>1 DEF OpToRel
<1>3. QED
  BY <1>2

\* The values a loop goes through: step[j] is what its j-th pass does.
Iterates(f, len, base, step) == f[0] = base /\ \A j \in 1 .. len : f[j] = step[j][f[j - 1]]

LEMMA RecursionExists ==
    ASSUME NEW T, NEW len \in Nat, NEW base \in T, NEW step \in [1 .. len -> [T -> T]]
    PROVE  \E f \in [0 .. len -> T] : Iterates(f, len, base, step)
<1> USE DEF Iterates
<1> DEFINE Upto(f, m) == f[0] = base /\ \A j \in 1 .. m : f[j] = step[j][f[j - 1]]
           Bad == {m \in 0 .. len : ~\E f \in [0 .. m -> T] : Upto(f, m)}
<1> SUFFICES ASSUME Bad # {} PROVE FALSE
  OBVIOUS
<1>1. PICK m \in Bad : \A other \in Bad : m <= other
  <2>1. Bad \in SUBSET Nat
    OBVIOUS
  <2>2. QED
    BY <2>1, LeastIndex
<1>2. m # 0
  <2> SUFFICES \E f \in [0 .. 0 -> T] : Upto(f, 0)
    BY <1>1
  <2> WITNESS [j \in 0 .. 0 |-> base] \in [0 .. 0 -> T]
  <2> QED
    OBVIOUS
<1>3. m \in 1 .. len /\ m - 1 \in 0 .. len
  <2>1. m \in 0 .. len
    BY <1>1
  <2>2. QED
    BY <1>2, <2>1
<1>4. PICK f \in [0 .. m - 1 -> T] : Upto(f, m - 1)
  <2> DEFINE k == m - 1
  <2>1. k \in 0 .. len /\ ~(m <= k)
    BY <1>3
  <2> HIDE DEF k, Upto
  <2>2. \E f \in [0 .. k -> T] : Upto(f, k)
    BY <1>1, <2>1
  <2>3. QED
    BY <2>2 DEF k
<1> DEFINE last == step[m][f[m - 1]]
           g == [j \in 0 .. m |-> IF j = m THEN last ELSE f[j]]
<1>5. last \in T
  BY <1>3, <1>4
<1> HIDE DEF last
<1>6. g \in [0 .. m -> T]
  BY <1>3, <1>4, <1>5
<1>7. Upto(g, m)
  <2>1. g[0] = base
    BY <1>3, <1>4
  <2>2. ASSUME NEW j \in 1 .. m PROVE g[j] = step[j][g[j - 1]]
    <3>1. CASE j = m
      BY <1>3, <3>1 DEF last
    <3>2. CASE j # m
      BY <1>3, <1>4, <3>2
    <3>3. QED
      BY <3>1, <3>2
  <2>3. QED
    BY <2>1, <2>2
<1>8. m \notin Bad
  BY <1>6, <1>7
<1>9. QED
  BY <1>1, <1>8

\* s is what a filter has kept of the first j members.
Keeps(seq, ids, j, s) ==
    /\ \A k \in DOMAIN s : \E i \in 1 .. j : s[k] = seq[i] /\ seq[i] \in ids
    /\ \A i \in 1 .. j : seq[i] \in ids => \E k \in DOMAIN s : s[k] = seq[i]
    /\ Distinct(s)

LEMMA AppendKeeps ==
    ASSUME NEW S, NEW seq \in Seq(S), Distinct(seq), NEW ids, NEW j \in DOMAIN seq,
           NEW s \in Seq(S), Keeps(seq, ids, j - 1, s), seq[j] \in ids
    PROVE  Keeps(seq, ids, j, Append(s, seq[j]))
<1> DEFINE r == Append(s, seq[j])
<1>1. /\ seq[j] \in S /\ r \in Seq(S) /\ Len(s) \in Nat
      /\ DOMAIN s = 1 .. Len(s) /\ DOMAIN r = 1 .. Len(s) + 1
      /\ r[Len(s) + 1] = seq[j] /\ \A k \in 1 .. Len(s) : r[k] = s[k]
  OBVIOUS
<1>2. DOMAIN seq = 1 .. Len(seq) /\ Len(seq) \in Nat /\ j \in Nat
  OBVIOUS
<1> HIDE DEF r
<1>3. \A k \in DOMAIN r : \E i \in 1 .. j : r[k] = seq[i] /\ seq[i] \in ids
  <2> SUFFICES ASSUME NEW k \in DOMAIN r PROVE \E i \in 1 .. j : r[k] = seq[i] /\ seq[i] \in ids
    OBVIOUS
  <2>1. CASE k = Len(s) + 1
    BY <1>1, <1>2, <2>1
  <2>2. CASE k # Len(s) + 1
    <3>1. k \in DOMAIN s /\ r[k] = s[k]
      BY <1>1, <2>2
    <3>2. PICK i \in 1 .. j - 1 : s[k] = seq[i] /\ seq[i] \in ids
      BY <3>1 DEF Keeps
    <3>3. QED
      BY <1>2, <3>1, <3>2
  <2>3. QED
    BY <2>1, <2>2
<1>4. ASSUME NEW i \in 1 .. j, seq[i] \in ids PROVE \E k \in DOMAIN r : r[k] = seq[i]
  <2>1. CASE i = j
    BY <1>1, <2>1
  <2>2. CASE i # j
    <3>1. i \in 1 .. j - 1
      BY <1>2, <2>2
    <3>2. PICK k \in DOMAIN s : s[k] = seq[i]
      BY <1>4, <3>1 DEF Keeps
    <3>3. QED
      BY <1>1, <3>2
  <2>3. QED
    BY <2>1, <2>2
<1>5. ASSUME NEW k \in DOMAIN s PROVE s[k] # seq[j]
  <2>1. PICK i \in 1 .. j - 1 : s[k] = seq[i] /\ seq[i] \in ids
    BY DEF Keeps
  <2>2. i \in DOMAIN seq /\ i # j
    BY <1>2
  <2>3. seq[i] # seq[j]
    BY <2>2 DEF Distinct
  <2>4. QED
    BY <2>1, <2>3
<1>6. Distinct(r)
  <2> SUFFICES ASSUME NEW k \in DOMAIN r, NEW l \in DOMAIN r, r[k] = r[l] PROVE k = l
    BY DEF Distinct
  <2>1. CASE k \in DOMAIN s /\ l \in DOMAIN s
    <3>1. s[k] = s[l]
      BY <1>1, <2>1
    <3>2. QED
      BY <2>1, <3>1 DEF Keeps, Distinct
  <2>2. CASE k \notin DOMAIN s \/ l \notin DOMAIN s
    BY <1>1, <1>5, <2>2
  <2>3. QED
    BY <2>1, <2>2
<1>7. QED
  BY <1>3, <1>4, <1>6 DEF Keeps, r

LEMMA SkipKeeps ==
    ASSUME NEW S, NEW seq \in Seq(S), NEW ids, NEW j \in DOMAIN seq,
           NEW s, Keeps(seq, ids, j - 1, s), seq[j] \notin ids
    PROVE  Keeps(seq, ids, j, s)
<1>1. j \in Nat /\ j - 1 \in Int /\ \A i \in 1 .. j : i = j \/ i \in 1 .. j - 1
  OBVIOUS
<1>2. \A i \in 1 .. j - 1 : i \in 1 .. j
  BY <1>1
<1>3. QED
  BY <1>1, <1>2, Zenon DEF Keeps

\* Filtering a list of distinct members keeps those that are wanted, once each.
LEMMA FilteredType ==
    ASSUME NEW S, NEW seq \in Seq(S), Distinct(seq), NEW ids
    PROVE  /\ Filtered(seq, ids) \in Seq(S)
           /\ ToSet(Filtered(seq, ids)) = ToSet(seq) \cap ids
           /\ Distinct(Filtered(seq, ids))
<1> DEFINE len == Len(seq)
           Step(j, s) == IF seq[j] \in ids THEN Append(s, seq[j]) ELSE s
           KeptAt(f, j) == IF j = 0 THEN <<>>
                           ELSE IF seq[j] \in ids THEN Append(f[j - 1], seq[j]) ELSE f[j - 1]
           f == CHOOSE h : h = [j \in 0 .. len |-> KeptAt(h, j)]
           step == [j \in 1 .. len |-> [s \in Seq(S) |-> Step(j, s)]]
<1>1. len \in Nat /\ DOMAIN seq = 1 .. len /\ \A j \in 1 .. len : seq[j] \in S
  OBVIOUS
<1>2. Filtered(seq, ids) = f[len]
  BY DEF Filtered
<1> HIDE DEF len
<1>3. \A j \in 1 .. len, s \in Seq(S) : Step(j, s) \in Seq(S)
  BY <1>1
<1>4. \E h : h = [j \in 0 .. len |-> KeptAt(h, j)]
  <2>1. step \in [1 .. len -> [Seq(S) -> Seq(S)]] /\ <<>> \in Seq(S)
    BY <1>3
  <2>2. \A j \in 1 .. len, s \in Seq(S) : step[j][s] = Step(j, s)
    OBVIOUS
  <2> HIDE DEF step, Step
  <2> DEFINE T == Seq(S)
             empty == <<>>
  <2>3. PICK h \in [0 .. len -> T] : h[0] = empty /\ \A j \in 1 .. len : h[j] = step[j][h[j - 1]]
    <3>1. len \in Nat /\ empty \in T /\ step \in [1 .. len -> [T -> T]]
      BY <1>1, <2>1
    <3> HIDE DEF T, empty
    <3>2. \E h \in [0 .. len -> T] : Iterates(h, len, empty, step)
      BY <3>1, RecursionExists
    <3>3. QED
      BY <3>2, Zenon DEF Iterates
  <2>4. \A j \in 1 .. len : h[j] = Step(j, h[j - 1])
    <3> SUFFICES ASSUME NEW j \in 1 .. len PROVE h[j] = Step(j, h[j - 1])
      OBVIOUS
    <3>1. h[j - 1] \in Seq(S) /\ h[j] = step[j][h[j - 1]]
      <4>1. j - 1 \in 0 .. len
        BY <1>1
      <4>2. QED
        BY <2>3, <4>1
    <3>2. QED
      BY <2>2, <3>1, Zenon
  <2>5. \A j \in 0 .. len : h[j] = KeptAt(h, j)
    <3> SUFFICES ASSUME NEW j \in 0 .. len PROVE h[j] = KeptAt(h, j)
      OBVIOUS
    <3>1. CASE j = 0
      BY <2>3, <3>1
    <3>2. CASE j # 0
      <4>1. j \in 1 .. len
        BY <1>1, <3>2
      <4>2. QED
        BY <2>4, <3>2, <4>1, Zenon DEF Step
    <3>3. QED
      BY <3>1, <3>2
  <2> HIDE DEF KeptAt
  <2>6. h = [j \in 0 .. len |-> KeptAt(h, j)]
    BY <2>3, <2>5
  <2>7. QED
    BY <2>6
<1>5. f = [j \in 0 .. len |-> KeptAt(f, j)]
  BY <1>4
<1> HIDE DEF f, step
<1>6. f[0] = <<>> /\ \A j \in 1 .. len : f[j] = Step(j, f[j - 1])
  <2>1. \A j \in 0 .. len : f[j] = KeptAt(f, j)
    BY <1>5, Zenon
  <2>2. 0 \in 0 .. len /\ \A j \in 1 .. len : j \in 0 .. len /\ j # 0
    BY <1>1
  <2>3. QED
    BY <2>1, <2>2, Zenon
<1>7. \A j \in 0 .. len : f[j] \in Seq(S) /\ Keeps(seq, ids, j, f[j])
  <2> DEFINE Bad == {j \in 0 .. len : ~(f[j] \in Seq(S) /\ Keeps(seq, ids, j, f[j]))}
  <2> SUFFICES ASSUME Bad # {} PROVE FALSE
    OBVIOUS
  <2>1. PICK j \in Bad : \A i \in Bad : j <= i
    <3>1. Bad \in SUBSET Nat
      BY <1>1
    <3> HIDE DEF Bad
    <3>2. QED
      BY <3>1, LeastIndex
  <2>2. <<>> \in Seq(S) /\ Keeps(seq, ids, 0, <<>>)
    BY DEF Keeps, Distinct
  <2>3. j # 0
    BY <1>6, <2>1, <2>2
  <2>4. j \in 1 .. len /\ j - 1 \in 0 .. len /\ j - 1 \notin Bad
    <3>1. j \in 0 .. len
      BY <2>1
    <3> HIDE DEF Bad
    <3>2. QED
      BY <1>1, <2>1, <2>3, <3>1
  <2>5. f[j - 1] \in Seq(S) /\ Keeps(seq, ids, j - 1, f[j - 1]) /\ f[j] = Step(j, f[j - 1])
    BY <1>6, <2>4
  <2>6. f[j] \in Seq(S)
    BY <1>3, <2>4, <2>5, Zenon
  <2>7. Keeps(seq, ids, j, f[j])
    <3>1. j \in DOMAIN seq
      BY <1>1, <2>4, Zenon
    <3>2. CASE seq[j] \in ids
      BY <2>5, <3>1, <3>2, AppendKeeps, Zenon
    <3>3. CASE seq[j] \notin ids
      BY <2>5, <3>1, <3>3, SkipKeeps, Zenon
    <3>4. QED
      BY <3>2, <3>3
  <2>8. QED
    BY <2>1, <2>6, <2>7
<1> DEFINE result == f[len]
<1>8. result \in Seq(S) /\ Keeps(seq, ids, len, result)
  BY <1>1, <1>7
<1> HIDE DEF result
<1>9. ToSet(result) = ToSet(seq) \cap ids
  <2>1. ToSet(result) = {result[k] : k \in DOMAIN result} /\ ToSet(seq) = {seq[i] : i \in 1 .. len}
    BY <1>1, Zenon DEF ToSet
  <2>2. /\ \A k \in DOMAIN result : \E i \in 1 .. len : result[k] = seq[i] /\ seq[i] \in ids
        /\ \A i \in 1 .. len : seq[i] \in ids => \E k \in DOMAIN result : result[k] = seq[i]
    BY <1>8 DEF Keeps
  <2>3. QED
    BY <2>1, <2>2
<1>10. QED
  BY <1>2, <1>8, <1>9 DEF result, Keeps
-----------------------------------------------------------------------------
(* The packet *)

LEMMA PacketMembers ==
    /\ Decision # "ccp-evidence" /\ Decision # "ccp-caveat" /\ "ccp-evidence" # "ccp-caveat"
    /\ Unrelated \notin Packet /\ Packet \subseteq MemoryIds /\ Unrelated \in MemoryIds
    /\ DOMAIN LinkTargets = {1, 2} /\ ToSet(LinkTargets) = {"ccp-evidence", "ccp-caveat"}
<1>1. Packet \subseteq MemoryIds /\ Unrelated \in MemoryIds
  BY CcpAssumption
<1>2. DOMAIN LinkTargets = {1, 2}
  BY DEF LinkTargets
<1>3. LinkTargets[1] = "ccp-evidence" /\ LinkTargets[2] = "ccp-caveat"
  BY DEF LinkTargets
<1>4. ToSet(LinkTargets) = {"ccp-evidence", "ccp-caveat"}
  BY <1>2, <1>3 DEF ToSet
<1>5. QED
  BY <1>1, <1>2, <1>4 DEF Decision, Unrelated, Packet

\* A list of the packet's three memories has three places.
LEMMA ThreePlaces ==
    ASSUME NEW seq \in Seq(MemoryIds), Distinct(seq), ToSet(seq) = Packet
    PROVE  /\ Len(seq) = 3
           /\ {seq[1], seq[2], seq[3]} = Packet
           /\ seq[1] # seq[2] /\ seq[1] # seq[3] /\ seq[2] # seq[3]
<1> DEFINE x == Decision
           y == "ccp-evidence"
           z == "ccp-caveat"
<1>0. Packet = {x, y, z} /\ x # y /\ x # z /\ y # z
  BY PacketMembers DEF Packet
<1> HIDE DEF x, y, z
<1>1. DOMAIN seq = 1 .. Len(seq) /\ Len(seq) \in Nat
  OBVIOUS
<1>2. {x, y, z} = {seq[k] : k \in DOMAIN seq}
  BY <1>0 DEF ToSet
<1>3. PICK i \in DOMAIN seq, j \in DOMAIN seq, k \in DOMAIN seq :
        seq[i] = x /\ seq[j] = y /\ seq[k] = z
  BY <1>2
<1>4. DOMAIN seq = {i, j, k}
  <2>1. ASSUME NEW l \in DOMAIN seq PROVE l \in {i, j, k}
    <3>1. seq[l] = seq[i] \/ seq[l] = seq[j] \/ seq[l] = seq[k]
      BY <1>2, <1>3
    <3>2. QED
      BY <3>1 DEF Distinct
  <2>2. QED
    BY <2>1
<1>5. i # j /\ i # k /\ j # k
  BY <1>0, <1>3
<1>6. Len(seq) >= 3
  BY <1>1, <1>5
<1>7. ~(Len(seq) >= 4)
  <2> SUFFICES ASSUME Len(seq) >= 4 PROVE FALSE
    OBVIOUS
  <2>1. 1 \in DOMAIN seq /\ 2 \in DOMAIN seq /\ 3 \in DOMAIN seq /\ 4 \in DOMAIN seq
    BY <1>1
  <2>2. QED
    BY <1>4, <2>1
<1>8. Len(seq) = 3
  BY <1>1, <1>6, <1>7
<1>9. DOMAIN seq = {1, 2, 3}
  BY <1>1, <1>8
<1>10. {seq[1], seq[2], seq[3]} = {x, y, z}
  BY <1>2, <1>9
<1>11. seq[1] # seq[2] /\ seq[1] # seq[3] /\ seq[2] # seq[3]
  BY <1>9 DEF Distinct
<1>12. QED
  BY <1>0, <1>8, <1>10, <1>11

\* Three texts and the two newlines between them.
LEMMA ThreeJoined ==
    ASSUME NEW sizes, DOMAIN sizes = 1 .. 3, Len(sizes) = 3
    PROVE  JoinedChars(sizes) = sizes[1] + 1 + sizes[2] + 1 + sizes[3]
<1> DEFINE JoinedAt(f, j) == IF j = 0 THEN 0
                             ELSE IF j = 1 THEN sizes[1] ELSE f[j - 1] + 1 + sizes[j]
           f == CHOOSE h : h = [j \in 0 .. Len(sizes) |-> JoinedAt(h, j)]
           two == sizes[1] + 1 + sizes[2]
           three == two + 1 + sizes[3]
           g == [j \in 0 .. 3 |-> IF j = 0 THEN 0 ELSE IF j = 1 THEN sizes[1]
                                  ELSE IF j = 2 THEN two ELSE three]
<1>1. JoinedChars(sizes) = f[Len(sizes)]
  BY DEF JoinedChars
<1>2. g = [j \in 0 .. 3 |-> JoinedAt(g, j)]
  <2>1. g[0] = 0 /\ g[1] = sizes[1] /\ g[2] = two /\ g[3] = three
    OBVIOUS
  <2> HIDE DEF g
  <2>2. JoinedAt(g, 0) = 0 /\ JoinedAt(g, 1) = sizes[1] /\ JoinedAt(g, 2) = two /\ JoinedAt(g, 3) = three
    BY <2>1
  <2>3. 0 .. 3 = {0, 1, 2, 3}
    OBVIOUS
  <2> HIDE DEF JoinedAt
  <2>4. \A j \in 0 .. 3 : g[j] = JoinedAt(g, j)
    BY <2>1, <2>2, <2>3
  <2>5. g = [j \in 0 .. 3 |-> g[j]]
    BY DEF g
  <2>6. QED
    BY <2>4, <2>5
<1>3. f = [j \in 0 .. 3 |-> JoinedAt(f, j)]
  BY <1>2
<1> HIDE DEF f, g
<1>4. f[1] = sizes[1] /\ f[2] = f[1] + 1 + sizes[2] /\ f[3] = f[2] + 1 + sizes[3]
  BY <1>3
<1>5. QED
  BY <1>1, <1>4

\* The order of the packet does not change its size.
LEMMA PacketSize ==
    ASSUME NEW seq \in Seq(MemoryIds), Distinct(seq), ToSet(seq) = Packet
    PROVE  Len(seq) = 3 /\ TokensOf(seq) = PacketTokens
<1> DEFINE Chars(id) == Memory[id].chars
           total == Chars(Decision) + Chars("ccp-evidence") + Chars("ccp-caveat") + 2
<1>1. ASSUME NEW s \in Seq(MemoryIds), Distinct(s), ToSet(s) = Packet
      PROVE  Len(s) = 3 /\ TokensOf(s) = TokenEstimate(total)
  <2> DEFINE sizes == [k \in DOMAIN s |-> Chars(s[k])]
  <2>1. /\ Len(s) = 3 /\ {s[1], s[2], s[3]} = Packet
        /\ s[1] # s[2] /\ s[1] # s[3] /\ s[2] # s[3]
    BY <1>1, ThreePlaces
  <2>2. DOMAIN s = 1 .. 3
    BY <2>1
  <2>3. JoinedChars(sizes) = sizes[1] + 1 + sizes[2] + 1 + sizes[3]
    <3>1. DOMAIN sizes = 1 .. 3 /\ Len(sizes) = 3
      BY <2>2
    <3> HIDE DEF sizes
    <3>2. QED
      BY <3>1, ThreeJoined
  <2>4. sizes[1] = Chars(s[1]) /\ sizes[2] = Chars(s[2]) /\ sizes[3] = Chars(s[3])
    BY <2>2
  <2>5. \A id \in Packet : Chars(id) \in Nat
    BY CcpAssumption
  <2>6. TokensOf(s) = TokenEstimate(JoinedChars(sizes))
    BY DEF TokensOf
  <2> HIDE DEF Chars, sizes
  <2>7. JoinedChars(sizes) = total
    <3> DEFINE a == s[1]
               b == s[2]
               c == s[3]
    <3>1. {a, b, c} = Packet /\ a # b /\ a # c /\ b # c
      BY <2>1
    <3>2. JoinedChars(sizes) = Chars(a) + 1 + Chars(b) + 1 + Chars(c)
      BY <2>3, <2>4
    <3> HIDE DEF a, b, c
    <3>3. Chars(a) + 1 + Chars(b) + 1 + Chars(c) = total
      <4>1. /\ a \in {Decision, "ccp-evidence", "ccp-caveat"}
            /\ b \in {Decision, "ccp-evidence", "ccp-caveat"}
            /\ c \in {Decision, "ccp-evidence", "ccp-caveat"}
        BY <3>1 DEF Packet
      <4>2. /\ Chars(Decision) \in Nat /\ Chars("ccp-evidence") \in Nat
            /\ Chars("ccp-caveat") \in Nat
        BY <2>5 DEF Packet
      <4>3. QED
        BY <3>1, <4>1, <4>2
    <3>4. QED
      BY <3>2, <3>3
  <2>8. QED
    BY <2>1, <2>6, <2>7
<1>2. PacketOrder \in Seq(MemoryIds) /\ Distinct(PacketOrder) /\ ToSet(PacketOrder) = Packet
  <2>1. FixtureOrder \in Seq(MemoryIds) /\ Distinct(FixtureOrder) /\ ToSet(FixtureOrder) = MemoryIds
    BY CcpAssumption DEF MemoryIds
  <2>2. MemoryIds \cap Packet = Packet
    BY PacketMembers
  <2>3. QED
    <3>1. /\ Filtered(FixtureOrder, Packet) \in Seq(MemoryIds)
          /\ ToSet(Filtered(FixtureOrder, Packet)) = ToSet(FixtureOrder) \cap Packet
          /\ Distinct(Filtered(FixtureOrder, Packet))
      BY <2>1, FilteredType, Zenon
    <3>2. QED
      BY <2>1, <2>2, <3>1 DEF PacketOrder
<1>3. QED
  BY <1>1, <1>2 DEF PacketTokens
-----------------------------------------------------------------------------
(* The verdict on an answer *)

AnswerShapes == {"object", "list", "single", "other"}

\* Memories of the fixture, none of them twice.
AnswerOK(ans) ==
    /\ ans.seen \in Seq(MemoryIds) /\ Distinct(ans.seen)
    /\ ans.associated \subseteq MemoryIds
    /\ ans.meta \in BOOLEAN /\ ans.shape \in AnswerShapes

LEMMA NoAnswerOK == AnswerOK(NoAnswer)
BY DEF AnswerOK, NoAnswer, Distinct, AnswerShapes

LEMMA AnswersOK ==
    ASSUME StoredIds \subseteq MemoryIds, links \subseteq ToSet(LinkTargets),
           NEW scenario, NEW ans \in Answers(scenario)
    PROVE  AnswerOK(ans)
<1>1. PICK ids \in SUBSET StoredIds :
        ans \in {[seen |-> Filtered(ranking, ids), associated |-> assoc,
                  meta |-> meta, shape |-> shape] :
                    assoc \in SUBSET (IF Associated(scenario) THEN Neighbours(ids) ELSE {}),
                    meta \in BOOLEAN, shape \in Shapes, ranking \in Rankings}
  BY DEF Answers
<1>2. PICK assoc \in SUBSET (IF Associated(scenario) THEN Neighbours(ids) ELSE {}),
           meta \in BOOLEAN, shape \in Shapes, ranking \in Rankings :
        ans = [seen |-> Filtered(ranking, ids), associated |-> assoc,
               meta |-> meta, shape |-> shape]
  BY <1>1
<1>3. Neighbours(ids) \subseteq MemoryIds
  <2>1. ToSet(LinkTargets) \subseteq MemoryIds /\ Decision \in MemoryIds
    BY PacketMembers DEF Packet
  <2>2. QED
    BY <2>1 DEF Neighbours
<1>4. assoc \subseteq MemoryIds
  BY <1>3
<1>5. ranking \in Seq(MemoryIds) /\ Distinct(ranking) /\ shape \in AnswerShapes
  BY CcpAssumption DEF AnswerShapes
<1>6. Filtered(ranking, ids) \in Seq(MemoryIds) /\ Distinct(Filtered(ranking, ids))
  BY <1>5, FilteredType
<1>7. QED
  BY <1>2, <1>4, <1>5, <1>6 DEF AnswerOK

\* What is read of an answer is in it; of an object, everything is.
LEMMA ReadAnswer ==
    ASSUME NEW ans, AnswerOK(ans)
    PROVE  /\ ToSet(RecalledMemories(ans)) \subseteq ToSet(ans.seen)
           /\ AssociatedMemories(ans) \subseteq ans.associated \cup ToSet(ans.seen)
           /\ ans.shape \in {"object", "list"} => RecalledMemories(ans) = ans.seen
           /\ ans.shape = "object" => AssociatedMemories(ans) = ans.associated
<1>1. ans.shape \in {"object", "list"} => RecalledMemories(ans) = ans.seen
  BY DEF RecalledMemories
<1>2. ToSet(RecalledMemories(ans)) \subseteq ToSet(ans.seen)
  <2>1. CASE ans.shape \in {"object", "list"}
    BY <1>1, <2>1
  <2>2. CASE ans.shape = "single"
    <3> DEFINE seq == ans.seen
               count == IF Len(seq) < 1 THEN Len(seq) ELSE 1
               sub == SubSeq(seq, 1, count)
    <3>1. seq \in Seq(MemoryIds)
      BY DEF AnswerOK
    <3>2. RecalledMemories(ans) = sub
      BY <2>2 DEF RecalledMemories, Take
    <3> HIDE DEF seq
    <3>3. DOMAIN sub \subseteq DOMAIN seq /\ \A k \in DOMAIN sub : sub[k] = seq[k]
      BY <3>1
    <3>4. ToSet(sub) \subseteq ToSet(seq)
      <4> HIDE DEF sub
      <4>1. QED
        BY <3>3 DEF ToSet
    <3>5. QED
      BY <3>2, <3>4 DEF seq
  <2>3. CASE ans.shape = "other"
    <3>1. RecalledMemories(ans) = <<>>
      BY <2>3 DEF RecalledMemories
    <3>2. ToSet(<<>>) = {}
      BY DEF ToSet
    <3>3. QED
      BY <3>1, <3>2
  <2>4. QED
    BY <2>1, <2>2, <2>3 DEF AnswerOK, AnswerShapes
<1>3. QED
  BY <1>1, <1>2 DEF AssociatedMemories

RecalledIds(ans) == {FixtureId(id, ans.meta) : id \in ToSet(RecalledMemories(ans))}
AssociatedIds(ans) == {FixtureId(id, ans.meta) : id \in AssociatedMemories(ans)}

\* The metadata names a memory; the engine's own id names none of the fixture.
LEMMA Known ==
    ASSUME NEW ans, AnswerOK(ans)
    PROVE  /\ ans.meta => /\ RecalledIds(ans) = ToSet(RecalledMemories(ans))
                          /\ AssociatedIds(ans) = AssociatedMemories(ans)
           /\ ~ans.meta => /\ RecalledIds(ans) \subseteq {"runtime id"}
                           /\ AssociatedIds(ans) \subseteq {"runtime id"}
<1>1. \A id : FixtureId(id, ans.meta) = IF ans.meta THEN id ELSE "runtime id"
  BY DEF FixtureId
<1>2. CASE ans.meta
  BY <1>1, <1>2 DEF RecalledIds, AssociatedIds
<1>3. CASE ~ans.meta
  BY <1>1, <1>3 DEF RecalledIds, AssociatedIds
<1>4. QED
  BY <1>2, <1>3

\* A verdict, with what it is read from named.
LEMMA VerdictCases ==
    ASSUME NEW scenario, NEW ans
    PROVE  /\ scenario.id = "namespace-agent-isolation" =>
                (EvaluateRuntime(scenario, ans) <=> scenario.expected \notin RecalledIds(ans))
           /\ scenario.id = "token-economy" =>
                (EvaluateRuntime(scenario, ans) <=>
                    /\ scenario.expected \in RecalledIds(ans) \cup AssociatedIds(ans)
                    /\ RecallOk(scenario, RecalledIds(ans), AssociatedIds(ans))
                    /\ TokensOf(Take(RecalledMemories(ans), 3)) < FullTokens)
           /\ scenario.id \notin {"namespace-agent-isolation", "token-economy"} =>
                (EvaluateRuntime(scenario, ans) <=>
                    /\ scenario.expected \in RecalledIds(ans) \cup AssociatedIds(ans)
                    /\ RecallOk(scenario, RecalledIds(ans), AssociatedIds(ans))
                    /\ ClassifyCcp(Reliability(scenario.expected, ans.meta)) = scenario.action
                    /\ AssociatedOk(scenario, RecalledIds(ans), AssociatedIds(ans)))
BY DEF EvaluateRuntime, RecalledIds, AssociatedIds

\* What VerdictsHold says of a scenario and an answer.
VerdictMeans(scenario, ans) ==
    LET passed == EvaluateRuntime(scenario, ans)
        seen == ToSet(ans.seen)
        isolation == scenario.id = "namespace-agent-isolation"
    IN /\ (/\ passed /\ isolation /\ EvaluateStatic(scenario)
           /\ ans.meta /\ ans.shape \in {"object", "list"}) => Unrelated \notin seen
       /\ (passed /\ ~isolation) =>
             ans.meta /\ scenario.expected \in seen \cup ans.associated
       /\ (passed /\ scenario.id = "basic-handoff") =>
             ToSet(LinkTargets) \subseteq seen \cup ans.associated
       /\ (/\ ans.shape = "object" /\ ans.meta
           /\ seen = Packet /\ ToSet(LinkTargets) \subseteq ans.associated
           /\ scenario.expected \in Packet) =>
             (passed <=> EvaluateStatic(scenario))

LEMMA PassIsRecalled ==
    ASSUME NEW scenario, scenario.expected # "runtime id", NEW ans, AnswerOK(ans),
           EvaluateRuntime(scenario, ans), scenario.id # "namespace-agent-isolation"
    PROVE  /\ ans.meta /\ scenario.expected \in ToSet(ans.seen) \cup ans.associated
           /\ scenario.id = "basic-handoff" =>
                 ToSet(LinkTargets) \subseteq ToSet(ans.seen) \cup ans.associated
<1> DEFINE recalled == RecalledIds(ans)
           associated == AssociatedIds(ans)
<1>1. ans.meta \in BOOLEAN
  BY DEF AnswerOK
<1>2. /\ ans.meta => /\ recalled = ToSet(RecalledMemories(ans))
                     /\ associated = AssociatedMemories(ans)
      /\ ~ans.meta => recalled \subseteq {"runtime id"} /\ associated \subseteq {"runtime id"}
  BY Known
<1>3. /\ scenario.expected \in recalled \cup associated
      /\ scenario.id = "basic-handoff" => AssociatedOk(scenario, recalled, associated)
  <2>1. CASE scenario.id = "token-economy"
    BY <2>1, VerdictCases
  <2>2. CASE scenario.id # "token-economy"
    BY <2>2, VerdictCases
  <2>3. QED
    BY <2>1, <2>2
<1> HIDE DEF recalled, associated
<1>4. ans.meta
  BY <1>1, <1>2, <1>3
<1>5. recalled \cup associated \subseteq ToSet(ans.seen) \cup ans.associated
  BY <1>2, <1>4, ReadAnswer
<1>6. scenario.id = "basic-handoff" => ToSet(LinkTargets) \subseteq associated
  BY <1>3 DEF AssociatedOk
<1>7. QED
  BY <1>3, <1>4, <1>5, <1>6

LEMMA PacketVerdict ==
    ASSUME NEW scenario, NEW ans, AnswerOK(ans), ans.shape = "object", ans.meta,
           ToSet(ans.seen) = Packet, ToSet(LinkTargets) \subseteq ans.associated,
           scenario.expected \in Packet
    PROVE  EvaluateRuntime(scenario, ans) <=> EvaluateStatic(scenario)
<1> DEFINE seen == ToSet(ans.seen)
           assoc == ans.associated
<1>1. seen = RecalledIds(ans)
  BY ReadAnswer, Known
<1>2. assoc = AssociatedIds(ans)
  BY ReadAnswer, Known
<1>3. /\ scenario.expected \in MemoryIds /\ scenario.expected # Unrelated
      /\ scenario.expected \in seen
  BY PacketMembers
<1>4. /\ scenario.expected \in seen \cup assoc
      /\ RecallOk(scenario, seen, assoc)
      /\ AssociatedOk(scenario, seen, assoc)
  <2>1. "ccp-caveat" \in seen /\ "ccp-evidence" \in assoc
    BY PacketMembers DEF Packet
  <2>2. QED
    BY <1>3, <2>1 DEF RecallOk, AssociatedOk
<1>5. Reliability(scenario.expected, ans.meta) = Memory[scenario.expected]
  BY DEF Reliability
<1>6. TokensOf(Take(RecalledMemories(ans), 3)) = PacketTokens
  <2>1. RecalledMemories(ans) = ans.seen
    BY ReadAnswer
  <2>2. ans.seen \in Seq(MemoryIds) /\ Distinct(ans.seen)
    BY DEF AnswerOK
  <2>3. Len(ans.seen) = 3 /\ TokensOf(ans.seen) = PacketTokens
    BY <2>2, PacketSize
  <2>4. Take(ans.seen, 3) = ans.seen
    BY <2>2, <2>3, SubSeqFull DEF Take
  <2>5. QED
    BY <2>1, <2>3, <2>4
<1> HIDE DEF seen, assoc
<1>7. CASE scenario.id = "namespace-agent-isolation"
  <2>1. ~EvaluateRuntime(scenario, ans)
    BY <1>1, <1>2, <1>3, <1>7, VerdictCases
  <2>2. ~EvaluateStatic(scenario)
    BY <1>3, <1>7 DEF EvaluateStatic
  <2>3. QED
    BY <2>1, <2>2
<1>8. CASE scenario.id = "token-economy"
  <2>1. EvaluateRuntime(scenario, ans) <=> PacketTokens < FullTokens
    BY <1>1, <1>2, <1>4, <1>6, <1>8, VerdictCases
  <2>2. EvaluateStatic(scenario) <=> PacketTokens < FullTokens
    BY <1>3, <1>8 DEF EvaluateStatic
  <2>3. QED
    BY <2>1, <2>2
<1>9. CASE scenario.id \notin {"namespace-agent-isolation", "token-economy"}
  <2>1. EvaluateRuntime(scenario, ans) <=>
          ClassifyCcp(Memory[scenario.expected]) = scenario.action
    BY <1>1, <1>2, <1>4, <1>5, <1>9, VerdictCases
  <2>2. EvaluateStatic(scenario) <=> ClassifyCcp(Memory[scenario.expected]) = scenario.action
    BY <1>3, <1>9 DEF EvaluateStatic
  <2>3. QED
    BY <2>1, <2>2
<1>10. QED
  BY <1>7, <1>8, <1>9

LEMMA VerdictMeansWhatItSays ==
    ASSUME NEW scenario, scenario.expected # "runtime id", NEW ans, AnswerOK(ans)
    PROVE  VerdictMeans(scenario, ans)
<1> DEFINE isolation == scenario.id = "namespace-agent-isolation"
<1>1. ASSUME EvaluateRuntime(scenario, ans), isolation, EvaluateStatic(scenario),
             ans.meta, ans.shape \in {"object", "list"}
      PROVE  Unrelated \notin ToSet(ans.seen)
  <2>1. RecalledIds(ans) = ToSet(ans.seen)
    BY <1>1, ReadAnswer, Known
  <2>2. scenario.expected = Unrelated
    BY <1>1 DEF EvaluateStatic
  <2>3. scenario.expected \notin RecalledIds(ans)
    BY <1>1, VerdictCases
  <2>4. QED
    BY <2>1, <2>2, <2>3
<1>2. EvaluateRuntime(scenario, ans) /\ ~isolation =>
        /\ ans.meta /\ scenario.expected \in ToSet(ans.seen) \cup ans.associated
        /\ scenario.id = "basic-handoff" =>
              ToSet(LinkTargets) \subseteq ToSet(ans.seen) \cup ans.associated
  BY PassIsRecalled
<1>3. (/\ ans.shape = "object" /\ ans.meta
       /\ ToSet(ans.seen) = Packet /\ ToSet(LinkTargets) \subseteq ans.associated
       /\ scenario.expected \in Packet) =>
         (EvaluateRuntime(scenario, ans) <=> EvaluateStatic(scenario))
  BY PacketVerdict
<1>4. QED
  BY <1>1, <1>2, <1>3 DEF VerdictMeans
-----------------------------------------------------------------------------
(* The run *)

\* How far the loops have got: the memories and the links before the n-th are
\* in place, all of them once the loop is over, and the session stays open.
SeedInv ==
    /\ pc \in {"store", "link", "list", "recall", "judge"} => session = "open"
    /\ pc = "store" => \A j \in 1 .. n - 1 : StoredMemory(StoreOrder[j]) \in stored
    /\ pc \in {"link", "list", "recall", "judge"} =>
         \A j \in DOMAIN StoreOrder : StoredMemory(StoreOrder[j]) \in stored
    /\ pc = "link" => \A j \in 1 .. n - 1 : LinkTargets[j] \in links
    /\ pc \in {"list", "recall", "judge"} => ToSet(LinkTargets) \subseteq links

HandoffInv == CcpTypeOK /\ AnswerOK(answer) /\ SeedInv

LEMMA StoreOrderType ==
    /\ StoreOrder \in Seq(MemoryIds) /\ DOMAIN StoreOrder = 1 .. Len(StoreOrder)
    /\ Len(StoreOrder) \in Nat /\ Len(StoreOrder) >= 1
    /\ \A id \in MemoryIds : \E j \in DOMAIN StoreOrder : StoreOrder[j] = id
<1> DEFINE others == Filtered(FixtureOrder, MemoryIds \ {Unrelated})
           len == Len(others)
<1>1. /\ others \in Seq(MemoryIds)
      /\ ToSet(others) = ToSet(FixtureOrder) \cap (MemoryIds \ {Unrelated})
  BY CcpAssumption, FilteredType
<1>2. StoreOrder = Append(others, Unrelated) /\ Unrelated \in MemoryIds
  BY CcpAssumption DEF StoreOrder
<1> HIDE DEF others
<1>3. /\ StoreOrder \in Seq(MemoryIds) /\ len \in Nat /\ Len(StoreOrder) = len + 1
      /\ DOMAIN StoreOrder = 1 .. len + 1 /\ DOMAIN others = 1 .. len
      /\ StoreOrder[len + 1] = Unrelated /\ \A j \in 1 .. len : StoreOrder[j] = others[j]
  BY <1>1, <1>2
<1>4. ASSUME NEW id \in MemoryIds PROVE \E j \in DOMAIN StoreOrder : StoreOrder[j] = id
  <2>1. CASE id = Unrelated
    <3>1. len + 1 \in DOMAIN StoreOrder
      BY <1>3
    <3>2. QED
      BY <1>3, <2>1, <3>1
  <2>2. CASE id # Unrelated
    <3>1. id \in ToSet(others)
      BY <1>1, <2>2 DEF MemoryIds
    <3>2. PICK j \in DOMAIN others : others[j] = id
      BY <3>1 DEF ToSet
    <3>3. j \in DOMAIN StoreOrder /\ StoreOrder[j] = id
      BY <1>3, <3>2
    <3>4. QED
      BY <3>3
  <2>3. QED
    BY <2>1, <2>2
<1>5. QED
  BY <1>3, <1>4

LEMMA StoredMemoryType ==
    ASSUME NEW id \in MemoryIds
    PROVE  StoredMemory(id) \in [id : MemoryIds, agent : {"a", "unrelated"}, inSession : BOOLEAN]
BY DEF StoredMemory

LEMMA ScenarioIndices ==
    /\ DOMAIN Scenarios = 1 .. Len(Scenarios) /\ Len(Scenarios) \in Nat /\ 1 \in DOMAIN Scenarios
<1>1. Scenarios \in Seq(ToSet(Scenarios)) /\ Scenarios # <<>>
  BY CcpAssumption
<1>2. QED
  BY <1>1

LEMMA LinkIndices ==
    /\ DOMAIN LinkTargets = 1 .. 2 /\ Len(LinkTargets) = 2
    /\ \A j \in DOMAIN LinkTargets : LinkTargets[j] \in ToSet(LinkTargets)
    /\ \A S : LinkTargets[1] \in S /\ LinkTargets[2] \in S => ToSet(LinkTargets) \subseteq S
<1>1. DOMAIN LinkTargets = 1 .. 2 /\ Len(LinkTargets) = 2
  BY DEF LinkTargets
<1>2. QED
  BY <1>1 DEF ToSet

LEMMA HandoffInvInit == Init => HandoffInv
<1> SUFFICES ASSUME Init PROVE HandoffInv
  OBVIOUS
<1>1. AnswerOK(answer)
  BY NoAnswerOK DEF Init
<1>2. answer.meta \in BOOLEAN /\ answer.associated \subseteq MemoryIds
  BY <1>1 DEF AnswerOK
<1>3. CcpTypeOK /\ SeedInv
  BY <1>2 DEF Init, CcpTypeOK, SeedInv
<1>4. QED
  BY <1>1, <1>3 DEF HandoffInv

LEMMA HandoffInvNext == HandoffInv /\ [Next]_vars => HandoffInv'
<1> SUFFICES ASSUME HandoffInv, [Next]_vars PROVE HandoffInv'
  OBVIOUS
<1>1. CcpTypeOK /\ AnswerOK(answer) /\ SeedInv
  BY DEF HandoffInv
\* A step that takes no answer has only the loops to account for.
<1>2. ASSUME UNCHANGED answer, CcpTypeOK', SeedInv' PROVE HandoffInv'
  BY <1>1, <1>2 DEF HandoffInv, AnswerOK
<1> USE DEF engine, Goto, Exit, Raise, Finish
<1>3. CASE SelfTest
  BY <1>1, <1>2, <1>3 DEF SelfTest, CcpTypeOK, SeedInv
<1>4. CASE RunRuntimeValidation
  BY <1>1, <1>2, <1>4 DEF RunRuntimeValidation, CcpTypeOK, SeedInv
<1>5. CASE Ready
  BY <1>1, <1>2, <1>5 DEF Ready, CcpTypeOK, SeedInv
<1>6. CASE NotReady
  BY <1>1, <1>2, <1>6 DEF NotReady, CcpTypeOK, SeedInv
<1>7. CASE StartSession
  BY <1>1, <1>2, <1>7, StoreOrderType DEF StartSession, CcpTypeOK, SeedInv
<1>8. CASE StartFails
  BY <1>1, <1>2, <1>8 DEF StartFails, CcpTypeOK, SeedInv
<1>9. CASE StoreMemory
  <2> DEFINE mem == StoredMemory(StoreOrder[n])
  <2>1. n \in 1 .. Len(StoreOrder) /\ n \in Nat
    BY <1>1, <1>9, StoreOrderType DEF StoreMemory, CcpTypeOK
  <2>2. mem \in [id : MemoryIds, agent : {"a", "unrelated"}, inSession : BOOLEAN]
    BY <2>1, StoreOrderType, StoredMemoryType
  <2> HIDE DEF mem
  <2>3. stored' = stored \cup {mem}
    BY <1>9 DEF StoreMemory, mem
  <2>4. CcpTypeOK'
    <3>1. CASE n < Len(StoreOrder)
      <4>1. n + 1 \in DOMAIN StoreOrder
        BY <2>1, <3>1, StoreOrderType
      <4>2. QED
        BY <1>1, <1>9, <2>2, <2>3, <3>1, <4>1 DEF StoreMemory, CcpTypeOK
    <3>2. CASE ~(n < Len(StoreOrder))
      BY <1>1, <1>9, <2>2, <2>3, <3>2, LinkIndices DEF StoreMemory, CcpTypeOK
    <3>3. QED
      BY <3>1, <3>2
  <2>5. \A j \in 1 .. n : StoredMemory(StoreOrder[j]) \in stored'
    <3>1. \A j \in 1 .. n : j = n \/ j \in 1 .. n - 1
      BY <2>1
    <3>2. QED
      BY <1>1, <1>9, <2>3, <3>1 DEF StoreMemory, SeedInv, mem
  <2>6. SeedInv'
    <3>1. CASE n < Len(StoreOrder)
      <4>1. pc' = "store" /\ n' - 1 = n
        BY <1>9, <2>1, <3>1 DEF StoreMemory
      <4>2. session' = "open"
        BY <1>1, <1>9 DEF StoreMemory, SeedInv
      <4>3. QED
        BY <2>5, <4>1, <4>2 DEF SeedInv
    <3>2. CASE ~(n < Len(StoreOrder))
      <4>1. \A j \in DOMAIN StoreOrder : j \in 1 .. n
        BY <2>1, <3>2, StoreOrderType
      <4>2. pc' = "link" /\ n' = 1
        BY <1>9, <3>2 DEF StoreMemory
      <4>3. session' = "open"
        BY <1>1, <1>9 DEF StoreMemory, SeedInv
      <4>4. QED
        BY <2>5, <4>1, <4>2, <4>3 DEF SeedInv
    <3>3. QED
      BY <3>1, <3>2
  <2>7. QED
    BY <1>2, <1>9, <2>4, <2>6 DEF StoreMemory
<1>10. CASE LinkMemory
  <2>1. n \in 1 .. 2 /\ LinkTargets[n] \in ToSet(LinkTargets)
    BY <1>1, <1>10, LinkIndices DEF LinkMemory, CcpTypeOK
  <2>2. CcpTypeOK'
    <3>1. CASE n < Len(LinkTargets)
      <4>1. n + 1 \in DOMAIN LinkTargets
        BY <2>1, <3>1, LinkIndices
      <4>2. QED
        BY <1>1, <1>10, <2>1, <3>1, <4>1 DEF LinkMemory, CcpTypeOK
    <3>2. CASE ~(n < Len(LinkTargets))
      BY <1>1, <1>10, <2>1, <3>2 DEF LinkMemory, CcpTypeOK
    <3>3. QED
      BY <3>1, <3>2
  <2>3. \A j \in 1 .. n : LinkTargets[j] \in links'
    <3>1. \A j \in 1 .. n : j = n \/ j \in 1 .. n - 1
      BY <2>1
    <3>2. QED
      BY <1>1, <1>10, <3>1 DEF LinkMemory, SeedInv
  <2>4. SeedInv'
    <3>1. CASE n < Len(LinkTargets)
      <4>1. pc' = "link" /\ n' - 1 = n
        BY <1>10, <2>1, <3>1 DEF LinkMemory
      <4>2. session' = "open" /\ \A j \in DOMAIN StoreOrder : StoredMemory(StoreOrder[j]) \in stored'
        BY <1>1, <1>10 DEF LinkMemory, SeedInv
      <4>3. QED
        BY <2>3, <4>1, <4>2 DEF SeedInv
    <3>2. CASE ~(n < Len(LinkTargets))
      <4>1. n = 2 /\ 1 \in 1 .. n /\ 2 \in 1 .. n
        BY <2>1, <3>2, LinkIndices
      <4>2. ToSet(LinkTargets) \subseteq links'
        BY <2>3, <4>1, LinkIndices
      <4>3. QED
        BY <1>1, <1>10, <3>2, <4>2 DEF LinkMemory, SeedInv
    <3>3. QED
      BY <3>1, <3>2
  <2>5. QED
    BY <1>2, <1>10, <2>2, <2>4 DEF LinkMemory
<1>11. CASE SessionMemories
  <2>1. sessionProof' \in BOOLEAN
    BY <1>11 DEF SessionMemories
  <2>2. QED
    BY <1>1, <1>2, <1>11, <2>1, ScenarioIndices DEF SessionMemories, CcpTypeOK, SeedInv
<1>12. CASE Recall
  <2>1. StoredIds \subseteq MemoryIds /\ links \subseteq ToSet(LinkTargets)
    BY <1>1 DEF CcpTypeOK, StoredIds
  <2>2. AnswerOK(answer')
    BY <1>12, <2>1, AnswersOK DEF Recall
  <2>3. answer'.meta \in BOOLEAN /\ answer'.associated \subseteq MemoryIds
    BY <2>2 DEF AnswerOK
  <2>4. CcpTypeOK' /\ SeedInv'
    BY <1>1, <1>12, <2>3 DEF Recall, CcpTypeOK, SeedInv
  <2>5. AnswerOK(answer)'
    BY <2>2 DEF AnswerOK
  <2>6. QED
    BY <2>4, <2>5 DEF HandoffInv
<1>13. CASE Judge
  <2>1. AnswerOK(answer') /\ answer'.meta \in BOOLEAN /\ answer'.associated \subseteq MemoryIds
    BY <1>13, NoAnswerOK DEF Judge, AnswerOK
  <2>2. allPassed' \in BOOLEAN
    BY <1>13 DEF Judge
  <2>3. CcpTypeOK'
    <3>1. CASE HasMoreScenarios
      <4>1. n + 1 \in DOMAIN Scenarios
        BY <1>1, <1>13, <3>1, ScenarioIndices DEF Judge, CcpTypeOK, HasMoreScenarios
      <4>2. QED
        BY <1>1, <1>13, <2>1, <2>2, <3>1, <4>1 DEF Judge, CcpTypeOK
    <3>2. CASE ~HasMoreScenarios
      <4>1. n \in Nat
        BY <1>1, <1>13, ScenarioIndices DEF Judge, CcpTypeOK
      <4>2. QED
        BY <1>1, <1>13, <2>1, <2>2, <3>2, <4>1 DEF Judge, CcpTypeOK
    <3>3. QED
      BY <3>1, <3>2
  <2>4. SeedInv'
    BY <1>1, <1>13 DEF Judge, SeedInv
  <2>5. AnswerOK(answer)'
    BY <2>1 DEF AnswerOK
  <2>6. QED
    BY <2>3, <2>4, <2>5 DEF HandoffInv
<1>14. CASE RequestFails
  <2>1. n \in Nat
    BY <1>1, <1>14, StoreOrderType, ScenarioIndices, LinkIndices DEF RequestFails, CcpTypeOK
  <2>2. CASE pc = "store"
    <3>1. StoreOrder[n] \in MemoryIds
      BY <1>1, <2>2, StoreOrderType DEF CcpTypeOK
    <3>2. StoredMemory(StoreOrder[n]) \in
            [id : MemoryIds, agent : {"a", "unrelated"}, inSession : BOOLEAN]
      BY <3>1, StoredMemoryType
    <3>3. QED
      BY <1>1, <1>2, <1>14, <2>1, <2>2, <3>2 DEF RequestFails, CcpTypeOK, SeedInv
  <2>3. CASE pc = "link"
    <3>1. LinkTargets[n] \in ToSet(LinkTargets)
      BY <1>1, <2>3, LinkIndices DEF CcpTypeOK
    <3>2. QED
      BY <1>1, <1>2, <1>14, <2>1, <2>3, <3>1 DEF RequestFails, CcpTypeOK, SeedInv
  <2>4. CASE pc \in {"list", "recall"}
    BY <1>1, <1>2, <1>14, <2>1, <2>4 DEF RequestFails, CcpTypeOK, SeedInv
  <2>5. QED
    BY <1>14, <2>2, <2>3, <2>4 DEF RequestFails
<1>15. CASE EndSession
  BY <1>1, <1>2, <1>15 DEF EndSession, CcpTypeOK, SeedInv
<1>16. CASE EndFails
  BY <1>1, <1>2, <1>16 DEF EndFails, CcpTypeOK, SeedInv
<1>17. CASE Exited \/ UNCHANGED vars
  BY <1>1, <1>2, <1>17 DEF Exited, vars, CcpTypeOK, SeedInv
<1>18. QED
  BY <1>3, <1>4, <1>5, <1>6, <1>7, <1>8, <1>9, <1>10, <1>11, <1>12, <1>13, <1>14,
     <1>15, <1>16, <1>17 DEF Next

LEMMA HandoffInvAlways == Spec => []HandoffInv
BY HandoffInvInit, HandoffInvNext, PTL DEF Spec

-----------------------------------------------------------------------------
(* Type correctness. *)
THEOREM CcpTypeCorrect == Spec => []CcpTypeOK
<1>1. HandoffInv => CcpTypeOK
  BY DEF HandoffInv
<1>2. QED
  BY <1>1, HandoffInvAlways, PTL

(* No scenario is judged before all the others depend on is in place, whatever *)
(* was lost on the way: run_runtime_validation gives up at the first request   *)
(* that fails.                                                                 *)
THEOREM JudgedAfterSeeding == Spec => []SeededBeforeJudged
<1>1. HandoffInv => SeededBeforeJudged
  <2> SUFFICES ASSUME HandoffInv, pc = "judge" PROVE SeededBeforeJudged
    BY DEF SeededBeforeJudged
  <2>1. session = "open" /\ links = ToSet(LinkTargets)
    BY DEF HandoffInv, SeedInv, CcpTypeOK
  <2>2. ASSUME NEW id \in MemoryIds
        PROVE  \E mem \in stored : mem.id = id /\ ((mem.agent = "a") <=> (id # Unrelated))
                                                /\ (mem.inSession <=> (id # Unrelated))
    <3>1. PICK j \in DOMAIN StoreOrder : StoreOrder[j] = id
      BY StoreOrderType
    <3>2. StoredMemory(id) \in stored
      BY <3>1 DEF HandoffInv, SeedInv
    <3>3. /\ StoredMemory(id).id = id
          /\ StoredMemory(id).agent = "a" <=> id # Unrelated
          /\ StoredMemory(id).inSession <=> id # Unrelated
      BY DEF StoredMemory
    <3>4. QED
      BY <3>2, <3>3
  <2>3. QED
    BY <2>1, <2>2 DEF SeededBeforeJudged
<1>2. QED
  BY <1>1, HandoffInvAlways, PTL

(* What a verdict rests on, for any answer made of the fixture's memories: a   *)
(* scenario that passes was answered with its memory and the metadata, and the *)
(* packet recalled as it was left passes what the self-test passes.            *)
THEOREM VerdictsRestOnAnswers == Spec => []VerdictsHold
<1>1. HandoffInv => VerdictsHold
  <2> SUFFICES ASSUME HandoffInv, pc = "judge" PROVE VerdictsHold
    BY DEF VerdictsHold
  <2>1. n \in DOMAIN Scenarios /\ AnswerOK(answer)
    BY DEF HandoffInv, CcpTypeOK
  <2>2. Scenarios[n].expected # "runtime id"
    BY <2>1, CcpAssumption
  <2>3. VerdictMeans(Scenarios[n], answer)
    BY <2>1, <2>2, VerdictMeansWhatItSays
  <2>4. QED
    BY <2>3 DEF VerdictsHold, VerdictMeans
<1>2. QED
  BY <1>1, HandoffInvAlways, PTL

-----------------------------------------------------------------------------
(* The session *)

\* The session is opened by the request that leaves "start", and the program
\* goes through "end" from then on.
SessionInv ==
    /\ pc \in {"main", "health", "start", "store", "link", "list", "recall", "judge",
               "end", "exited"}
    /\ pc \in {"main", "health", "start"} => session # "open"
    /\ SessionClosed

LEMMA SessionInvInit == Init => SessionInv
BY DEF Init, SessionInv, SessionClosed

LEMMA SessionInvNext == SessionInv /\ [Next]_vars => SessionInv'
<1> SUFFICES ASSUME SessionInv, [Next]_vars PROVE SessionInv'
  OBVIOUS
<1> USE DEF SessionInv, SessionClosed, engine, Goto, Exit, Raise, Finish
<1>1. CASE SelfTest
  BY <1>1 DEF SelfTest
<1>2. CASE RunRuntimeValidation
  BY <1>2 DEF RunRuntimeValidation
<1>3. CASE Ready
  BY <1>3 DEF Ready
<1>4. CASE NotReady
  BY <1>4 DEF NotReady
<1>5. CASE StartSession
  BY <1>5 DEF StartSession
<1>6. CASE StartFails
  BY <1>6 DEF StartFails
<1>7. CASE StoreMemory
  BY <1>7 DEF StoreMemory
<1>8. CASE LinkMemory
  BY <1>8 DEF LinkMemory
<1>9. CASE SessionMemories
  BY <1>9 DEF SessionMemories
<1>10. CASE Recall
  BY <1>10 DEF Recall
<1>11. CASE Judge
  BY <1>11 DEF Judge
<1>12. CASE RequestFails
  BY <1>12 DEF RequestFails
<1>13. CASE EndSession
  BY <1>13 DEF EndSession
<1>14. CASE EndFails
  BY <1>14 DEF EndFails
<1>15. CASE Exited \/ UNCHANGED vars
  BY <1>15 DEF Exited, vars
<1>16. QED
  BY <1>1, <1>2, <1>3, <1>4, <1>5, <1>6, <1>7, <1>8, <1>9, <1>10, <1>11, <1>12,
     <1>13, <1>14, <1>15 DEF Next

(* A session that is open when the program is over is one whose start or end *)
(* got no usable answer: the finally clause of run_runtime_validation is     *)
(* passed on every other way out.                                            *)
THEOREM SessionIsClosed == Spec => []SessionClosed
<1>1. SessionInv => SessionClosed
  BY DEF SessionInv
<1>2. QED
  BY <1>1, SessionInvInit, SessionInvNext, PTL DEF Spec
-----------------------------------------------------------------------------
(* The benchmark *)

\* A rounded ratio is at least 0.225 when the exact one is at least 0.22495: a
\* quotient of 2249 is odd, so its half goes up.
LEMMA RatioAtLeast ==
    ASSUME NEW a \in Int, NEW b \in Nat \ {0}
    PROVE  Ratio(a, b) \in Int /\ (Ratio(a, b) >= 2250 <=> 20000 * a >= 4499 * b)
<1> DEFINE q == (10000 * a) \div b
           rem == (10000 * a) % b
           up == 2 * rem > b \/ (2 * rem = b /\ q % 2 = 1)
<1>1. q \in Int /\ rem \in 0 .. b - 1 /\ 10000 * a = b * q + rem
  OBVIOUS
<1>2. Ratio(a, b) = IF up THEN q + 1 ELSE q
  BY DEF Ratio
<1>3. q = 2249 => (up <=> 2 * rem >= b)
  <2>1. 2249 % 2 = 1
    OBVIOUS
  <2> HIDE DEF q, rem
  <2>2. QED
    BY <1>1, <2>1
<1> HIDE DEF q, rem, up
<1>4. CASE q >= 2250
  <2>1. b * (q - 2250) >= 0
    BY <1>1, <1>4
  <2>2. b * (q - 2250) = b * q - 2250 * b
    BY <1>1
  <2>3. 20000 * a >= 4499 * b
    BY <1>1, <2>1, <2>2
  <2>4. QED
    BY <1>1, <1>2, <1>4, <2>3
<1>5. CASE q = 2249
  <2>1. 20000 * a = 4498 * b + 2 * rem
    BY <1>1, <1>5
  <2>2. up <=> 20000 * a >= 4499 * b
    BY <1>1, <1>3, <1>5, <2>1
  <2>3. QED
    BY <1>2, <1>5, <2>2
<1>6. CASE q <= 2248
  <2>1. b * (2248 - q) >= 0
    BY <1>1, <1>6
  <2>2. b * (2248 - q) = 2248 * b - b * q
    BY <1>1
  <2>3. ~(20000 * a >= 4499 * b)
    BY <1>1, <2>1, <2>2
  <2>4. QED
    BY <1>1, <1>2, <1>6, <2>3
<1>7. QED
  BY <1>1, <1>4, <1>5, <1>6

LEMMA TwoElements ==
    ASSUME NEW x, NEW y, x # y
    PROVE  IsFiniteSet({x, y}) /\ Cardinality({x, y}) = 2
<1>1. IsFiniteSet({x}) /\ Cardinality({x}) = 1 /\ y \notin {x}
  BY FS_Singleton
<1>2. IsFiniteSet({x} \cup {y}) /\ Cardinality({x} \cup {y}) = Cardinality({x}) + 1
  BY <1>1, FS_AddElement, Zenon
<1>3. {x} \cup {y} = {x, y}
  OBVIOUS
<1>4. QED
  BY <1>1, <1>2, <1>3

LEMMA ThreeElements ==
    ASSUME NEW x, NEW y, NEW z, x # y, x # z, y # z
    PROVE  Cardinality({x, y, z}) = 3
<1> DEFINE two == {x, y}
<1>1. IsFiniteSet(two) /\ Cardinality(two) = 2 /\ z \notin two
  BY TwoElements
<1>2. two \cup {z} = {x, y, z}
  OBVIOUS
<1> HIDE DEF two
<1>3. Cardinality(two \cup {z}) = Cardinality(two) + 1
  BY <1>1, FS_AddElement, Zenon
<1>4. QED
  BY <1>1, <1>2, <1>3

LEMMA Climb ==
    ASSUME NEW x \in Nat, NEW y \in Nat, NEW z \in Nat
    PROVE  y + 1 + z \in Nat /\ (x <= y => x <= y + 1 + z /\ x + 1 + z <= y + 1 + z)
OBVIOUS

\* The sizes of the first texts are added up on the way to the last.
LEMMA JoinedSums ==
    ASSUME NEW s \in Seq(Nat)
    PROVE  \E f \in [0 .. Len(s) -> Nat] :
             /\ JoinedChars(s) = f[Len(s)]
             /\ \A j \in 1 .. Len(s) : f[j] = IF j = 1 THEN s[1] ELSE f[j - 1] + 1 + s[j]
<1> DEFINE len == Len(s)
           JoinedAt(h, j) == IF j = 0 THEN 0 ELSE IF j = 1 THEN s[1] ELSE h[j - 1] + 1 + s[j]
           f == CHOOSE h : h = [j \in 0 .. len |-> JoinedAt(h, j)]
           step == [j \in 1 .. len |-> [v \in Nat |-> IF j = 1 THEN s[1] ELSE v + 1 + s[j]]]
<1>1. len \in Nat /\ \A j \in 1 .. len : s[j] \in Nat
  OBVIOUS
<1>2. JoinedChars(s) = f[len]
  BY DEF JoinedChars
<1> HIDE DEF len
<1>3. \E h : h = [j \in 0 .. len |-> JoinedAt(h, j)]
  <2>1. step \in [1 .. len -> [Nat -> Nat]]
    BY <1>1
  <2>2. \A j \in 1 .. len, v \in Nat : step[j][v] = IF j = 1 THEN s[1] ELSE v + 1 + s[j]
    OBVIOUS
  <2> HIDE DEF step
  <2>3. PICK h \in [0 .. len -> Nat] : h[0] = 0 /\ \A j \in 1 .. len : h[j] = step[j][h[j - 1]]
    <3>1. \E h \in [0 .. len -> Nat] : Iterates(h, len, 0, step)
      BY <1>1, <2>1, RecursionExists
    <3>2. QED
      BY <3>1, Zenon DEF Iterates
  <2>4. \A j \in 0 .. len : h[j] = JoinedAt(h, j)
    <3> SUFFICES ASSUME NEW j \in 0 .. len PROVE h[j] = JoinedAt(h, j)
      OBVIOUS
    <3>1. CASE j = 0
      BY <2>3, <3>1
    <3>2. CASE j # 0
      <4>1. j \in 1 .. len /\ j - 1 \in 0 .. len
        BY <1>1, <3>2
      <4>2. h[j - 1] \in Nat /\ h[j] = step[j][h[j - 1]]
        BY <2>3, <4>1
      <4>3. QED
        BY <2>2, <3>2, <4>1, <4>2
    <3>3. QED
      BY <3>1, <3>2
  <2> HIDE DEF JoinedAt
  <2>5. h = [j \in 0 .. len |-> JoinedAt(h, j)]
    BY <2>3, <2>4
  <2>6. QED
    BY <2>5
<1>4. f = [j \in 0 .. len |-> JoinedAt(f, j)]
  BY <1>3
<1> HIDE DEF f, step
<1>5. f[0] = 0 /\ \A j \in 1 .. len : f[j] = IF j = 1 THEN s[1] ELSE f[j - 1] + 1 + s[j]
  <2>1. \A j \in 0 .. len : f[j] = JoinedAt(f, j)
    BY <1>4, Zenon
  <2>2. 0 \in 0 .. len /\ \A j \in 1 .. len : j \in 0 .. len /\ j # 0
    BY <1>1
  <2>3. QED
    BY <2>1, <2>2, Zenon
<1>6. \A j \in 0 .. len : f[j] \in Nat
  <2> DEFINE Bad == {j \in 0 .. len : f[j] \notin Nat}
  <2> SUFFICES ASSUME Bad # {} PROVE FALSE
    OBVIOUS
  <2>1. PICK j \in Bad : \A i \in Bad : j <= i
    <3>1. Bad \in SUBSET Nat
      BY <1>1
    <3> HIDE DEF Bad
    <3>2. QED
      BY <3>1, LeastIndex
  <2>2. j \in 0 .. len /\ f[j] \notin Nat
    BY <2>1
  <2>3. j # 0
    BY <1>5, <2>2
  <2>4. j \in 1 .. len /\ j - 1 \in 0 .. len /\ ~(j <= j - 1)
    BY <1>1, <2>2, <2>3
  <2>5. f[j - 1] \in Nat
    BY <2>1, <2>4
  <2>6. f[j] = IF j = 1 THEN s[1] ELSE f[j - 1] + 1 + s[j]
    BY <1>5, <2>4
  <2>7. s[j] \in Nat /\ f[j - 1] + 1 + s[j] \in Nat
    BY <1>1, <2>4, <2>5, Climb
  <2>8. QED
    BY <2>2, <2>6, <2>7
<1>7. f \in [0 .. len -> Nat]
  <2>1. f = [j \in 0 .. len |-> f[j]]
    BY <1>4
  <2>2. QED
    BY <1>6, <2>1
<1>8. QED
  BY <1>2, <1>5, <1>7 DEF len

\* Three of the texts, and two newlines, are part of the whole.
LEMMA OrderedPart ==
    ASSUME NEW s \in Seq(Nat), NEW a \in DOMAIN s, NEW b \in DOMAIN s, NEW c \in DOMAIN s,
           a < b, b < c
    PROVE  JoinedChars(s) \in Nat /\ s[a] + 1 + s[b] + 1 + s[c] <= JoinedChars(s)
<1> DEFINE len == Len(s)
<1>1. len \in Nat /\ DOMAIN s = 1 .. len /\ \A j \in 1 .. len : s[j] \in Nat
  OBVIOUS
<1>2. PICK f \in [0 .. len -> Nat] :
        /\ JoinedChars(s) = f[len]
        /\ \A j \in 1 .. len : f[j] = IF j = 1 THEN s[1] ELSE f[j - 1] + 1 + s[j]
  BY JoinedSums
<1> HIDE DEF len
<1>3. /\ \A j \in 1 .. len : f[j] \in Nat /\ s[j] \in Nat
      /\ \A j \in 1 .. len : j # 1 => /\ j - 1 \in 1 .. len
                                      /\ f[j] = f[j - 1] + 1 + s[j]
      /\ len # 0 => f[1] = s[1]
  <2>1. \A j \in 1 .. len : j \in 0 .. len /\ (j # 1 => j - 1 \in 1 .. len)
    BY <1>1
  <2>2. len # 0 => 1 \in 1 .. len
    BY <1>1
  <2>3. QED
    BY <1>1, <1>2, <2>1, <2>2
<1>4. ASSUME NEW i \in 1 .. len, NEW j \in 1 .. len, i <= j PROVE f[i] <= f[j]
  <2> DEFINE Bad == {l \in i .. len : ~(f[i] <= f[l])}
  <2>1. SUFFICES ASSUME Bad # {} PROVE FALSE
    <3>1. j \in i .. len
      BY <1>1, <1>4
    <3>2. QED
      BY <3>1
  <2>2. PICK l \in Bad : \A o \in Bad : l <= o
    <3>1. Bad \in SUBSET Nat
      BY <1>1
    <3> HIDE DEF Bad
    <3>2. QED
      BY <2>1, <3>1, LeastIndex
  <2>3. l \in i .. len /\ ~(f[i] <= f[l])
    BY <2>2
  <2>4. l # i
    <3>1. f[i] \in Nat
      BY <1>3
    <3>2. f[i] <= f[i]
      BY <3>1
    <3>3. QED
      BY <2>3, <3>2
  <2>5. l \in 1 .. len /\ l # 1 /\ l - 1 \in i .. len /\ l - 1 \in 1 .. len /\ ~(l <= l - 1)
    BY <1>1, <2>3, <2>4
  <2>6. f[i] <= f[l - 1]
    BY <2>2, <2>5
  <2>7. f[l] = f[l - 1] + 1 + s[l] /\ f[l - 1] \in Nat /\ s[l] \in Nat /\ f[i] \in Nat
    BY <1>3, <2>5
  <2>8. f[i] <= f[l - 1] + 1 + s[l]
    BY <2>6, <2>7, Climb
  <2>9. QED
    BY <2>3, <2>7, <2>8
<1>5. ASSUME NEW i \in 1 .. len, NEW j \in 1 .. len, i < j PROVE f[i] + 1 + s[j] <= f[j]
  <2>1. j # 1 /\ j - 1 \in 1 .. len /\ i <= j - 1
    BY <1>1, <1>5
  <2>2. f[j] = f[j - 1] + 1 + s[j]
    BY <1>3, <2>1
  <2>3. f[i] <= f[j - 1]
    BY <1>4, <2>1
  <2>4. f[i] \in Nat /\ f[j - 1] \in Nat /\ s[j] \in Nat
    BY <1>3, <2>1
  <2>5. f[i] + 1 + s[j] <= f[j - 1] + 1 + s[j]
    BY <2>3, <2>4, Climb
  <2>6. QED
    BY <2>2, <2>5
<1>6. a \in 1 .. len /\ b \in 1 .. len /\ c \in 1 .. len /\ len \in 1 .. len /\ c <= len
  BY <1>1
<1>7. s[a] <= f[a]
  <2>1. CASE a = 1
    <3>1. f[a] = s[a] /\ s[a] \in Nat
      BY <1>1, <1>3, <1>6, <2>1
    <3>2. QED
      BY <3>1
  <2>2. CASE a # 1
    <3>1. f[a] = f[a - 1] + 1 + s[a] /\ f[a - 1] \in Nat /\ s[a] \in Nat
      BY <1>3, <1>6, <2>2
    <3> DEFINE x == f[a - 1]
               y == s[a]
    <3>2. f[a] = x + 1 + y /\ x \in Nat /\ y \in Nat
      BY <3>1
    <3> HIDE DEF x, y
    <3>3. y <= x + 1 + y
      BY <3>2
    <3>4. QED
      BY <3>2, <3>3 DEF y
  <2>3. QED
    BY <2>1, <2>2
<1>8. f[a] + 1 + s[b] <= f[b] /\ f[b] + 1 + s[c] <= f[c] /\ f[c] <= f[len]
  BY <1>4, <1>5, <1>6
<1>9. /\ s[a] \in Nat /\ s[b] \in Nat /\ s[c] \in Nat
      /\ f[a] \in Nat /\ f[b] \in Nat /\ f[c] \in Nat /\ f[len] \in Nat
  BY <1>3, <1>6
<1> DEFINE sa == s[a]
           sb == s[b]
           sc == s[c]
           fa == f[a]
           fb == f[b]
           fc == f[c]
           fl == f[len]
<1>10. /\ sa \in Nat /\ sb \in Nat /\ sc \in Nat /\ fa \in Nat /\ fb \in Nat /\ fc \in Nat
       /\ fl \in Nat
       /\ sa <= fa /\ fa + 1 + sb <= fb /\ fb + 1 + sc <= fc /\ fc <= fl
  BY <1>7, <1>8, <1>9
<1> HIDE DEF sa, sb, sc, fa, fb, fc, fl
<1>11. sa + 1 + sb + 1 + sc <= fl
  BY <1>10
<1>12. QED
  BY <1>2, <1>9, <1>11 DEF sa, sb, sc, fl

LEMMA Sorted ==
    ASSUME NEW a \in Nat, NEW b \in Nat, NEW c \in Nat, a # b, a # c, b # c
    PROVE  \/ (a < b /\ b < c) \/ (a < c /\ c < b) \/ (b < a /\ a < c)
           \/ (b < c /\ c < a) \/ (c < a /\ a < b) \/ (c < b /\ b < a)
OBVIOUS

LEMMA Part ==
    ASSUME NEW s \in Seq(Nat), NEW a \in DOMAIN s, NEW b \in DOMAIN s, NEW c \in DOMAIN s,
           a # b, a # c, b # c
    PROVE  JoinedChars(s) \in Nat /\ s[a] + 1 + s[b] + 1 + s[c] <= JoinedChars(s)
<1>1. s[a] \in Nat /\ s[b] \in Nat /\ s[c] \in Nat
  OBVIOUS
<1>2. a \in Nat /\ b \in Nat /\ c \in Nat
  OBVIOUS
<1>3. \/ (a < b /\ b < c) \/ (a < c /\ c < b) \/ (b < a /\ a < c)
      \/ (b < c /\ c < a) \/ (c < a /\ a < b) \/ (c < b /\ b < a)
  BY <1>2, Sorted, Zenon
<1> DEFINE x == s[a]
           y == s[b]
           z == s[c]
           whole == JoinedChars(s)
<1>4. /\ whole \in Nat
      /\ \/ x + 1 + y + 1 + z <= whole \/ x + 1 + z + 1 + y <= whole
         \/ y + 1 + x + 1 + z <= whole \/ y + 1 + z + 1 + x <= whole
         \/ z + 1 + x + 1 + y <= whole \/ z + 1 + y + 1 + x <= whole
  BY <1>3, OrderedPart, Zenon
<1>5. x \in Nat /\ y \in Nat /\ z \in Nat
  BY <1>1
<1> HIDE DEF x, y, z, whole
<1>6. x + 1 + y + 1 + z <= whole
  BY <1>4, <1>5
<1>7. QED
  BY <1>4, <1>6 DEF x, y, z, whole

LEMMA EstimateType ==
    ASSUME NEW chars \in Nat
    PROVE  TokenEstimate(chars) \in Nat \ {0}
<1>1. (chars + 3) \div 4 \in Nat /\ (chars + 3 >= 4 => (chars + 3) \div 4 >= 1)
  OBVIOUS
<1>2. QED
  BY <1>1 DEF TokenEstimate

LEMMA EstimateGrows ==
    ASSUME NEW less \in Nat, NEW more \in Nat, less <= more
    PROVE  TokenEstimate(less) <= TokenEstimate(more)
<1>1. (less + 3) \div 4 <= (more + 3) \div 4
  OBVIOUS
<1>2. more + 3 >= 4 => (more + 3) \div 4 >= 1
  OBVIOUS
<1>3. QED
  BY <1>1, <1>2 DEF TokenEstimate

\* The packet's three memories have their places among the fixture's.
LEMMA PacketPlaces ==
    /\ PacketOrder \in Seq(MemoryIds) /\ Len(PacketOrder) = 3 /\ DOMAIN PacketOrder = 1 .. 3
    /\ \E a, b, c \in DOMAIN FixtureOrder :
         /\ a # b /\ a # c /\ b # c
         /\ FixtureOrder[a] = PacketOrder[1]
         /\ FixtureOrder[b] = PacketOrder[2]
         /\ FixtureOrder[c] = PacketOrder[3]
<1>1. /\ PacketOrder \in Seq(MemoryIds) /\ Distinct(PacketOrder)
      /\ ToSet(PacketOrder) = ToSet(FixtureOrder) \cap Packet /\ ToSet(PacketOrder) = Packet
  <2>1. FixtureOrder \in Seq(MemoryIds) /\ Distinct(FixtureOrder) /\ ToSet(FixtureOrder) = MemoryIds
    BY CcpAssumption DEF MemoryIds
  <2>2. /\ Filtered(FixtureOrder, Packet) \in Seq(MemoryIds)
        /\ ToSet(Filtered(FixtureOrder, Packet)) = ToSet(FixtureOrder) \cap Packet
        /\ Distinct(Filtered(FixtureOrder, Packet))
    BY <2>1, FilteredType, Zenon
  <2>3. MemoryIds \cap Packet = Packet
    BY PacketMembers
  <2>4. QED
    BY <2>1, <2>2, <2>3 DEF PacketOrder
<1>2. /\ Len(PacketOrder) = 3
      /\ PacketOrder[1] # PacketOrder[2] /\ PacketOrder[1] # PacketOrder[3]
      /\ PacketOrder[2] # PacketOrder[3]
  BY <1>1, ThreePlaces
<1>3. DOMAIN PacketOrder = 1 .. 3
  BY <1>1, <1>2
<1>4. ASSUME NEW k \in 1 .. 3 PROVE \E a \in DOMAIN FixtureOrder : FixtureOrder[a] = PacketOrder[k]
  <2>1. PacketOrder[k] \in ToSet(PacketOrder)
    BY <1>3 DEF ToSet
  <2>2. PacketOrder[k] \in ToSet(FixtureOrder)
    BY <1>1, <2>1
  <2>3. QED
    BY <2>2 DEF ToSet
<1>5. PICK a \in DOMAIN FixtureOrder : FixtureOrder[a] = PacketOrder[1]
  BY <1>4
<1>6. PICK b \in DOMAIN FixtureOrder : FixtureOrder[b] = PacketOrder[2]
  BY <1>4
<1>7. PICK c \in DOMAIN FixtureOrder : FixtureOrder[c] = PacketOrder[3]
  BY <1>4
<1>8. a # b /\ a # c /\ b # c
  BY <1>2, <1>5, <1>6, <1>7
<1>9. QED
  BY <1>1, <1>2, <1>3, <1>5, <1>6, <1>7, <1>8

\* The packet's JSON is part of the fixture's.
LEMMA PacketJson ==
    /\ MemoryJsonTokens(PacketOrder) \in Nat /\ MemoryJsonTokens(FixtureOrder) \in Nat
    /\ MemoryJsonTokens(PacketOrder) <= MemoryJsonTokens(FixtureOrder)
<1> DEFINE all == [k \in DOMAIN FixtureOrder |-> Memory[FixtureOrder[k]].json]
           few == [k \in DOMAIN PacketOrder |-> Memory[PacketOrder[k]].json]
<1>1. /\ PacketOrder \in Seq(MemoryIds) /\ Len(PacketOrder) = 3 /\ DOMAIN PacketOrder = 1 .. 3
  BY PacketPlaces
<1>2. PICK a \in DOMAIN FixtureOrder, b \in DOMAIN FixtureOrder, c \in DOMAIN FixtureOrder :
        /\ a # b /\ a # c /\ b # c
        /\ FixtureOrder[a] = PacketOrder[1]
        /\ FixtureOrder[b] = PacketOrder[2]
        /\ FixtureOrder[c] = PacketOrder[3]
  BY PacketPlaces
<1>3. all \in Seq(Nat) /\ DOMAIN all = DOMAIN FixtureOrder
  <2>1. FixtureOrder \in Seq(MemoryIds) /\ \A id \in MemoryIds : Memory[id].json \in Nat
    BY CcpAssumption
  <2>2. /\ DOMAIN FixtureOrder = 1 .. Len(FixtureOrder) /\ Len(FixtureOrder) \in Nat
        /\ \A k \in DOMAIN FixtureOrder : FixtureOrder[k] \in MemoryIds
    BY <2>1
  <2>3. all \in [1 .. Len(FixtureOrder) -> Nat]
    BY <2>1, <2>2
  <2>4. QED
    BY <2>2, <2>3
<1>4. /\ few[1] = all[a] /\ few[2] = all[b] /\ few[3] = all[c]
      /\ DOMAIN few = 1 .. 3 /\ Len(few) = 3
  BY <1>1, <1>2
<1>5. MemoryJsonTokens(FixtureOrder) = TokenEstimate(2 + JoinedChars(all))
  BY DEF MemoryJsonTokens
<1>6. MemoryJsonTokens(PacketOrder) = TokenEstimate(2 + JoinedChars(few))
  BY DEF MemoryJsonTokens
<1> HIDE DEF all, few
<1>7. JoinedChars(all) \in Nat /\ all[a] + 1 + all[b] + 1 + all[c] <= JoinedChars(all)
  BY <1>2, <1>3, Part
<1>8. JoinedChars(few) = few[1] + 1 + few[2] + 1 + few[3]
  BY <1>4, ThreeJoined
<1>9. all[a] \in Nat /\ all[b] \in Nat /\ all[c] \in Nat
  BY <1>3
<1> DEFINE more == JoinedChars(all)
           less == JoinedChars(few)
<1>10. more \in Nat /\ less \in Nat /\ less <= more
  <2> DEFINE x == all[a]
             y == all[b]
             z == all[c]
  <2>1. x \in Nat /\ y \in Nat /\ z \in Nat /\ less = x + 1 + y + 1 + z
        /\ x + 1 + y + 1 + z <= more /\ more \in Nat
    BY <1>4, <1>7, <1>8, <1>9
  <2> HIDE DEF x, y, z, less, more
  <2>2. QED
    BY <2>1
<1> HIDE DEF more, less
<1>11. 2 + more \in Nat /\ 2 + less \in Nat /\ 2 + less <= 2 + more
  BY <1>10
<1>12. /\ TokenEstimate(2 + more) \in Nat /\ TokenEstimate(2 + less) \in Nat
       /\ TokenEstimate(2 + less) <= TokenEstimate(2 + more)
  BY <1>11, EstimateType, EstimateGrows
<1>13. QED
  BY <1>5, <1>6, <1>12 DEF more, less

LEMMA PacketTokensType == PacketTokens \in Nat
<1> DEFINE sizes == [k \in DOMAIN PacketOrder |-> Memory[PacketOrder[k]].chars]
<1>1. /\ PacketOrder \in Seq(MemoryIds) /\ Len(PacketOrder) = 3 /\ DOMAIN PacketOrder = 1 .. 3
  BY PacketPlaces
<1>2. \A k \in 1 .. 3 : PacketOrder[k] \in MemoryIds /\ Memory[PacketOrder[k]].chars \in Nat
  <2>1. \A id \in MemoryIds : Memory[id].chars \in Nat
    BY CcpAssumption
  <2>2. \A k \in DOMAIN PacketOrder : PacketOrder[k] \in MemoryIds
    BY <1>1
  <2>3. QED
    BY <1>1, <2>1, <2>2
<1>3. DOMAIN sizes = 1 .. 3 /\ Len(sizes) = 3 /\ \A k \in 1 .. 3 : sizes[k] \in Nat
  BY <1>1, <1>2
<1>4. PacketTokens = TokenEstimate(JoinedChars(sizes))
  BY DEF PacketTokens, TokensOf
<1> HIDE DEF sizes
<1>5. JoinedChars(sizes) = sizes[1] + 1 + sizes[2] + 1 + sizes[3]
  BY <1>3, ThreeJoined
<1>6. JoinedChars(sizes) \in Nat
  <2>1. sizes[1] \in Nat /\ sizes[2] \in Nat /\ sizes[3] \in Nat
    BY <1>3
  <2>2. QED
    BY <1>5, <2>1
<1>7. QED
  BY <1>4, <1>6, EstimateType

\* Who wins is decided by the one case that is measured: the others are two each.
LEMMA CountedWins ==
    ASSUME NEW ratio \in Int
    PROVE  Wins(BenchmarkCases(ratio), "ant") >= Wins(BenchmarkCases(ratio), "bee") <=> ratio >= 2250
<1> DEFINE cases == BenchmarkCases(ratio)
           ants == {c \in DOMAIN cases : cases[c] = "ant"}
           bees == {c \in DOMAIN cases : cases[c] = "bee"}
           capped == IF 5500 + ratio > 10000 THEN 10000 ELSE 5500 + ratio
           long == ScoreWinner(10000 - ratio, capped)
<1>1. /\ DOMAIN cases = {"tiny_single_turn_context", "multi_agent_long_handoff",
                         "uncertainty_and_contradiction", "agent_scope_isolation",
                         "full_audit_reconstruction"}
      /\ cases["tiny_single_turn_context"] = "bee"
      /\ cases["multi_agent_long_handoff"] = long
      /\ cases["uncertainty_and_contradiction"] = "ant"
      /\ cases["agent_scope_isolation"] = "ant"
      /\ cases["full_audit_reconstruction"] = "bee"
  BY DEF BenchmarkCases, ScoreWinner
<1>2. /\ ratio > 2250 => long = "ant"
      /\ ratio = 2250 => long = "tie"
      /\ ratio < 2250 => long = "bee"
  BY DEF ScoreWinner
<1>3. Wins(cases, "ant") = Cardinality(ants) /\ Wins(cases, "bee") = Cardinality(bees)
  BY DEF Wins
<1> HIDE DEF cases, long
<1>4. CASE ratio > 2250
  <2>1. /\ ants = {"multi_agent_long_handoff", "uncertainty_and_contradiction",
                   "agent_scope_isolation"}
        /\ bees = {"tiny_single_turn_context", "full_audit_reconstruction"}
    BY <1>1, <1>2, <1>4
  <2> HIDE DEF ants, bees
  <2>2. Cardinality(ants) = 3 /\ Cardinality(bees) = 2
    BY <2>1, TwoElements, ThreeElements
  <2>3. QED
    BY <1>3, <1>4, <2>2 DEF cases
<1>5. CASE ratio = 2250
  <2>1. /\ ants = {"uncertainty_and_contradiction", "agent_scope_isolation"}
        /\ bees = {"tiny_single_turn_context", "full_audit_reconstruction"}
    BY <1>1, <1>2, <1>5
  <2> HIDE DEF ants, bees
  <2>2. Cardinality(ants) = 2 /\ Cardinality(bees) = 2
    BY <2>1, TwoElements
  <2>3. QED
    BY <1>3, <1>5, <2>2 DEF cases
<1>6. CASE ratio < 2250
  <2>1. /\ ants = {"uncertainty_and_contradiction", "agent_scope_isolation"}
        /\ bees = {"tiny_single_turn_context", "multi_agent_long_handoff",
                   "full_audit_reconstruction"}
    BY <1>1, <1>2, <1>6
  <2> HIDE DEF ants, bees
  <2>2. Cardinality(ants) = 2 /\ Cardinality(bees) = 3
    BY <2>1, TwoElements, ThreeElements
  <2>3. QED
    BY <1>3, <1>6, <2>2 DEF cases
<1>7. QED
  BY <1>4, <1>5, <1>6

\* The hybrid is advised from a saving of 22.5% on, give or take the rounding.
LEMMA HybridFrom ==
    ASSUME NEW full \in Nat \ {0}
    PROVE  /\ BuildBenchmark(full).ratio >= 2250 <=> 15501 * full >= 20000 * PacketTokens
           /\ BuildBenchmark(full).viability = "hybrid" <=> 15501 * full >= 20000 * PacketTokens
<1> DEFINE packet == PacketTokens
           ratio == SavingsRatio(full)
<1>1. packet \in Nat
  BY PacketTokensType
<1>2. ratio = Ratio(full - packet, full)
  BY DEF SavingsRatio
<1> HIDE DEF packet, ratio
<1>3. ratio \in Int /\ (ratio >= 2250 <=> 20000 * (full - packet) >= 4499 * full)
  <2> DEFINE saved == full - packet
  <2>1. saved \in Int /\ ratio = Ratio(saved, full)
    BY <1>1, <1>2
  <2> HIDE DEF saved
  <2>2. ratio \in Int /\ (ratio >= 2250 <=> 20000 * saved >= 4499 * full)
    BY <2>1, RatioAtLeast
  <2>3. QED
    BY <2>2 DEF saved
<1>4. 20000 * (full - packet) >= 4499 * full <=> 15501 * full >= 20000 * packet
  BY <1>1
<1>5. BuildBenchmark(full).ratio = ratio
  BY DEF BuildBenchmark, ratio
<1>6. BuildBenchmark(full).viability =
        IF Wins(BenchmarkCases(ratio), "ant") >= Wins(BenchmarkCases(ratio), "bee")
        THEN "hybrid" ELSE "bee"
  BY DEF BuildBenchmark, ratio
<1>7. BuildBenchmark(full).viability = "hybrid" <=> ratio >= 2250
  BY <1>3, <1>6, CountedWins
<1>8. QED
  BY <1>3, <1>4, <1>5, <1>7 DEF packet

LEMMA BenchmarkAgrees ==
    ASSUME transcript \in Transcripts
    PROVE  BenchmarkFollowsSavings
<1> DEFINE full == FullTokens
           packet == PacketTokens
           result == BuildBenchmark(full)
           json == MemoryJsonTokens(PacketOrder)
           every == MemoryJsonTokens(FixtureOrder)
<1>1. transcript \in Nat /\ Transcripts \subseteq Nat
  BY CcpAssumption
<1>2. full \in Nat \ {0} /\ packet \in Nat /\ json \in Nat /\ every \in Nat /\ json <= every
  BY <1>1, EstimateType, PacketTokensType, PacketJson DEF FullTokens
<1>3. /\ result.savings = full - packet
      /\ result.compact_content_payload = TokenWinner(full, packet)
      /\ result.full_json_packet_payload = TokenWinner(full, json)
      /\ result.top_k_overfetch_payload = TokenWinner(full, every)
      /\ result.break_even = json + 1
  BY DEF BuildBenchmark
<1>4. /\ result.ratio >= 2250 <=> 15501 * full >= 20000 * packet
      /\ result.viability = "hybrid" <=> 15501 * full >= 20000 * packet
  BY <1>2, HybridFrom
<1> HIDE DEF result, json, every
<1>5. ASSUME NEW k \in DOMAIN Scenarios, Scenarios[k].id = "token-economy"
      PROVE  EvaluateStatic(Scenarios[k]) <=> /\ result.compact_content_payload = "ant"
                                              /\ Scenarios[k].expected \in MemoryIds
  <2>1. EvaluateStatic(Scenarios[k]) <=> packet < full /\ Scenarios[k].expected \in MemoryIds
    BY <1>5 DEF EvaluateStatic
  <2> HIDE DEF packet, full
  <2>2. result.compact_content_payload = "ant" <=> packet < full
    BY <1>2, <1>3 DEF TokenWinner
  <2>3. QED
    BY <2>1, <2>2
<1>6. ASSUME NEW other \in Transcripts, other >= transcript, result.viability = "hybrid"
      PROVE  BuildBenchmark(TokenEstimate(other)).viability = "hybrid"
  <2> DEFINE longer == TokenEstimate(other)
  <2>1. longer \in Nat \ {0} /\ full <= longer
    BY <1>1, <1>6, EstimateType, EstimateGrows DEF FullTokens
  <2>2. BuildBenchmark(longer).viability = "hybrid" <=> 15501 * longer >= 20000 * packet
    BY <2>1, HybridFrom
  <2>3. 15501 * full >= 20000 * packet
    BY <1>4, <1>6
  <2> HIDE DEF longer, full, packet
  <2>4. 15501 * longer >= 20000 * packet
    BY <1>2, <2>1, <2>3
  <2>5. QED
    BY <2>2, <2>4 DEF longer
<1>7. /\ (result.viability = "hybrid") <=> (10000 * result.savings >= 2249 * full
                                             /\ result.ratio >= 2250)
      /\ (result.full_json_packet_payload = "ant") <=> full >= result.break_even
      /\ result.top_k_overfetch_payload = "ant" => result.full_json_packet_payload = "ant"
  <2> HIDE DEF packet, full
  <2>1. 15501 * full >= 20000 * packet => 10000 * (full - packet) >= 2249 * full
    BY <1>2
  <2>2. (result.full_json_packet_payload = "ant") <=> json < full
    BY <1>2, <1>3 DEF TokenWinner
  <2>3. (result.top_k_overfetch_payload = "ant") <=> every < full
    BY <1>2, <1>3 DEF TokenWinner
  <2>4. (json < full <=> full >= json + 1) /\ (every < full => json < full)
    BY <1>2
  <2>5. QED
    BY <1>3, <1>4, <2>1, <2>2, <2>3, <2>4
<1>8. QED
  BY <1>5, <1>6, <1>7 DEF BenchmarkFollowsSavings, result

(* Whatever the fixture and the transcripts, the benchmark agrees with the     *)
(* self-test and with itself: its advice turns on the one ratio it measures,   *)
(* and a longer transcript never turns it against the ants (build_benchmark).  *)
THEOREM BenchmarkIsConsistent == Spec => []BenchmarkFollowsSavings
<1>1. HandoffInv => BenchmarkFollowsSavings
  BY BenchmarkAgrees DEF HandoffInv, CcpTypeOK
<1>2. QED
  BY <1>1, HandoffInvAlways, PTL
=============================================================================
