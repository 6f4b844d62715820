------------------------- MODULE SandboxProxyProofs -------------------------
(***************************************************************************)
(* What the sandbox proxy keeps, for any requests, sessions and limits.    *)
(*                                                                         *)
(* StepEffect turns a step into one of a few effects on a request and its  *)
(* session object.  ProxyInv is inductive: the types, what handler, engine *)
(* and session object have agreed on about each request, what the Map says *)
(* of its objects, and what the DELETEs under way and the engine's stores  *)
(* come from.  The theorems about leaks, lost memories, charges and quiet  *)
(* sessions each add one invariant to it.  Charges are sums over sets of   *)
(* requests; the lemmas about sums come first.                             *)
(***************************************************************************)
EXTENDS SandboxProxy, SessionStoreProofs

-----------------------------------------------------------------------------
(* Sums over finite sets.  Weight is a fold, and a fold a recursive function  *)
(* on the subsets of the set: that the function exists is proved by taking a  *)
(* least size at which it would not, and that the order of the elements makes *)
(* no difference by taking a least set on which it would.                     *)

\* What Weight adds up, of any table of records.
Total(q, S) == MapThenSumSet(LAMBDA r : q[r].count, S)

First(s) == CHOOSE x \in s : TRUE

\* f adds up the subsets of S that have at most n elements.
AddsUpTo(f, q, S, n) ==
    f = [s \in {t \in SUBSET S : Cardinality(t) <= n} |->
            IF s = {} THEN 0 ELSE q[First(s)].count + f[s \ {First(s)}]]

AddsUp(f, q, S) ==
    f = [s \in SUBSET S |->
            IF s = {} THEN 0 ELSE q[First(s)].count + f[s \ {First(s)}]]

LEMMA SmallerWithoutFirst ==
    ASSUME NEW S, IsFiniteSet(S), NEW s \in SUBSET S, s # {}
    PROVE  /\ First(s) \in s /\ s \ {First(s)} \in SUBSET S
           /\ Cardinality(s) \in Nat
           /\ Cardinality(s \ {First(s)}) = Cardinality(s) - 1
<1>1. First(s) \in s
  BY DEF First
<1>2. IsFiniteSet(s) /\ Cardinality(s) \in Nat
  BY FS_Subset, FS_CardinalityType
<1> DEFINE x == First(s)
<1> HIDE DEF x
<1>3. Cardinality(s \ {x}) = IF x \in s THEN Cardinality(s) - 1 ELSE Cardinality(s)
  BY <1>2, FS_RemoveElement
<1>4. QED
  BY <1>1, <1>2, <1>3 DEF x

LEMMA AddsUpToExists ==
    ASSUME NEW q, NEW S, IsFiniteSet(S), NEW n \in Nat
    PROVE  \E f : AddsUpTo(f, q, S, n)
<1> DEFINE Bad == {m \in Nat : ~ \E f : AddsUpTo(f, q, S, m)}
<1> SUFFICES ASSUME Bad # {} PROVE FALSE
  OBVIOUS
<1>1. PICK m \in Bad : \A k \in Bad : m <= k
  BY LeastNumber
<1>2. \A t \in SUBSET S : Cardinality(t) \in Nat /\ (Cardinality(t) = 0 <=> t = {})
  BY FS_Subset, FS_CardinalityType, FS_EmptySet
<1>3. CASE m = 0
  <2> DEFINE f == [s \in {{}} |-> 0]
  <2>1. {t \in SUBSET S : Cardinality(t) <= 0} = {{}}
    BY <1>2
  <2>2. AddsUpTo(f, q, S, 0)
    BY <2>1 DEF AddsUpTo
  <2>3. QED
    BY <1>1, <1>3, <2>2
<1>4. CASE m # 0
  <2>1. m \in Nat /\ m - 1 \in Nat /\ m - 1 \notin Bad
    BY <1>1, <1>4
  <2>2. PICK f : AddsUpTo(f, q, S, m - 1)
    BY <2>1
  <2> DEFINE Before == {t \in SUBSET S : Cardinality(t) <= m - 1}
             Now == {t \in SUBSET S : Cardinality(t) <= m}
             Sum(g, s) == IF s = {} THEN 0 ELSE q[First(s)].count + g[s \ {First(s)}]
             g == [s \in Now |-> Sum(f, s)]
  <2>3. f = [s \in Before |-> Sum(f, s)]
    BY <2>2 DEF AddsUpTo
  <2>4. \A s \in Now : s # {} => s \ {First(s)} \in Before
    BY <2>1, SmallerWithoutFirst
  <2>5. Before \subseteq Now
    BY <2>1, <1>2
  <2> HIDE DEF Before, Now, Sum
  <2>6. \A s \in Before : g[s] = f[s]
    BY <2>3, <2>5
  <2>7. \A s \in Now : Sum(f, s) = Sum(g, s)
    BY <2>4, <2>6 DEF Sum
  <2>8. g = [s \in Now |-> Sum(g, s)]
    BY <2>7
  <2>9. AddsUpTo(g, q, S, m)
    BY <2>8 DEF AddsUpTo, Now, Sum
  <2>10. QED
    BY <1>1, <2>9
<1>5. QED
  BY <1>3, <1>4

\* The recursive function that Weight folds with.
LEMMA AddsUpExists ==
    ASSUME NEW q, NEW S, IsFiniteSet(S)
    PROVE  \E f : AddsUp(f, q, S)
<1> DEFINE n == Cardinality(S)
<1>1. n \in Nat /\ \A t \in SUBSET S : Cardinality(t) <= n
  BY FS_Subset, FS_CardinalityType
<1>2. PICK f : AddsUpTo(f, q, S, n)
  BY <1>1, AddsUpToExists
<1>3. {t \in SUBSET S : Cardinality(t) <= n} = SUBSET S
  BY <1>1
<1>4. AddsUp(f, q, S)
  BY <1>2, <1>3 DEF AddsUpTo, AddsUp
<1>5. QED
  BY <1>4

\* Weight is the value of such a function.
LEMMA TotalAddsUp ==
    ASSUME NEW q, NEW S, IsFiniteSet(S)
    PROVE  \E f : AddsUp(f, q, S) /\ Total(q, S) = f[S]
<1> DEFINE f == CHOOSE g : AddsUp(g, q, S)
<1>1. AddsUp(f, q, S)
  BY AddsUpExists
<1>2. Total(q, S) = f[S]
  BY DEF Total, MapThenSumSet, MapThenFoldSet, AddsUp, First
<1>3. QED
  BY <1>1, <1>2

\* A nonempty family of subsets of a finite set has a least member.
LEMMA LeastSubset ==
    ASSUME NEW S, IsFiniteSet(S), NEW F \in SUBSET (SUBSET S), F # {}
    PROVE  \E T \in F : \A x \in T : T \ {x} \notin F
<1>1. F \subseteq FiniteSubsetsOf(S)
  BY FS_FiniteSubsetsOfFinite
<1>2. PICK T \in F : \A U \in F : ~(<<U, T>> \in StrictSubsetOrdering(S))
  BY <1>1, FS_StrictSubsetOrderingWellFounded, WFMin, Zenon
<1>3. \A x \in T : T \ {x} \notin F
  BY <1>2 DEF StrictSubsetOrdering
<1>4. QED
  BY <1>3

Counts(q, S) == \A x \in S : q[x].count \in Nat

LEMMA AddsUpSteps ==
    ASSUME NEW q, NEW S, IsFiniteSet(S), NEW f, AddsUp(f, q, S), NEW T \in SUBSET S
    PROVE  /\ T = {} => f[T] = 0
           /\ T # {} => f[T] = q[First(T)].count + f[T \ {First(T)}]
BY DEF AddsUp

LEMMA AddsUpType ==
    ASSUME NEW q, NEW S, IsFiniteSet(S), Counts(q, S), NEW f, AddsUp(f, q, S)
    PROVE  \A T \in SUBSET S : f[T] \in Nat
<1> DEFINE Bad == {T \in SUBSET S : f[T] \notin Nat}
<1> SUFFICES ASSUME Bad # {} PROVE FALSE
  OBVIOUS
<1>1. PICK T \in Bad : \A x \in T : T \ {x} \notin Bad
  BY LeastSubset
<1> HIDE DEF Bad
<1>5. T \in SUBSET S /\ f[T] \notin Nat
  BY DEF Bad
<1>6. /\ T = {} => f[T] = 0
      /\ T # {} => f[T] = q[First(T)].count + f[T \ {First(T)}]
  BY <1>5, AddsUpSteps
<1>2. T # {} /\ f[T] = q[First(T)].count + f[T \ {First(T)}]
  BY <1>5, <1>6
<1>3. First(T) \in T /\ f[T \ {First(T)}] \in Nat
  BY <1>1, <1>2, <1>5, SmallerWithoutFirst DEF Bad
<1>4. QED
  BY <1>2, <1>3, <1>5 DEF Counts

\* Only the counts of the elements matter.
LEMMA AddsUpSame ==
    ASSUME NEW q, NEW S, IsFiniteSet(S), NEW f, AddsUp(f, q, S),
           NEW p, NEW R, IsFiniteSet(R), NEW g, AddsUp(g, p, R),
           NEW T \in SUBSET (S \cap R), \A x \in T : q[x].count = p[x].count
    PROVE  f[T] = g[T]
<1> DEFINE Bad == {U \in SUBSET T : f[U] # g[U]}
<1> SUFFICES ASSUME Bad # {} PROVE FALSE
  OBVIOUS
<1>1. IsFiniteSet(T)
  BY FS_Subset
<1>2. PICK U \in Bad : \A x \in U : U \ {x} \notin Bad
  BY <1>1, LeastSubset
<1>3. U \in SUBSET S /\ U \in SUBSET R
  OBVIOUS
<1>4. U # {}
  <2>1. f[U] # g[U]
    OBVIOUS
  <2> HIDE DEF Bad
  <2>2. U = {} => f[U] = 0
    BY <1>3 DEF AddsUp
  <2>3. U = {} => g[U] = 0
    BY <1>3 DEF AddsUp
  <2>4. QED
    BY <2>1, <2>2, <2>3
<1>5. First(U) \in U /\ f[U \ {First(U)}] = g[U \ {First(U)}]
  BY <1>1, <1>2, <1>4, SmallerWithoutFirst
<1>6. f[U] = q[First(U)].count + f[U \ {First(U)}]
  BY <1>3, <1>4, AddsUpSteps
<1>7. g[U] = p[First(U)].count + g[U \ {First(U)}]
  BY <1>3, <1>4, AddsUpSteps
<1>10. QED
  BY <1>5, <1>6, <1>7

\* Any element may come first.
LEMMA AddsUpAnyOrder ==
    ASSUME NEW q, NEW S, IsFiniteSet(S), Counts(q, S), NEW f, AddsUp(f, q, S)
    PROVE  \A T \in SUBSET S : \A x \in T : f[T] = q[x].count + f[T \ {x}]
<1> DEFINE Bad == {T \in SUBSET S : \E x \in T : f[T] # q[x].count + f[T \ {x}]}
<1> SUFFICES ASSUME Bad # {} PROVE FALSE
  OBVIOUS
<1>1. PICK T \in Bad : \A x \in T : T \ {x} \notin Bad
  BY LeastSubset
<1>2. PICK x \in T : f[T] # q[x].count + f[T \ {x}]
  OBVIOUS
<1> DEFINE c == First(T)
<1>3. T \in SUBSET S /\ T # {} /\ c \in T
  BY <1>2, SmallerWithoutFirst
<1>4. f[T] = q[c].count + f[T \ {c}]
  BY <1>3, AddsUpSteps
<1> HIDE DEF c
<1>5. c # x
  BY <1>2, <1>4
<1>6. /\ f[T \ {c}] = q[x].count + f[(T \ {c}) \ {x}]
      /\ f[T \ {x}] = q[c].count + f[(T \ {x}) \ {c}]
  BY <1>1, <1>3, <1>5
<1>7. (T \ {c}) \ {x} = (T \ {x}) \ {c}
  OBVIOUS
<1>8. f[(T \ {c}) \ {x}] \in Nat /\ q[x].count \in Nat /\ q[c].count \in Nat
  BY <1>3, AddsUpType DEF Counts
<1> DEFINE rest == f[(T \ {c}) \ {x}]
<1>11. f[T \ {c}] = q[x].count + rest /\ f[T \ {x}] = q[c].count + rest /\ rest \in Nat
  BY <1>6, <1>7, <1>8
<1> HIDE DEF Bad, rest
<1>9. f[T] = q[x].count + f[T \ {x}]
  BY <1>4, <1>8, <1>11
<1>10. QED
  BY <1>2, <1>9

\* What the rest uses of sums.
LEMMA TotalEmpty == ASSUME NEW q PROVE Total(q, {}) = 0
<1>1. IsFiniteSet({})
  BY FS_EmptySet
<1>2. PICK f : AddsUp(f, q, {}) /\ Total(q, {}) = f[{}]
  BY <1>1, TotalAddsUp
<1>3. f[{}] = 0
  <2>1. {} \in SUBSET {} /\ AddsUp(f, q, {})
    BY <1>2
  <2>2. {} = {} => f[{}] = 0
    BY <1>1, <2>1 DEF AddsUp
  <2>3. QED
    BY <2>2
<1>4. QED
  BY <1>2, <1>3

LEMMA TotalType ==
    ASSUME NEW q, NEW S, IsFiniteSet(S), Counts(q, S)
    PROVE  Total(q, S) \in Nat
BY TotalAddsUp, AddsUpType

LEMMA TotalSame ==
    ASSUME NEW q, NEW p, NEW S, IsFiniteSet(S), \A x \in S : q[x].count = p[x].count
    PROVE  Total(q, S) = Total(p, S)
<1>1. PICK f : AddsUp(f, q, S) /\ Total(q, S) = f[S]
  BY TotalAddsUp
<1>2. PICK g : AddsUp(g, p, S) /\ Total(p, S) = g[S]
  BY TotalAddsUp
<1>3. f[S] = g[S]
  BY <1>1, <1>2, AddsUpSame
<1>4. QED
  BY <1>1, <1>2, <1>3

LEMMA TotalAdd ==
    ASSUME NEW q, NEW S, IsFiniteSet(S), Counts(q, S), NEW x, x \notin S, q[x].count \in Nat
    PROVE  Total(q, S \cup {x}) = q[x].count + Total(q, S)
<1> DEFINE R == S \cup {x}
<1>1. IsFiniteSet(R)
  BY FS_AddElement
<1>2. Counts(q, R) /\ R \ {x} = S /\ x \in R /\ R \in SUBSET R
  BY DEF Counts
<1> HIDE DEF R
<1>3. PICK f : AddsUp(f, q, S) /\ Total(q, S) = f[S]
  BY TotalAddsUp
<1>4. PICK g : AddsUp(g, q, R) /\ Total(q, R) = g[R]
  BY <1>1, TotalAddsUp
<1>5. g[R] = q[x].count + g[R \ {x}]
  BY <1>1, <1>2, <1>4, AddsUpAnyOrder
<1>6. S \in SUBSET (S \cap R)
  BY <1>2
<1>7. f[S] = g[S]
  BY <1>1, <1>3, <1>4, <1>6, AddsUpSame
<1>8. QED
  BY <1>2, <1>3, <1>4, <1>5, <1>7 DEF R

LEMMA TotalOne ==
    ASSUME NEW q, NEW x, q[x].count \in Nat
    PROVE  Total(q, {x}) = q[x].count
<1>1. Total(q, {} \cup {x}) = q[x].count + Total(q, {})
  BY TotalAdd, FS_EmptySet DEF Counts
<1>2. QED
  BY <1>1, TotalEmpty

LEMMA TotalMonotone ==
    ASSUME NEW q, NEW S, IsFiniteSet(S), Counts(q, S), NEW T \in SUBSET S
    PROVE  Total(q, T) <= Total(q, S)
<1> DEFINE Bad == {U \in SUBSET S : T \subseteq U /\ ~(Total(q, T) <= Total(q, U))}
<1> SUFFICES ASSUME Bad # {} PROVE FALSE
  OBVIOUS
<1>8. Bad \in SUBSET (SUBSET S)
  OBVIOUS
<1> HIDE DEF Bad
<1>1. PICK U \in Bad : \A x \in U : U \ {x} \notin Bad
  BY <1>8, LeastSubset
<1> USE DEF Bad
<1>2. \A V \in SUBSET S : IsFiniteSet(V) /\ Counts(q, V) /\ Total(q, V) \in Nat
  BY FS_Subset, TotalType DEF Counts
<1>3. PICK x \in U : x \notin T
  BY <1>2
<1> DEFINE V == U \ {x}
<1>4. V \in SUBSET S /\ T \subseteq V /\ x \notin V /\ U = V \cup {x} /\ q[x].count \in Nat
  BY <1>3 DEF Counts
<1>5. Total(q, T) <= Total(q, V)
  BY <1>1, <1>3, <1>4
<1> HIDE DEF V
<1>6. Total(q, U) = q[x].count + Total(q, V)
  BY <1>2, <1>4, TotalAdd
<1>7. QED
  BY <1>2, <1>4, <1>5, <1>6

-----------------------------------------------------------------------------
(* Session objects and requests *)

LEMMA ChargedSound ==
    ASSUME now \in Nat, NEW s \in Session, CallsSound(s, now), NEW route
    PROVE  /\ Charged(s, route) \in Session
           /\ CallsSound(Charged(s, route), now)
           /\ SameBooks(s, Charged(s, route)) /\ Admits(s, Charged(s, route))
<1>1. SameBooks(s, s) /\ Admits(s, s)
  BY DEF SameBooks, Admits
<1>2. QED
  BY <1>1, CheckRateSound, CheckRateBooks, CheckRateAdmits DEF Charged

LEMMA IdleType == Idle \in Request
BY DEF Idle, Request, None, AllRoutes, Untouched

LEMMA RepliedType ==
    ASSUME NEW q \in Request, NEW status \in {200, 400, 403, 413, 422, 429, 500, 503, 504}
    PROVE  /\ Replied(q, status) \in Request
           /\ Replied(q, status).pc = "done" /\ Replied(q, status).status = status
           /\ Replied(q, status).route = q.route /\ Replied(q, status).obj = q.obj
           /\ Replied(q, status).ns = q.ns /\ Replied(q, status).count = q.count
           /\ Replied(q, status).left = q.left /\ Replied(q, status).shown = q.shown
           /\ Replied(q, status).found = q.found
<1>1. Replied(q, status) = [q EXCEPT !.pc = "done", !.status = status]
  BY DEF Replied
<1>2. Replied(q, status) \in Request
  <2> DEFINE a == [q EXCEPT !.pc = "done"]
  <2>1. a \in Request
    BY DEF Request
  <2>2. Replied(q, status) = [a EXCEPT !.status = status]
    BY <1>1
  <2> HIDE DEF a
  <2>3. QED
    BY <2>1, <2>2 DEF Request
<1>3. QED
  BY <1>1, <1>2 DEF Request

\* A request that has just come in.
Newcomer(q) ==
    /\ q.pc \in {"body", "sent", "done"} /\ q.status \in {0, 403, 429}
    /\ q.pc = "done" <=> q.status # 0
    /\ q.pc = "sent" => q.route = "get"
    /\ q.pc # "sent" => q.ns = Untouched
    /\ q.count = 0

LEMMA EnteredType ==
    ASSUME NEW s \in Session, NEW o \in Nat, NEW route \in Routes, NEW scenario \in Scenarios
    PROVE  LET q == Entered(s, o, route, scenario)
           IN  /\ q \in Request /\ Newcomer(q)
               /\ q.route = route /\ q.obj = o
               /\ q.ns \in {Untouched, <<s.key, scenario>>}
<1> DEFINE q == [Idle EXCEPT !.route = route, !.obj = o]
           e == Entered(s, o, route, scenario)
<1>1. /\ q \in Request /\ q.route = route /\ q.obj = o
      /\ q.ns = Untouched /\ q.count = 0 /\ q.status = 0
  <2>1. route \in AllRoutes
    BY ProxyAssumption
  <2> DEFINE a == [Idle EXCEPT !.route = route]
  <2>2. a \in Request
    BY <2>1, IdleType DEF Request
  <2>3. q = [a EXCEPT !.obj = o]
    OBVIOUS
  <2> HIDE DEF a, q
  <2>4. q \in Request
    BY <2>2, <2>3 DEF Request
  <2>5. QED
    BY <2>4 DEF Idle, q
<1>2. <<s.key, scenario>> \in Namespaces
  BY DEF Session, Namespaces
<1> HIDE DEF q
<1>3. CASE route = "denied"
  <2>1. e = Replied(q, 403)
    BY <1>3 DEF Entered, q
  <2>2. QED
    BY <1>1, <2>1, RepliedType DEF Newcomer
<1>4. CASE route # "denied" /\ ~RateOk(s)
  <2>1. e = Replied(q, 429)
    BY <1>4 DEF Entered, q
  <2>2. QED
    BY <1>1, <2>1, RepliedType DEF Newcomer
<1>5. CASE route = "get" /\ RateOk(s)
  <2>1. e = [q EXCEPT !.pc = "sent", !.ns = <<s.key, scenario>>]
    BY <1>5 DEF Entered, q
  <2> DEFINE a == [q EXCEPT !.pc = "sent"]
  <2>4. a \in Request
    BY <1>1 DEF Request
  <2>5. e = [a EXCEPT !.ns = <<s.key, scenario>>]
    BY <2>1
  <2> HIDE DEF a, e
  <2>2. e \in Request
    BY <1>2, <2>4, <2>5 DEF Request
  <2> USE DEF e
  <2>3. /\ e.pc = "sent" /\ e.ns = <<s.key, scenario>> /\ e.route = route /\ e.obj = o
        /\ e.count = 0 /\ e.status = 0
    BY <1>1, <2>1 DEF Request
  <2>6. QED
    BY <1>5, <2>2, <2>3 DEF Newcomer
<1>6. CASE route \notin {"denied", "get"} /\ RateOk(s)
  <2>1. e = [q EXCEPT !.pc = "body"]
    BY <1>6 DEF Entered, q
  <2>2. e \in Request
    BY <1>1, <2>1 DEF Request
  <2>3. /\ e.pc = "body" /\ e.ns = Untouched /\ e.route = route /\ e.obj = o
        /\ e.count = 0 /\ e.status = 0
    BY <1>1, <2>1 DEF Request
  <2>4. QED
    BY <1>6, <2>2, <2>3 DEF Newcomer
<1>7. QED
  BY <1>3, <1>4, <1>5, <1>6

-----------------------------------------------------------------------------
(* Types *)

TypeInv ==
    /\ StoreInv
    /\ ProxyTypeOK
    /\ \A r \in Requests : /\ req[r].obj <= Len(heap)
                           /\ req[r].pc = "idle" => req[r] = Idle /\ wire[r] = "none"
    /\ mode # "up" => restarts < MaxRestarts

Arrived(r, q, K) ==
    /\ req[r].pc = "idle"
    /\ q \in Request /\ Newcomer(q)
    /\ q.obj <= Len(heap') /\ (q.pc # "done" => q.obj \in Objs')
    /\ q.ns = Untouched \/ (q.obj \in Objs' /\ q.ns \in {heap'[q.obj].key} \X Scenarios)
    /\ req' = [req EXCEPT ![r] = q]
    /\ wire' = [wire EXCEPT ![r] = IF q.pc = "sent" THEN "out" ELSE wire[r]]
    /\ UNCHANGED <<engine, mode, restarts, purgeArmed, history>>
    /\ Resolved(K)

LEMMA ArriveEffect ==
    ASSUME TypeInv, NEW r \in Requests, NEW hdr \in Ids \cup {NoHeader}, NEW ip \in ClientIps,
           NEW route \in Routes, NEW scenario \in Scenarios, Arrive(r, hdr, ip, route, scenario)
    PROVE  \E q, K : Arrived(r, q, K)
<1>1. /\ StoreInv /\ req \in [Requests -> Request]
      /\ wire \in [Requests -> {"none", "out", "ok", "refused", "missing"}]
  BY DEF TypeInv, ProxyTypeOK
<1>2. /\ now \in Nat /\ Len(heap) \in Nat /\ Objs = 1 .. Len(heap)
      /\ \A o \in Objs : heap[o] \in Session /\ CallsSound(heap[o], now)
  BY <1>1, StoreTypes
<1>3. /\ now' = now /\ req[r].pc = "idle"
      /\ wire' = [wire EXCEPT ![r] = IF req'[r].pc = "sent" THEN "out" ELSE wire[r]]
      /\ UNCHANGED <<engine, mode, restarts, purgeArmed, history>>
  BY <1>1 DEF Arrive
<1>4. ASSUME NEW o \in Objs, ResolveFound(hdr, ip, o),
             heap' = [heap EXCEPT ![o] = Charged(heap[o], route)],
             req' = [req EXCEPT ![r] = Entered(heap[o], o, route, scenario)]
      PROVE  \E q, K : Arrived(r, q, K)
  <2> DEFINE q == Entered(heap[o], o, route, scenario)
             s == Charged(heap[o], route)
  <2>1. /\ q \in Request /\ Newcomer(q) /\ q.obj = o
        /\ q.ns \in {Untouched, <<heap[o].key, scenario>>}
    BY <1>2, EnteredType
  <2>2. /\ s \in Session /\ CallsSound(s, now)
        /\ SameBooks(heap[o], s) /\ Admits(heap[o], s)
    BY <1>2, ChargedSound
  <2> HIDE DEF q, s
  <2>3. heap' = [heap EXCEPT ![o] = s] /\ req' = [req EXCEPT ![r] = q]
    BY <1>4 DEF q, s
  <2>4. Len(heap') = Len(heap) /\ Objs' = Objs /\ heap'[o] = s
    BY <1>1, <2>2, <2>3, HeapUpdate
  <2>5. Resolved({})
    BY <1>1, <1>3, <1>4, <2>2, <2>3, FoundResolved
  <2>6. req'[r] = q /\ q.obj \in Objs' /\ q.obj <= Len(heap')
    BY <1>1, <1>2, <2>1, <2>3, <2>4
  <2>7. q.ns = Untouched \/ q.ns \in {heap'[q.obj].key} \X Scenarios
    BY <2>1, <2>2, <2>4 DEF SameBooks
  <2>8. Arrived(r, q, {})
    BY <1>3, <2>1, <2>3, <2>5, <2>6, <2>7 DEF Arrived
  <2>9. QED
    BY <2>8
<1>5. ASSUME NEW id \in MintedIds(hdr),
             ResolveMint(hdr, ip, id, Charged(NewSession(id, ip, hdr \notin Ids), route)),
             req' = [req EXCEPT ![r] = Entered(NewSession(id, ip, hdr \notin Ids),
                                               Len(heap'), route, scenario)]
      PROVE  \E q, K : Arrived(r, q, K)
  <2> DEFINE n == NewSession(id, ip, hdr \notin Ids)
             s == Charged(n, route)
             q == Entered(n, Len(heap'), route, scenario)
             K == StaleKeys(hdr, ip)
  <2>1. id \in Keys
    BY DEF MintedIds, Keys
  <2>2. n \in Session /\ CallsSound(n, now) /\ n.key = id
    BY <1>2, <2>1, NewSessionSound DEF NewSession
  <2>3. s \in Session /\ CallsSound(s, now) /\ SameBooks(n, s) /\ Admits(n, s)
    <3> HIDE DEF n
    <3>1. QED
      BY <1>2, <2>2, ChargedSound
  <2>4. /\ Resolved(K) /\ Len(heap') \in Objs' /\ heap'[Len(heap')] = s /\ s.key = id
    <3> HIDE DEF s
    <3>1. ResolveMint(hdr, ip, id, s)
      BY <1>5 DEF s
    <3>2. QED
      BY <1>1, <1>3, <2>3, <3>1, MintResolved
  <2> HIDE DEF n, s, K
  <2>5. Len(heap') \in Nat
    BY <2>4, LenProperties DEF Resolved
  <2>6. /\ q \in Request /\ Newcomer(q) /\ q.obj = Len(heap')
        /\ q.ns \in {Untouched, <<n.key, scenario>>}
    BY <2>2, <2>5, EnteredType
  <2>7. req' = [req EXCEPT ![r] = q]
    BY <1>5 DEF n
  <2> HIDE DEF q
  <2>8. req'[r] = q /\ q.obj \in Objs' /\ q.obj <= Len(heap')
    BY <1>1, <2>4, <2>5, <2>6, <2>7
  <2>9. q.ns = Untouched \/ q.ns \in {heap'[q.obj].key} \X Scenarios
    BY <2>2, <2>4, <2>6
  <2>10. Arrived(r, q, K)
    BY <1>3, <2>4, <2>6, <2>7, <2>8, <2>9 DEF Arrived
  <2>11. QED
    BY <2>10
<1>6. ASSUME ResolveRefused(hdr, ip), UNCHANGED heap,
             req' = [req EXCEPT ![r] = Replied([req[r] EXCEPT !.route = route], 429)]
      PROVE  \E q, K : Arrived(r, q, K)
  <2> DEFINE i == [Idle EXCEPT !.route = route]
             q == Replied(i, 429)
             K == StaleKeys(hdr, ip)
  <2>1. /\ i \in Request /\ i.pc = "idle" /\ i.status = 0 /\ i.obj = 0
        /\ i.ns = Untouched /\ i.count = 0
    <3>1. route \in AllRoutes
      BY ProxyAssumption
    <3>2. i \in Request
      BY <3>1, IdleType DEF Request
    <3>3. QED
      BY <3>2 DEF Idle, None
  <2> HIDE DEF i
  <2>2. q \in Request /\ Newcomer(q) /\ q.obj = 0 /\ q.ns = Untouched /\ q.pc = "done"
    BY <2>1, RepliedType DEF Newcomer
  <2>3. req[r] = Idle
    BY <1>3 DEF TypeInv
  <2>4. req' = [req EXCEPT ![r] = q] /\ req'[r] = q
    <3>1. req' = [req EXCEPT ![r] = q]
      BY <1>6, <2>3 DEF i
    <3> HIDE DEF q
    <3>2. QED
      BY <1>1, <3>1
  <2>5. Resolved(K)
    BY <1>1, <1>3, <1>6, RefusedResolved
  <2> HIDE DEF q, K
  <2>6. heap' = heap /\ q.obj <= Len(heap')
    BY <1>2, <1>6, <2>2
  <2>7. Arrived(r, q, K)
    BY <1>3, <2>2, <2>4, <2>5, <2>6 DEF Arrived
  <2>8. QED
    BY <2>7
<1>7. \/ \E o \in Objs :
            /\ ResolveFound(hdr, ip, o)
            /\ heap' = [heap EXCEPT ![o] = Charged(heap[o], route)]
            /\ req' = [req EXCEPT ![r] = Entered(heap[o], o, route, scenario)]
      \/ \E id \in MintedIds(hdr) :
            /\ ResolveMint(hdr, ip, id, Charged(NewSession(id, ip, hdr \notin Ids), route))
            /\ req' = [req EXCEPT ![r] = Entered(NewSession(id, ip, hdr \notin Ids),
                                                 Len(heap'), route, scenario)]
      \/ /\ ResolveRefused(hdr, ip) /\ UNCHANGED heap
         /\ req' = [req EXCEPT ![r] = Replied([req[r] EXCEPT !.route = route], 429)]
  BY <1>1 DEF Arrive
<1>8. QED
  BY <1>4, <1>5, <1>6, <1>7, Zenon

\* The body does not come, or the cap check says no.
Refused(r, q) ==
    /\ req[r].pc = "body"
    /\ q \in Request /\ q.pc = "done" /\ q.status \in {403, 413}
    /\ q.route = req[r].route /\ q.obj = req[r].obj /\ q.ns = req[r].ns
    /\ req' = [req EXCEPT ![r] = q] /\ req'[r] = q
    /\ UNCHANGED <<now, sessions, heap, deletes, wire, engine, mode, restarts,
                   purgeArmed, history>>

LEMMA BodyFailsEffect ==
    ASSUME TypeInv, NEW r \in Requests, BodyFails(r)
    PROVE  \E q : Refused(r, q)
<1> DEFINE q == Replied(req[r], 413)
<1>1. req \in [Requests -> Request] /\ req[r] \in Request
  BY DEF TypeInv, ProxyTypeOK
<1>2. /\ q \in Request /\ q.pc = "done" /\ q.status = 413
      /\ q.route = req[r].route /\ q.obj = req[r].obj /\ q.ns = req[r].ns
  BY <1>1, RepliedType
<1>3. req' = [req EXCEPT ![r] = q]
  BY DEF BodyFails
<1> HIDE DEF q
<1>4. req'[r] = q
  BY <1>1, <1>3
<1>5. Refused(r, q)
  BY <1>2, <1>3, <1>4 DEF Refused, BodyFails
<1>6. QED
  BY <1>5

LEMMA BudgetType ==
    ASSUME NEW left \in Int
    PROVE  Budget(left) \in Nat /\ Budget(left) = IF left > 0 THEN left ELSE 0
<1> DEFINE m == Max({0, left})
<1>1. \E x \in {0, left} : \A y \in {0, left} : x >= y
  <2>1. CASE left > 0
    BY <2>1
  <2>2. CASE left <= 0
    BY <2>2
  <2>3. QED
    BY <2>1, <2>2
<1>2. m \in {0, left} /\ \A y \in {0, left} : m >= y
  BY <1>1 DEF Max
<1> HIDE DEF m
<1>3. m = IF left > 0 THEN left ELSE 0
  BY <1>2
<1>4. QED
  BY <1>3 DEF Budget, m

LEMMA MemoryLeftType ==
    ASSUME NEW s \in Session
    PROVE  MemoryLeft(s) \in Int /\ MemoryLeft(s) = MemoryCap - s.memoryCount
BY StoreAssumption DEF MemoryLeft, Session

LEMMA CapRefusesEffect ==
    ASSUME TypeInv, NEW r \in Requests, NEW count \in BatchSizes, CapRefuses(r, count)
    PROVE  \E q : Refused(r, q)
<1> DEFINE left == MemoryLeft(heap[req[r].obj])
           shown == Budget(left)
           a == [req[r] EXCEPT !.count = count]
           b == [a EXCEPT !.left = left]
           c == [b EXCEPT !.shown = shown]
           q == Replied(c, 403)
<1>1. req \in [Requests -> Request] /\ req[r] \in Request /\ req[r].pc = "body"
  BY DEF TypeInv, ProxyTypeOK, CapRefuses
<1>2. left \in Int /\ shown \in Nat
  <2>1. heap[req[r].obj] \in Session
    BY <1>1, StoreTypes DEF TypeInv, ProxyTypeOK
  <2>2. QED
    BY <2>1, MemoryLeftType, BudgetType
<1>3. req' = [req EXCEPT ![r] = q]
  BY DEF CapRefuses
<1> HIDE DEF left, shown
<1>4. a \in Request /\ a.route = req[r].route /\ a.obj = req[r].obj /\ a.ns = req[r].ns
  BY <1>1, StoreAssumption DEF Request
<1> HIDE DEF a
<1>5. b \in Request /\ b.route = a.route /\ b.obj = a.obj /\ b.ns = a.ns
  BY <1>2, <1>4 DEF Request
<1> HIDE DEF b
<1>6. c \in Request /\ c.route = b.route /\ c.obj = b.obj /\ c.ns = b.ns
  BY <1>2, <1>5 DEF Request
<1> HIDE DEF c
<1>7. /\ q \in Request /\ q.pc = "done" /\ q.status = 403
      /\ q.route = c.route /\ q.obj = c.obj /\ q.ns = c.ns
  BY <1>6, RepliedType
<1> HIDE DEF q
<1>8. req'[r] = q
  BY <1>1, <1>3
<1>9. UNCHANGED <<now, sessions, heap, deletes, wire, engine, mode, restarts, purgeArmed,
                  history>>
  BY DEF CapRefuses
<1>10. q.route = req[r].route /\ q.obj = req[r].obj /\ q.ns = req[r].ns
  BY <1>4, <1>5, <1>6, <1>7
<1>11. Refused(r, q)
  BY <1>1, <1>3, <1>7, <1>8, <1>9, <1>10 DEF Refused
<1>12. QED
  BY <1>11

\* The namespace is tracked and the request forwarded.
Tracked(o, ns) == IF ns = Untouched THEN heap[o] ELSE TrackNamespace(heap[o], ns)

Forwarded(r, q, o) ==
    /\ req[r].pc = "body" /\ o \in Objs /\ req[r].obj = o
    /\ q \in Request /\ q.pc = "sent" /\ q.status = req[r].status
    /\ q.route = req[r].route /\ q.route # "compare" /\ q.obj = o
    /\ q.ns \in NamespacesOf(o) \cup {Untouched}
    /\ q.route = "store" => /\ q.left = MemoryLeft(heap[o])
                            /\ q.count <= q.left
    /\ req' = [req EXCEPT ![r] = q] /\ req'[r] = q
    /\ Tracked(o, q.ns) \in Session /\ CallsSound(Tracked(o, q.ns), now)
    /\ heap' = [heap EXCEPT ![o] = Tracked(o, q.ns)]
    /\ wire' = [wire EXCEPT ![r] = "out"]
    /\ history' = [history EXCEPT
                     !.raced = @ \cup {x \in {o} : q.route = "store" /\ InFlight(o) # {}}]
    /\ UNCHANGED <<now, sessions, deletes, engine, mode, restarts, purgeArmed>>

LEMMA BodyArrivesEffect ==
    ASSUME TypeInv, NEW r \in Requests, NEW count \in BatchSizes \cup {0},
           NEW ns \in Namespaces \cup {Untouched}, BodyArrives(r, count, ns)
    PROVE  \E q, o : Forwarded(r, q, o)
<1> DEFINE o == req[r].obj
           left == IF req[r].route = "store" THEN MemoryLeft(heap[o]) ELSE 0
           a == [req[r] EXCEPT !.pc = "sent"]
           b == [a EXCEPT !.ns = ns]
           c == [b EXCEPT !.count = count]
           q == [c EXCEPT !.left = left]
<1>1. req \in [Requests -> Request] /\ req[r] \in Request /\ req[r].pc = "body"
  BY DEF TypeInv, ProxyTypeOK, BodyArrives
<1>2. /\ o \in Objs /\ heap[o] \in Session /\ CallsSound(heap[o], now) /\ left \in Int
      /\ heap \in Seq(Session) /\ Objs = 1 .. Len(heap)
  <2>1. /\ o \in Objs /\ heap[o] \in Session /\ CallsSound(heap[o], now)
        /\ heap \in Seq(Session)
    BY <1>1, StoreTypes DEF TypeInv, ProxyTypeOK
  <2>2. QED
    BY <2>1, MemoryLeftType DEF Objs
<1>3. req' = [req EXCEPT ![r] = q]
  BY <1>1 DEF BodyArrives
<1>4. ns \in NamespacesOf(o) \cup {Untouched}
  BY DEF BodyArrives
<1>5. Tracked(o, ns) \in Session /\ CallsSound(Tracked(o, ns), now)
  <2>1. CASE ns = Untouched
    BY <1>2, <2>1 DEF Tracked
  <2>2. CASE ns # Untouched
    <3>1. PICK scenario \in Scenarios : ns = <<heap[o].key, scenario>>
      BY <1>4, <2>2 DEF NamespacesOf
    <3>2. QED
      BY <1>2, <2>2, <3>1, TrackNamespaceType DEF Tracked
  <2>3. QED
    BY <2>1, <2>2
<1>6. heap' = [heap EXCEPT ![o] = Tracked(o, ns)]
  <2>1. CASE ns = Untouched
    BY <1>2, <2>1 DEF Tracked, BodyArrives
  <2>2. CASE ns # Untouched
    BY <2>2 DEF Tracked, BodyArrives
  <2>3. QED
    BY <2>1, <2>2
<1>7. /\ req[r].route # "compare"
      /\ req[r].route = "store" => left = MemoryLeft(heap[o]) /\ count <= left
  BY DEF BodyArrives, CapOk
<1>8. history' = [history EXCEPT
                    !.raced = @ \cup {x \in {o} : req[r].route = "store" /\ InFlight(o) # {}}]
  BY DEF BodyArrives
<1>9. /\ wire' = [wire EXCEPT ![r] = "out"]
      /\ UNCHANGED <<now, sessions, deletes, engine, mode, restarts, purgeArmed>>
  BY DEF BodyArrives
<1> HIDE DEF left
<1>10. /\ a \in Request /\ a.pc = "sent" /\ a.route = req[r].route /\ a.obj = o
       /\ a.status = req[r].status
  BY <1>1 DEF Request
<1> HIDE DEF a
<1>11. /\ b \in Request /\ b.ns = ns /\ b.pc = a.pc /\ b.route = a.route /\ b.obj = a.obj
       /\ b.status = a.status
  BY <1>4, <1>10 DEF Request
<1> HIDE DEF b
<1>12. /\ c \in Request /\ c.count = count /\ c.ns = b.ns /\ c.pc = b.pc /\ c.route = b.route
       /\ c.obj = b.obj /\ c.status = b.status
  BY <1>11, StoreAssumption DEF Request
<1> HIDE DEF c
<1>13. /\ q \in Request /\ q.left = left /\ q.count = c.count /\ q.ns = c.ns /\ q.pc = c.pc
       /\ q.route = c.route /\ q.obj = c.obj /\ q.status = c.status
  BY <1>2, <1>12 DEF Request
<1> HIDE DEF q, o
<1>14. req'[r] = q
  BY <1>1, <1>3
<1>15. Forwarded(r, q, o)
  BY <1>1, <1>2, <1>3, <1>4, <1>5, <1>6, <1>7, <1>8, <1>9, <1>10, <1>11, <1>12, <1>13, <1>14
     DEF Forwarded, o
<1>16. QED
  BY <1>15

\* The engine's answer, or its failure to answer, is passed on.
Counted(q) == q.route = "store" /\ q.count > 0

Paid(q, status) ==
    IF Counted(q) /\ status = 200 THEN CommitMemory(heap[q.obj], q.count) ELSE heap[q.obj]

Answered(r, q, status) ==
    /\ req[r].pc = "sent" /\ q.obj \in Objs
    /\ status \in {200, 422, 504}
    /\ q \in Request /\ q.pc = "done" /\ q.status = status
    /\ q.route = req[r].route /\ q.obj = req[r].obj /\ q.ns = req[r].ns
    /\ q.count = req[r].count /\ q.left = req[r].left
    /\ Counted(q) =>
          q.shown = Budget(IF status = 200 THEN q.left - q.count ELSE q.left)
    /\ status = 200 => wire[r] \in {"ok", "missing"}
    /\ status = 422 => wire[r] = "refused"
    /\ req' = [req EXCEPT ![r] = q] /\ req'[r] = q
    /\ Paid(q, status) \in Session /\ CallsSound(Paid(q, status), now)
    /\ heap' = [heap EXCEPT ![q.obj] = Paid(q, status)]
    /\ UNCHANGED <<now, sessions, deletes, wire, engine, mode, restarts,
                   purgeArmed, history>>

LEMMA StoreRepliedType ==
    ASSUME NEW q \in Request, NEW status \in {200, 422, 504}
    PROVE  LET p == StoreReplied(q, status)
           IN  /\ p \in Request /\ p.pc = "done" /\ p.status = status
               /\ p.route = q.route /\ p.obj = q.obj /\ p.ns = q.ns
               /\ p.count = q.count /\ p.left = q.left
               /\ Counted(p) =>
                     p.shown = Budget(IF status = 200 THEN p.left - p.count ELSE p.left)
<1> DEFINE a == Replied(q, status)
           p == StoreReplied(q, status)
           shown == Budget(IF status = 200 THEN q.left - q.count ELSE q.left)
<1>1. /\ a \in Request /\ a.pc = "done" /\ a.status = status /\ a.route = q.route
      /\ a.obj = q.obj /\ a.ns = q.ns /\ a.count = q.count /\ a.left = q.left
  BY RepliedType
<1>2. shown \in Nat
  BY BudgetType DEF Request
<1>3. p = IF Counted(q) THEN [a EXCEPT !.shown = shown] ELSE a
  BY DEF StoreReplied, Counted
<1> DEFINE b == [a EXCEPT !.shown = shown]
<1>5. b \in Request /\ b.shown = shown /\ b.pc = a.pc /\ b.status = a.status /\ b.route = a.route
      /\ b.obj = a.obj /\ b.ns = a.ns /\ b.count = a.count /\ b.left = a.left
  <2> HIDE DEF a, shown
  <2>1. QED
    BY <1>1, <1>2 DEF Request
<1>6. p = IF Counted(q) THEN b ELSE a
  BY <1>3
<1> HIDE DEF a, b, p
<1>4. QED
  BY <1>1, <1>5, <1>6 DEF Counted, p

LEMMA AnswerEffect ==
    ASSUME TypeInv, NEW r \in Requests, Answer(r)
    PROVE  \E q, status : Answered(r, q, status)
<1>1. /\ req \in [Requests -> Request] /\ req[r] \in Request
      /\ wire[r] \in {"none", "out", "ok", "refused", "missing"}
      /\ req[r].pc = "sent" /\ req[r].obj \in Objs
      /\ heap \in Seq(Session) /\ Objs = 1 .. Len(heap)
      /\ heap[req[r].obj] \in Session /\ CallsSound(heap[req[r].obj], now)
  <2>1. req[r].pc = "sent"
    BY DEF Answer, Deliver, UpstreamFails
  <2>2. req[r].obj \in Objs
    BY <2>1 DEF TypeInv, ProxyTypeOK
  <2>3. QED
    BY <2>1, <2>2, StoreTypes DEF TypeInv, ProxyTypeOK
<1>2. PICK status \in {200, 422, 504} :
         /\ req' = [req EXCEPT ![r] = StoreReplied(req[r], status)]
         /\ heap' = Committed(req[r], status)
         /\ status = 200 => wire[r] \in {"ok", "missing"}
         /\ status = 422 => wire[r] = "refused"
  <2>1. CASE Deliver(r)
    <3>1. CASE wire[r] = "refused"
      <4>1. /\ req' = [req EXCEPT ![r] = StoreReplied(req[r], 422)]
            /\ heap' = Committed(req[r], 422)
        BY <2>1, <3>1 DEF Deliver
      <4>2. QED
        BY <3>1, <4>1
    <3>2. CASE wire[r] # "refused"
      <4>1. /\ req' = [req EXCEPT ![r] = StoreReplied(req[r], 200)]
            /\ heap' = Committed(req[r], 200)
            /\ wire[r] \in {"ok", "missing"}
        BY <2>1, <3>2 DEF Deliver
      <4>2. QED
        BY <4>1
    <3>3. QED
      BY <3>1, <3>2
  <2>2. CASE UpstreamFails(r)
    <3>1. req' = [req EXCEPT ![r] = StoreReplied(req[r], 504)] /\ heap' = heap
      BY <2>2 DEF UpstreamFails
    <3>2. Committed(req[r], 504) = heap
      BY DEF Committed
    <3>3. QED
      BY <3>1, <3>2
  <2>3. QED
    BY <2>1, <2>2 DEF Answer
<1>3. UNCHANGED <<now, sessions, deletes, wire, engine, mode, restarts, purgeArmed, history>>
  BY DEF Answer, Deliver, UpstreamFails
<1> DEFINE q == StoreReplied(req[r], status)
<1>4. /\ q \in Request /\ q.pc = "done" /\ q.status = status
      /\ q.route = req[r].route /\ q.obj = req[r].obj /\ q.ns = req[r].ns
      /\ q.count = req[r].count /\ q.left = req[r].left
      /\ Counted(q) => q.shown = Budget(IF status = 200 THEN q.left - q.count ELSE q.left)
  BY <1>1, StoreRepliedType
<1>5. req' = [req EXCEPT ![r] = q]
  BY <1>2
<1> HIDE DEF q
<1>6. req'[r] = q
  BY <1>1, <1>5
<1>7. heap' = [heap EXCEPT ![q.obj] = Paid(q, status)]
  <2> DEFINE o == q.obj
  <2>1. Counted(q) <=> Counted(req[r])
    BY <1>4 DEF Counted
  <2>2. CASE Counted(q) /\ status = 200
    BY <1>2, <1>4, <2>1, <2>2 DEF Committed, Paid, Counted
  <2>3. CASE ~(Counted(q) /\ status = 200)
    <3>1. heap' = heap /\ Paid(q, status) = heap[o]
      BY <1>2, <2>1, <2>3 DEF Committed, Paid, Counted
    <3> HIDE DEF o
    <3>2. heap = [heap EXCEPT ![o] = heap[o]]
      BY <1>1
    <3>3. QED
      BY <3>1, <3>2 DEF o
  <2>4. QED
    BY <2>2, <2>3
<1>8. Paid(q, status) \in Session /\ CallsSound(Paid(q, status), now)
  BY <1>1, <1>4, CommitMemoryType DEF Paid, Request
<1>9. Answered(r, q, status)
  BY <1>1, <1>2, <1>3, <1>4, <1>5, <1>6, <1>7, <1>8 DEF Answered
<1>10. QED
  BY <1>9

\* What the engine answers a read is noted; nobody else looks at it.
Noted(r, q) ==
    /\ wire[r] = "out" /\ req[r].route # "store"
    /\ q \in Request /\ q.pc = req[r].pc /\ q.status = req[r].status
    /\ q.route = req[r].route /\ q.obj = req[r].obj /\ q.ns = req[r].ns
    /\ q.count = req[r].count /\ q.left = req[r].left /\ q.shown = req[r].shown
    /\ q.found = IF req[r].ns = Untouched THEN {} ELSE engine[req[r].ns]
    /\ req' = [req EXCEPT ![r] = q] /\ req'[r] = q
    /\ wire' = [wire EXCEPT ![r] = "ok"]
    /\ UNCHANGED <<now, sessions, heap, deletes, engine, mode, restarts,
                   purgeArmed, history>>

LEMMA EngineReadEffect ==
    ASSUME TypeInv, NEW r \in Requests, EngineRead(r)
    PROVE  \E q : Noted(r, q)
<1> DEFINE found == IF req[r].ns = Untouched THEN {} ELSE engine[req[r].ns]
           q == [req[r] EXCEPT !.found = found]
<1>1. req \in [Requests -> Request] /\ req[r] \in Request
  BY DEF TypeInv, ProxyTypeOK
<1>2. found \in SUBSET Requests
  <2>1. req[r].ns \in Namespaces \cup {Untouched}
    BY <1>1 DEF Request
  <2>2. QED
    BY <2>1 DEF TypeInv, ProxyTypeOK
<1>3. req' = [req EXCEPT ![r] = q]
  BY <1>1 DEF EngineRead
<1> HIDE DEF found
<1>4. /\ q \in Request /\ q.pc = req[r].pc /\ q.status = req[r].status
      /\ q.route = req[r].route /\ q.obj = req[r].obj /\ q.ns = req[r].ns
      /\ q.count = req[r].count /\ q.left = req[r].left /\ q.shown = req[r].shown
      /\ q.found = found
  BY <1>1, <1>2 DEF Request
<1> HIDE DEF q
<1>5. req'[r] = q
  BY <1>1, <1>3
<1>6. /\ wire[r] = "out" /\ req[r].route # "store" /\ wire' = [wire EXCEPT ![r] = "ok"]
      /\ UNCHANGED <<now, sessions, heap, deletes, engine, mode, restarts, purgeArmed,
                     history>>
  BY DEF EngineRead
<1>7. Noted(r, q)
  BY <1>3, <1>4, <1>5, <1>6 DEF Noted, found
<1>8. QED
  BY <1>7

\* The requests of a process that stops.
LEMMA StoppedEffect ==
    ASSUME TypeInv, Stopped
    PROVE  /\ req' \in [Requests -> Request]
           /\ \A r \in Requests :
                 /\ req'[r].pc = IF req[r].pc \in {"idle", "done"} THEN req[r].pc ELSE "gone"
                 /\ req'[r].status = req[r].status /\ req'[r].route = req[r].route
                 /\ req'[r].obj = req[r].obj /\ req'[r].ns = req[r].ns
                 /\ req'[r].count = req[r].count /\ req'[r].left = req[r].left
                 /\ req[r].pc = "idle" => req'[r] = req[r]
<1> DEFINE gone(q) == IF q.pc \in {"idle", "done"} THEN q ELSE [q EXCEPT !.pc = "gone"]
<1>1. req \in [Requests -> Request] /\ req' = [r \in Requests |-> gone(req[r])]
  BY DEF TypeInv, ProxyTypeOK, Stopped
<1>2. ASSUME NEW q \in Request
      PROVE  /\ gone(q) \in Request
             /\ gone(q).pc = IF q.pc \in {"idle", "done"} THEN q.pc ELSE "gone"
             /\ gone(q).status = q.status /\ gone(q).route = q.route /\ gone(q).obj = q.obj
             /\ gone(q).ns = q.ns /\ gone(q).count = q.count /\ gone(q).left = q.left
             /\ q.pc = "idle" => gone(q) = q
  BY DEF Request
<1> HIDE DEF gone
<1>3. QED
  BY <1>1, <1>2

\* The requests after one of them has changed.
LEMMA RequestTypes ==
    ASSUME TypeInv, NEW r \in Requests, NEW q \in Request, req' = [req EXCEPT ![r] = q],
           Len(heap') >= Len(heap), q.obj <= Len(heap'), q.pc # "idle",
           q.pc # "done" => q.obj \in Objs'
    PROVE  /\ req' \in [Requests -> Request]
           /\ \A s \in Requests :
                 /\ req'[s].pc \notin {"idle", "done"} => req'[s].obj \in Objs'
                 /\ req'[s].obj <= Len(heap')
                 /\ req'[s].pc = "idle" => req'[s] = Idle
<1>1. /\ req \in [Requests -> Request]
      /\ \A s \in Requests : /\ req[s].pc \notin {"idle", "done"} => req[s].obj \in Objs
                             /\ req[s].obj <= Len(heap)
                             /\ req[s].pc = "idle" => req[s] = Idle
  BY DEF TypeInv, ProxyTypeOK
<1>2. Len(heap) \in Nat /\ Objs = 1 .. Len(heap)
  BY StoreTypes DEF TypeInv
<1>3. Len(heap') \in Int /\ Objs \subseteq Objs'
  BY <1>2 DEF Objs
<1>4. \A s \in Requests : req'[s] = IF s = r THEN q ELSE req[s]
  BY <1>1
<1>5. \A s \in Requests : req[s].obj \in Nat
  BY <1>1 DEF Request
<1>6. QED
  BY <1>1, <1>2, <1>3, <1>4, <1>5

LEMMA TypeInvInit == ProxyInit => TypeInv
<1> SUFFICES ASSUME ProxyInit PROVE TypeInv
  OBVIOUS
<1>1. StoreInv
  BY StoreInvInit DEF ProxyInit
<1>2. Len(heap) \in Nat
  BY <1>1, StoreTypes
<1>3. Idle \in Request /\ Idle.obj = 0 /\ Idle.pc = "idle"
  BY IdleType DEF Idle, None
<1>4. restarts \in 0 .. MaxRestarts
  BY ProxyAssumption DEF ProxyInit
<1>5. QED
  BY <1>1, <1>2, <1>3, <1>4 DEF ProxyInit, TypeInv, ProxyTypeOK, StoreInv

\* What a step of the proxy does, one disjunct per kind of effect.
LEMMA StepEffect ==
    ASSUME TypeInv, [ProxyNext]_proxyVars
    PROVE  \/ \E r \in Requests : \E q, K : Arrived(r, q, K)
           \/ \E r \in Requests : \E q : Refused(r, q)
           \/ \E r \in Requests : \E q, o : Forwarded(r, q, o)
           \/ \E r \in Requests : \E q, status : Answered(r, q, status)
           \/ \E r \in Requests : EngineStore(r)
           \/ \E r \in Requests : \E q : Noted(r, q)
           \/ \E r \in Requests : EngineMissing(r)
           \/ \E r \in Requests : EngineRefuse(r)
           \/ \E d \in deletes : DeleteApplied(d) \/ DeleteLost(d)
           \/ SweepTimer
           \/ PurgeStale
           \/ PurgeFails
           \/ Stopped /\ restarts < MaxRestarts
           \/ Shutdown \/ Start \/ Clock \/ UNCHANGED proxyVars
<1>1. ASSUME NEW r \in Requests, BodyEnds(r)
      PROVE  (\E q : Refused(r, q)) \/ (\E q, o : Forwarded(r, q, o))
  BY <1>1, BodyFailsEffect, CapRefusesEffect, BodyArrivesEffect DEF BodyEnds
<1>2. ASSUME NEW r \in Requests, EngineStep(r)
      PROVE  EngineStore(r) \/ (\E q : Noted(r, q)) \/ EngineMissing(r) \/ EngineRefuse(r)
  BY <1>2, EngineReadEffect DEF EngineStep
<1>3. ASSUME Exit \/ Crash PROVE Stopped /\ restarts < MaxRestarts
  BY <1>3 DEF Exit, Crash, TypeInv
<1>4. \/ \E r \in Requests, hdr \in Ids \cup {NoHeader}, ip \in ClientIps, route \in Routes,
            scenario \in Scenarios : Arrive(r, hdr, ip, route, scenario)
      \/ \E r \in Requests : BodyEnds(r)
      \/ \E r \in Requests : Answer(r)
      \/ \E r \in Requests : EngineStep(r)
      \/ \E d \in deletes : DeleteApplied(d) \/ DeleteLost(d)
      \/ SweepTimer \/ PurgeStale \/ PurgeFails \/ Shutdown \/ Exit \/ Crash \/ Start
      \/ Clock \/ UNCHANGED proxyVars
  BY DEF ProxyNext
<1>5. QED
  BY <1>1, <1>2, <1>3, <1>4, ArriveEffect, AnswerEffect, Zenon

\* One step per action.
LEMMA TypeInvStep == TypeInv /\ [ProxyNext]_proxyVars => TypeInv'
<1> SUFFICES ASSUME TypeInv, [ProxyNext]_proxyVars PROVE TypeInv'
  OBVIOUS
<1>1. /\ StoreInv /\ req \in [Requests -> Request]
      /\ \A r \in Requests : /\ req[r].pc \notin {"idle", "done"} => req[r].obj \in Objs
                             /\ req[r].obj <= Len(heap)
                             /\ req[r].pc = "idle" => req[r] = Idle /\ wire[r] = "none"
      /\ wire \in [Requests -> {"none", "out", "ok", "refused", "missing"}]
      /\ engine \in [Namespaces -> SUBSET Requests]
      /\ mode \in {"up", "draining", "down"}
      /\ restarts \in 0 .. MaxRestarts /\ (mode # "up" => restarts < MaxRestarts)
      /\ purgeArmed \in BOOLEAN
      /\ history \in [raced : SUBSET Nat, stranded : SUBSET Requests,
                      purged : SUBSET Namespaces]
  BY DEF TypeInv, ProxyTypeOK
<1>2. /\ Len(heap) \in Nat /\ Objs = 1 .. Len(heap) /\ deletes \subseteq Nat \X Namespaces
      /\ \A r \in Requests : req[r].obj \in Nat
  BY <1>1, StoreTypes DEF Request
<1> DEFINE ReqOK == /\ req' \in [Requests -> Request]
                    /\ \A r \in Requests :
                          /\ req'[r].pc \notin {"idle", "done"} => req'[r].obj \in Objs'
                          /\ req'[r].obj <= Len(heap')
                          /\ req'[r].pc = "idle" => req'[r] = Idle
           WireOK == /\ wire' \in [Requests -> {"none", "out", "ok", "refused", "missing"}]
                     /\ \A r \in Requests : req'[r].pc = "idle" => wire'[r] = "none"
           EngineOK == engine' \in [Namespaces -> SUBSET Requests]
           ProcessOK == /\ mode' \in {"up", "draining", "down"}
                        /\ restarts' \in 0 .. MaxRestarts
                        /\ purgeArmed' \in BOOLEAN
                        /\ mode' # "up" => restarts' < MaxRestarts
           HistoryOK == history' \in [raced : SUBSET Nat, stranded : SUBSET Requests,
                                      purged : SUBSET Namespaces]
<1>3. ASSUME StoreInv', ReqOK, WireOK, EngineOK, ProcessOK, HistoryOK PROVE TypeInv'
  BY <1>3 DEF TypeInv, ProxyTypeOK, StoreInv
<1>4. UNCHANGED storeVars => StoreInv'
  BY <1>1 DEF StoreInv, StoreTypeOK, CallsSound, KeptSound, storeVars, Objs
<1>5. UNCHANGED <<heap, req>> => ReqOK
  BY <1>1 DEF Objs
<1>6. UNCHANGED <<wire, req>> => WireOK
  BY <1>1
<1>7. UNCHANGED engine => EngineOK
  BY <1>1
<1>8. UNCHANGED <<mode, restarts, purgeArmed>> => ProcessOK
  BY <1>1
<1>9. UNCHANGED history => HistoryOK
  BY <1>1
<1>10. ASSUME NEW r \in Requests, NEW q, NEW K, Arrived(r, q, K) PROVE TypeInv'
  <2>1. StoreInv' /\ Len(heap') >= Len(heap)
    <3>1. Resolved(K)
      BY <1>10 DEF Arrived
    <3>2. Len(heap') = Len(heap) \/ Len(heap') = Len(heap) + 1
      BY <3>1 DEF Resolved, Added
    <3>3. QED
      BY <1>1, <1>2, <3>1, <3>2, ResolvedKeepsStore
  <2>2. ReqOK
    <3>1. /\ q \in Request /\ req' = [req EXCEPT ![r] = q] /\ q.obj <= Len(heap')
          /\ q.pc # "done" => q.obj \in Objs'
          /\ q.pc # "idle"
      BY <1>10 DEF Arrived, Newcomer
    <3>2. Len(heap') >= Len(heap)
      BY <2>1
    <3>3. QED
      BY <3>1, <3>2, RequestTypes
  <2>3. WireOK
    BY <1>1, <1>10 DEF Arrived
  <2>4. EngineOK /\ ProcessOK /\ HistoryOK
    BY <1>7, <1>8, <1>9, <1>10 DEF Arrived
  <2>5. QED
    BY <1>3, <2>1, <2>2, <2>3, <2>4
<1>11. ASSUME NEW r \in Requests, NEW q, Refused(r, q) PROVE TypeInv'
  <2>3. /\ heap' = heap /\ q \in Request /\ q.pc = "done" /\ q.obj = req[r].obj
        /\ req' = [req EXCEPT ![r] = q]
    BY <1>11 DEF Refused
  <2>5. Len(heap') >= Len(heap) /\ q.obj <= Len(heap')
    BY <1>1, <1>2, <2>3
  <2>1. ReqOK
    BY <2>3, <2>5, RequestTypes
  <2>2. WireOK
    BY <1>1, <1>11 DEF Refused
  <2>4. QED
    BY <1>3, <1>4, <1>7, <1>8, <1>9, <1>11, <2>1, <2>2 DEF Refused, storeVars
<1>12. ASSUME NEW r \in Requests, NEW q, NEW o, Forwarded(r, q, o) PROVE TypeInv'
  <2>1. StoreInv'
    BY <1>1, <1>12, UpdateKeepsInv DEF Forwarded, Update
  <2>2. Len(heap') = Len(heap) /\ Objs' = Objs
    BY <1>1, <1>12, HeapUpdate DEF Forwarded
  <2>3. ReqOK
    BY <1>1, <1>2, <1>12, <2>2, RequestTypes DEF Forwarded
  <2>4. WireOK
    BY <1>1, <1>12 DEF Forwarded
  <2>5. HistoryOK
    <3>1. o \in Nat
      BY <1>2, <1>12 DEF Forwarded
    <3>2. QED
      BY <1>1, <1>12, <3>1 DEF Forwarded
  <2>6. QED
    BY <1>3, <1>7, <1>8, <1>12, <2>1, <2>3, <2>4, <2>5 DEF Forwarded
<1>13. ASSUME NEW r \in Requests, NEW q, NEW status, Answered(r, q, status) PROVE TypeInv'
  <2>1. StoreInv'
    <3> DEFINE o == q.obj
               s == Paid(q, status)
    <3>1. /\ o \in Objs /\ s \in Session /\ CallsSound(s, now)
          /\ heap' = [heap EXCEPT ![o] = s] /\ UNCHANGED <<now, sessions, deletes>>
      BY <1>13 DEF Answered
    <3> HIDE DEF o, s
    <3>2. QED
      BY <1>1, <3>1, UpdateKeepsInv DEF Update
  <2>2. Len(heap') = Len(heap) /\ Objs' = Objs
    <3> DEFINE o == q.obj
               s == Paid(q, status)
    <3>1. o \in Objs /\ s \in Session /\ heap' = [heap EXCEPT ![o] = s]
      BY <1>13 DEF Answered
    <3> HIDE DEF o, s
    <3>2. QED
      BY <1>1, <3>1, HeapUpdate
  <2>3. ReqOK
    BY <1>1, <1>2, <1>13, <2>2, RequestTypes DEF Answered
  <2>4. WireOK
    BY <1>1, <1>13 DEF Answered
  <2>5. QED
    BY <1>3, <1>7, <1>8, <1>9, <1>13, <2>1, <2>3, <2>4 DEF Answered
<1>14. ASSUME NEW r \in Requests, EngineStore(r) PROVE TypeInv'
  <2>1. req[r].ns \in Namespaces
    BY <1>1, <1>14 DEF EngineStore, Request
  <2>2. EngineOK /\ WireOK
    BY <1>1, <1>14, <2>1 DEF EngineStore
  <2>3. HistoryOK
    BY <1>1, <1>14 DEF EngineStore
  <2>4. QED
    BY <1>3, <1>4, <1>5, <1>8, <1>14, <2>2, <2>3 DEF EngineStore, storeVars
<1>15. ASSUME NEW r \in Requests, NEW q, Noted(r, q) PROVE TypeInv'
  <2>4. q \in Request /\ q.pc = req[r].pc /\ q.obj = req[r].obj /\ q.pc # "idle"
    BY <1>1, <1>15 DEF Noted
  <2>5. heap' = heap /\ Objs' = Objs /\ req' = [req EXCEPT ![r] = q]
    BY <1>15 DEF Noted, Objs
  <2>1. ReqOK
    BY <1>1, <1>2, <2>4, <2>5, RequestTypes
  <2>2. WireOK
    BY <1>1, <1>15, <2>4 DEF Noted
  <2>3. QED
    BY <1>3, <1>4, <1>7, <1>8, <1>9, <1>15, <2>1, <2>2 DEF Noted, storeVars
<1>16. ASSUME NEW r \in Requests, EngineMissing(r) \/ EngineRefuse(r) PROVE TypeInv'
  <2>1. WireOK
    BY <1>1, <1>16 DEF EngineMissing, EngineRefuse
  <2>2. QED
    BY <1>3, <1>4, <1>5, <1>7, <1>8, <1>9, <1>16, <2>1 DEF EngineMissing, EngineRefuse, storeVars
<1>17. ASSUME NEW d \in deletes, DeleteApplied(d) \/ DeleteLost(d) PROVE TypeInv'
  <2>1. deletes' = deletes \ {d} /\ UNCHANGED <<now, sessions, heap>>
    BY <1>17 DEF DeleteApplied, DeleteLost
  <2>2. StoreInv'
    BY <1>1, <1>2, <2>1 DEF StoreInv, StoreTypeOK, CallsSound, KeptSound, Objs
  <2>3. d[2] \in Namespaces
    BY <1>2
  <2>4. EngineOK /\ HistoryOK
    BY <1>1, <1>7, <1>9, <1>17, <2>3 DEF DeleteApplied, DeleteLost
  <2>5. UNCHANGED <<heap, req, wire, mode, restarts, purgeArmed>>
    BY <1>17 DEF DeleteApplied, DeleteLost
  <2>6. QED
    BY <1>3, <1>5, <1>6, <1>8, <2>2, <2>4, <2>5
<1>18. ASSUME Resolved(ExpiredKeys), UNCHANGED <<heap, req, wire, engine, mode,
              restarts, purgeArmed, history>>
       PROVE  TypeInv'
  BY <1>1, <1>3, <1>5, <1>6, <1>7, <1>8, <1>9, <1>18, ResolvedKeepsStore
<1>19. ASSUME PurgeStale PROVE TypeInv'
  <2>1. StoreInv'
    <3>1. {None} \X {ns \in Namespaces : engine[ns] # {}} \subseteq Nat \X Namespaces
      BY DEF None
    <3>2. deletes' \subseteq Nat \X Namespaces /\ UNCHANGED <<now, sessions, heap>>
      BY <1>2, <1>19, <3>1 DEF PurgeStale
    <3>3. QED
      BY <1>1, <3>2 DEF StoreInv, StoreTypeOK, CallsSound, KeptSound, Objs
  <2>2. HistoryOK /\ ProcessOK
    BY <1>1, <1>19 DEF PurgeStale
  <2>3. QED
    BY <1>3, <1>5, <1>6, <1>7, <1>19, <2>1, <2>2 DEF PurgeStale
<1>20. ASSUME PurgeFails PROVE TypeInv'
  <2>3. Stored \in SUBSET Requests
    BY <1>1 DEF Stored
  <2>1. HistoryOK /\ ProcessOK
    BY <1>1, <1>20, <2>3 DEF PurgeFails
  <2>2. QED
    BY <1>3, <1>4, <1>5, <1>6, <1>7, <1>20, <2>1 DEF PurgeFails, storeVars
<1>21. ASSUME Shutdown PROVE TypeInv'
  BY <1>1, <1>3, <1>4, <1>5, <1>6, <1>7, <1>9, <1>21 DEF Shutdown, storeVars
<1>22. ASSUME Stopped, restarts < MaxRestarts PROVE TypeInv'
  <2>1. StoreInv'
    BY <1>1, <1>2, <1>22 DEF StoreInv, StoreTypeOK, CallsSound, KeptSound, Objs, None, Stopped
  <2>5. heap' = heap /\ Objs' = Objs /\ wire' = wire
    BY <1>22 DEF Stopped, Objs
  <2>2. ReqOK /\ WireOK
    BY <1>1, <1>22, <2>5, StoppedEffect
  <2>3. ProcessOK
    BY <1>1, <1>22 DEF Stopped
  <2>4. QED
    BY <1>3, <1>7, <1>9, <1>22, <2>1, <2>2, <2>3 DEF Stopped
<1>23. ASSUME Start PROVE TypeInv'
  <2>1. ProcessOK
    BY <1>1, <1>23, ProxyAssumption DEF Start
  <2>2. QED
    BY <1>3, <1>4, <1>5, <1>6, <1>7, <1>9, <1>23, <2>1 DEF Start, storeVars
<1>24. ASSUME Clock PROVE TypeInv'
  <2>1. StoreInv'
    BY <1>1, <1>24, StoreInvStep DEF Clock, StoreNext
  <2>2. QED
    BY <1>3, <1>5, <1>6, <1>7, <1>8, <1>9, <1>24, <2>1 DEF Clock, Tick
<1>25. ASSUME UNCHANGED proxyVars PROVE TypeInv'
  BY <1>3, <1>4, <1>5, <1>6, <1>7, <1>8, <1>9, <1>25 DEF proxyVars, storeVars
<1> HIDE DEF ReqOK, WireOK, EngineOK, ProcessOK, HistoryOK
<1>26. ASSUME SweepTimer PROVE TypeInv'
  BY <1>1, <1>18, <1>26, SweepResolved DEF SweepTimer, Sweep
<1>27. QED
  BY <1>10, <1>11, <1>12, <1>13, <1>14, <1>15, <1>16, <1>17, <1>19, <1>20, <1>21, <1>22,
     <1>23, <1>24, <1>25, <1>26, StepEffect, Zenon

LEMMA TypeInvHolds == ProxySpec => []TypeInv
BY TypeInvInit, TypeInvStep, PTL DEF ProxySpec

\* The types hold for every choice of the constants, and a request under way
\* keeps the session object resolve() gave it (server.js).
THEOREM ProxyTypeCorrect == ProxySpec => []ProxyTypeOK
<1>1. TypeInv => ProxyTypeOK
  BY DEF TypeInv
<1>2. QED
  BY <1>1, TypeInvHolds, PTL

-----------------------------------------------------------------------------
(* What a step leaves alone *)

LEMMA TrackedBooks ==
    ASSUME TypeInv, NEW o \in Objs, NEW ns
    PROVE  LET s == Tracked(o, ns)
           IN  /\ s.key = heap[o].key /\ s.memoryCount = heap[o].memoryCount
               /\ s.namespaces = heap[o].namespaces \cup ({ns} \ {Untouched})
               /\ s.llmSeeded = heap[o].llmSeeded
<1>1. heap[o] \in Session
  BY StoreTypes DEF TypeInv
<1>2. CASE ns = Untouched
  BY <1>2 DEF Tracked
<1>3. CASE ns # Untouched
  BY <1>1, <1>3 DEF Tracked, TrackNamespace, Session
<1>4. QED
  BY <1>2, <1>3

LEMMA PaidBooks ==
    ASSUME TypeInv, NEW q, q.obj \in Objs, NEW status
    PROVE  LET s == Paid(q, status)
               o == q.obj
           IN  /\ s.key = heap[o].key /\ s.namespaces = heap[o].namespaces
               /\ s.llmSeeded = heap[o].llmSeeded
               /\ s.memoryCount = heap[o].memoryCount
                                    + (IF Counted(q) /\ status = 200 THEN q.count ELSE 0)
<1>1. heap[q.obj] \in Session
  BY StoreTypes DEF TypeInv
<1>2. CASE Counted(q) /\ status = 200
  BY <1>1, <1>2 DEF Paid, CommitMemory, Session
<1>3. CASE ~(Counted(q) /\ status = 200)
  BY <1>1, <1>3 DEF Paid, Session
<1>4. QED
  BY <1>2, <1>3

\* The heap after a request has been forwarded or answered.
LEMMA ForwardedHeap ==
    ASSUME TypeInv, NEW r, NEW q, NEW o, Forwarded(r, q, o)
    PROVE  /\ Objs' = Objs /\ Len(heap') = Len(heap)
           /\ \A p \in Objs : heap'[p] = IF p = o THEN Tracked(o, q.ns) ELSE heap[p]
BY HeapUpdate DEF TypeInv, Forwarded

LEMMA AnsweredHeap ==
    ASSUME TypeInv, NEW r, NEW q, NEW status, Answered(r, q, status)
    PROVE  /\ Objs' = Objs /\ Len(heap') = Len(heap)
           /\ \A p \in Objs : heap'[p] = IF p = q.obj THEN Paid(q, status) ELSE heap[p]
<1> DEFINE o == q.obj
           s == Paid(q, status)
<1>1. o \in Objs /\ s \in Session /\ heap' = [heap EXCEPT ![o] = s]
  BY DEF Answered
<1> HIDE DEF o, s
<1>2. Objs' = Objs /\ Len(heap') = Len(heap) /\ \A p \in Objs : heap'[p] = IF p = o THEN s ELSE heap[p]
  BY <1>1, HeapUpdate DEF TypeInv
<1>3. QED
  BY <1>2 DEF o, s

\* No object goes away, changes its id, or forgets a namespace or a seed.
Grows ==
    /\ Objs \subseteq Objs'
    /\ \A o \in Objs : /\ heap'[o].key = heap[o].key
                       /\ heap[o].namespaces \subseteq heap'[o].namespaces
                       /\ heap[o].llmSeeded => heap'[o].llmSeeded

LEMMA ResolvedGrows ==
    ASSUME StoreInv, NEW K, Resolved(K)
    PROVE  Grows
BY DEF Resolved, Added, SameBooks, Grows

LEMMA StepGrows ==
    ASSUME TypeInv, [ProxyNext]_proxyVars
    PROVE  Grows
<1>1. UNCHANGED heap => Grows
  BY DEF Grows, Objs
<1>2. ASSUME NEW r \in Requests, NEW q, NEW K, Arrived(r, q, K) PROVE Grows
  BY <1>2, ResolvedGrows DEF TypeInv, Arrived
<1>3. ASSUME NEW r \in Requests, NEW q, NEW o, Forwarded(r, q, o) PROVE Grows
  <2>1. o \in Objs
    BY <1>3 DEF Forwarded
  <2>2. QED
    BY <1>3, <2>1, ForwardedHeap, TrackedBooks DEF Grows
<1>4. ASSUME NEW r \in Requests, NEW q, NEW status, Answered(r, q, status) PROVE Grows
  <2>1. q.obj \in Objs
    BY <1>4 DEF Answered
  <2>2. QED
    BY <1>4, <2>1, AnsweredHeap, PaidBooks DEF Grows
<1>5. ASSUME NEW r \in Requests, NEW q, Refused(r, q) \/ Noted(r, q) PROVE UNCHANGED heap
  BY <1>5 DEF Refused, Noted
<1>6. ASSUME NEW r \in Requests, EngineStore(r) \/ EngineMissing(r) \/ EngineRefuse(r) PROVE UNCHANGED heap
  BY <1>6 DEF EngineStore, EngineMissing, EngineRefuse
<1>7. ASSUME NEW d \in deletes, DeleteApplied(d) \/ DeleteLost(d) PROVE UNCHANGED heap
  BY <1>7 DEF DeleteApplied, DeleteLost
<1>8. ASSUME \/ SweepTimer \/ PurgeStale \/ PurgeFails \/ Stopped
             \/ Shutdown \/ Start \/ Clock \/ UNCHANGED proxyVars
      PROVE  UNCHANGED heap
  BY <1>8 DEF SweepTimer, Sweep, PurgeStale, PurgeFails, Stopped, Shutdown, Start, Clock, Tick,
              proxyVars
<1>9. QED
  BY <1>1, <1>2, <1>3, <1>4, <1>5, <1>6, <1>7, <1>8, StepEffect, Zenon

-----------------------------------------------------------------------------
(* One request *)

\* What the handler and the engine have agreed on about a request q whose
\* forwarded copy is in state w, in a heap h.  A store is answered 2xx only
\* after the engine has it or knows no such namespace, and its namespace is
\* tracked before it is sent.
RequestOK(q, w, h) ==
    /\ q.pc \in {"idle", "body"} => w = "none" /\ q.ns = Untouched
    /\ w # "none" => q.obj \in 1 .. Len(h)
    /\ q.pc # "done" => q.status = 0
    /\ q.ns # Untouched => /\ q.obj \in 1 .. Len(h)
                           /\ q.ns \in {h[q.obj].key} \X Scenarios
    /\ q.route = "store" =>
          /\ q.pc \in {"body", "sent", "done", "gone"}
          /\ q.ns # Untouched => q.ns \in h[q.obj].namespaces
          /\ w = "ok" => q.ns # Untouched
          /\ q.status = 200 => w \in {"ok", "missing"}
          /\ w \in {"out", "ok", "missing"} /\ q.pc = "done" => q.status \in {200, 504}

RequestInv == \A r \in Requests : RequestOK(req[r], wire[r], heap)

LEMMA GrownRequest ==
    ASSUME Grows, NEW q, NEW w, RequestOK(q, w, heap)
    PROVE  RequestOK(q, w, heap')
BY DEF Grows, RequestOK, Objs

LEMMA RequestInvInit == ProxyInit => RequestInv
BY DEF ProxyInit, RequestInv, RequestOK, Idle

LEMMA RequestInvStep == TypeInv /\ RequestInv /\ [ProxyNext]_proxyVars => RequestInv'
<1> SUFFICES ASSUME TypeInv, RequestInv, [ProxyNext]_proxyVars PROVE RequestInv'
  OBVIOUS
<1>1. /\ req \in [Requests -> Request]
      /\ wire \in [Requests -> {"none", "out", "ok", "refused", "missing"}]
      /\ \A r \in Requests : req[r].pc = "idle" => wire[r] = "none"
  BY DEF TypeInv, ProxyTypeOK
<1>2. Grows
  BY StepGrows
<1>3. \A r \in Requests : RequestOK(req[r], wire[r], heap')
  BY <1>2, GrownRequest DEF RequestInv
<1>4. Objs = 1 .. Len(heap) /\ Objs' = 1 .. Len(heap')
  BY DEF Objs

\* One request changes.
<1>5. ASSUME NEW r \in Requests, NEW q, NEW w, req' = [req EXCEPT ![r] = q],
             wire' = [wire EXCEPT ![r] = w], RequestOK(q, w, heap')
      PROVE  RequestInv'
  BY <1>1, <1>3, <1>5 DEF RequestInv
<1>6. ASSUME NEW r \in Requests, NEW q, req' = [req EXCEPT ![r] = q],
             wire' = wire, RequestOK(q, wire[r], heap')
      PROVE  RequestInv'
  BY <1>1, <1>3, <1>6 DEF RequestInv
<1>7. ASSUME NEW r \in Requests, NEW w, req' = req,
             wire' = [wire EXCEPT ![r] = w], RequestOK(req[r], w, heap')
      PROVE  RequestInv'
  BY <1>1, <1>3, <1>7 DEF RequestInv
<1>8. ASSUME NEW r \in Requests, NEW q, NEW K, Arrived(r, q, K) PROVE RequestInv'
  <2> DEFINE w == IF q.pc = "sent" THEN "out" ELSE wire[r]
  <2>1. RequestOK(q, w, heap')
    BY <1>1, <1>4, <1>8 DEF Arrived, Newcomer, RequestOK
  <2> HIDE DEF w
  <2>2. req' = [req EXCEPT ![r] = q] /\ wire' = [wire EXCEPT ![r] = w]
    BY <1>8 DEF Arrived, w
  <2>3. QED
    BY <1>5, <2>1, <2>2
<1>9. ASSUME NEW r \in Requests, NEW q, Refused(r, q) PROVE RequestInv'
  <2>1. RequestOK(req[r], wire[r], heap')
    BY <1>3
  <2>2. RequestOK(q, wire[r], heap')
    BY <1>9, <2>1 DEF Refused, RequestOK
  <2>3. QED
    BY <1>6, <1>9, <2>2 DEF Refused
<1>10. ASSUME NEW r \in Requests, NEW q, NEW o, Forwarded(r, q, o) PROVE RequestInv'
  <2>1. RequestOK(req[r], wire[r], heap')
    BY <1>3
  <2>2. /\ o \in Objs' /\ heap'[o].key = heap[o].key
        /\ q.ns # Untouched => q.ns \in heap'[o].namespaces
    <3>1. o \in Objs
      BY <1>10 DEF Forwarded
    <3>2. QED
      BY <1>10, <3>1, ForwardedHeap, TrackedBooks
  <2>3. /\ q.pc = "sent" /\ q.obj = o /\ q.status = req[r].status /\ req[r].pc = "body"
        /\ q.ns = Untouched \/ q.ns \in {heap[o].key} \X Scenarios
    BY <1>10 DEF Forwarded, NamespacesOf
  <2>4. RequestOK(q, "out", heap')
    BY <1>4, <2>1, <2>2, <2>3 DEF RequestOK
  <2>5. QED
    BY <1>5, <1>10, <2>4 DEF Forwarded
<1>11. ASSUME NEW r \in Requests, NEW q, NEW status, Answered(r, q, status) PROVE RequestInv'
  <2>1. RequestOK(req[r], wire[r], heap')
    BY <1>3
  <2>2. /\ req[r].pc = "sent" /\ status \in {200, 422, 504} /\ q.pc = "done"
        /\ q.status = status /\ q.route = req[r].route /\ q.obj = req[r].obj
        /\ q.ns = req[r].ns
        /\ status = 200 => wire[r] \in {"ok", "missing"}
        /\ status = 422 => wire[r] = "refused"
    BY <1>11 DEF Answered
  <2>3. RequestOK(q, wire[r], heap')
    BY <2>1, <2>2 DEF RequestOK
  <2>4. QED
    BY <1>6, <1>11, <2>3 DEF Answered
<1>12. ASSUME NEW r \in Requests, EngineStore(r) PROVE RequestInv'
  <2>1. RequestOK(req[r], wire[r], heap')
    BY <1>3
  <2>2. wire[r] = "out" /\ req[r].route = "store" /\ req[r].ns # Untouched
    BY <1>12 DEF EngineStore
  <2>3. RequestOK(req[r], "ok", heap')
    BY <2>1, <2>2 DEF RequestOK
  <2>4. QED
    BY <1>7, <1>12, <2>3 DEF EngineStore
<1>13. ASSUME NEW r \in Requests, NEW q, Noted(r, q) PROVE RequestInv'
  <2>1. RequestOK(req[r], wire[r], heap')
    BY <1>3
  <2>2. /\ wire[r] = "out" /\ req[r].route # "store" /\ q.pc = req[r].pc
        /\ q.status = req[r].status /\ q.route = req[r].route /\ q.obj = req[r].obj
        /\ q.ns = req[r].ns
    BY <1>13 DEF Noted
  <2>3. wire' = [wire EXCEPT ![r] = "ok"]
    BY <1>13 DEF Noted
  <2>4. RequestOK(q, "ok", heap')
    BY <2>1, <2>2, <2>3 DEF RequestOK
  <2>5. QED
    BY <1>5, <1>13, <2>3, <2>4 DEF Noted
<1>14. ASSUME NEW r \in Requests, EngineMissing(r) \/ EngineRefuse(r) PROVE RequestInv'
  <2>1. RequestOK(req[r], wire[r], heap') /\ wire[r] = "out"
    BY <1>3, <1>14 DEF EngineMissing, EngineRefuse
  <2>2. RequestOK(req[r], "missing", heap') /\ RequestOK(req[r], "refused", heap')
    BY <2>1 DEF RequestOK
  <2>3. QED
    BY <1>7, <1>14, <2>2 DEF EngineMissing, EngineRefuse
<1>15. ASSUME Stopped PROVE RequestInv'
  <2>1. wire' = wire
    BY <1>15 DEF Stopped
  <2>2. QED
    BY <1>3, <1>15, <2>1, StoppedEffect DEF RequestInv, RequestOK
<1>16. ASSUME UNCHANGED <<req, wire>> PROVE RequestInv'
  BY <1>3, <1>16 DEF RequestInv
<1>17. ASSUME NEW d \in deletes, DeleteApplied(d) \/ DeleteLost(d) PROVE UNCHANGED <<req, wire>>
  BY <1>17 DEF DeleteApplied, DeleteLost
<1>18. ASSUME \/ SweepTimer \/ PurgeStale \/ PurgeFails
              \/ Shutdown \/ Start \/ Clock \/ UNCHANGED proxyVars
       PROVE  UNCHANGED <<req, wire>>
  BY <1>18 DEF SweepTimer, PurgeStale, PurgeFails, Shutdown, Start, Clock, proxyVars
<1>19. QED
  BY <1>8, <1>9, <1>10, <1>11, <1>12, <1>13, <1>14, <1>15, <1>16, <1>17, <1>18, StepEffect,
     Zenon

\* Once its body has come, the handler does not change its mind about a
\* request, and what the engine decided stays decided.
Settled(r) ==
    /\ req'[r].route = req[r].route /\ req'[r].obj = req[r].obj /\ req'[r].ns = req[r].ns
    /\ req'[r].count = req[r].count /\ req'[r].left = req[r].left
    /\ wire[r] # "out" => wire'[r] = wire[r]

LEMMA StepSettled ==
    ASSUME TypeInv, RequestInv, [ProxyNext]_proxyVars, NEW s \in Requests,
           wire[s] # "none" \/ req[s].pc \notin {"idle", "body"}
    PROVE  Settled(s)
<1>1. /\ req \in [Requests -> Request]
      /\ wire \in [Requests -> {"none", "out", "ok", "refused", "missing"}]
      /\ req[s].pc \notin {"idle", "body"}
  BY DEF TypeInv, ProxyTypeOK, RequestInv, RequestOK
<1>2. UNCHANGED <<req, wire>> => Settled(s)
  BY DEF Settled
<1>3. ASSUME NEW r \in Requests, r # s, NEW q, NEW w, req' = [req EXCEPT ![r] = q],
             wire' = [wire EXCEPT ![r] = w]
      PROVE  Settled(s)
  BY <1>1, <1>3 DEF Settled
<1>4. ASSUME NEW r \in Requests, NEW q, NEW K, Arrived(r, q, K) PROVE Settled(s)
  <2>1. r # s
    BY <1>1, <1>4 DEF Arrived
  <2> DEFINE w == IF q.pc = "sent" THEN "out" ELSE wire[r]
  <2>2. req' = [req EXCEPT ![r] = q] /\ wire' = [wire EXCEPT ![r] = w]
    BY <1>4 DEF Arrived
  <2> HIDE DEF w
  <2>3. QED
    BY <1>3, <2>1, <2>2
<1>5. ASSUME NEW r \in Requests, NEW q, Refused(r, q) PROVE Settled(s)
  BY <1>1, <1>5 DEF Refused, Settled
<1>6. ASSUME NEW r \in Requests, NEW q, NEW o, Forwarded(r, q, o) PROVE Settled(s)
  BY <1>1, <1>3, <1>6 DEF Forwarded
<1>7. ASSUME NEW r \in Requests, NEW q, NEW status, Answered(r, q, status) PROVE Settled(s)
  BY <1>1, <1>7 DEF Answered, Settled
<1>8. ASSUME NEW r \in Requests, EngineStore(r) \/ EngineMissing(r) \/ EngineRefuse(r) PROVE Settled(s)
  BY <1>1, <1>8 DEF EngineStore, EngineMissing, EngineRefuse, Settled
<1>9. ASSUME NEW r \in Requests, NEW q, Noted(r, q) PROVE Settled(s)
  BY <1>1, <1>9 DEF Noted, Settled
<1>10. ASSUME Stopped PROVE Settled(s)
  <2>1. wire' = wire
    BY <1>10 DEF Stopped
  <2>2. QED
    BY <1>10, <2>1, StoppedEffect DEF Settled
<1>11. ASSUME NEW d \in deletes, DeleteApplied(d) \/ DeleteLost(d) PROVE UNCHANGED <<req, wire>>
  BY <1>11 DEF DeleteApplied, DeleteLost
<1>12. ASSUME \/ SweepTimer \/ PurgeStale \/ PurgeFails
              \/ Shutdown \/ Start \/ Clock \/ UNCHANGED proxyVars
       PROVE  UNCHANGED <<req, wire>>
  BY <1>12 DEF SweepTimer, PurgeStale, PurgeFails, Shutdown, Start, Clock, proxyVars
<1>13. QED
  BY <1>2, <1>4, <1>5, <1>6, <1>7, <1>8, <1>9, <1>10, <1>11, <1>12, StepEffect, Zenon

-----------------------------------------------------------------------------
(* The Map, the DELETEs and the engine *)

LEMMA MapInvStep == TypeInv /\ MapInv /\ [ProxyNext]_proxyVars => MapInv'
<1> SUFFICES ASSUME TypeInv, MapInv, [ProxyNext]_proxyVars PROVE MapInv'
  OBVIOUS
<1>1. StoreInv
  BY DEF TypeInv
<1>2. ASSUME UNCHANGED <<sessions, heap>> PROVE MapInv'
  BY <1>2 DEF MapInv, Objs
<1>3. ASSUME NEW r \in Requests, NEW q, NEW K, Arrived(r, q, K) PROVE MapInv'
  BY <1>1, <1>3, ResolvedKeepsMap DEF Arrived
<1>4. ASSUME NEW r \in Requests, NEW q, NEW o, Forwarded(r, q, o) PROVE MapInv'
  <2> DEFINE s == Tracked(o, q.ns)
  <2>1. /\ o \in Objs /\ s \in Session /\ heap' = [heap EXCEPT ![o] = s]
        /\ sessions' = sessions /\ q.ns \in {heap[o].key} \X Scenarios \cup {Untouched}
    BY <1>4 DEF Forwarded, NamespacesOf
  <2>2. s.key = heap[o].key /\ s.namespaces \subseteq {s.key} \X Scenarios
    BY <2>1, TrackedBooks DEF MapInv
  <2> HIDE DEF s
  <2>3. QED
    BY <1>1, <2>1, <2>2, UpdateKeepsMap
<1>5. ASSUME NEW r \in Requests, NEW q, NEW status, Answered(r, q, status) PROVE MapInv'
  <2> DEFINE o == q.obj
             s == Paid(q, status)
  <2>1. /\ o \in Objs /\ s \in Session /\ heap' = [heap EXCEPT ![o] = s]
        /\ sessions' = sessions
    BY <1>5 DEF Answered
  <2>2. s.key = heap[o].key /\ s.namespaces \subseteq {s.key} \X Scenarios
    BY <2>1, PaidBooks DEF MapInv
  <2> HIDE DEF o, s
  <2>3. QED
    BY <1>1, <2>1, <2>2, UpdateKeepsMap
<1>6. ASSUME SweepTimer PROVE MapInv'
  BY <1>1, <1>6, SweepResolved, ResolvedKeepsMap DEF SweepTimer
<1>7. ASSUME Stopped PROVE MapInv'
  BY <1>7 DEF Stopped, MapInv, Objs
<1>8. ASSUME NEW r \in Requests, NEW q, Refused(r, q) \/ Noted(r, q)
      PROVE  UNCHANGED <<sessions, heap>>
  BY <1>8 DEF Refused, Noted
<1>9. ASSUME NEW r \in Requests, EngineStore(r) \/ EngineMissing(r) \/ EngineRefuse(r)
      PROVE  UNCHANGED <<sessions, heap>>
  BY <1>9 DEF EngineStore, EngineMissing, EngineRefuse
<1>10. ASSUME NEW d \in deletes, DeleteApplied(d) \/ DeleteLost(d)
       PROVE  UNCHANGED <<sessions, heap>>
  BY <1>10 DEF DeleteApplied, DeleteLost
<1>11. ASSUME \/ PurgeStale \/ PurgeFails \/ Shutdown \/ Start \/ Clock
              \/ UNCHANGED proxyVars
       PROVE  UNCHANGED <<sessions, heap>>
  BY <1>11 DEF PurgeStale, PurgeFails, Shutdown, Start, Clock, Tick, proxyVars
<1>12. QED
  BY <1>2, <1>3, <1>4, <1>5, <1>6, <1>7, <1>8, <1>9, <1>10, <1>11, StepEffect, Zenon

\* Nothing old enters the Map; what leaves it is handed over, unless the
\* process stops.
LEMMA StepEvicts ==
    ASSUME TypeInv, MapInv, [ProxyNext]_proxyVars, NEW o \in Objs
    PROVE  /\ Held(o)' => Held(o)
           /\ Held(o) /\ ~Held(o)' =>
                 mode' = "down" \/ {o} \X heap[o].namespaces \subseteq deletes'
<1> DEFINE Evicts == /\ Held(o)' => Held(o)
                     /\ Held(o) /\ ~Held(o)' =>
                           mode' = "down" \/ {o} \X heap[o].namespaces \subseteq deletes'
<1>1. StoreInv
  BY DEF TypeInv
<1>2. ASSUME UNCHANGED sessions PROVE Evicts
  BY <1>2 DEF Held
<1>3. ASSUME NEW K, Resolved(K) PROVE Evicts
  BY <1>1, <1>3, ResolvedEvicts
<1>4. ASSUME Stopped PROVE Evicts
  <2>1. o # None
    BY <1>1, StoreTypes DEF None
  <2>2. QED
    BY <1>4, <2>1 DEF Stopped, Held
<1> HIDE DEF Evicts
<1>5. ASSUME NEW r \in Requests, NEW q, NEW K, Arrived(r, q, K) PROVE Evicts
  BY <1>3, <1>5 DEF Arrived
<1>6. ASSUME SweepTimer PROVE Evicts
  BY <1>1, <1>3, <1>6, SweepResolved DEF SweepTimer
<1>7. ASSUME NEW r \in Requests, NEW q, Refused(r, q) \/ Noted(r, q) PROVE UNCHANGED sessions
  BY <1>7 DEF Refused, Noted
<1>8. ASSUME NEW r \in Requests, NEW q, NEW p, Forwarded(r, q, p) \/ Answered(r, q, p)
      PROVE  UNCHANGED sessions
  BY <1>8 DEF Forwarded, Answered
<1>9. ASSUME NEW r \in Requests, EngineStore(r) \/ EngineMissing(r) \/ EngineRefuse(r) PROVE UNCHANGED sessions
  BY <1>9 DEF EngineStore, EngineMissing, EngineRefuse
<1>10. ASSUME NEW d \in deletes, DeleteApplied(d) \/ DeleteLost(d) PROVE UNCHANGED sessions
  BY <1>10 DEF DeleteApplied, DeleteLost
<1>11. ASSUME \/ PurgeStale \/ PurgeFails \/ Shutdown \/ Start \/ Clock
              \/ UNCHANGED proxyVars
       PROVE  UNCHANGED sessions
  BY <1>11 DEF PurgeStale, PurgeFails, Shutdown, Start, Clock, Tick, proxyVars
<1>12. Evicts
  BY <1>2, <1>4, <1>5, <1>6, <1>7, <1>8, <1>9, <1>10, <1>11, StepEffect, Zenon
<1>13. QED
  BY <1>12 DEF Evicts

\* A DELETE is under way for a namespace of a session that has left the Map, or
\* of one that a purge has listed.
DeletesInv ==
    \A d \in deletes :
        /\ d[1] = None => d[2] \in history.purged
        /\ d[1] # None => /\ d[1] \in Objs /\ d[2] \in heap[d[1]].namespaces
                          /\ ~Held(d[1])

\* The engine has the stores it has said yes to, each in its namespace.
EngineInv ==
    \A ns \in Namespaces : \A r \in engine[ns] :
        req[r].ns = ns /\ wire[r] = "ok" /\ req[r].route = "store"

\* What remembers remembers more.
LEMMA StepRemembers ==
    ASSUME TypeInv, [ProxyNext]_proxyVars
    PROVE  /\ history.raced \subseteq history'.raced
           /\ history.stranded \subseteq history'.stranded
           /\ history.purged \subseteq history'.purged
<1> DEFINE Remembers == /\ history.raced \subseteq history'.raced
                        /\ history.stranded \subseteq history'.stranded
                        /\ history.purged \subseteq history'.purged
<1>1. history \in [raced : SUBSET Nat, stranded : SUBSET Requests, purged : SUBSET Namespaces]
  BY DEF TypeInv, ProxyTypeOK
<1>2. ASSUME NEW r \in Requests, NEW q, NEW p, Forwarded(r, q, p) PROVE Remembers
  BY <1>1, <1>2 DEF Forwarded
<1>3. ASSUME NEW r \in Requests, EngineStore(r) PROVE Remembers
  BY <1>1, <1>3 DEF EngineStore
<1>4. ASSUME NEW d \in deletes, DeleteApplied(d) \/ DeleteLost(d) PROVE Remembers
  BY <1>1, <1>4 DEF DeleteApplied, DeleteLost
<1>5. ASSUME PurgeStale \/ PurgeFails PROVE Remembers
  BY <1>1, <1>5 DEF PurgeStale, PurgeFails
<1>6. ASSUME UNCHANGED history PROVE Remembers
  BY <1>6
<1> HIDE DEF Remembers
<1>7. ASSUME NEW r \in Requests, NEW q, NEW K, Arrived(r, q, K) \/ Answered(r, q, K)
      PROVE  UNCHANGED history
  BY <1>7 DEF Arrived, Answered
<1>8. ASSUME NEW r \in Requests, NEW q, Refused(r, q) \/ Noted(r, q) PROVE UNCHANGED history
  BY <1>8 DEF Refused, Noted
<1>9. ASSUME NEW r \in Requests, EngineMissing(r) \/ EngineRefuse(r) PROVE UNCHANGED history
  BY <1>9 DEF EngineMissing, EngineRefuse
<1>10. ASSUME \/ SweepTimer \/ Stopped \/ Shutdown \/ Start \/ Clock \/ UNCHANGED proxyVars
       PROVE  UNCHANGED history
  BY <1>10 DEF SweepTimer, Stopped, Shutdown, Start, Clock, proxyVars
<1>11. Remembers
  BY <1>2, <1>3, <1>4, <1>5, <1>6, <1>7, <1>8, <1>9, <1>10, StepEffect, Zenon
<1>12. QED
  BY <1>11 DEF Remembers

\* The DELETEs that a step sends.
LEMMA StepDeletes ==
    ASSUME TypeInv, MapInv, [ProxyNext]_proxyVars, NEW d \in deletes', d \notin deletes
    PROVE  \/ d[1] = None /\ d[2] \in history'.purged
           \/ d[1] \in Objs /\ d[2] \in heap[d[1]].namespaces /\ ~Held(d[1])'
<1> DEFINE Sent == \/ d[1] = None /\ d[2] \in history'.purged
                   \/ d[1] \in Objs /\ d[2] \in heap[d[1]].namespaces /\ ~Held(d[1])'
<1>1. StoreInv /\ history \in [raced : SUBSET Nat, stranded : SUBSET Requests,
                               purged : SUBSET Namespaces]
  BY DEF TypeInv, ProxyTypeOK
<1>2. ASSUME NEW K, Resolved(K) PROVE Sent
  <2>1. d \in HandedOver(K)
    BY <1>2 DEF Resolved
  <2>2. PICK k \in K : d \in {sessions[k]} \X heap[sessions[k]].namespaces
    BY <2>1 DEF HandedOver
  <2>3. d[1] = sessions[k] /\ d[2] \in heap[sessions[k]].namespaces
    BY <2>2
  <2>4. d[1] \in Objs /\ ~Held(d[1])'
    BY <1>1, <1>2, <2>3, DroppedIsGone
  <2>5. QED
    BY <2>3, <2>4
<1>3. ASSUME PurgeStale PROVE Sent
  BY <1>1, <1>3 DEF PurgeStale
<1>4. ASSUME UNCHANGED deletes PROVE Sent
  BY <1>4
<1> HIDE DEF Sent
<1>5. ASSUME NEW r \in Requests, NEW q, NEW K, Arrived(r, q, K) PROVE Sent
  BY <1>2, <1>5 DEF Arrived
<1>6. ASSUME SweepTimer PROVE Sent
  BY <1>1, <1>2, <1>6, SweepResolved DEF SweepTimer
<1>7. ASSUME NEW e \in deletes, DeleteApplied(e) \/ DeleteLost(e) PROVE Sent
  BY <1>7 DEF DeleteApplied, DeleteLost
<1>8. ASSUME NEW r \in Requests, NEW q, Refused(r, q) \/ Noted(r, q) PROVE UNCHANGED deletes
  BY <1>8 DEF Refused, Noted
<1>9. ASSUME NEW r \in Requests, NEW q, NEW p, Forwarded(r, q, p) \/ Answered(r, q, p)
      PROVE  UNCHANGED deletes
  BY <1>9 DEF Forwarded, Answered
<1>10. ASSUME NEW r \in Requests, EngineStore(r) \/ EngineMissing(r) \/ EngineRefuse(r) PROVE UNCHANGED deletes
  BY <1>10 DEF EngineStore, EngineMissing, EngineRefuse
<1>11. ASSUME \/ PurgeFails \/ Stopped \/ Shutdown \/ Start \/ Clock \/ UNCHANGED proxyVars
       PROVE  UNCHANGED deletes
  BY <1>11 DEF PurgeFails, Stopped, Shutdown, Start, Clock, Tick, proxyVars
<1>12. Sent
  BY <1>3, <1>4, <1>5, <1>6, <1>7, <1>8, <1>9, <1>10, <1>11, StepEffect, Zenon
<1>13. QED
  BY <1>12 DEF Sent

LEMMA DeletesInvStep ==
    TypeInv /\ MapInv /\ DeletesInv /\ [ProxyNext]_proxyVars => DeletesInv'
<1> SUFFICES ASSUME TypeInv, MapInv, DeletesInv, [ProxyNext]_proxyVars, NEW d \in deletes'
             PROVE  /\ d[1] = None => d[2] \in history'.purged
                    /\ d[1] # None => /\ d[1] \in Objs' /\ d[2] \in heap'[d[1]].namespaces
                                      /\ ~Held(d[1])'
  BY DEF DeletesInv, Held
<1>1. Grows /\ history.purged \subseteq history'.purged
  BY StepGrows, StepRemembers
<1>2. \A o \in Objs : o # None
  BY StoreTypes DEF TypeInv, None
<1>3. CASE d \in deletes
  BY <1>1, <1>3, StepEvicts DEF DeletesInv, Grows
<1>4. CASE d \notin deletes
  <2>1. \/ d[1] = None /\ d[2] \in history'.purged
        \/ d[1] \in Objs /\ d[2] \in heap[d[1]].namespaces /\ ~Held(d[1])'
    BY <1>4, StepDeletes
  <2>2. QED
    BY <1>1, <1>2, <2>1 DEF Grows
<1>5. QED
  BY <1>3, <1>4

\* What the engine holds changes when it stores and when it deletes.
LEMMA StepEngine ==
    ASSUME TypeInv, [ProxyNext]_proxyVars
    PROVE  \/ engine' = engine
           \/ \E r \in Requests : EngineStore(r)
           \/ \E d \in deletes : DeleteApplied(d)
<1>1. ASSUME NEW r \in Requests, NEW q, NEW K, Arrived(r, q, K) \/ Answered(r, q, K)
      PROVE  engine' = engine
  BY <1>1 DEF Arrived, Answered
<1>2. ASSUME NEW r \in Requests, NEW q, NEW o, Forwarded(r, q, o) PROVE engine' = engine
  BY <1>2 DEF Forwarded
<1>3. ASSUME NEW r \in Requests, NEW q, Refused(r, q) \/ Noted(r, q) PROVE engine' = engine
  BY <1>3 DEF Refused, Noted
<1>4. ASSUME NEW r \in Requests, EngineMissing(r) \/ EngineRefuse(r) PROVE engine' = engine
  BY <1>4 DEF EngineMissing, EngineRefuse
<1>5. ASSUME NEW d \in deletes, DeleteLost(d) PROVE engine' = engine
  BY <1>5 DEF DeleteLost
<1>6. ASSUME \/ SweepTimer \/ PurgeStale \/ PurgeFails \/ Stopped \/ Shutdown \/ Start
             \/ Clock \/ UNCHANGED proxyVars
      PROVE  engine' = engine
  BY <1>6 DEF SweepTimer, PurgeStale, PurgeFails, Stopped, Shutdown, Start, Clock, proxyVars
<1>7. QED
  BY <1>1, <1>2, <1>3, <1>4, <1>5, <1>6, StepEffect, Zenon

LEMMA EngineInvStep ==
    TypeInv /\ RequestInv /\ EngineInv /\ [ProxyNext]_proxyVars => EngineInv'
<1> SUFFICES ASSUME TypeInv, RequestInv, EngineInv, [ProxyNext]_proxyVars,
                    NEW ns \in Namespaces, NEW r \in engine'[ns]
             PROVE  req'[r].ns = ns /\ wire'[r] = "ok" /\ req'[r].route = "store"
  BY DEF EngineInv
<1>1. /\ engine \in [Namespaces -> SUBSET Requests]
      /\ wire \in [Requests -> {"none", "out", "ok", "refused", "missing"}]
  BY DEF TypeInv, ProxyTypeOK
<1>2. ASSUME r \in engine[ns] PROVE req'[r].ns = ns /\ wire'[r] = "ok" /\ req'[r].route = "store"
  <2>1. r \in Requests /\ req[r].ns = ns /\ wire[r] = "ok" /\ req[r].route = "store"
    BY <1>1, <1>2 DEF EngineInv
  <2>2. Settled(r)
    BY <2>1, StepSettled
  <2>3. QED
    BY <2>1, <2>2 DEF Settled
<1>3. CASE engine' = engine
  BY <1>2, <1>3
<1>4. ASSUME NEW s \in Requests, EngineStore(s)
      PROVE  req'[r].ns = ns /\ wire'[r] = "ok" /\ req'[r].route = "store"
  <2>1. r \in engine[ns] \/ (r = s /\ ns = req[s].ns)
    BY <1>1, <1>4 DEF EngineStore
  <2>2. req' = req /\ wire'[s] = "ok" /\ req[s].route = "store"
    BY <1>1, <1>4 DEF EngineStore
  <2>3. QED
    BY <1>2, <2>1, <2>2
<1>5. ASSUME NEW d \in deletes, DeleteApplied(d) PROVE r \in engine[ns]
  BY <1>1, <1>5 DEF DeleteApplied
<1>6. QED
  BY <1>2, <1>3, <1>4, <1>5, StepEngine

\* What holds of everything but the engine, and with it.
BaseInv == TypeInv /\ RequestInv /\ MapInv /\ DeletesInv
ProxyInv == BaseInv /\ EngineInv

LEMMA ProxyInvHolds == ProxySpec => []ProxyInv
<1>1. ProxyInit => ProxyInv
  <2> SUFFICES ASSUME ProxyInit PROVE ProxyInv
    OBVIOUS
  <2>1. StoreInit /\ deletes = {} /\ engine = [ns \in Namespaces |-> {}]
    BY DEF ProxyInit, StoreInit
  <2>2. TypeInv /\ RequestInv /\ MapInv
    BY <2>1, TypeInvInit, RequestInvInit, MapInvInit
  <2>3. DeletesInv /\ EngineInv
    BY <2>1 DEF DeletesInv, EngineInv
  <2>4. QED
    BY <2>2, <2>3 DEF ProxyInv, BaseInv
<1>2. ProxyInv /\ [ProxyNext]_proxyVars => ProxyInv'
  <2>1. TypeInv /\ [ProxyNext]_proxyVars => TypeInv'
    BY TypeInvStep
  <2>2. TypeInv /\ RequestInv /\ [ProxyNext]_proxyVars => RequestInv'
    BY RequestInvStep
  <2>3. TypeInv /\ MapInv /\ [ProxyNext]_proxyVars => MapInv'
    BY MapInvStep
  <2>4. TypeInv /\ MapInv /\ DeletesInv /\ [ProxyNext]_proxyVars => DeletesInv'
    BY DeletesInvStep
  <2>5. TypeInv /\ RequestInv /\ EngineInv /\ [ProxyNext]_proxyVars => EngineInv'
    BY EngineInvStep
  <2>6. QED
    BY <2>1, <2>2, <2>3, <2>4, <2>5, Zenon DEF ProxyInv, BaseInv
<1>3. QED
  BY <1>1, <1>2, PTL DEF ProxySpec

-----------------------------------------------------------------------------
(* Nothing leaks unexplained *)

\* A DELETE stops being under way when it arrives or is lost.
LEMMA StepDelivers ==
    ASSUME TypeInv, [ProxyNext]_proxyVars, NEW d \in deletes, d \notin deletes'
    PROVE  DeleteApplied(d) \/ DeleteLost(d)
<1>1. ASSUME NEW r \in Requests, NEW q, NEW K, Arrived(r, q, K) PROVE d \in deletes'
  BY <1>1 DEF Arrived, Resolved
<1>2. ASSUME SweepTimer PROVE d \in deletes'
  BY <1>2 DEF SweepTimer, Sweep
<1>3. ASSUME PurgeStale PROVE d \in deletes'
  BY <1>3 DEF PurgeStale
<1>4. ASSUME NEW r \in Requests, NEW q, Refused(r, q) \/ Noted(r, q) PROVE d \in deletes'
  BY <1>4 DEF Refused, Noted
<1>5. ASSUME NEW r \in Requests, NEW q, NEW p, Forwarded(r, q, p) \/ Answered(r, q, p)
      PROVE  d \in deletes'
  BY <1>5 DEF Forwarded, Answered
<1>6. ASSUME NEW r \in Requests, EngineStore(r) \/ EngineMissing(r) \/ EngineRefuse(r) PROVE d \in deletes'
  BY <1>6 DEF EngineStore, EngineMissing, EngineRefuse
<1>7. ASSUME \/ PurgeFails \/ Stopped \/ Shutdown \/ Start \/ Clock \/ UNCHANGED proxyVars
      PROVE  d \in deletes'
  BY <1>7 DEF PurgeFails, Stopped, Shutdown, Start, Clock, Tick, proxyVars
<1>8. ASSUME NEW e \in deletes, DeleteApplied(e) \/ DeleteLost(e) PROVE e = d
  BY <1>8 DEF DeleteApplied, DeleteLost
<1>9. QED
  BY <1>1, <1>2, <1>3, <1>4, <1>5, <1>6, <1>7, <1>8, StepEffect, Zenon

\* The purge timer fires once, and starting arms it.
LEMMA StepPurge ==
    ASSUME TypeInv, [ProxyNext]_proxyVars
    PROVE  /\ purgeArmed /\ ~purgeArmed' => PurgeStale \/ PurgeFails \/ mode' = "down"
           /\ mode = "down" /\ mode' # "down" => purgeArmed'
<1> DEFINE Same == mode' = mode /\ purgeArmed' = purgeArmed
<1>1. ASSUME NEW r \in Requests, NEW q, NEW K, Arrived(r, q, K) \/ Answered(r, q, K) PROVE Same
  BY <1>1 DEF Arrived, Answered
<1>2. ASSUME NEW r \in Requests, NEW q, Refused(r, q) \/ Noted(r, q) PROVE Same
  BY <1>2 DEF Refused, Noted
<1>3. ASSUME NEW r \in Requests, NEW q, NEW p, Forwarded(r, q, p) PROVE Same
  BY <1>3 DEF Forwarded
<1>4. ASSUME NEW r \in Requests, EngineStore(r) \/ EngineMissing(r) \/ EngineRefuse(r) PROVE Same
  BY <1>4 DEF EngineStore, EngineMissing, EngineRefuse
<1>5. ASSUME NEW e \in deletes, DeleteApplied(e) \/ DeleteLost(e) PROVE Same
  BY <1>5 DEF DeleteApplied, DeleteLost
<1>6. ASSUME SweepTimer \/ Clock \/ UNCHANGED proxyVars PROVE Same
  BY <1>6 DEF SweepTimer, Clock, proxyVars
<1> HIDE DEF Same
<1>7. Same \/ PurgeStale \/ PurgeFails \/ Stopped \/ Shutdown \/ Start
  BY <1>1, <1>2, <1>3, <1>4, <1>5, <1>6, StepEffect, Zenon
<1>8. QED
  BY <1>7 DEF Same, PurgeStale, PurgeFails, Stopped, Shutdown, Start

\* Why a store that the engine holds in ns need not be tracked for ever.
Explained(ns) ==
    \/ \E k \in Keys : sessions[k] # None /\ ns \in heap[sessions[k]].namespaces
    \/ \E d \in deletes : d[2] = ns
    \/ purgeArmed \/ mode = "down"

\* An explanation holds until the store is gone or stranded.
LEMMA StillExplained ==
    ASSUME TypeInv, MapInv, [ProxyNext]_proxyVars, NEW ns \in Namespaces,
           NEW r \in engine[ns], r \in engine'[ns], r \notin history'.stranded,
           Explained(ns)
    PROVE  Explained(ns)'
<1>1. TypeInv /\ MapInv /\ StoreInv
  BY DEF TypeInv
<1>2. /\ engine \in [Namespaces -> SUBSET Requests] /\ ns \in Namespaces
      /\ history \in [raced : SUBSET Nat, stranded : SUBSET Requests,
                      purged : SUBSET Namespaces]
  BY <1>1 DEF TypeInv, ProxyTypeOK
<1>3. CASE mode' = "down" \/ purgeArmed'
  BY <1>3 DEF Explained
<1>4. CASE \E k \in Keys : sessions[k] # None /\ ns \in heap[sessions[k]].namespaces
  <2>1. PICK k \in Keys : sessions[k] # None /\ ns \in heap[sessions[k]].namespaces
    BY <1>4
  <2>2. PICK o \in Objs : o = sessions[k]
    BY <1>1, <2>1, StoreTypes
  <2>3. Held(o) /\ o # None /\ ns \in heap[o].namespaces
    BY <2>1, <2>2 DEF Held
  <2>4. ns \in heap'[o].namespaces
    BY <1>1, <2>3, StepGrows DEF Grows
  <2>5. CASE Held(o)'
    <3>1. PICK j \in Keys : sessions'[j] = o
      BY <2>5 DEF Held
    <3>2. QED
      BY <2>3, <2>4, <3>1 DEF Explained, None
  <2>6. CASE ~Held(o)' /\ mode' # "down"
    <3>1. <<o, ns>> \in deletes'
      BY <1>1, <2>3, <2>6, StepEvicts
    <3>2. QED
      BY <3>1 DEF Explained
  <2>7. QED
    BY <1>3, <2>5, <2>6
<1>5. CASE \E d \in deletes : d[2] = ns
  <2>1. PICK d \in deletes : d[2] = ns
    BY <1>5
  <2>2. CASE d \in deletes'
    BY <2>1, <2>2 DEF Explained
  <2>3. CASE DeleteApplied(d)
    BY <1>2, <2>1, <2>3 DEF DeleteApplied
  <2>4. CASE DeleteLost(d)
    BY <1>2, <2>1, <2>4 DEF DeleteLost
  <2>5. QED
    BY <1>1, <2>2, <2>3, <2>4, StepDelivers
<1>6. CASE purgeArmed /\ ~purgeArmed' /\ mode' # "down"
  <2>1. CASE PurgeStale
    <3>1. <<None, ns>> \in deletes'
      BY <2>1 DEF PurgeStale
    <3>2. QED
      BY <3>1 DEF Explained
  <2>2. CASE PurgeFails
    BY <1>2, <2>2 DEF PurgeFails, Stored
  <2>3. QED
    BY <1>1, <1>6, <2>1, <2>2, StepPurge
<1>7. CASE mode = "down" /\ mode' # "down"
  BY <1>1, <1>3, <1>7, StepPurge
<1>8. QED
  BY <1>3, <1>4, <1>5, <1>6, <1>7 DEF Explained

\* A store that is not stranded is explained from the start.
LEMMA StoreExplained ==
    ASSUME TypeInv, RequestInv, NEW ns \in Namespaces, NEW r \in engine'[ns],
           r \notin engine[ns], r \notin history'.stranded,
           NEW s \in Requests, EngineStore(s)
    PROVE  Explained(ns)'
<1>1. /\ engine \in [Namespaces -> SUBSET Requests]
      /\ history \in [raced : SUBSET Nat, stranded : SUBSET Requests,
                      purged : SUBSET Namespaces]
  BY DEF TypeInv, ProxyTypeOK
<1>2. r = s /\ ns = req[r].ns
  BY <1>1 DEF EngineStore
<1>3. Held(req[r].obj)
  BY <1>1, <1>2 DEF EngineStore
<1>4. r \in Requests /\ ns \in heap[req[r].obj].namespaces /\ req[r].obj \in Objs
  BY <1>2 DEF EngineStore, RequestInv, RequestOK, Objs
<1>5. PICK k \in Keys : sessions[k] = req[r].obj
  BY <1>3 DEF Held
<1>6. sessions[k] # None
  BY <1>4, <1>5 DEF Objs, None
<1>7. UNCHANGED <<sessions, heap>>
  BY DEF EngineStore
<1>8. QED
  BY <1>4, <1>5, <1>6, <1>7 DEF Explained

LEMMA LeakStep == BaseInv /\ NoUnexplainedLeak /\ [ProxyNext]_proxyVars => NoUnexplainedLeak'
<1> SUFFICES ASSUME BaseInv, NoUnexplainedLeak, [ProxyNext]_proxyVars,
                    NEW ns \in Namespaces, NEW r \in engine'[ns], r \notin history'.stranded
             PROVE  Explained(ns)'
  BY DEF NoUnexplainedLeak, Explained
<1>1. TypeInv /\ RequestInv /\ MapInv /\ engine \in [Namespaces -> SUBSET Requests]
  BY DEF BaseInv, TypeInv, ProxyTypeOK
<1>2. ASSUME r \in engine[ns] PROVE Explained(ns)'
  <2>1. r \notin history.stranded
    BY <1>1, StepRemembers
  <2>2. Explained(ns)
    BY <1>2, <2>1 DEF NoUnexplainedLeak, Explained
  <2>3. QED
    BY <1>1, <1>2, <2>2, StillExplained
<1>3. CASE engine' = engine
  BY <1>2, <1>3
<1>4. ASSUME NEW d \in deletes, DeleteApplied(d) PROVE r \in engine[ns]
  BY <1>1, <1>4 DEF DeleteApplied
<1>5. ASSUME NEW s \in Requests, EngineStore(s), r \notin engine[ns] PROVE Explained(ns)'
  BY <1>1, <1>5, StoreExplained
<1>6. QED
  BY <1>1, <1>2, <1>3, <1>4, <1>5, StepEngine

\* Whatever expires, restarts, races or gets lost, the proxy leaves nothing in
\* the engine behind its back except what had nobody to track it any more, or
\* whose DELETE or purge failed (onExpire, purgeStaleNamespaces).
THEOREM NoLeak == ProxySpec => []NoUnexplainedLeak
<1>1. ProxyInit => NoUnexplainedLeak
  BY DEF ProxyInit, NoUnexplainedLeak
<1>2. QED
  BY <1>1, ProxyInvHolds, LeakStep, PTL DEF ProxySpec, ProxyInv

-----------------------------------------------------------------------------
(* A session's first life *)

FirstLife(o) == \A p \in 1 .. o - 1 : heap[p].key # heap[o].key

\* A store's wire says "ok" because the engine stored it.
LEMMA StepStores ==
    ASSUME TypeInv, [ProxyNext]_proxyVars, NEW r \in Requests,
           req'[r].route = "store", wire[r] # "ok", wire'[r] = "ok"
    PROVE  EngineStore(r)
<1>1. /\ wire \in [Requests -> {"none", "out", "ok", "refused", "missing"}]
      /\ req \in [Requests -> Request]
  BY DEF TypeInv, ProxyTypeOK
<1>2. ASSUME NEW s \in Requests, NEW q, NEW K, Arrived(s, q, K) PROVE FALSE
  BY <1>1, <1>2 DEF Arrived
<1>3. ASSUME NEW s \in Requests, NEW q, NEW o, Forwarded(s, q, o) PROVE FALSE
  BY <1>1, <1>3 DEF Forwarded
<1>4. ASSUME NEW s \in Requests, NEW q, Refused(s, q) PROVE FALSE
  BY <1>4 DEF Refused
<1>5. ASSUME NEW s \in Requests, NEW q, NEW status, Answered(s, q, status) PROVE FALSE
  BY <1>5 DEF Answered
<1>6. ASSUME NEW s \in Requests, EngineStore(s) PROVE s = r
  BY <1>1, <1>6 DEF EngineStore
<1>7. ASSUME NEW s \in Requests, NEW q, Noted(s, q) PROVE FALSE
  BY <1>1, <1>7 DEF Noted
<1>8. ASSUME NEW s \in Requests, EngineMissing(s) \/ EngineRefuse(s) PROVE FALSE
  BY <1>1, <1>8 DEF EngineMissing, EngineRefuse
<1>9. ASSUME NEW d \in deletes, DeleteApplied(d) \/ DeleteLost(d) PROVE FALSE
  BY <1>9 DEF DeleteApplied, DeleteLost
<1>10. ASSUME \/ SweepTimer \/ PurgeStale \/ PurgeFails \/ Stopped \/ Shutdown \/ Start
              \/ Clock \/ UNCHANGED proxyVars
       PROVE  FALSE
  BY <1>10 DEF SweepTimer, PurgeStale, PurgeFails, Stopped, Shutdown, Start, Clock, proxyVars
<1>11. QED
  BY <1>2, <1>3, <1>4, <1>5, <1>6, <1>7, <1>8, <1>9, <1>10, StepEffect, Zenon

\* No DELETE under way is meant for the namespaces of a session in its first
\* life, except one that a purge has sent.
LEMMA NotDeleted ==
    ASSUME TypeInv, MapInv, DeletesInv, NEW o \in Objs, Held(o), FirstLife(o),
           NEW ns \in {heap[o].key} \X Scenarios, ns \notin history.purged,
           NEW d \in deletes
    PROVE  d[2] # ns
<1> SUFFICES ASSUME d[2] = ns PROVE FALSE
  OBVIOUS
<1>1. StoreInv /\ Len(heap) \in Nat
  BY StoreTypes DEF TypeInv
<1> DEFINE p == d[1]
<1>3. p \in Objs /\ ns \in heap[p].namespaces /\ ~Held(p)
  BY <1>1 DEF DeletesInv
<1>4. heap[p].key = heap[o].key
  <2>1. ns \in {heap[p].key} \X Scenarios
    BY <1>1, <1>3 DEF MapInv
  <2>2. QED
    BY <2>1
<1> HIDE DEF p
<1>5. PICK k \in Keys : sessions[k] = o
  BY DEF Held
<1>6. heap[o].key = k /\ \A x \in Objs : x > o => heap[x].key # k
  <2>1. sessions[k] # None
    BY <1>5 DEF Objs, None
  <2>2. QED
    BY <1>1, <1>5, <2>1 DEF MapInv
<1>7. p \in Nat /\ o \in Nat /\ p >= 1
  BY <1>1, <1>3 DEF Objs
<1>8. p = o
  <2>1. ~(p > o)
    BY <1>3, <1>4, <1>6
  <2>2. ~(p < o)
    BY <1>4, <1>7 DEF FirstLife
  <2>3. QED
    BY <1>7, <2>1, <2>2
<1>9. QED
  BY <1>3, <1>8

\* FirstLifeKeepsItsMemories, from the moment the engine has the store.
FirstLifeInv ==
    \A r \in Requests :
        LET o == req[r].obj
        IN  (/\ req[r].route = "store" /\ wire[r] = "ok"
             /\ req[r].ns \notin history.purged
             /\ Held(o) /\ FirstLife(o))
            => r \in engine[req[r].ns]

LEMMA FirstLifeFromInv == BaseInv /\ FirstLifeInv => FirstLifeKeepsItsMemories
<1>1. BaseInv => \A r \in Requests :
         req[r].route = "store" /\ req[r].status = 200 => wire[r] \in {"ok", "missing"}
  BY DEF BaseInv, RequestInv, RequestOK
<1>2. QED
  BY <1>1 DEF FirstLifeInv, FirstLife, FirstLifeKeepsItsMemories

LEMMA FirstLifeStep == BaseInv /\ FirstLifeInv /\ [ProxyNext]_proxyVars => FirstLifeInv'
<1> SUFFICES ASSUME BaseInv, FirstLifeInv, [ProxyNext]_proxyVars, NEW r \in Requests,
                    req'[r].route = "store", wire'[r] = "ok",
                    req'[r].ns \notin history'.purged,
                    Held(req[r].obj)', FirstLife(req[r].obj)'
             PROVE  r \in engine'[req'[r].ns]
  BY DEF FirstLifeInv
<1>1. /\ TypeInv /\ RequestInv /\ StoreInv /\ MapInv /\ DeletesInv
      /\ engine \in [Namespaces -> SUBSET Requests]
      /\ Len(heap) \in Nat /\ \A p \in Objs : heap[p].key \in Keys
  BY StoreTypes DEF BaseInv, TypeInv, ProxyTypeOK, Session
<1>2. CASE wire[r] = "ok"
  <2>1. Settled(r)
    BY <1>1, <1>2, StepSettled
  <2>2. PICK o : o = req[r].obj /\ o = req'[r].obj
    BY <2>1 DEF Settled
  <2>3. PICK ns : ns = req[r].ns /\ ns = req'[r].ns
    BY <2>1 DEF Settled
  <2>4. req[r].route = "store"
    BY <2>1 DEF Settled
  <2>5. o \in Objs /\ ns \in {heap[o].key} \X Scenarios /\ ns \in Namespaces
    <3>1. RequestOK(req[r], "ok", heap)
      BY <1>1, <1>2 DEF RequestInv
    <3>2. o \in Objs /\ ns \in {heap[o].key} \X Scenarios
      BY <2>2, <2>3, <2>4, <3>1 DEF RequestOK, Objs
    <3>3. QED
      BY <1>1, <3>2 DEF Namespaces
  <2>6. Held(o)' /\ \A p \in 1 .. o - 1 : heap'[p].key # heap'[o].key
    BY <2>2 DEF Held, FirstLife
  <2>7. Held(o)
    BY <1>1, <2>5, <2>6, StepEvicts
  <2>8. FirstLife(o)
    <3>1. \A p \in 1 .. o - 1 : p \in Objs
      BY <1>1, <2>5 DEF Objs
    <3>2. QED
      BY <1>1, <2>5, <2>6, <3>1, StepGrows DEF Grows, FirstLife
  <2>9. ns \notin history.purged
    BY <1>1, <2>3, StepRemembers
  <2>10. r \in engine[ns]
    BY <1>2, <2>2, <2>3, <2>4, <2>7, <2>8, <2>9 DEF FirstLifeInv
  <2>11. ASSUME NEW s \in Requests, EngineStore(s) PROVE engine[ns] \subseteq engine'[ns]
    BY <1>1, <2>5, <2>11 DEF EngineStore
  <2>12. ASSUME NEW d \in deletes, DeleteApplied(d) PROVE engine'[ns] = engine[ns]
    <3>1. d[2] # ns
      BY <1>1, <2>5, <2>7, <2>8, <2>9, NotDeleted
    <3>2. QED
      BY <1>1, <2>5, <2>12, <3>1 DEF DeleteApplied
  <2>13. QED
    BY <1>1, <2>3, <2>10, <2>11, <2>12, StepEngine
<1>3. CASE wire[r] # "ok"
  <2>1. EngineStore(r)
    BY <1>1, <1>3, StepStores
  <2>2. req' = req /\ req[r].ns # Untouched /\ wire[r] = "out"
    BY <2>1 DEF EngineStore
  <2>3. req[r].ns \in Namespaces
    BY <1>1, <2>2 DEF RequestInv, RequestOK, Objs, Namespaces
  <2>4. QED
    BY <1>1, <2>1, <2>2, <2>3 DEF EngineStore
<1>4. QED
  BY <1>2, <1>3

\* What a session was told is stored stays stored while the session lives, as
\* long as no earlier session had its id, no startup purge listed its namespace,
\* and the 200 was not made of a "namespace not found": no DELETE of anybody else reaches it (onExpire, namespace.js).
THEOREM FirstLifeKept == ProxySpec => []FirstLifeKeepsItsMemories
<1>1. ProxyInit => FirstLifeInv
  BY DEF ProxyInit, FirstLifeInv, Idle
<1>2. QED
  BY <1>1, ProxyInvHolds, FirstLifeStep, FirstLifeFromInv, PTL DEF ProxySpec, ProxyInv

-----------------------------------------------------------------------------
(* What a session is charged *)

\* The stores of o that were answered 2xx.
Paying(o) == {r \in StoresOf(o) : req[r].status = 200}

LEMMA PayingTypes ==
    ASSUME TypeInv, NEW o
    PROVE  /\ IsFiniteSet(Paying(o)) /\ Paying(o) \subseteq Requests
           /\ Counts(req, Requests)
<1>1. Paying(o) \subseteq Requests
  BY DEF Paying, StoresOf
<1>2. Counts(req, Requests)
  BY DEF TypeInv, ProxyTypeOK, Request, Counts
<1>3. QED
  BY <1>1, <1>2, FS_Subset, ProxyAssumption

\* A request whose 2xx, if it has one, stays what it was.
PaysAlike(r) ==
    \/ req[r].status # 200 /\ req'[r].status # 200
    \/ /\ req'[r].status = req[r].status /\ req'[r].route = req[r].route
       /\ req'[r].obj = req[r].obj /\ req'[r].count = req[r].count

LEMMA PayingSame ==
    ASSUME TypeInv, NEW o, \A r \in Requests : PaysAlike(r)
    PROVE  Total(req', Paying(o)') = Total(req, Paying(o))
<1>1. Paying(o)' = Paying(o)
  BY DEF Paying, StoresOf, PaysAlike
<1>2. \A r \in Paying(o) : req[r].count = req'[r].count
  BY DEF Paying, StoresOf, PaysAlike
<1>3. IsFiniteSet(Paying(o))
  BY PayingTypes
<1>4. Total(req, Paying(o)) = Total(req', Paying(o))
  BY <1>2, <1>3, TotalSame
<1>5. QED
  BY <1>1, <1>4

LEMMA PayingMore ==
    ASSUME TypeInv, TypeInv', NEW o, NEW r \in StoresOf(o)', req[r].status # 200,
           req'[r].status = 200, \A s \in Requests \ {r} : PaysAlike(s)
    PROVE  Total(req', Paying(o)') = Total(req, Paying(o)) + req'[r].count
<1>1. r \in Requests /\ r \notin Paying(o) /\ Paying(o)' = Paying(o) \cup {r}
  BY DEF Paying, StoresOf, PaysAlike
<1>2. \A s \in Paying(o) : req[s].count = req'[s].count
  BY <1>1 DEF Paying, StoresOf, PaysAlike
<1>3. /\ IsFiniteSet(Paying(o)) /\ Paying(o) \subseteq Requests /\ Counts(req, Paying(o))
      /\ Counts(req', Requests)
  <2>1. Counts(req', Requests)
    BY DEF TypeInv, ProxyTypeOK, Request, Counts
  <2>2. QED
    BY <2>1, PayingTypes DEF Counts
<1>4. Counts(req', Paying(o)) /\ req'[r].count \in Nat
  BY <1>1, <1>3 DEF Counts
<1>5. Total(req, Paying(o)) = Total(req', Paying(o))
  BY <1>2, <1>3, TotalSame
<1>6. Total(req', Paying(o) \cup {r}) = req'[r].count + Total(req', Paying(o))
  BY <1>1, <1>3, <1>4, TotalAdd
<1>7. Total(req', Paying(o)) \in Nat
  BY <1>3, <1>4, TotalType
<1>8. QED
  BY <1>1, <1>4, <1>5, <1>6, <1>7

\* Only the answer of a store makes a 2xx of it.
LEMMA StepPays ==
    ASSUME TypeInv, RequestInv, [ProxyNext]_proxyVars
    PROVE  \/ \A r \in Requests : PaysAlike(r)
           \/ \E r \in Requests : \E q, status : Answered(r, q, status)
<1>1. /\ req \in [Requests -> Request]
      /\ \A r \in Requests : req[r].pc # "done" => req[r].status # 200
  BY DEF TypeInv, ProxyTypeOK, RequestInv, RequestOK
<1> DEFINE Alike == \A r \in Requests : PaysAlike(r)
<1>2. ASSUME NEW r \in Requests, NEW q, req' = [req EXCEPT ![r] = q],
             \/ req[r].pc # "done" /\ q.status # 200
             \/ /\ q.status = req[r].status /\ q.route = req[r].route
                /\ q.obj = req[r].obj /\ q.count = req[r].count
      PROVE  Alike
  BY <1>1, <1>2 DEF PaysAlike
<1>3. ASSUME UNCHANGED req PROVE Alike
  BY <1>3 DEF PaysAlike
<1>4. ASSUME Stopped PROVE Alike
  BY <1>4, StoppedEffect DEF PaysAlike
<1> HIDE DEF Alike
<1>5. ASSUME NEW r \in Requests, NEW q, NEW K, Arrived(r, q, K) PROVE Alike
  <2>1. req[r].pc # "done" /\ q.status # 200 /\ req' = [req EXCEPT ![r] = q]
    BY <1>5 DEF Arrived, Newcomer
  <2>2. QED
    BY <1>2, <2>1
<1>6. ASSUME NEW r \in Requests, NEW q, Refused(r, q) PROVE Alike
  <2>1. req[r].pc # "done" /\ q.status # 200 /\ req' = [req EXCEPT ![r] = q]
    BY <1>6 DEF Refused
  <2>2. QED
    BY <1>2, <2>1
<1>7. ASSUME NEW r \in Requests, NEW q, NEW o, Forwarded(r, q, o) PROVE Alike
  <2>1. req[r].pc # "done" /\ q.status # 200 /\ req' = [req EXCEPT ![r] = q]
    BY <1>1, <1>7 DEF Forwarded
  <2>2. QED
    BY <1>2, <2>1
<1>8. ASSUME NEW r \in Requests, NEW q, Noted(r, q) PROVE Alike
  BY <1>2, <1>8 DEF Noted
<1>9. ASSUME NEW r \in Requests, EngineStore(r) \/ EngineMissing(r) \/ EngineRefuse(r) PROVE Alike
  BY <1>3, <1>9 DEF EngineStore, EngineMissing, EngineRefuse
<1>10. ASSUME NEW d \in deletes, DeleteApplied(d) \/ DeleteLost(d) PROVE Alike
  BY <1>3, <1>10 DEF DeleteApplied, DeleteLost
<1>11. ASSUME \/ SweepTimer \/ PurgeStale \/ PurgeFails \/ Shutdown \/ Start \/ Clock
              \/ UNCHANGED proxyVars
       PROVE  Alike
  BY <1>3, <1>11 DEF SweepTimer, PurgeStale, PurgeFails, Shutdown, Start, Clock, proxyVars
<1>12. Alike \/ \E r \in Requests : \E q, status : Answered(r, q, status)
  BY <1>4, <1>5, <1>6, <1>7, <1>8, <1>9, <1>10, <1>11, StepEffect, Zenon
<1>13. QED
  BY <1>12 DEF Alike

\* Nor does anything else change a memoryCount; a new object has none.
LEMMA StepCharges ==
    ASSUME TypeInv, [ProxyNext]_proxyVars
    PROVE  \/ /\ \A o \in Objs : heap'[o].memoryCount = heap[o].memoryCount
              /\ \A o \in Objs' \ Objs : heap'[o].memoryCount = 0 /\ o > Len(heap)
           \/ \E r \in Requests : \E q, status : Answered(r, q, status)
<1> DEFINE Charges == /\ \A o \in Objs : heap'[o].memoryCount = heap[o].memoryCount
                      /\ \A o \in Objs' \ Objs : heap'[o].memoryCount = 0 /\ o > Len(heap)
<1>1. StoreInv /\ Len(heap) \in Nat
  BY StoreTypes DEF TypeInv
<1>2. ASSUME NEW K, Resolved(K) PROVE Charges
  BY <1>1, <1>2 DEF Resolved, Added, SameBooks
<1>3. ASSUME UNCHANGED heap PROVE Charges
  BY <1>3 DEF Objs
<1>4. ASSUME NEW r \in Requests, NEW q, NEW o, Forwarded(r, q, o) PROVE Charges
  <2>1. o \in Objs
    BY <1>4 DEF Forwarded
  <2>2. QED
    BY <1>4, <2>1, ForwardedHeap, TrackedBooks
<1> HIDE DEF Charges
<1>5. ASSUME NEW r \in Requests, NEW q, NEW K, Arrived(r, q, K) PROVE Charges
  BY <1>2, <1>5 DEF Arrived
<1>6. ASSUME NEW r \in Requests, NEW q, Refused(r, q) \/ Noted(r, q) PROVE Charges
  BY <1>3, <1>6 DEF Refused, Noted
<1>7. ASSUME NEW r \in Requests, EngineStore(r) \/ EngineMissing(r) \/ EngineRefuse(r) PROVE Charges
  BY <1>3, <1>7 DEF EngineStore, EngineMissing, EngineRefuse
<1>8. ASSUME NEW d \in deletes, DeleteApplied(d) \/ DeleteLost(d) PROVE Charges
  BY <1>3, <1>8 DEF DeleteApplied, DeleteLost
<1>9. ASSUME \/ SweepTimer \/ PurgeStale \/ PurgeFails \/ Stopped \/ Shutdown \/ Start \/ Clock
             \/ UNCHANGED proxyVars
      PROVE  Charges
  BY <1>3, <1>9 DEF SweepTimer, Sweep, PurgeStale, PurgeFails, Stopped, Shutdown, Start,
                    Clock, Tick, proxyVars, storeVars
<1>10. Charges \/ \E r \in Requests : \E q, status : Answered(r, q, status)
  BY <1>4, <1>5, <1>6, <1>7, <1>8, <1>9, StepEffect, Zenon
<1>11. QED
  BY <1>10 DEF Charges

ChargedRight == \A o \in Objs : heap[o].memoryCount = Total(req, Paying(o))

LEMMA AnsweredChargedRight ==
    ASSUME TypeInv, TypeInv', RequestInv, ChargedRight,
           NEW r \in Requests, NEW q, NEW status, Answered(r, q, status), NEW o \in Objs
    PROVE  heap'[o].memoryCount = Total(req', Paying(o)')
<1>1. /\ req[r].status # 200 /\ req'[r] = q /\ q.status = status /\ q.obj \in Objs
      /\ q.count \in Nat /\ q.route = req[r].route /\ q.obj = req[r].obj
      /\ \A s \in Requests \ {r} : req'[s] = req[s]
  <2>1. req[r].status # 200
    BY DEF RequestInv, RequestOK, Answered
  <2>2. QED
    BY <2>1 DEF TypeInv, ProxyTypeOK, Request, Answered
<1>2. \A s \in Requests \ {r} : PaysAlike(s)
  BY <1>1 DEF PaysAlike
<1>3. heap[o].memoryCount = Total(req, Paying(o)) /\ heap[o].memoryCount \in Nat
  BY StoreTypes DEF ChargedRight, TypeInv, Session
<1>4. heap'[o] = IF o = q.obj THEN Paid(q, status) ELSE heap[o]
  BY AnsweredHeap
<1>5. Paid(q, status).memoryCount = heap[q.obj].memoryCount
                                      + (IF Counted(q) /\ status = 200 THEN q.count ELSE 0)
  BY <1>1, PaidBooks
<1>6. CASE status = 200 /\ q.route = "store" /\ o = q.obj
  <2>1. r \in StoresOf(o)'
    BY <1>1, <1>6 DEF StoresOf
  <2>2. Total(req', Paying(o)') = Total(req, Paying(o)) + q.count
    BY <1>1, <1>2, <1>6, <2>1, PayingMore
  <2>3. heap'[o].memoryCount = heap[o].memoryCount + q.count
    BY <1>1, <1>3, <1>4, <1>5, <1>6 DEF Counted
  <2>4. QED
    BY <1>3, <2>2, <2>3
<1>7. CASE status # 200
  <2>1. PaysAlike(r)
    BY <1>1, <1>7 DEF PaysAlike
  <2>2. \A s \in Requests : PaysAlike(s)
    BY <1>2, <2>1
  <2>3. Total(req', Paying(o)') = Total(req, Paying(o))
    BY <2>2, PayingSame
  <2>4. heap'[o].memoryCount = heap[o].memoryCount
    BY <1>1, <1>3, <1>4, <1>5, <1>7
  <2>5. QED
    BY <1>3, <2>3, <2>4
<1>8. CASE status = 200 /\ (q.route # "store" \/ o # q.obj)
  <2>1. Paying(o)' = Paying(o) /\ r \notin Paying(o)
    BY <1>1, <1>8 DEF Paying, StoresOf
  <2>2. Total(req, Paying(o)) = Total(req', Paying(o))
    BY <1>1, <2>1, PayingTypes, TotalSame
  <2>3. heap'[o].memoryCount = heap[o].memoryCount
    BY <1>1, <1>3, <1>4, <1>5, <1>8 DEF Counted
  <2>4. QED
    BY <1>3, <2>1, <2>2, <2>3
<1>9. QED
  BY <1>6, <1>7, <1>8

LEMMA ChargedRightStep ==
    BaseInv /\ BaseInv' /\ ChargedRight /\ [ProxyNext]_proxyVars => ChargedRight'
<1> SUFFICES ASSUME BaseInv, BaseInv', ChargedRight, [ProxyNext]_proxyVars, NEW o \in Objs'
             PROVE  heap'[o].memoryCount = Total(req', Paying(o)')
  BY DEF ChargedRight
<1>1. TypeInv /\ TypeInv' /\ RequestInv /\ \A r \in Requests : req[r].obj <= Len(heap)
  BY DEF BaseInv, TypeInv
<1>2. CASE \E r \in Requests : \E q, status : Answered(r, q, status)
  <2>1. PICK r \in Requests : \E q, status : Answered(r, q, status)
    BY <1>2
  <2>2. PICK q, status : Answered(r, q, status)
    BY <2>1
  <2>3. o \in Objs
    BY <1>1, <2>2, AnsweredHeap
  <2>4. QED
    BY <1>1, <2>2, <2>3, AnsweredChargedRight
<1>3. CASE ~ \E r \in Requests : \E q, status : Answered(r, q, status)
  <2>1. \A r \in Requests : PaysAlike(r)
    BY <1>1, <1>3, StepPays
  <2>2. Total(req', Paying(o)') = Total(req, Paying(o))
    BY <1>1, <2>1, PayingSame
  <2>3. CASE o \in Objs
    BY <1>1, <1>3, <2>2, <2>3, StepCharges DEF ChargedRight
  <2>4. CASE o \notin Objs
    <3>1. heap'[o].memoryCount = 0 /\ o > Len(heap)
      BY <1>1, <1>3, <2>4, StepCharges
    <3>2. \A r \in Requests : req[r].obj # o
      <4>1. Len(heap) \in Nat /\ o \in Nat
        BY <1>1, StoreTypes DEF TypeInv, Objs
      <4>2. \A r \in Requests : req[r].obj \in Nat
        BY <1>1 DEF TypeInv, ProxyTypeOK, Request
      <4>3. QED
        BY <1>1, <3>1, <4>1, <4>2
    <3>3. Paying(o) = {}
      BY <3>2 DEF Paying, StoresOf
    <3>4. QED
      BY <2>2, <3>1, <3>3, TotalEmpty
  <2>5. QED
    BY <2>3, <2>4
<1>4. QED
  BY <1>2, <1>3

LEMMA CountFromCharges == ChargedRight => CountMatchesReplies
BY DEF ChargedRight, CountMatchesReplies, Paying, Total, Weight

LEMMA ChargedRightInit == ProxyInit => ChargedRight
<1>1. ProxyInit => Objs = {}
  BY EmptySeq DEF ProxyInit, StoreInit, Objs
<1>2. QED
  BY <1>1 DEF ChargedRight

LEMMA ChargedRightHolds == ProxySpec => []ChargedRight
BY ChargedRightInit, ProxyInvHolds, ChargedRightStep, PTL DEF ProxySpec, ProxyInv

\* A session is charged for exactly the stores that were answered 2xx, each
\* once, whatever expires or restarts between the forward and the answer
\* (commitMemory in the wrapper of writeHead).
THEOREM CountRight == ProxySpec => []CountMatchesReplies
BY ChargedRightHolds, CountFromCharges, PTL

-----------------------------------------------------------------------------
(* Quiet sessions: no two stores of theirs have overlapped *)

\* In a quiet session the cap holds, at most one store is in flight, and what
\* the cap check told it still holds.
Quiet(o) ==
    /\ heap[o].memoryCount <= MemoryCap
    /\ \A r, t \in InFlight(o) : r = t
    /\ \A r \in InFlight(o) : /\ req[r].left = MemoryLeft(heap[o])
                              /\ req[r].count <= req[r].left

QuietInv == \A o \in Objs \ history.raced : Quiet(o)

LEMMA StaysQuiet ==
    ASSUME NEW o, Quiet(o), heap'[o].memoryCount = heap[o].memoryCount,
           InFlight(o)' \subseteq InFlight(o),
           \A r \in InFlight(o)' : req'[r].left = req[r].left /\ req'[r].count = req[r].count
    PROVE  Quiet(o)'
BY DEF Quiet, MemoryLeft

\* A store takes off when its body has come.
LEMMA StepFlights ==
    ASSUME TypeInv, [ProxyNext]_proxyVars, NEW o
    PROVE  \/ /\ InFlight(o)' \subseteq InFlight(o)
              /\ \A r \in InFlight(o)' :
                    req'[r].left = req[r].left /\ req'[r].count = req[r].count
           \/ \E r \in Requests : \E q : Forwarded(r, q, o) /\ q.route = "store"
<1> DEFINE Lands == /\ InFlight(o)' \subseteq InFlight(o)
                    /\ \A r \in InFlight(o)' :
                          req'[r].left = req[r].left /\ req'[r].count = req[r].count
<1>1. req \in [Requests -> Request]
  BY DEF TypeInv, ProxyTypeOK
<1>2. ASSUME NEW r \in Requests, NEW q, req' = [req EXCEPT ![r] = q],
             \/ q.pc # "sent"
             \/ q.route # "store"
             \/ q.obj # o
             \/ /\ q.pc = req[r].pc /\ q.route = req[r].route /\ q.obj = req[r].obj
                /\ q.left = req[r].left /\ q.count = req[r].count
      PROVE  Lands
  BY <1>1, <1>2 DEF InFlight, StoresOf
<1>3. ASSUME UNCHANGED req PROVE Lands
  BY <1>3 DEF InFlight, StoresOf
<1>4. ASSUME Stopped PROVE Lands
  <2>1. \A r \in Requests : req'[r].pc # "sent"
    BY <1>4, StoppedEffect
  <2>2. QED
    BY <2>1 DEF InFlight, StoresOf
<1> HIDE DEF Lands
<1>5. ASSUME NEW r \in Requests, NEW q, NEW K, Arrived(r, q, K) PROVE Lands
  <2>1. req' = [req EXCEPT ![r] = q] /\ (q.pc # "sent" \/ q.route # "store")
    BY <1>5 DEF Arrived, Newcomer
  <2>2. QED
    BY <1>2, <2>1
<1>6. ASSUME NEW r \in Requests, NEW q, Refused(r, q) PROVE Lands
  <2>1. req' = [req EXCEPT ![r] = q] /\ q.pc # "sent"
    BY <1>6 DEF Refused
  <2>2. QED
    BY <1>2, <2>1
<1>7. ASSUME NEW r \in Requests, NEW q, NEW p, Forwarded(r, q, p), p # o \/ q.route # "store"
      PROVE  Lands
  <2>1. req' = [req EXCEPT ![r] = q] /\ q.obj = p
    BY <1>7 DEF Forwarded
  <2>2. QED
    BY <1>2, <1>7, <2>1
<1>8. ASSUME NEW r \in Requests, NEW q, Noted(r, q) PROVE Lands
  <2>1. req' = [req EXCEPT ![r] = q] /\ q.route # "store"
    BY <1>8 DEF Noted
  <2>2. QED
    BY <1>2, <2>1
<1>9. ASSUME NEW r \in Requests, NEW q, NEW status, Answered(r, q, status) PROVE Lands
  <2>1. req' = [req EXCEPT ![r] = q] /\ q.pc # "sent"
    BY <1>9 DEF Answered
  <2>2. QED
    BY <1>2, <2>1
<1>10. ASSUME NEW r \in Requests, EngineStore(r) \/ EngineMissing(r) \/ EngineRefuse(r) PROVE Lands
  BY <1>3, <1>10 DEF EngineStore, EngineMissing, EngineRefuse
<1>11. ASSUME NEW d \in deletes, DeleteApplied(d) \/ DeleteLost(d) PROVE Lands
  BY <1>3, <1>11 DEF DeleteApplied, DeleteLost
<1>12. ASSUME \/ SweepTimer \/ PurgeStale \/ PurgeFails \/ Shutdown \/ Start \/ Clock
              \/ UNCHANGED proxyVars
       PROVE  Lands
  BY <1>3, <1>12 DEF SweepTimer, PurgeStale, PurgeFails, Shutdown, Start, Clock, proxyVars
<1>13. Lands \/ \E r \in Requests : \E q : Forwarded(r, q, o) /\ q.route = "store"
  BY <1>4, <1>5, <1>6, <1>7, <1>8, <1>9, <1>10, <1>11, <1>12, StepEffect, Zenon
<1>14. QED
  BY <1>13 DEF Lands

LEMMA ForwardedQuiet ==
    ASSUME TypeInv, NEW o \in Objs, Quiet(o), o \notin history'.raced,
           NEW r \in Requests, NEW q, Forwarded(r, q, o), q.route = "store"
    PROVE  Quiet(o)'
<1>1. /\ req \in [Requests -> Request]
      /\ history \in [raced : SUBSET Nat, stranded : SUBSET Requests,
                      purged : SUBSET Namespaces]
  BY DEF TypeInv, ProxyTypeOK
<1>2. InFlight(o) = {}
  <2>1. history'.raced
          = history.raced \cup {x \in {o} : q.route = "store" /\ InFlight(o) # {}}
    BY <1>1 DEF Forwarded
  <2>2. QED
    BY <2>1
<1>3. /\ req' = [req EXCEPT ![r] = q]
      /\ q.left = MemoryLeft(heap[o]) /\ q.count <= q.left
  BY DEF Forwarded
<1>4. InFlight(o)' \subseteq {r} /\ req'[r] = q
  BY <1>1, <1>2, <1>3 DEF InFlight, StoresOf
<1>5. heap'[o].memoryCount = heap[o].memoryCount
  BY ForwardedHeap, TrackedBooks
<1>6. MemoryLeft(heap'[o]) = MemoryLeft(heap[o])
  BY <1>5 DEF MemoryLeft
<1>7. QED
  BY <1>3, <1>4, <1>5, <1>6 DEF Quiet

LEMMA AnsweredQuiet ==
    ASSUME TypeInv, NEW o \in Objs, Quiet(o),
           NEW r \in Requests, NEW q, NEW status, Answered(r, q, status),
           InFlight(o)' \subseteq InFlight(o),
           \A s \in InFlight(o)' : req'[s].left = req[s].left /\ req'[s].count = req[s].count
    PROVE  Quiet(o)'
<1>1. /\ req[r].pc = "sent" /\ req'[r] = q /\ q.pc = "done" /\ q.obj \in Objs
      /\ q.count = req[r].count /\ q.left = req[r].left /\ q.route = req[r].route
      /\ q.obj = req[r].obj
      /\ q.count \in Nat
  BY DEF TypeInv, ProxyTypeOK, Request, Answered
<1>2. heap'[o] = IF o = q.obj THEN Paid(q, status) ELSE heap[o]
  BY AnsweredHeap
<1>3. Paid(q, status).memoryCount = heap[q.obj].memoryCount
                                      + (IF Counted(q) /\ status = 200 THEN q.count ELSE 0)
  BY <1>1, PaidBooks
<1>4. heap[o].memoryCount \in Nat /\ MemoryCap \in Nat
  BY StoreTypes, StoreAssumption DEF TypeInv, Session
<1>5. CASE o = q.obj /\ Counted(q) /\ status = 200
  <2>1. r \in InFlight(o)
    BY <1>1, <1>5 DEF InFlight, StoresOf, Counted
  <2>2. InFlight(o)' = {}
    <3>1. \A s \in InFlight(o)' : s = r
      BY <2>1 DEF Quiet
    <3>2. r \notin InFlight(o)'
      BY <1>1 DEF InFlight
    <3>3. QED
      BY <3>1, <3>2
  <2>3. q.count <= MemoryCap - heap[o].memoryCount
    BY <1>1, <2>1 DEF Quiet, MemoryLeft
  <2>4. heap'[o].memoryCount = heap[o].memoryCount + q.count
    BY <1>2, <1>3, <1>5
  <2>5. heap'[o].memoryCount <= MemoryCap
    BY <1>1, <1>4, <2>3, <2>4
  <2>6. QED
    BY <2>2, <2>5 DEF Quiet
<1>6. CASE ~(o = q.obj /\ Counted(q) /\ status = 200)
  <2>1. heap'[o].memoryCount = heap[o].memoryCount
    BY <1>2, <1>3, <1>4, <1>6
  <2>2. QED
    BY <2>1, StaysQuiet
<1>7. QED
  BY <1>5, <1>6

LEMMA QuietStep == TypeInv /\ QuietInv /\ [ProxyNext]_proxyVars => QuietInv'
<1> SUFFICES ASSUME TypeInv, QuietInv, [ProxyNext]_proxyVars,
                    NEW o \in Objs', o \notin history'.raced
             PROVE  Quiet(o)'
  BY DEF QuietInv
<1>1. StoreInv /\ o \notin history.raced
  BY StepRemembers DEF TypeInv
<1>2. CASE o \in Objs
  <2>1. Quiet(o)
    BY <1>1, <1>2 DEF QuietInv
  <2>2. CASE \E r \in Requests : \E q : Forwarded(r, q, o) /\ q.route = "store"
    BY <1>2, <2>1, <2>2, ForwardedQuiet
  <2>3. CASE /\ ~ \E r \in Requests : \E q : Forwarded(r, q, o) /\ q.route = "store"
             /\ \E r \in Requests : \E q, status : Answered(r, q, status)
    BY <1>2, <2>1, <2>3, StepFlights, AnsweredQuiet
  <2>4. CASE /\ ~ \E r \in Requests : \E q : Forwarded(r, q, o) /\ q.route = "store"
             /\ ~ \E r \in Requests : \E q, status : Answered(r, q, status)
    BY <1>2, <2>1, <2>4, StepFlights, StepCharges, StaysQuiet
  <2>5. QED
    BY <2>2, <2>3, <2>4
<1>3. CASE o \notin Objs
  <2>1. ~ \E r \in Requests : \E q, status : Answered(r, q, status)
    BY <1>3, AnsweredHeap
  <2>2. heap'[o].memoryCount = 0 /\ o > Len(heap)
    BY <1>3, <2>1, StepCharges
  <2>3. InFlight(o) = {}
    <3>1. Len(heap) \in Nat /\ o \in Nat
      BY <1>1, StoreTypes DEF Objs
    <3>2. \A r \in Requests : req[r].obj <= Len(heap) /\ req[r].obj \in Nat
      BY DEF TypeInv, ProxyTypeOK, Request
    <3>3. QED
      BY <2>2, <3>1, <3>2 DEF InFlight, StoresOf
  <2>4. ~ \E r \in Requests : \E q : Forwarded(r, q, o)
    BY <1>3 DEF Forwarded
  <2>5. InFlight(o)' = {}
    BY <2>3, <2>4, StepFlights
  <2>6. QED
    BY <2>2, <2>5, StoreAssumption DEF Quiet
<1>4. QED
  BY <1>2, <1>3

LEMMA QuietInvInit == ProxyInit => QuietInv
<1>1. ProxyInit => Objs = {}
  BY EmptySeq DEF ProxyInit, StoreInit, Objs
<1>2. QED
  BY <1>1 DEF QuietInv

LEMMA QuietInvHolds == ProxySpec => []QuietInv
BY QuietInvInit, TypeInvHolds, QuietStep, PTL DEF ProxySpec

\* The engine has said yes to the stores that it holds.
StoredAnswered ==
    \A ns \in Namespaces : \A r \in engine[ns] : req[r].route = "store" => wire[r] = "ok"

LEMMA CapFromQuiet ==
    BaseInv /\ StoredAnswered /\ ChargedRight /\ QuietInv => QuietStoresStayWithinCap
<1> SUFFICES ASSUME BaseInv, StoredAnswered, ChargedRight, QuietInv,
                    NEW o \in Objs \ history.raced,
                    \A r \in StoresOf(o) : req[r].status # 504 /\ req[r].pc # "gone"
             PROVE  Total(req, Stored \cap StoresOf(o)) <= MemoryCap
  BY DEF QuietStoresStayWithinCap, Total, Weight
<1> DEFINE S == Paying(o) \cup InFlight(o)
<1>1. /\ TypeInv /\ RequestInv /\ Quiet(o)
      /\ engine \in [Namespaces -> SUBSET Requests]
  BY DEF BaseInv, QuietInv, TypeInv, ProxyTypeOK
<1>2. Stored \cap StoresOf(o) \subseteq S
  <2> SUFFICES ASSUME NEW r \in StoresOf(o), NEW ns \in Namespaces, r \in engine[ns]
               PROVE  r \in S
    BY DEF Stored
  <2>1. r \in Requests /\ wire[r] = "ok" /\ req[r].route = "store"
    BY <1>1 DEF StoredAnswered, StoresOf
  <2>2. RequestOK(req[r], "ok", heap)
    BY <1>1, <2>1 DEF RequestInv
  <2>3. req[r].pc = "sent" \/ req[r].status = 200
    BY <2>1, <2>2 DEF RequestOK
  <2>4. QED
    BY <2>1, <2>3 DEF Paying, InFlight
<1>3. /\ Paying(o) \subseteq Requests /\ IsFiniteSet(Paying(o)) /\ Counts(req, Requests)
      /\ heap[o].memoryCount = Total(req, Paying(o))
      /\ heap[o].memoryCount \in Nat /\ MemoryCap \in Nat
  BY <1>1, PayingTypes, StoreTypes, StoreAssumption DEF ChargedRight, TypeInv, Session
<1>4. IsFiniteSet(S) /\ Counts(req, S) /\ Total(req, S) <= MemoryCap
  <2>1. CASE InFlight(o) = {}
    <3>1. S = Paying(o)
      BY <2>1
    <3>5. Total(req, S) = heap[o].memoryCount
      BY <1>3, <3>1
    <3>2. Total(req, S) = heap[o].memoryCount /\ heap[o].memoryCount <= MemoryCap
      BY <1>1, <3>5 DEF Quiet
    <3>3. IsFiniteSet(S) /\ Counts(req, S)
      BY <1>3, <3>1 DEF Counts
    <3>4. QED
      BY <3>2, <3>3
  <2>2. CASE InFlight(o) # {}
    <3>1. PICK r \in InFlight(o) : TRUE
      BY <2>2
    <3>2. InFlight(o) = {r} /\ req[r].count <= MemoryCap - heap[o].memoryCount
      BY <1>1, <3>1 DEF Quiet, MemoryLeft
    <3>3. r \in Requests /\ r \notin Paying(o)
      BY <1>1, <3>1 DEF InFlight, StoresOf, Paying, RequestInv, RequestOK
    <3>4. S = Paying(o) \cup {r} /\ IsFiniteSet(S) /\ Counts(req, S)
      <4>1. S = Paying(o) \cup {r}
        BY <3>2
      <4>2. IsFiniteSet(S)
        BY <1>3, <4>1, FS_AddElement
      <4>3. QED
        BY <1>3, <3>3, <4>1, <4>2 DEF Counts
    <3>5. req[r].count \in Nat /\ Counts(req, Paying(o))
      BY <1>3, <3>3 DEF Counts
    <3>6. Total(req, Paying(o) \cup {r}) = req[r].count + Total(req, Paying(o))
      BY <1>3, <3>3, <3>5, TotalAdd
    <3>7. req[r].count + Total(req, Paying(o)) <= MemoryCap
      BY <1>3, <3>2, <3>5
    <3>8. QED
      BY <3>4, <3>6, <3>7
  <2>3. QED
    BY <2>1, <2>2
<1> HIDE DEF S
<1>5. Total(req, Stored \cap StoresOf(o)) <= Total(req, S)
  BY <1>2, <1>4, TotalMonotone
<1>6. /\ Total(req, S) \in Nat /\ Total(req, Stored \cap StoresOf(o)) \in Nat
  <2>1. IsFiniteSet(Stored \cap StoresOf(o)) /\ Counts(req, Stored \cap StoresOf(o))
    BY <1>2, <1>4, FS_Subset DEF Counts
  <2>2. QED
    BY <1>4, <2>1, TotalType
<1>7. QED
  BY <1>3, <1>4, <1>5, <1>6

\* The cap holds for a session whose stores never overlap and whose answers
\* all arrive: only a store between another's check and its commit, or one the
\* engine finished after the proxy gave up on it, gets past checkMemoryCap.
THEOREM QuietWithinCap == ProxySpec => []QuietStoresStayWithinCap
<1>1. EngineInv => StoredAnswered
  BY DEF EngineInv, StoredAnswered
<1>2. QED
  BY <1>1, ProxyInvHolds, ChargedRightHolds, QuietInvHolds, CapFromQuiet, PTL DEF ProxyInv

\* A request that waited for the engine is done when it is answered.
LEMMA StepAnswers ==
    ASSUME TypeInv, [ProxyNext]_proxyVars, NEW r \in Requests,
           req[r].pc = "sent", req'[r].pc = "done"
    PROVE  \E q, status : Answered(r, q, status)
<1>1. req \in [Requests -> Request]
  BY DEF TypeInv, ProxyTypeOK
<1>2. ASSUME NEW s \in Requests, NEW q, req' = [req EXCEPT ![s] = q] PROVE s = r
  BY <1>1, <1>2
<1>3. ASSUME NEW s \in Requests, NEW q, NEW K, Arrived(s, q, K) PROVE FALSE
  <2>1. req[s].pc = "idle" /\ req' = [req EXCEPT ![s] = q]
    BY <1>3 DEF Arrived
  <2>2. QED
    BY <1>2, <2>1
<1>4. ASSUME NEW s \in Requests, NEW q, Refused(s, q) PROVE FALSE
  <2>1. req[s].pc = "body" /\ req' = [req EXCEPT ![s] = q]
    BY <1>4 DEF Refused
  <2>2. QED
    BY <1>2, <2>1
<1>5. ASSUME NEW s \in Requests, NEW q, NEW o, Forwarded(s, q, o) PROVE FALSE
  <2>1. req[s].pc = "body" /\ req' = [req EXCEPT ![s] = q]
    BY <1>5 DEF Forwarded
  <2>2. QED
    BY <1>2, <2>1
<1>6. ASSUME NEW s \in Requests, NEW q, Noted(s, q) PROVE FALSE
  <2>1. q.pc = req[s].pc /\ req' = [req EXCEPT ![s] = q] /\ req'[s] = q
    BY <1>6 DEF Noted
  <2>2. QED
    BY <1>2, <2>1
<1>7. ASSUME NEW s \in Requests, NEW q, NEW status, Answered(s, q, status) PROVE s = r
  <2>1. req' = [req EXCEPT ![s] = q]
    BY <1>7 DEF Answered
  <2>2. QED
    BY <1>2, <2>1
<1>8. req' # req
  OBVIOUS
<1>9. ASSUME NEW s \in Requests, EngineStore(s) \/ EngineMissing(s) \/ EngineRefuse(s) PROVE FALSE
  BY <1>8, <1>9 DEF EngineStore, EngineMissing, EngineRefuse
<1>10. ASSUME NEW d \in deletes, DeleteApplied(d) \/ DeleteLost(d) PROVE FALSE
  BY <1>8, <1>10 DEF DeleteApplied, DeleteLost
<1>11. ASSUME Stopped PROVE FALSE
  BY <1>11, StoppedEffect
<1>12. ASSUME \/ SweepTimer \/ PurgeStale \/ PurgeFails \/ Shutdown \/ Start \/ Clock
              \/ UNCHANGED proxyVars
       PROVE  FALSE
  BY <1>8, <1>12 DEF SweepTimer, PurgeStale, PurgeFails, Shutdown, Start, Clock, proxyVars
<1>13. QED
  BY <1>3, <1>4, <1>5, <1>6, <1>7, <1>9, <1>10, <1>11, <1>12, StepEffect, Zenon

\* What HeaderTrueWhenQuiet says of a step.
HeaderStep ==
    \A r \in Requests :
        (/\ req[r].pc = "sent" /\ req'[r].pc = "done"
         /\ req[r].route = "store" /\ req[r].count > 0
         /\ req[r].obj \notin history.raced)
        => req'[r].shown = Budget(MemoryLeft(heap'[req[r].obj]))

LEMMA HeaderFromQuiet == TypeInv /\ QuietInv /\ [ProxyNext]_proxyVars => HeaderStep
<1> SUFFICES ASSUME TypeInv, QuietInv, [ProxyNext]_proxyVars, NEW r \in Requests,
                    req[r].pc = "sent", req'[r].pc = "done",
                    req[r].route = "store", req[r].count > 0,
                    req[r].obj \notin history.raced
             PROVE  req'[r].shown = Budget(MemoryLeft(heap'[req[r].obj]))
  BY DEF HeaderStep
<1>1. PICK q, status : Answered(r, q, status)
  BY StepAnswers
<1>2. PICK o \in Objs : o = req[r].obj
  BY <1>1 DEF Answered
<1>3. /\ req'[r] = q /\ q.obj = o /\ q.count = req[r].count /\ q.left = req[r].left
      /\ Counted(q) /\ q.count \in Nat
      /\ q.shown = Budget(IF status = 200 THEN q.left - q.count ELSE q.left)
  BY <1>1, <1>2 DEF Answered, Counted, Request
<1>4. q.left = MemoryCap - heap[o].memoryCount
  BY <1>2, <1>3 DEF QuietInv, Quiet, InFlight, StoresOf, MemoryLeft
<1>5. heap'[o].memoryCount
        = heap[o].memoryCount + (IF status = 200 THEN q.count ELSE 0)
  BY <1>1, <1>3, AnsweredHeap, PaidBooks
<1>6. heap[o].memoryCount \in Nat /\ MemoryCap \in Nat
  BY StoreTypes, StoreAssumption DEF TypeInv, Session
<1>7. MemoryLeft(heap'[o]) = IF status = 200 THEN q.left - q.count ELSE q.left
  BY <1>3, <1>4, <1>5, <1>6 DEF MemoryLeft
<1>8. QED
  BY <1>2, <1>3, <1>7

\* X-Sandbox-Memory-Remaining is what checkMemoryCap would answer next, unless
\* stores of the session overlapped (forward, the wrapper of writeHead).
THEOREM HeaderTrue == ProxySpec => HeaderTrueWhenQuiet
<1>1. ProxySpec => [][HeaderStep]_proxyVars
  BY TypeInvHolds, QuietInvHolds, HeaderFromQuiet, PTL DEF ProxySpec
<1>2. QED
  BY <1>1 DEF HeaderStep, HeaderTrueWhenQuiet

-----------------------------------------------------------------------------
(* The store inside the proxy.  What SessionStoreProofs shows of the store    *)
(* alone holds of the store as the requests of the proxy use it, whatever the *)
(* engine answers and whenever the process stops and starts again.            *)

LEMMA StepMovesStore == TypeInv /\ [ProxyNext]_proxyVars => StoreMoves
<1> SUFFICES ASSUME TypeInv, [ProxyNext]_proxyVars PROVE StoreMoves
  OBVIOUS
<1>1. StoreInv
  BY DEF TypeInv
<1>2. UNCHANGED <<now, sessions, heap>> => StoreMoves
  BY DEF Calm, StoreMoves
<1>3. ASSUME NEW r \in Requests, NEW q, NEW K, Arrived(r, q, K) PROVE StoreMoves
  BY <1>3 DEF Arrived, StoreMoves
<1>4. ASSUME NEW r \in Requests, NEW q, NEW o, Forwarded(r, q, o) PROVE StoreMoves
  <2>1. o \in Objs /\ UNCHANGED <<now, sessions>> /\ q.ns \in NamespacesOf(o) \cup {Untouched}
        /\ heap' = [heap EXCEPT ![o] = Tracked(o, q.ns)]
    BY <1>4 DEF Forwarded
  <2>2. CASE q.ns = Untouched
    <3>1. heap' = heap
      BY <1>1, <2>1, <2>2, StoreTypes DEF Tracked
    <3>2. QED
      BY <1>2, <2>1, <3>1
  <2>3. CASE q.ns # Untouched
    <3>1. PICK scenario \in Scenarios : q.ns = <<heap[o].key, scenario>>
      BY <2>1, <2>3 DEF NamespacesOf
    <3>2. QED
      BY <1>1, <2>1, <2>3, <3>1, TrackBooked DEF Tracked, StoreMoves
  <2>4. QED
    BY <2>2, <2>3
<1>5. ASSUME NEW r \in Requests, NEW q, NEW status, Answered(r, q, status) PROVE StoreMoves
  <2> DEFINE o == q.obj
             s == Paid(q, status)
  <2>1. /\ o \in Objs /\ UNCHANGED <<now, sessions>> /\ q.count \in Nat
        /\ heap' = [heap EXCEPT ![o] = s]
    BY <1>5 DEF Answered, Request
  <2>2. CASE Counted(q) /\ status = 200
    <3>1. s = CommitMemory(heap[o], q.count)
      BY <2>2 DEF Paid
    <3> HIDE DEF o, s
    <3>2. QED
      BY <1>1, <2>1, <3>1, CommitBooked DEF StoreMoves
  <2>3. CASE ~(Counted(q) /\ status = 200)
    <3>1. s = heap[o]
      BY <2>3 DEF Paid
    <3> HIDE DEF o, s
    <3>2. heap' = heap
      BY <1>1, <2>1, <3>1, StoreTypes
    <3>3. QED
      BY <1>2, <2>1, <3>2
  <2>4. QED
    BY <2>2, <2>3
<1>6. ASSUME SweepTimer PROVE StoreMoves
  BY <1>1, <1>6, SweepResolved DEF SweepTimer, Sweep, StoreMoves
<1>7. ASSUME Stopped PROVE StoreMoves
  <2>1. UNCHANGED <<now, heap>> /\ \A k \in Keys : sessions'[k] = None
    BY <1>7 DEF Stopped
  <2>2. QED
    BY <2>1 DEF Calm, StoreMoves
<1>8. ASSUME Clock PROVE StoreMoves
  BY <1>8 DEF Clock, Tick, Calm, StoreMoves
<1>9. ASSUME NEW r \in Requests, NEW q, Refused(r, q) \/ Noted(r, q) PROVE StoreMoves
  BY <1>2, <1>9 DEF Refused, Noted
<1>10. ASSUME NEW r \in Requests, EngineStore(r) \/ EngineMissing(r) \/ EngineRefuse(r) PROVE StoreMoves
  BY <1>2, <1>10 DEF EngineStore, EngineMissing, EngineRefuse
<1>11. ASSUME NEW d \in deletes, DeleteApplied(d) \/ DeleteLost(d) PROVE StoreMoves
  BY <1>2, <1>11 DEF DeleteApplied, DeleteLost
<1>12. ASSUME PurgeStale \/ PurgeFails \/ Shutdown \/ Start \/ UNCHANGED proxyVars
       PROVE  StoreMoves
  BY <1>2, <1>12 DEF PurgeStale, PurgeFails, Shutdown, Start, proxyVars, storeVars
<1>13. QED
  BY <1>3, <1>4, <1>5, <1>6, <1>7, <1>8, <1>9, <1>10, <1>11, <1>12, StepEffect, Zenon

LEMMA ProxyStepImplementsWindows == TypeInv /\ [ProxyNext]_proxyVars => WindowsStep
BY StepMovesStore, MovesImplementWindows DEF TypeInv

LEMMA ProxyStoreInit == ProxyInit => StoreInit
BY DEF ProxyInit

\* Every request of every client goes through checkRate before anything else
\* happens to it, so the whole proxy implements the limiter that remembers
\* every call it let through (server.js, the handler; sessions.js, checkRate).
THEOREM ProxyRateImplements == ProxySpec => RateImplementsWindow
<1>1. ProxyInit => Rate!SlidingInit
  BY ProxyStoreInit DEF StoreInit, Rate!SlidingInit, AdmittedLog, Objs
<1>2. QED
  BY <1>1, TypeInvHolds, ProxyStepImplementsWindows, PTL
     DEF ProxySpec, WindowsStep, RateImplementsWindow, Rate!SlidingSpec

\* So no session object lets more than the limit through in any window, across
\* requests that overlap, sweeps and restarts (server.js).
THEOREM ProxyRateHolds == ProxySpec => []RateNeverOver
BY ProxyRateImplements, WindowKeepsRate, PTL

\* The wait the proxy's 429 announces is long enough (server.js, the Retry-After
\* header).
THEOREM ProxyRetryAfterHolds ==
    ASSUME RateLimit # 0
    PROVE  ProxySpec => []RetryAfterSuffices
<1>1. TypeInv /\ RateNeverOver => RetryAfterSuffices
  BY RetryAfterFromLimit DEF TypeInv
<1>2. QED
  BY <1>1, TypeInvHolds, ProxyRateHolds, PTL

\* An address that is counted never has more live sessions than the ceiling in
\* the running proxy either: not through requests that overlap, and not by way of
\* a restart that empties the Map (server.js; sessions.js, resolve).
THEOREM ProxyCeilingHolds == ProxySpec => []IpCeiling
<1>1. ProxyInit => IpCeiling
  BY ProxyStoreInit, CeilingInit
<1>2. TypeInv /\ IpCeiling /\ [ProxyNext]_proxyVars => IpCeiling'
  BY StepMovesStore, MovesKeepCeiling DEF TypeInv
<1>3. QED
  BY <1>1, <1>2, TypeInvHolds, PTL DEF ProxySpec
=============================================================================
