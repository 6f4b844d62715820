------------------------- MODULE SlidingWindowProofs -------------------------
(***************************************************************************)
(* The abstract limiter keeps its promise, for every set of clients, limit *)
(* and window.  A new admission only adds to the windows that end now, and *)
(* the guard of Admit looked at exactly that window; when the clock moves, *)
(* the window that ends now loses entries and gains none.                  *)
(***************************************************************************)
EXTENDS SlidingWindow, FiniteSetTheorems, TLAPS

\* Logs are finite and hold nothing from the future.
LogsSound ==
    \A c \in Clients :
        /\ IsFiniteSet(log[c])
        /\ \A x \in log[c] : x.at <= now

SlidingInv == SlidingTypeOK /\ LogsSound /\ NeverOver

\* A window over a finite log holds a finite number of entries.
LEMMA WindowFinite ==
    ASSUME NEW S, IsFiniteSet(S), NEW t
    PROVE  /\ IsFiniteSet(InWindow(S, t))
           /\ Cardinality(InWindow(S, t)) \in Nat
<1>1. InWindow(S, t) \in SUBSET S
  BY DEF InWindow
<1>2. QED
  BY <1>1, FS_Subset, FS_CardinalityType

LEMMA SlidingInvInit ==
    ASSUME WindowParams
    PROVE  SlidingInit => SlidingInv
<1> SUFFICES ASSUME SlidingInit PROVE SlidingInv
  OBVIOUS
<1>1. SlidingTypeOK /\ LogsSound
  BY FS_EmptySet DEF SlidingInit, SlidingTypeOK, LogsSound
<1>2. NeverOver
  <2> SUFFICES ASSUME NEW c \in Clients, NEW t \in 0 .. now
               PROVE  Cardinality(InWindow(log[c], t)) <= Limit
    BY DEF NeverOver
  <2>1. InWindow(log[c], t) = {}
    BY DEF SlidingInit, InWindow
  <2>2. QED
    BY <2>1, FS_EmptySet, WindowParams DEF WindowParams
<1>3. QED
  BY <1>1, <1>2 DEF SlidingInv

LEMMA SlidingInvStep ==
    ASSUME WindowParams
    PROVE  SlidingInv /\ [SlidingNext]_slidingVars => SlidingInv'
<1> SUFFICES ASSUME SlidingInv, [SlidingNext]_slidingVars PROVE SlidingInv'
  OBVIOUS
<1> USE DEF SlidingInv
<1>1. CASE Advance
  <2>1. SlidingTypeOK' /\ LogsSound'
    BY <1>1 DEF Advance, SlidingTypeOK, LogsSound, Stamp
  <2>2. ASSUME NEW c \in Clients, NEW t \in 0 .. now'
        PROVE  Cardinality(InWindow(log'[c], t)) <= Limit
    <3>1. CASE t <= now
      BY <1>1, <3>1 DEF Advance, NeverOver, SlidingTypeOK
    <3>2. CASE t = now + 1
      <4>1. InWindow(log[c], t) \in SUBSET InWindow(log[c], now)
        BY <3>2, WindowParams DEF WindowParams, InWindow, LogsSound, SlidingTypeOK, Stamp
      <4>2. /\ IsFiniteSet(InWindow(log[c], now))
            /\ Cardinality(InWindow(log[c], now)) \in Nat
        BY WindowFinite DEF LogsSound
      <4>3. Cardinality(InWindow(log[c], t)) <= Cardinality(InWindow(log[c], now))
        BY <4>1, <4>2, FS_Subset
      <4>4. Cardinality(InWindow(log[c], now)) <= Limit
        BY DEF NeverOver, SlidingTypeOK
      <4>5. Cardinality(InWindow(log[c], t)) \in Nat
        BY WindowFinite DEF LogsSound
      <4>6. QED
        BY <1>1, <4>2, <4>3, <4>4, <4>5, WindowParams DEF WindowParams, Advance
    <3>3. QED
      BY <1>1, <3>1, <3>2 DEF Advance, SlidingTypeOK
  <2>3. NeverOver'
    BY <2>2 DEF NeverOver, InWindow
  <2>4. QED
    BY <2>1, <2>3
<1>2. ASSUME NEW c \in Clients, Admit(c) PROVE SlidingInv'
  <2> DEFINE new == [at |-> now, nth |-> Cardinality(log[c]) + 1]
  <2>1. Cardinality(log[c]) \in Nat
    BY FS_CardinalityType DEF LogsSound
  <2>2. /\ now' = now
        /\ log' = [log EXCEPT ![c] = log[c] \cup {new}]
    BY <1>2 DEF Admit
  <2>3. new \in Stamp /\ new.at = now
    BY <2>1 DEF Stamp, SlidingTypeOK
  <2>4. SlidingTypeOK'
    BY <2>2, <2>3 DEF SlidingTypeOK
  <2>5. LogsSound'
    BY <2>2, <2>3, FS_AddElement DEF LogsSound, SlidingTypeOK
  <2>6. ASSUME NEW d \in Clients, NEW t \in 0 .. now
        PROVE  Cardinality(InWindow(log'[d], t)) <= Limit
    <3>1. CASE d # c \/ t < now
      <4>1. InWindow(log'[d], t) = InWindow(log[d], t)
        BY <2>2, <2>3, <3>1 DEF InWindow, SlidingTypeOK
      <4>2. QED
        BY <4>1 DEF NeverOver
    <3>2. CASE d = c /\ t = now
      <4>1. InWindow(log'[d], t) = InWindow(log[c], now) \cup {new}
        BY <2>2, <2>3, <3>2, WindowParams DEF WindowParams, InWindow, SlidingTypeOK
      <4>2. /\ IsFiniteSet(InWindow(log[c], now))
            /\ Cardinality(InWindow(log[c], now)) \in Nat
        BY WindowFinite DEF LogsSound
      <4>3. Cardinality(InWindow(log'[d], t)) <= Cardinality(InWindow(log[c], now)) + 1
        <5>1. Cardinality(InWindow(log[c], now) \cup {new})
                = IF new \in InWindow(log[c], now)
                  THEN Cardinality(InWindow(log[c], now))
                  ELSE Cardinality(InWindow(log[c], now)) + 1
          BY <4>2, FS_AddElement, Zenon
        <5> HIDE DEF new
        <5>2. QED
          BY <4>1, <4>2, <5>1
      <4>4. Cardinality(InWindow(log'[d], t)) \in Nat
        BY <2>5, WindowFinite DEF LogsSound
      <4>5. Cardinality(InWindow(log[c], now)) < Limit
        BY <1>2 DEF Admit
      <4>6. QED
        BY <4>2, <4>3, <4>4, <4>5, WindowParams DEF WindowParams
    <3>3. QED
      BY <3>1, <3>2 DEF SlidingTypeOK
  <2>7. NeverOver'
    BY <2>2, <2>6 DEF NeverOver, InWindow
  <2>8. QED
    BY <2>4, <2>5, <2>7
<1>3. CASE UNCHANGED slidingVars
  BY <1>3 DEF slidingVars, SlidingTypeOK, LogsSound, NeverOver, InWindow
<1>4. QED
  BY <1>1, <1>2, <1>3 DEF SlidingNext

\* Every behaviour of the limiter keeps every window of the past within Limit:
\* what sessions.js promises with "sliding 60s window rate limit".
THEOREM NeverOverHolds ==
    ASSUME WindowParams
    PROVE  SlidingSpec => []NeverOver
<1>1. SlidingInv /\ [SlidingNext]_slidingVars => SlidingInv'
  BY SlidingInvStep
<1>2. SlidingInv => NeverOver
  BY DEF SlidingInv
<1>3. SlidingInit => SlidingInv
  BY SlidingInvInit
<1>4. QED
  BY <1>1, <1>2, <1>3, PTL DEF SlidingSpec
=============================================================================
