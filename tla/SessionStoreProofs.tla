------------------------- MODULE SessionStoreProofs -------------------------
(***************************************************************************)
(* Type correctness, the sliding-window limits, Retry-After, the per-IP    *)
(* ceiling and evictions of the session store, for every choice of ids,    *)
(* addresses, limits and windows.                                          *)
(*                                                                         *)
(* The limiter prunes the calls it keeps, so its promise about the whole   *)
(* past is not inductive.  What carries it is CallsSound: whatever was     *)
(* admitted and is no longer kept has already left the window, and it      *)
(* stays out because the clock only moves forward.                         *)
(***************************************************************************)
EXTENDS SessionStore, FiniteSetTheorems, SequenceTheorems, WellFoundedInduction, TLAPS

\* A limiter that has admitted all of `admitted' and still keeps `kept'.
KeptSound(kept, admitted, window, t) ==
    /\ IsFiniteSet(admitted)
    /\ kept \subseteq admitted
    /\ \A c \in admitted : c.at <= t /\ (c \in kept \/ c.at <= t - window)

CallsSound(s, t) ==
    /\ KeptSound(s.calls, s.admitted, RateWindow, t)
    /\ KeptSound(s.llmCalls, s.llmAdmitted, LlmWindow, t)

StoreInv ==
    /\ StoreTypeOK
    /\ Len(heap) <= MaxObjs
    /\ \A o \in Objs : CallsSound(heap[o], now)

-----------------------------------------------------------------------------
(* Session objects *)

LEMMA NextCallType ==
    ASSUME NEW admitted, IsFiniteSet(admitted), now \in Nat
    PROVE  NextCall(admitted) \in Call /\ NextCall(admitted).at = now
<1>1. Cardinality(admitted) \in Nat
  BY FS_CardinalityType
<1>2. QED
  BY <1>1 DEF NextCall, Call

\* Pruning and recording keep a limiter's books in order.
LEMMA KeptAfterCheck ==
    ASSUME now \in Nat, NEW window \in Nat \ {0}, NEW admitted \in SUBSET Call, NEW kept,
           KeptSound(kept, admitted, window, now)
    PROVE  /\ KeptSound(Recent(kept, window), admitted, window, now)
           /\ KeptSound(Recent(kept, window) \cup {NextCall(admitted)},
                        admitted \cup {NextCall(admitted)}, window, now)
<1> DEFINE new == NextCall(admitted)
<1>1. new \in Call /\ new.at = now
  BY NextCallType DEF KeptSound
<1>2. KeptSound(Recent(kept, window), admitted, window, now)
  BY DEF KeptSound, Recent, Call
<1>3. IsFiniteSet(admitted \cup {new})
  BY FS_AddElement DEF KeptSound
<1> HIDE DEF new
<1>4. KeptSound(Recent(kept, window) \cup {new}, admitted \cup {new}, window, now)
  BY <1>1, <1>2, <1>3 DEF KeptSound
<1>5. QED
  BY <1>2, <1>4 DEF new

\* A limiter whose books are in order stays so as time passes.
LEMMA KeptLater ==
    ASSUME NEW t \in Nat, NEW window \in Nat, NEW admitted \in SUBSET Call, NEW kept,
           KeptSound(kept, admitted, window, t)
    PROVE  KeptSound(kept, admitted, window, t + 1)
BY DEF KeptSound, Call

\* In a limiter whose books are in order the calls that filter() keeps are the
\* calls of the window that ends now.
LEMMA RecentIsWindow ==
    ASSUME now \in Nat, NEW window \in Nat \ {0}, NEW admitted \in SUBSET Call, NEW kept,
           KeptSound(kept, admitted, window, now)
    PROVE  Recent(kept, window) = {c \in admitted : now - window < c.at /\ c.at <= now}
BY DEF KeptSound, Recent, Call

LEMMA CheckRateSound ==
    ASSUME now \in Nat, NEW s \in Session, CallsSound(s, now)
    PROVE  CheckRate(s) \in Session /\ CallsSound(CheckRate(s), now)
<1> DEFINE new == NextCall(s.admitted)
<1>1. s.admitted \in SUBSET Call /\ RateWindow \in Nat \ {0}
  BY StoreAssumption DEF Session
<1>2. KeptSound(s.calls, s.admitted, RateWindow, now)
  BY DEF CallsSound
<1>3. /\ KeptSound(Recent(s.calls, RateWindow), s.admitted, RateWindow, now)
      /\ KeptSound(Recent(s.calls, RateWindow) \cup {new}, s.admitted \cup {new},
                   RateWindow, now)
  BY <1>1, <1>2, KeptAfterCheck
<1>4. new \in Call
  BY <1>2, NextCallType DEF KeptSound
<1>5. Recent(s.calls, RateWindow) \in SUBSET Call
  BY DEF Recent, Session
<1> HIDE DEF new
<1>6. CASE RateOk(s)
  <2>1. CheckRate(s) = [s EXCEPT !.calls = Recent(s.calls, RateWindow) \cup {new},
                                 !.admitted = s.admitted \cup {new}]
    BY <1>6 DEF CheckRate, Session, new
  <2>2. /\ Recent(s.calls, RateWindow) \cup {new} \in SUBSET Call
        /\ s.admitted \cup {new} \in SUBSET Call
    BY <1>1, <1>4, <1>5
  <2>3. CheckRate(s) \in Session
    BY <2>1, <2>2 DEF Session
  <2>4. /\ CheckRate(s).calls = Recent(s.calls, RateWindow) \cup {new}
        /\ CheckRate(s).admitted = s.admitted \cup {new}
        /\ CheckRate(s).llmCalls = s.llmCalls
        /\ CheckRate(s).llmAdmitted = s.llmAdmitted
    BY <2>1 DEF Session
  <2>5. QED
    BY <2>3, <2>4, <1>3 DEF CallsSound
<1>7. CASE ~RateOk(s)
  <2>1. CheckRate(s) = [s EXCEPT !.calls = Recent(s.calls, RateWindow)]
    BY <1>7 DEF CheckRate, Session
  <2>2. QED
    BY <2>1, <1>3, <1>5 DEF Session, CallsSound
<1>8. QED
  BY <1>6, <1>7

LEMMA CheckLlmRateSound ==
    ASSUME now \in Nat, NEW s \in Session, CallsSound(s, now)
    PROVE  CheckLlmRate(s) \in Session /\ CallsSound(CheckLlmRate(s), now)
<1> DEFINE new == NextCall(s.llmAdmitted)
<1>1. s.llmAdmitted \in SUBSET Call /\ LlmWindow \in Nat \ {0}
  BY StoreAssumption DEF Session
<1>2. KeptSound(s.llmCalls, s.llmAdmitted, LlmWindow, now)
  BY DEF CallsSound
<1>3. /\ KeptSound(Recent(s.llmCalls, LlmWindow), s.llmAdmitted, LlmWindow, now)
      /\ KeptSound(Recent(s.llmCalls, LlmWindow) \cup {new}, s.llmAdmitted \cup {new},
                   LlmWindow, now)
  BY <1>1, <1>2, KeptAfterCheck
<1>4. new \in Call
  BY <1>2, NextCallType DEF KeptSound
<1>5. Recent(s.llmCalls, LlmWindow) \in SUBSET Call
  BY DEF Recent, Session
<1> HIDE DEF new
<1>6. CASE LlmRateOk(s)
  <2>1. CheckLlmRate(s) = [s EXCEPT !.llmCalls = Recent(s.llmCalls, LlmWindow) \cup {new},
                                    !.llmAdmitted = s.llmAdmitted \cup {new}]
    BY <1>6 DEF CheckLlmRate, Session, new
  <2>2. /\ Recent(s.llmCalls, LlmWindow) \cup {new} \in SUBSET Call
        /\ s.llmAdmitted \cup {new} \in SUBSET Call
    BY <1>1, <1>4, <1>5
  <2>3. CheckLlmRate(s) \in Session
    BY <2>1, <2>2 DEF Session
  <2>4. /\ CheckLlmRate(s).llmCalls = Recent(s.llmCalls, LlmWindow) \cup {new}
        /\ CheckLlmRate(s).llmAdmitted = s.llmAdmitted \cup {new}
        /\ CheckLlmRate(s).calls = s.calls
        /\ CheckLlmRate(s).admitted = s.admitted
    BY <2>1 DEF Session
  <2>5. QED
    BY <2>3, <2>4, <1>3 DEF CallsSound
<1>7. CASE ~LlmRateOk(s)
  <2>1. CheckLlmRate(s) = [s EXCEPT !.llmCalls = Recent(s.llmCalls, LlmWindow)]
    BY <1>7 DEF CheckLlmRate, Session
  <2>2. QED
    BY <2>1, <1>3, <1>5 DEF Session, CallsSound
<1>8. QED
  BY <1>6, <1>7

\* A fresh session object owes nothing.
LEMMA NewSessionSound ==
    ASSUME now \in Nat, NEW id \in Keys, NEW ip \in ClientIps, NEW generated \in BOOLEAN
    PROVE  /\ NewSession(id, ip, generated) \in Session
           /\ CallsSound(NewSession(id, ip, generated), now)
BY FS_EmptySet DEF NewSession, Ips, Session, CallsSound, KeptSound

\* Committing and tracking touch one field each.
LEMMA CommitMemoryType ==
    ASSUME NEW s \in Session, NEW count \in Nat
    PROVE  /\ CommitMemory(s, count) \in Session
           /\ CallsSound(s, now) => CallsSound(CommitMemory(s, count), now)
<1>1. CommitMemory(s, count) \in Session
  BY DEF CommitMemory, Session
<1>2. CallsSound(s, now) => CallsSound(CommitMemory(s, count), now)
  BY DEF CommitMemory, Session, CallsSound
<1>3. QED
  BY <1>1, <1>2

LEMMA TrackNamespaceType ==
    ASSUME NEW s \in Session, NEW scenario \in Scenarios
    PROVE  /\ TrackNamespace(s, <<s.key, scenario>>) \in Session
           /\ CallsSound(s, now) => CallsSound(TrackNamespace(s, <<s.key, scenario>>), now)
<1>1. TrackNamespace(s, <<s.key, scenario>>) \in Session
  BY DEF TrackNamespace, Session, Namespaces
<1>2. CallsSound(s, now) => CallsSound(TrackNamespace(s, <<s.key, scenario>>), now)
  BY DEF TrackNamespace, Session, CallsSound
<1>3. QED
  BY <1>1, <1>2

-----------------------------------------------------------------------------
(* The invariant *)

\* The objects that are in the Map exist, so their namespaces are known.
LEMMA HandedOverType ==
    ASSUME StoreTypeOK, NEW K \in SUBSET {k \in Keys : sessions[k] # None}
    PROVE  HandedOver(K) \subseteq (Nat \X Namespaces)
<1> SUFFICES ASSUME NEW k \in K
             PROVE  ({sessions[k]} \X heap[sessions[k]].namespaces)
                       \subseteq (Nat \X Namespaces)
  BY DEF HandedOver
<1>1. sessions[k] \in 1 .. Len(heap)
  BY LenProperties DEF StoreTypeOK, None
<1>2. heap[sessions[k]].namespaces \subseteq Namespaces
  <2>1. heap[sessions[k]] \in Session
    BY <1>1, ElementOfSeq DEF StoreTypeOK
  <2>2. QED
    BY <2>1 DEF Session
<1>3. QED
  BY <1>1, <1>2

\* Dropping entries from the Map, and telling onExpire, keeps the types.
LEMMA WithoutType ==
    ASSUME StoreTypeOK, NEW K \in SUBSET {k \in Keys : sessions[k] # None}
    PROVE  /\ Without(K) \in [Keys -> Nat]
           /\ \A k \in Keys : Without(K)[k] <= Len(heap)
           /\ deletes \cup HandedOver(K) \subseteq (Nat \X Namespaces)
<1>1. Len(heap) \in Nat
  BY LenProperties DEF StoreTypeOK
<1>2. QED
  BY <1>1, HandedOverType DEF Without, StoreTypeOK, None

LEMMA UpdateKeepsInv ==
    ASSUME StoreInv, NEW o \in Objs, NEW s \in Session, CallsSound(s, now), Update(o, s)
    PROVE  StoreInv'
<1>1. heap \in Seq(Session) /\ o \in 1 .. Len(heap)
  BY DEF StoreInv, StoreTypeOK, Objs
<1>2. /\ heap' \in Seq(Session)
      /\ Len(heap') = Len(heap)
      /\ \A p \in Objs : heap'[p] = IF p = o THEN s ELSE heap[p]
  BY <1>1, ExceptSeq DEF Update, Objs
<1>3. StoreTypeOK' /\ Len(heap') <= MaxObjs
  BY <1>2 DEF StoreInv, StoreTypeOK, Update
<1>4. \A p \in Objs' : CallsSound(heap'[p], now')
  BY <1>2 DEF StoreInv, Objs, Update
<1>5. QED
  BY <1>3, <1>4 DEF StoreInv, CallsSound, KeptSound

LEMMA StoreInvInit == StoreInit => StoreInv
<1> SUFFICES ASSUME StoreInit PROVE StoreInv
  OBVIOUS
<1>1. heap \in Seq(Session) /\ Len(heap) = 0
  BY EmptySeq DEF StoreInit
<1>2. QED
  BY <1>1, StoreAssumption DEF StoreInit, StoreInv, StoreTypeOK, Objs, None

\* What a step can do: move the clock, drop entries, mint, change an object.
LEMMA ResolveKeepsInv ==
    ASSUME StoreInv, NEW hdr \in Ids \cup {NoHeader}, NEW ip \in ClientIps, Resolve(hdr, ip)
    PROVE  StoreInv'
<1> DEFINE K == StaleKeys(hdr, ip)
<1>1. StoreTypeOK /\ now' = now /\ now \in Nat
  BY DEF StoreInv, StoreTypeOK, Resolve
<1>2. K \in SUBSET {k \in Keys : sessions[k] # None}
  BY DEF StaleKeys, ExpiredKeys
<1>3. /\ Without(K) \in [Keys -> Nat]
      /\ \A k \in Keys : Without(K)[k] <= Len(heap)
      /\ deletes \cup HandedOver(K) \subseteq (Nat \X Namespaces)
  BY <1>1, <1>2, WithoutType
<1>4. Len(heap) \in Nat /\ heap \in Seq(Session)
  BY <1>1, LenProperties DEF StoreTypeOK
<1>5. CASE \E o \in Objs : ResolveFound(hdr, ip, o) /\ UNCHANGED heap
  BY <1>5, <1>1 DEF ResolveFound, StoreInv, StoreTypeOK, Objs, CallsSound, KeptSound
<1>6. ASSUME NEW id \in MintedIds(hdr),
             ResolveMint(hdr, ip, id, NewSession(id, ip, hdr \notin Ids))
      PROVE  StoreInv'
  <2> DEFINE s == NewSession(id, ip, hdr \notin Ids)
  <2>1. id \in Keys
    BY DEF MintedIds, Keys
  <2>2. s \in Session /\ CallsSound(s, now)
    BY <1>1, <2>1, NewSessionSound
  <2> HIDE DEF s, K
  <2>3. /\ heap' = Append(heap, s)
        /\ sessions' = [Without(K) EXCEPT ![id] = Len(heap')]
        /\ deletes' = deletes \cup HandedOver(K)
        /\ Len(heap) < MaxObjs
    BY <1>6 DEF ResolveMint, DropStale, s, K
  <2>4. /\ heap' \in Seq(Session)
        /\ Len(heap') = Len(heap) + 1
        /\ \A p \in 1 .. Len(heap') : heap'[p] = IF p \in Objs THEN heap[p] ELSE s
    BY <1>4, <2>2, <2>3, AppendProperties DEF Objs
  <2>5. StoreTypeOK'
    BY <1>1, <1>3, <1>4, <2>1, <2>3, <2>4 DEF StoreTypeOK
  <2>6. \A p \in Objs' : CallsSound(heap'[p], now')
    BY <1>1, <2>2, <2>4 DEF StoreInv, Objs
  <2>7. Len(heap') <= MaxObjs
    BY <1>4, <2>3, <2>4, StoreAssumption
  <2>8. QED
    BY <2>5, <2>6, <2>7 DEF StoreInv, CallsSound, KeptSound
<1>7. CASE ResolveRefused(hdr, ip) /\ UNCHANGED heap
  BY <1>7, <1>1, <1>3 DEF ResolveRefused, DropStale, StoreInv, StoreTypeOK, Objs,
                          CallsSound, KeptSound
<1>8. QED
  BY <1>5, <1>6, <1>7 DEF Resolve

LEMMA StoreInvStep == StoreInv /\ [StoreNext]_storeVars => StoreInv'
<1> SUFFICES ASSUME StoreInv, [StoreNext]_storeVars PROVE StoreInv'
  OBVIOUS
<1>1. /\ now \in Nat
      /\ \A o \in Objs : heap[o] \in Session /\ CallsSound(heap[o], now)
  BY ElementOfSeq DEF StoreInv, StoreTypeOK, Objs
<1>2. ASSUME NEW hdr \in Ids \cup {NoHeader}, NEW ip \in ClientIps, Resolve(hdr, ip)
      PROVE  StoreInv'
  BY <1>2, ResolveKeepsInv
<1>3. ASSUME NEW o \in Objs, RateCheck(o) PROVE StoreInv'
  BY <1>1, <1>3, CheckRateSound, UpdateKeepsInv DEF RateCheck
<1>4. ASSUME NEW o \in Objs, LlmRateCheck(o) PROVE StoreInv'
  BY <1>1, <1>4, CheckLlmRateSound, UpdateKeepsInv DEF LlmRateCheck
<1>5. ASSUME NEW o \in Objs, NEW count \in BatchSizes, Commit(o, count) PROVE StoreInv'
  <2>1. /\ CommitMemory(heap[o], count) \in Session
        /\ CallsSound(CommitMemory(heap[o], count), now)
    BY <1>1, StoreAssumption, CommitMemoryType
  <2>2. QED
    BY <1>5, <2>1, UpdateKeepsInv DEF Commit
<1>6. ASSUME NEW o \in Objs, NEW scenario \in Scenarios, Track(o, scenario) PROVE StoreInv'
  <2> DEFINE s == TrackNamespace(heap[o], <<heap[o].key, scenario>>)
  <2>1. s \in Session /\ CallsSound(s, now)
    BY <1>1, TrackNamespaceType
  <2>2. QED
    BY <1>6, <2>1, UpdateKeepsInv DEF Track
<1>7. CASE Sweep
  <2>1. ExpiredKeys \in SUBSET {k \in Keys : sessions[k] # None}
    BY DEF ExpiredKeys
  <2>2. /\ Without(ExpiredKeys) \in [Keys -> Nat]
        /\ \A k \in Keys : Without(ExpiredKeys)[k] <= Len(heap)
        /\ deletes \cup HandedOver(ExpiredKeys) \subseteq (Nat \X Namespaces)
    BY <2>1, WithoutType DEF StoreInv
  <2>3. QED
    BY <1>7, <2>2 DEF Sweep, StoreInv, StoreTypeOK, Objs, CallsSound, KeptSound
<1>8. CASE Tick
  <2>1. ASSUME NEW o \in Objs PROVE CallsSound(heap[o], now + 1)
    <3>1. /\ heap[o].admitted \in SUBSET Call
          /\ heap[o].llmAdmitted \in SUBSET Call
      BY <1>1 DEF Session
    <3>2. QED
      BY <1>1, <3>1, KeptLater, StoreAssumption DEF CallsSound
  <2>2. QED
    BY <1>8, <1>1, <2>1 DEF Tick, StoreInv, StoreTypeOK, Objs
<1>9. CASE UNCHANGED storeVars
  BY <1>9 DEF storeVars, StoreInv, StoreTypeOK, Objs, CallsSound, KeptSound
<1>10. QED
  BY <1>2, <1>3, <1>4, <1>5, <1>6, <1>7, <1>8, <1>9 DEF StoreNext

LEMMA StoreInvHolds == StoreSpec => []StoreInv
BY StoreInvInit, StoreInvStep, PTL DEF StoreSpec

\* The types hold for every choice of the constants (sessions.js).
THEOREM StoreTypeCorrect == StoreSpec => []StoreTypeOK
<1>1. StoreInv => StoreTypeOK
  BY DEF StoreInv
<1>2. QED
  BY <1>1, StoreInvHolds, PTL

-----------------------------------------------------------------------------
(* The sliding windows *)

\* The instances' Cardinality is Cardinality.
LEMMA RateCardinality == ASSUME NEW S PROVE Rate!Cardinality(S) = Cardinality(S)
BY DEF Rate!Cardinality, Cardinality

LEMMA LlmCardinality == ASSUME NEW S PROVE Llm!Cardinality(S) = Cardinality(S)
BY DEF Llm!Cardinality, Cardinality

\* When a limiter's books are in order, its guard is the abstract one.
LEMMA RateGuard ==
    ASSUME now \in Nat, NEW s \in Session, CallsSound(s, now)
    PROVE  RateOk(s) <=> Cardinality(Rate!InWindow(s.admitted, now)) < RateLimit
<1>1. s.admitted \in SUBSET Call /\ RateWindow \in Nat \ {0}
  BY StoreAssumption DEF Session
<1>2. Recent(s.calls, RateWindow) = Rate!InWindow(s.admitted, now)
  BY <1>1, RecentIsWindow DEF CallsSound, Rate!InWindow
<1>3. QED
  BY <1>2 DEF RateOk

LEMMA LlmRateGuard ==
    ASSUME now \in Nat, NEW s \in Session, CallsSound(s, now)
    PROVE  LlmRateOk(s) <=> Cardinality(Llm!InWindow(s.llmAdmitted, now)) < LlmLimit
<1>1. s.llmAdmitted \in SUBSET Call /\ LlmWindow \in Nat \ {0}
  BY StoreAssumption DEF Session
<1>2. Recent(s.llmCalls, LlmWindow) = Llm!InWindow(s.llmAdmitted, now)
  BY <1>1, RecentIsWindow DEF CallsSound, Llm!InWindow
<1>3. QED
  BY <1>2 DEF LlmRateOk

\* t is what a step made of s: each limiter admitted one call at most.
Admits(s, t) ==
    /\ \/ t.admitted = s.admitted
       \/ RateOk(s) /\ t.admitted = s.admitted \cup {NextCall(s.admitted)}
    /\ \/ t.llmAdmitted = s.llmAdmitted
       \/ LlmRateOk(s) /\ t.llmAdmitted = s.llmAdmitted \cup {NextCall(s.llmAdmitted)}

LEMMA AdmitsNothing ==
    ASSUME NEW s, NEW t, t.admitted = s.admitted, t.llmAdmitted = s.llmAdmitted
    PROVE  Admits(s, t)
BY DEF Admits

LEMMA CheckRateAdmits ==
    ASSUME NEW s \in Session
    PROVE  Admits(s, CheckRate(s))
BY DEF CheckRate, Session, Admits

LEMMA CheckLlmRateAdmits ==
    ASSUME NEW s \in Session
    PROVE  Admits(s, CheckLlmRate(s))
BY DEF CheckLlmRate, Session, Admits

LEMMA CommitMemoryAdmits ==
    ASSUME NEW s \in Session, NEW count
    PROVE  Admits(s, CommitMemory(s, count))
BY DEF CommitMemory, Session, Admits

LEMMA TrackNamespaceAdmits ==
    ASSUME NEW s \in Session, NEW ns
    PROVE  Admits(s, TrackNamespace(s, ns))
BY DEF TrackNamespace, Session, Admits

\* A step as the two limiters that remember everything see it.
WindowsStep ==
    /\ [Rate!SlidingNext]_Rate!slidingVars
    /\ [Llm!SlidingNext]_Llm!slidingVars

\* One log has grown by what a sound session object let through.
LEMMA LogsMove ==
    ASSUME now \in Nat, now' = now, NEW o \in 1 .. MaxObjs, NEW s \in Session,
           CallsSound(s, now), AdmittedLog[o] = s.admitted, LlmAdmittedLog[o] = s.llmAdmitted,
           NEW t, Admits(s, t),
           AdmittedLog' = [AdmittedLog EXCEPT ![o] = t.admitted],
           LlmAdmittedLog' = [LlmAdmittedLog EXCEPT ![o] = t.llmAdmitted]
    PROVE  WindowsStep
<1>1. [Rate!SlidingNext]_Rate!slidingVars
  <2>1. CASE t.admitted = s.admitted
    <3>1. UNCHANGED AdmittedLog
      BY <2>1 DEF AdmittedLog
    <3>2. QED
      BY <3>1 DEF Rate!slidingVars
  <2>2. CASE RateOk(s) /\ t.admitted = s.admitted \cup {NextCall(s.admitted)}
    <3>1. Cardinality(Rate!InWindow(AdmittedLog[o], now)) < RateLimit
      BY <2>2, RateGuard
    <3>2. AdmittedLog' = [AdmittedLog EXCEPT
             ![o] = AdmittedLog[o] \cup
                      {[at |-> now, nth |-> Cardinality(AdmittedLog[o]) + 1]}]
      BY <2>2 DEF NextCall
    <3>3. Rate!Admit(o)
      BY <3>1, <3>2, RateCardinality DEF Rate!Admit
    <3>4. QED
      BY <3>3 DEF Rate!SlidingNext
  <2>3. QED
    BY <2>1, <2>2 DEF Admits
<1>2. [Llm!SlidingNext]_Llm!slidingVars
  <2>1. CASE t.llmAdmitted = s.llmAdmitted
    <3>1. UNCHANGED LlmAdmittedLog
      BY <2>1 DEF LlmAdmittedLog
    <3>2. QED
      BY <3>1 DEF Llm!slidingVars
  <2>2. CASE LlmRateOk(s) /\ t.llmAdmitted = s.llmAdmitted \cup {NextCall(s.llmAdmitted)}
    <3>1. Cardinality(Llm!InWindow(LlmAdmittedLog[o], now)) < LlmLimit
      BY <2>2, LlmRateGuard
    <3>2. LlmAdmittedLog' = [LlmAdmittedLog EXCEPT
             ![o] = LlmAdmittedLog[o] \cup
                      {[at |-> now, nth |-> Cardinality(LlmAdmittedLog[o]) + 1]}]
      BY <2>2 DEF NextCall
    <3>3. Llm!Admit(o)
      BY <3>1, <3>2, LlmCardinality DEF Llm!Admit
    <3>4. QED
      BY <3>3 DEF Llm!SlidingNext
  <2>3. QED
    BY <2>1, <2>2 DEF Admits
<1>3. QED
  BY <1>1, <1>2 DEF WindowsStep

\* The logs after an object has changed in place.
LEMMA UpdateLogs ==
    ASSUME Objs \subseteq 1 .. MaxObjs, Objs' = Objs, NEW o \in Objs, NEW s,
           \A p \in Objs : heap'[p] = IF p = o THEN s ELSE heap[p]
    PROVE  /\ AdmittedLog[o] = heap[o].admitted /\ LlmAdmittedLog[o] = heap[o].llmAdmitted
           /\ AdmittedLog' = [AdmittedLog EXCEPT ![o] = s.admitted]
           /\ LlmAdmittedLog' = [LlmAdmittedLog EXCEPT ![o] = s.llmAdmitted]
BY DEF AdmittedLog, LlmAdmittedLog

\* An object is changed in place.
LEMMA UpdateImplementsWindows ==
    ASSUME StoreInv, NEW o \in Objs, NEW s, Admits(heap[o], s),
           heap' = [heap EXCEPT ![o] = s], now' = now
    PROVE  WindowsStep
<1>1. /\ Len(heap) \in Nat /\ Len(heap) <= MaxObjs /\ now \in Nat
      /\ heap \in [1 .. Len(heap) -> Session] /\ CallsSound(heap[o], now)
  BY LenProperties DEF StoreInv, StoreTypeOK
<1>2. Objs' = Objs /\ Objs \subseteq 1 .. MaxObjs
  <2>1. Len(heap') = Len(heap)
    BY DEF StoreInv, StoreTypeOK
  <2>2. QED
    BY <1>1, <2>1, StoreAssumption DEF Objs
<1>3. \A p \in Objs : heap'[p] = IF p = o THEN s ELSE heap[p]
  BY <1>1 DEF Objs
<1>4. /\ AdmittedLog[o] = heap[o].admitted /\ LlmAdmittedLog[o] = heap[o].llmAdmitted
      /\ AdmittedLog' = [AdmittedLog EXCEPT ![o] = s.admitted]
      /\ LlmAdmittedLog' = [LlmAdmittedLog EXCEPT ![o] = s.llmAdmitted]
  BY <1>2, <1>3, UpdateLogs, Zenon
<1>5. heap[o] \in Session /\ o \in 1 .. MaxObjs
  BY <1>1, <1>2 DEF Objs
<1>6. QED
  BY <1>1, <1>4, <1>5, LogsMove, Zenon

\* An object is added: nothing had been admitted for it before, and at most
\* one call in the step that adds it.
LEMMA MintImplementsWindows ==
    ASSUME StoreInv, NEW n \in Session, CallsSound(n, now),
           n.admitted = {}, n.llmAdmitted = {}, NEW s \in Session, Admits(n, s),
           heap' = Append(heap, s), Len(heap) < MaxObjs, now' = now
    PROVE  WindowsStep
<1> DEFINE o == Len(heap) + 1
<1>1. heap \in Seq(Session) /\ Len(heap) \in Nat /\ now \in Nat
  BY LenProperties DEF StoreInv, StoreTypeOK
<1>2. /\ Len(heap') = o
      /\ \A p \in 1 .. o : heap'[p] = IF p = o THEN s ELSE heap[p]
  BY <1>1, AppendProperties
<1>3. /\ Objs = 1 .. Len(heap) /\ Objs' = Objs \cup {o} /\ o \notin Objs
      /\ o \in 1 .. MaxObjs
  BY <1>1, <1>2, StoreAssumption DEF Objs
<1>4. \A p \in Objs' : heap'[p] = IF p = o THEN s ELSE heap[p]
  BY <1>1, <1>2, <1>3
<1> HIDE DEF o
<1>5. AdmittedLog[o] = n.admitted /\ LlmAdmittedLog[o] = n.llmAdmitted
  BY <1>3 DEF AdmittedLog, LlmAdmittedLog
<1>6. /\ AdmittedLog' = [AdmittedLog EXCEPT ![o] = s.admitted]
      /\ LlmAdmittedLog' = [LlmAdmittedLog EXCEPT ![o] = s.llmAdmitted]
  BY <1>3, <1>4 DEF AdmittedLog, LlmAdmittedLog
<1>7. QED
  BY <1>1, <1>3, <1>5, <1>6, LogsMove

\* No object changes, and the clock may move.
LEMMA StillImplementsWindows ==
    ASSUME UNCHANGED heap, now' \in {now, now + 1}
    PROVE  WindowsStep
<1>1. UNCHANGED <<AdmittedLog, LlmAdmittedLog>>
  BY DEF AdmittedLog, LlmAdmittedLog, Objs
<1>2. QED
  BY <1>1 DEF WindowsStep, Rate!slidingVars, Llm!slidingVars, Rate!SlidingNext,
              Llm!SlidingNext, Rate!Advance, Llm!Advance

LEMMA StepImplementsWindows == StoreInv /\ [StoreNext]_storeVars => WindowsStep
<1> SUFFICES ASSUME StoreInv, [StoreNext]_storeVars PROVE WindowsStep
  OBVIOUS
<1>1. /\ now \in Nat
      /\ \A o \in Objs : heap[o] \in Session
  BY ElementOfSeq DEF StoreInv, StoreTypeOK, Objs
<1>2. ASSUME NEW hdr \in Ids \cup {NoHeader}, NEW ip \in ClientIps, Resolve(hdr, ip)
      PROVE  WindowsStep
  <2>1. now' = now
    BY <1>2 DEF Resolve
  <2>2. ASSUME NEW id \in MintedIds(hdr),
               ResolveMint(hdr, ip, id, NewSession(id, ip, hdr \notin Ids))
        PROVE  WindowsStep
    <3> DEFINE s == NewSession(id, ip, hdr \notin Ids)
    <3>1. s \in Session /\ CallsSound(s, now)
      BY <1>1, NewSessionSound DEF MintedIds, Keys
    <3>2. s.admitted = {} /\ s.llmAdmitted = {}
      BY DEF NewSession
    <3> HIDE DEF s
    <3>3. heap' = Append(heap, s) /\ Len(heap) < MaxObjs
      BY <2>2 DEF ResolveMint, s
    <3>4. QED
      BY <2>1, <3>1, <3>2, <3>3, AdmitsNothing, MintImplementsWindows
  <2>3. QED
    BY <1>2, <2>1, <2>2, StillImplementsWindows DEF Resolve
<1>3. ASSUME NEW o \in Objs, NEW s, Update(o, s), Admits(heap[o], s) PROVE WindowsStep
  BY <1>3, UpdateImplementsWindows DEF Update
<1>4. ASSUME NEW o \in Objs, RateCheck(o) PROVE WindowsStep
  BY <1>1, <1>3, <1>4, CheckRateAdmits DEF RateCheck
<1>5. ASSUME NEW o \in Objs, LlmRateCheck(o) PROVE WindowsStep
  BY <1>1, <1>3, <1>5, CheckLlmRateAdmits DEF LlmRateCheck
<1>6. ASSUME NEW o \in Objs, NEW count \in BatchSizes, Commit(o, count) PROVE WindowsStep
  BY <1>1, <1>3, <1>6, CommitMemoryAdmits DEF Commit
<1>7. ASSUME NEW o \in Objs, NEW scenario \in Scenarios, Track(o, scenario) PROVE WindowsStep
  BY <1>1, <1>3, <1>7, TrackNamespaceAdmits DEF Track
<1>8. CASE Sweep \/ Tick \/ UNCHANGED storeVars
  BY <1>8, StillImplementsWindows DEF Sweep, Tick, storeVars
<1>9. QED
  BY <1>2, <1>4, <1>5, <1>6, <1>7, <1>8 DEF StoreNext

\* checkRate, which forgets, implements the limiter that remembers everything,
\* whatever the limit and the window (sessions.js, checkRate).
THEOREM RateImplements == StoreSpec => RateImplementsWindow
<1>1. StoreInit => Rate!SlidingInit
  BY DEF StoreInit, Rate!SlidingInit, AdmittedLog, Objs
<1>2. QED
  BY <1>1, StoreInvHolds, StepImplementsWindows, PTL
     DEF StoreSpec, WindowsStep, RateImplementsWindow, Rate!SlidingSpec

\* The same of checkLlmRate and its ten minutes (sessions.js, checkLlmRate).
THEOREM LlmImplements == StoreSpec => LlmImplementsWindow
<1>1. StoreInit => Llm!SlidingInit
  BY DEF StoreInit, Llm!SlidingInit, LlmAdmittedLog, Objs
<1>2. QED
  BY <1>1, StoreInvHolds, StepImplementsWindows, PTL
     DEF StoreSpec, WindowsStep, LlmImplementsWindow, Llm!SlidingSpec

-----------------------------------------------------------------------------
(* What the abstract limiter promises holds of the store *)

RateProof == INSTANCE SlidingWindowProofs
               WITH Clients <- 1 .. MaxObjs, Limit <- RateLimit, Window <- RateWindow,
                    log <- AdmittedLog

LEMMA WindowKeepsRate == RateImplementsWindow => []RateNeverOver
<1>1. RateProof!SlidingSpec => []RateProof!NeverOver
  BY RateProof!NeverOverHolds, StoreAssumption DEF RateProof!WindowParams
<1>2. Rate!SlidingInit => RateProof!SlidingInit
  BY DEF Rate!SlidingInit, RateProof!SlidingInit
<1>3. [Rate!SlidingNext]_Rate!slidingVars => [RateProof!SlidingNext]_RateProof!slidingVars
  BY DEF Rate!SlidingNext, RateProof!SlidingNext, Rate!slidingVars, RateProof!slidingVars,
         Rate!Advance, RateProof!Advance, Rate!Admit, RateProof!Admit,
         Rate!InWindow, RateProof!InWindow, Rate!Cardinality, RateProof!Cardinality
<1>4. RateProof!NeverOver => RateNeverOver
  BY DEF RateProof!NeverOver, RateNeverOver, Rate!NeverOver,
         Rate!InWindow, RateProof!InWindow, Rate!Cardinality, RateProof!Cardinality
<1>5. QED
  BY <1>1, <1>2, <1>3, <1>4, PTL
     DEF RateImplementsWindow, Rate!SlidingSpec, RateProof!SlidingSpec

\* No window of the past holds more than rateLimitPerMin admitted calls of a
\* session object, whatever the limit, the window and the history.
THEOREM RateHolds == StoreSpec => []RateNeverOver
BY RateImplements, WindowKeepsRate, PTL

LlmProof == INSTANCE SlidingWindowProofs
              WITH Clients <- 1 .. MaxObjs, Limit <- LlmLimit, Window <- LlmWindow,
                   log <- LlmAdmittedLog

LEMMA WindowKeepsLlm == LlmImplementsWindow => []LlmNeverOver
<1>1. LlmProof!SlidingSpec => []LlmProof!NeverOver
  BY LlmProof!NeverOverHolds, StoreAssumption DEF LlmProof!WindowParams
<1>2. Llm!SlidingInit => LlmProof!SlidingInit
  BY DEF Llm!SlidingInit, LlmProof!SlidingInit
<1>3. [Llm!SlidingNext]_Llm!slidingVars => [LlmProof!SlidingNext]_LlmProof!slidingVars
  BY DEF Llm!SlidingNext, LlmProof!SlidingNext, Llm!slidingVars, LlmProof!slidingVars,
         Llm!Advance, LlmProof!Advance, Llm!Admit, LlmProof!Admit,
         Llm!InWindow, LlmProof!InWindow, Llm!Cardinality, LlmProof!Cardinality
<1>4. LlmProof!NeverOver => LlmNeverOver
  BY DEF LlmProof!NeverOver, LlmNeverOver, Llm!NeverOver,
         Llm!InWindow, LlmProof!InWindow, Llm!Cardinality, LlmProof!Cardinality
<1>5. QED
  BY <1>1, <1>2, <1>3, <1>4, PTL
     DEF LlmImplementsWindow, Llm!SlidingSpec, LlmProof!SlidingSpec

\* The same of the LLM comparison calls of a session and llmRateLimit.
THEOREM LlmHolds == StoreSpec => []LlmNeverOver
BY LlmImplements, WindowKeepsLlm, PTL

-----------------------------------------------------------------------------
(* What becomes of the Map *)

\* The rate limits are the only thing that differs.
SameBooks(s, t) ==
    /\ t.key = s.key /\ t.ip = s.ip /\ t.createdAt = s.createdAt
    /\ t.namespaces = s.namespaces /\ t.memoryCount = s.memoryCount
    /\ t.llmSeeded = s.llmSeeded

LEMMA CheckRateBooks ==
    ASSUME NEW s \in Session
    PROVE  SameBooks(s, CheckRate(s))
BY DEF CheckRate, Session, SameBooks

LEMMA CheckLlmRateBooks ==
    ASSUME NEW s \in Session
    PROVE  SameBooks(s, CheckLlmRate(s))
BY DEF CheckLlmRate, Session, SameBooks

\* What the types say of the heap and of the Map.
LEMMA StoreTypes ==
    ASSUME StoreInv
    PROVE  /\ now \in Nat /\ Len(heap) \in Nat /\ heap \in Seq(Session)
           /\ Objs = 1 .. Len(heap)
           /\ \A o \in Objs : heap[o] \in Session /\ CallsSound(heap[o], now)
           /\ sessions \in [Keys -> Nat]
           /\ \A k \in Keys : sessions[k] # None => sessions[k] \in Objs
           /\ deletes \subseteq Nat \X Namespaces
BY LenProperties, ElementOfSeq DEF StoreInv, StoreTypeOK, Objs, None

\* An object is changed in place.
LEMMA HeapUpdate ==
    ASSUME StoreInv, NEW o \in Objs, NEW s \in Session, heap' = [heap EXCEPT ![o] = s]
    PROVE  /\ heap' \in Seq(Session) /\ Len(heap') = Len(heap) /\ Objs' = Objs
           /\ heap'[o] = s
           /\ \A p \in Objs : heap'[p] = IF p = o THEN s ELSE heap[p]
<1>1. heap \in Seq(Session) /\ o \in 1 .. Len(heap)
  BY StoreTypes
<1>2. QED
  BY <1>1, ExceptSeq DEF Objs

\* An object is added.
LEMMA HeapAppend ==
    ASSUME StoreInv, NEW s \in Session, heap' = Append(heap, s)
    PROVE  /\ heap' \in Seq(Session) /\ Len(heap') = Len(heap) + 1
           /\ Objs' = Objs \cup {Len(heap')} /\ Len(heap') \notin Objs
           /\ heap'[Len(heap')] = s
           /\ \A p \in Objs : heap'[p] = heap[p]
<1>1. heap \in Seq(Session) /\ Len(heap) \in Nat /\ Objs = 1 .. Len(heap)
  BY StoreTypes
<1>2. /\ heap' \in Seq(Session) /\ Len(heap') = Len(heap) + 1
      /\ heap'[Len(heap) + 1] = s
      /\ \A p \in 1 .. Len(heap) : heap'[p] = heap[p]
  BY <1>1, AppendProperties
<1>3. QED
  BY <1>1, <1>2 DEF Objs

\* What resolve and sweep do to the store: expired entries leave the Map; one
\* object may have been charged, or one added, below the ceiling of its address
\* if that is counted, and under a key that was free, had just been dropped, or
\* belonged to nobody before.
Added(K) ==
    LET o == Len(heap')
        s == heap'[o]
    IN  /\ o = Len(heap) + 1
        /\ Objs' = Objs \cup {o} /\ o \notin Objs
        /\ s.memoryCount = 0 /\ s.namespaces = {} /\ ~s.llmSeeded
        /\ s.key \in Keys /\ (s.ip \in CountedIps => ~CeilingReached(s.ip))
        /\ sessions' = [Without(K) EXCEPT ![s.key] = o]
        /\ \/ sessions[s.key] = None \/ s.key \in K
           \/ \A p \in Objs : heap[p].key # s.key

Resolved(K) ==
    /\ K \in SUBSET ExpiredKeys
    /\ deletes' = deletes \cup HandedOver(K)
    /\ now' = now
    /\ heap' \in Seq(Session) /\ Len(heap') <= MaxObjs
    /\ \A o \in Objs : SameBooks(heap[o], heap'[o])
    /\ \A o \in Objs' : CallsSound(heap'[o], now)
    /\ WindowsStep
    /\ \/ Objs' = Objs /\ Len(heap') = Len(heap) /\ sessions' = Without(K)
       \/ Added(K)

LEMMA FoundResolved ==
    ASSUME StoreInv, NEW hdr, NEW ip, NEW o \in Objs, ResolveFound(hdr, ip, o), now' = now,
           NEW s \in Session, CallsSound(s, now), SameBooks(heap[o], s), Admits(heap[o], s),
           heap' = [heap EXCEPT ![o] = s]
    PROVE  Resolved({})
<1>1. Without({}) = sessions /\ HandedOver({}) = {}
  BY StoreTypes DEF Without, HandedOver
<1>2. /\ heap' \in Seq(Session) /\ Len(heap') = Len(heap) /\ Objs' = Objs
      /\ \A p \in Objs : heap'[p] = IF p = o THEN s ELSE heap[p]
  BY HeapUpdate
<1>3. \A p \in Objs : SameBooks(heap[p], heap'[p]) /\ CallsSound(heap'[p], now)
  BY <1>2, StoreTypes DEF SameBooks
<1>4. Len(heap') <= MaxObjs
  BY <1>2 DEF StoreInv
<1>5. WindowsStep
  BY UpdateImplementsWindows
<1>6. QED
  BY <1>1, <1>2, <1>3, <1>4, <1>5 DEF Resolved, ResolveFound

LEMMA MintResolved ==
    ASSUME StoreInv, NEW hdr \in Ids \cup {NoHeader}, NEW ip \in ClientIps,
           NEW id \in MintedIds(hdr), NEW s \in Session, CallsSound(s, now),
           SameBooks(NewSession(id, ip, hdr \notin Ids), s),
           Admits(NewSession(id, ip, hdr \notin Ids), s),
           ResolveMint(hdr, ip, id, s), now' = now
    PROVE  /\ Resolved(StaleKeys(hdr, ip))
           /\ Len(heap') \in Objs' /\ heap'[Len(heap')] = s /\ s.key = id
<1> DEFINE K == StaleKeys(hdr, ip)
           n == NewSession(id, ip, hdr \notin Ids)
<1>1. id \in Keys /\ (sessions[id] = None \/ id \in K \/ \A o \in Objs : heap[o].key # id)
  <2>1. CASE hdr \in Ids
    BY <2>1 DEF MintedIds, Keys, ResolveMint, NothingLive, LookupKey, StaleKeys
  <2>2. CASE hdr \notin Ids
    BY <2>2 DEF MintedIds, Keys
  <2>3. QED
    BY <2>1, <2>2
<1>2. /\ n.key = id /\ n.ip = StoredIp(ip) /\ n.memoryCount = 0 /\ n.namespaces = {} /\ ~n.llmSeeded
      /\ n.admitted = {} /\ n.llmAdmitted = {}
  BY DEF NewSession
<1>13. n \in Session /\ CallsSound(n, now)
  BY <1>1, StoreTypes, NewSessionSound
<1> HIDE DEF n
<1>3. /\ s.key = id /\ s.ip = StoredIp(ip) /\ s.memoryCount = 0 /\ s.namespaces = {} /\ ~s.llmSeeded
      /\ Admits(n, s)
  BY <1>2 DEF SameBooks, n
<1>4. K \in SUBSET ExpiredKeys
  BY DEF StaleKeys
<1> HIDE DEF K
<1>5. /\ heap' = Append(heap, s) /\ Len(heap) < MaxObjs /\ ~CeilingReached(ip)
      /\ sessions' = [Without(K) EXCEPT ![id] = Len(heap')]
      /\ deletes' = deletes \cup HandedOver(K)
  BY DEF ResolveMint, DropStale, K
<1>6. /\ heap' \in Seq(Session) /\ Len(heap') = Len(heap) + 1
      /\ Objs' = Objs \cup {Len(heap')} /\ Len(heap') \notin Objs
      /\ heap'[Len(heap')] = s
      /\ \A p \in Objs : heap'[p] = heap[p]
  BY <1>5, HeapAppend
<1>7. \A p \in Objs' : CallsSound(heap'[p], now)
  BY <1>6, StoreTypes
<1>8. \A p \in Objs : SameBooks(heap[p], heap'[p])
  BY <1>6 DEF SameBooks
<1>9. Len(heap') <= MaxObjs
  BY <1>5, <1>6, StoreTypes, StoreAssumption
<1>15. s.ip \in CountedIps => s.ip = ip
  BY <1>3 DEF CountedIps, StoredIp
<1>10. Added(K)
  BY <1>1, <1>3, <1>5, <1>6, <1>15 DEF Added
<1>14. WindowsStep
  BY <1>2, <1>3, <1>5, <1>13, MintImplementsWindows
<1>11. Resolved(K)
  BY <1>4, <1>5, <1>6, <1>7, <1>8, <1>9, <1>10, <1>14 DEF Resolved
<1>12. QED
  BY <1>3, <1>6, <1>11 DEF K

LEMMA RefusedResolved ==
    ASSUME StoreInv, NEW hdr, NEW ip, ResolveRefused(hdr, ip), UNCHANGED <<now, heap>>
    PROVE  Resolved(StaleKeys(hdr, ip))
<1>1. Objs' = Objs /\ Len(heap) <= MaxObjs
  BY DEF Objs, StoreInv
<1>2. StaleKeys(hdr, ip) \in SUBSET ExpiredKeys
  BY DEF StaleKeys
<1>3. WindowsStep
  BY StillImplementsWindows
<1>4. QED
  BY <1>1, <1>2, <1>3, StoreTypes DEF Resolved, ResolveRefused, DropStale, SameBooks

LEMMA SweepResolved ==
    ASSUME StoreInv, Sweep
    PROVE  Resolved(ExpiredKeys)
<1>1. Objs' = Objs /\ Len(heap) <= MaxObjs
  BY DEF Sweep, StoreInv, Objs
<1>2. WindowsStep
  BY StillImplementsWindows DEF Sweep
<1>3. QED
  BY <1>1, <1>2, StoreTypes DEF Resolved, Sweep, SameBooks

LEMMA ResolveEffect ==
    ASSUME StoreInv, NEW hdr \in Ids \cup {NoHeader}, NEW ip \in ClientIps, Resolve(hdr, ip)
    PROVE  \E K : Resolved(K)
<1>1. now' = now /\ now \in Nat /\ \A o \in Objs : heap[o] \in Session /\ CallsSound(heap[o], now)
  BY StoreTypes DEF Resolve
<1>2. ASSUME NEW o \in Objs, ResolveFound(hdr, ip, o), UNCHANGED heap PROVE \E K : Resolved(K)
  <2>1. heap' = [heap EXCEPT ![o] = heap[o]] /\ SameBooks(heap[o], heap[o])
    BY <1>2, StoreTypes DEF SameBooks
  <2>2. QED
    BY <1>1, <1>2, <2>1, AdmitsNothing, FoundResolved
<1>3. ASSUME NEW id \in MintedIds(hdr),
             ResolveMint(hdr, ip, id, NewSession(id, ip, hdr \notin Ids))
      PROVE  \E K : Resolved(K)
  <2> DEFINE s == NewSession(id, ip, hdr \notin Ids)
  <2>1. id \in Keys
    BY DEF MintedIds, Keys
  <2>2. s \in Session /\ CallsSound(s, now)
    BY <1>1, <2>1, NewSessionSound
  <2>3. SameBooks(s, s)
    BY DEF SameBooks
  <2>4. QED
    BY <1>1, <1>3, <2>2, <2>3, AdmitsNothing, MintResolved
<1>4. ASSUME ResolveRefused(hdr, ip), UNCHANGED heap PROVE \E K : Resolved(K)
  BY <1>1, <1>4, RefusedResolved
<1>5. QED
  BY <1>2, <1>3, <1>4 DEF Resolve

\* The store after a request has come in, or after a sweep.
LEMMA ResolvedKeepsStore ==
    ASSUME StoreInv, NEW K, Resolved(K)
    PROVE  StoreInv'
<1>1. StoreTypeOK /\ K \in SUBSET {k \in Keys : sessions[k] # None}
  BY DEF StoreInv, Resolved, ExpiredKeys
<1>2. /\ Without(K) \in [Keys -> Nat]
      /\ \A k \in Keys : Without(K)[k] <= Len(heap)
      /\ deletes \cup HandedOver(K) \subseteq Nat \X Namespaces
  BY <1>1, WithoutType
<1>3. now \in Nat /\ Len(heap) \in Nat
  BY StoreTypes
<1>4. /\ now' = now /\ heap' \in Seq(Session) /\ Len(heap') <= MaxObjs
      /\ deletes' = deletes \cup HandedOver(K)
      /\ \A o \in Objs' : CallsSound(heap'[o], now)
  BY DEF Resolved
<1>5. sessions' \in [Keys -> Nat] /\ \A k \in Keys : sessions'[k] <= Len(heap')
  <2>1. CASE Len(heap') = Len(heap) /\ sessions' = Without(K)
    BY <1>2, <2>1
  <2>2. CASE Added(K)
    BY <1>2, <1>3, <2>2 DEF Added
  <2>3. QED
    BY <2>1, <2>2 DEF Resolved
<1>6. QED
  BY <1>2, <1>3, <1>4, <1>5 DEF StoreInv, StoreTypeOK

-----------------------------------------------------------------------------
(* The per-IP ceiling *)

LEMMA LiveFinite ==
    ASSUME NEW ip
    PROVE  IsFiniteSet(LiveForIp(ip)) /\ Cardinality(LiveForIp(ip)) \in Nat
<1>1. IsFiniteSet(ClientIps \cup {Unknown}) /\ Ips \in SUBSET (ClientIps \cup {Unknown})
  BY StoreAssumption, FS_AddElement DEF Ips, StoredIp
<1>2. IsFiniteSet(Keys)
  BY <1>1, StoreAssumption, FS_Subset, FS_Union DEF Keys
<1>3. LiveForIp(ip) \in SUBSET Keys
  BY DEF LiveForIp
<1>4. QED
  BY <1>2, <1>3, FS_Subset, FS_CardinalityType

\* A step after which an address has no live session it did not have before.
LEMMA ShrinkKeepsCeiling ==
    ASSUME IpCeiling, \A ip \in CountedIps : LiveForIp(ip)' \subseteq LiveForIp(ip)
    PROVE  IpCeiling'
<1> SUFFICES ASSUME MaxPerIp > 0, NEW ip \in CountedIps
             PROVE  Cardinality(LiveForIp(ip)') <= MaxPerIp
  BY DEF IpCeiling
<1> DEFINE Before == LiveForIp(ip)
           After == LiveForIp(ip)'
<1>1. IsFiniteSet(Before) /\ Cardinality(Before) \in Nat
  BY LiveFinite
<1>2. After \in SUBSET Before
  OBVIOUS
<1>3. Cardinality(Before) <= MaxPerIp
  BY DEF IpCeiling
<1> HIDE DEF Before, After
<1>4. /\ Cardinality(After) <= Cardinality(Before)
      /\ Cardinality(After) \in Nat
  BY <1>1, <1>2, FS_Subset, FS_CardinalityType
<1>5. Cardinality(After) <= MaxPerIp
  BY <1>1, <1>3, <1>4, StoreAssumption
<1>6. QED
  BY <1>5 DEF After

\* Nothing enters the Map, no object changes its address or its birthday, and
\* the clock does not go back.
LEMMA CalmKeepsCeiling ==
    ASSUME StoreInv, IpCeiling, now' \in {now, now + 1},
           \A k \in Keys : sessions'[k] \in {None, sessions[k]},
           \A o \in Objs : heap'[o].ip = heap[o].ip /\ heap'[o].createdAt = heap[o].createdAt
    PROVE  IpCeiling'
<1>1. /\ now \in Nat /\ Ttl \in Nat
      /\ \A k \in Keys : sessions[k] # None => sessions[k] \in Objs
      /\ \A o \in Objs : heap[o].createdAt \in Nat
  BY StoreTypes, StoreAssumption DEF Session
<1>2. \A o \in Objs : ~Expired(heap[o])' => ~Expired(heap[o])
  BY <1>1 DEF Expired
<1>3. ASSUME NEW ip \in CountedIps, NEW k \in LiveForIp(ip)' PROVE k \in LiveForIp(ip)
  <2>1. /\ k \in Keys /\ sessions'[k] # None /\ heap'[sessions'[k]].ip = ip
        /\ ~Expired(heap[sessions[k]])' /\ sessions'[k] = sessions[k]
    BY <1>3 DEF LiveForIp
  <2>2. QED
    BY <1>1, <1>2, <2>1 DEF LiveForIp
<1>4. QED
  BY <1>3, ShrinkKeepsCeiling

\* One address gains one live session, and had room for it.
LEMMA AddedKeepsCeiling ==
    ASSUME StoreInv, IpCeiling, NEW K, Resolved(K), Added(K)
    PROVE  IpCeiling'
<1> SUFFICES ASSUME MaxPerIp > 0, NEW i \in CountedIps
             PROVE  Cardinality(LiveForIp(i)') <= MaxPerIp
  BY DEF IpCeiling
<1> DEFINE o == Len(heap')
           s == heap'[o]
           Before == LiveForIp(i)
           After == LiveForIp(i)'
<1>1. /\ now' = now /\ o \notin Objs /\ Objs' = Objs \cup {o}
      /\ sessions' = [Without(K) EXCEPT ![s.key] = o]
      /\ s.ip \in CountedIps => ~CeilingReached(s.ip)
      /\ \A p \in Objs : heap'[p].ip = heap[p].ip /\ heap'[p].createdAt = heap[p].createdAt
  BY DEF Resolved, Added, SameBooks
<1>2. \A k \in Keys : sessions[k] # None => sessions[k] \in Objs
  BY StoreTypes
<1> HIDE DEF o
<1>3. \A k \in Keys \ {s.key} : sessions'[k] \in {None, sessions[k]}
  BY <1>1 DEF Without
<1>4. s.key \in Keys => sessions'[s.key] = o
  BY <1>1 DEF Without
<1>5. After \subseteq Before \cup {s.key}
  BY <1>1, <1>2, <1>3 DEF LiveForIp, Expired
<1>6. s.ip # i => s.key \notin After
  BY <1>4 DEF LiveForIp
<1>7. IsFiniteSet(Before) /\ Cardinality(Before) \in Nat
  BY LiveFinite
<1>8. s.ip = i => Cardinality(Before) < MaxPerIp
  BY <1>1, <1>7, StoreAssumption DEF CeilingReached
<1>9. Cardinality(Before) <= MaxPerIp
  BY DEF IpCeiling
<1> HIDE DEF Before, After
<1>10. CASE s.ip = i
  <2>1. /\ IsFiniteSet(Before \cup {s.key})
        /\ Cardinality(Before \cup {s.key}) \in {Cardinality(Before), Cardinality(Before) + 1}
    BY <1>7, FS_AddElement
  <2>2. Cardinality(After) <= Cardinality(Before \cup {s.key}) /\ Cardinality(After) \in Nat
    BY <1>5, <2>1, FS_Subset, FS_CardinalityType
  <2>3. Cardinality(After) <= MaxPerIp
    BY <1>7, <1>8, <1>10, <2>1, <2>2, StoreAssumption
  <2>4. QED
    BY <2>3 DEF After
<1>11. CASE s.ip # i
  <2>1. After \in SUBSET Before
    BY <1>5, <1>6, <1>11
  <2>2. Cardinality(After) <= Cardinality(Before) /\ Cardinality(After) \in Nat
    BY <1>7, <2>1, FS_Subset, FS_CardinalityType
  <2>3. Cardinality(After) <= MaxPerIp
    BY <1>7, <1>9, <2>2, StoreAssumption
  <2>4. QED
    BY <2>3 DEF After
<1>12. QED
  BY <1>10, <1>11

LEMMA ResolvedKeepsCeiling ==
    ASSUME StoreInv, IpCeiling, NEW K, Resolved(K)
    PROVE  IpCeiling'
<1>1. CASE Added(K)
  BY <1>1, AddedKeepsCeiling
<1>2. CASE sessions' = Without(K)
  <2>1. now' = now /\ \A o \in Objs : /\ heap'[o].ip = heap[o].ip
                                      /\ heap'[o].createdAt = heap[o].createdAt
    BY DEF Resolved, SameBooks
  <2>2. \A k \in Keys : sessions'[k] \in {None, sessions[k]}
    BY <1>2 DEF Without
  <2>3. QED
    BY <2>1, <2>2, CalmKeepsCeiling
<1>3. QED
  BY <1>1, <1>2 DEF Resolved

\* What a program that uses the store does to it in one step: a resolve or a
\* sweep; a change to one object that keeps its address and its birthday; or
\* time passes and sessions go.
Booked(o, s) ==
    /\ o \in Objs /\ s \in Session /\ Admits(heap[o], s)
    /\ s.ip = heap[o].ip /\ s.createdAt = heap[o].createdAt
    /\ heap' = [heap EXCEPT ![o] = s]
    /\ UNCHANGED <<now, sessions>>

Calm ==
    /\ UNCHANGED heap
    /\ now' \in {now, now + 1}
    /\ \A k \in Keys : sessions'[k] \in {None, sessions[k]}

StoreMoves ==
    \/ \E K : Resolved(K)
    \/ \E o, s : Booked(o, s)
    \/ Calm

LEMMA MovesImplementWindows == StoreInv /\ StoreMoves => WindowsStep
BY UpdateImplementsWindows, StillImplementsWindows DEF StoreMoves, Resolved, Booked, Calm

LEMMA MovesKeepCeiling == StoreInv /\ IpCeiling /\ StoreMoves => IpCeiling'
<1> SUFFICES ASSUME StoreInv, IpCeiling, StoreMoves PROVE IpCeiling'
  OBVIOUS
<1>1. ASSUME NEW K, Resolved(K) PROVE IpCeiling'
  BY <1>1, ResolvedKeepsCeiling
<1>2. ASSUME NEW o, NEW s, Booked(o, s) PROVE IpCeiling'
  <2>1. \A p \in Objs : heap'[p].ip = heap[p].ip /\ heap'[p].createdAt = heap[p].createdAt
    BY <1>2, HeapUpdate DEF Booked
  <2>2. now' = now /\ sessions' = sessions
    BY <1>2 DEF Booked
  <2>3. QED
    BY <2>1, <2>2, CalmKeepsCeiling
<1>3. ASSUME Calm PROVE IpCeiling'
  BY <1>3, CalmKeepsCeiling DEF Calm
<1>4. QED
  BY <1>1, <1>2, <1>3 DEF StoreMoves

\* The changes to one object, as such moves.
LEMMA CheckRateBooked ==
    ASSUME StoreInv, NEW o \in Objs, NEW s \in {CheckRate(heap[o]), CheckLlmRate(heap[o])},
           heap' = [heap EXCEPT ![o] = s], UNCHANGED <<now, sessions>>
    PROVE  Booked(o, s)
<1>1. s \in Session /\ SameBooks(heap[o], s) /\ Admits(heap[o], s)
  BY StoreTypes, CheckRateSound, CheckLlmRateSound, CheckRateBooks, CheckLlmRateBooks,
     CheckRateAdmits, CheckLlmRateAdmits
<1>2. QED
  BY <1>1 DEF SameBooks, Booked

LEMMA CommitBooked ==
    ASSUME StoreInv, NEW o \in Objs, NEW count \in Nat,
           heap' = [heap EXCEPT ![o] = CommitMemory(heap[o], count)],
           UNCHANGED <<now, sessions>>
    PROVE  \E s : Booked(o, s)
<1> DEFINE s == CommitMemory(heap[o], count)
<1>1. heap[o] \in Session /\ s \in Session /\ Admits(heap[o], s)
  BY StoreTypes, CommitMemoryType, CommitMemoryAdmits
<1>2. s.ip = heap[o].ip /\ s.createdAt = heap[o].createdAt
  BY <1>1 DEF CommitMemory, Session
<1>3. QED
  BY <1>1, <1>2 DEF Booked

LEMMA TrackBooked ==
    ASSUME StoreInv, NEW o \in Objs, NEW scenario \in Scenarios,
           heap' = [heap EXCEPT ![o] = TrackNamespace(heap[o], <<heap[o].key, scenario>>)],
           UNCHANGED <<now, sessions>>
    PROVE  \E s : Booked(o, s)
<1> DEFINE s == TrackNamespace(heap[o], <<heap[o].key, scenario>>)
<1>1. heap[o] \in Session /\ s \in Session /\ Admits(heap[o], s)
  BY StoreTypes, TrackNamespaceType, TrackNamespaceAdmits
<1>2. s.ip = heap[o].ip /\ s.createdAt = heap[o].createdAt
  BY <1>1 DEF TrackNamespace, Session
<1>3. QED
  BY <1>1, <1>2 DEF Booked

LEMMA StoreStepMoves == StoreInv /\ [StoreNext]_storeVars => StoreMoves
<1> SUFFICES ASSUME StoreInv, [StoreNext]_storeVars PROVE StoreMoves
  OBVIOUS
<1>1. ASSUME NEW hdr \in Ids \cup {NoHeader}, NEW ip \in ClientIps, Resolve(hdr, ip)
      PROVE  StoreMoves
  BY <1>1, ResolveEffect DEF StoreMoves
<1>2. ASSUME Sweep PROVE StoreMoves
  BY <1>2, SweepResolved DEF StoreMoves
<1>3. ASSUME NEW o \in Objs, RateCheck(o) \/ LlmRateCheck(o) PROVE StoreMoves
  <2>1. PICK s \in {CheckRate(heap[o]), CheckLlmRate(heap[o])} : Update(o, s)
    BY <1>3 DEF RateCheck, LlmRateCheck
  <2>2. QED
    BY <2>1, CheckRateBooked DEF Update, StoreMoves
<1>4. ASSUME NEW o \in Objs, NEW count \in BatchSizes, Commit(o, count) PROVE StoreMoves
  BY <1>4, CommitBooked, StoreAssumption DEF Commit, Update, StoreMoves
<1>5. ASSUME NEW o \in Objs, NEW scenario \in Scenarios, Track(o, scenario) PROVE StoreMoves
  BY <1>5, TrackBooked DEF Track, Update, StoreMoves
<1>6. ASSUME Tick \/ UNCHANGED storeVars PROVE StoreMoves
  BY <1>6 DEF Tick, storeVars, Calm, StoreMoves
<1>7. QED
  BY <1>1, <1>2, <1>3, <1>4, <1>5, <1>6 DEF StoreNext

LEMMA CeilingInit == StoreInit => IpCeiling
<1> SUFFICES ASSUME StoreInit, MaxPerIp > 0, NEW ip \in CountedIps
             PROVE  Cardinality(LiveForIp(ip)) <= MaxPerIp
  BY DEF IpCeiling
<1>1. LiveForIp(ip) = {}
  BY DEF StoreInit, LiveForIp
<1>2. QED
  BY <1>1, FS_EmptySet, StoreAssumption

\* No rotation of the session header, and no timing of expiry and sweep, gives
\* an address more than maxSessionsPerIp live sessions, unless the empty address
\* may come in and the address is "unknown" (sessions.js, resolve).
THEOREM CeilingHolds == StoreSpec => []IpCeiling
BY CeilingInit, StoreStepMoves, MovesKeepCeiling, StoreInvHolds, PTL DEF StoreSpec

-----------------------------------------------------------------------------
(* Evictions *)

\* The Map has a session under its own id, the last one that had it, and a
\* session tracks namespaces of its own id only.
MapInv ==
    /\ \A k \in Keys : sessions[k] # None =>
          /\ heap[sessions[k]].key = k
          /\ \A p \in Objs : p > sessions[k] => heap[p].key # k
    /\ \A o \in Objs : heap[o].namespaces \subseteq {heap[o].key} \X Scenarios

LEMMA ResolvedKeepsMap ==
    ASSUME StoreInv, MapInv, NEW K, Resolved(K)
    PROVE  MapInv'
<1>1. /\ Len(heap) \in Nat /\ Objs = 1 .. Len(heap) /\ sessions \in [Keys -> Nat]
      /\ \A k \in Keys : sessions[k] # None => sessions[k] \in Objs
  BY StoreTypes
<1>2. \A o \in Objs : heap'[o].key = heap[o].key /\ heap'[o].namespaces = heap[o].namespaces
  BY DEF Resolved, SameBooks
<1>3. CASE Objs' = Objs /\ sessions' = Without(K)
  BY <1>1, <1>2, <1>3 DEF MapInv, Without
<1>4. CASE Added(K)
  <2> DEFINE o == Len(heap')
             key == heap'[o].key
  <2>1. /\ o = Len(heap) + 1 /\ Objs' = Objs \cup {o} /\ o \notin Objs
        /\ heap'[o].namespaces = {} /\ key \in Keys
        /\ sessions' = [Without(K) EXCEPT ![key] = o]
    BY <1>4 DEF Added
  <2> HIDE DEF o, key
  <2>2. \A k \in Keys : sessions'[k] # None =>
           /\ heap'[sessions'[k]].key = k
           /\ \A p \in Objs' : p > sessions'[k] => heap'[p].key # k
    <3> SUFFICES ASSUME NEW k \in Keys, sessions'[k] # None
                 PROVE  /\ heap'[sessions'[k]].key = k
                        /\ \A p \in Objs' : p > sessions'[k] => heap'[p].key # k
      OBVIOUS
    <3>1. CASE k = key
      <4>1. sessions'[k] = o
        BY <2>1, <3>1 DEF Without
      <4>2. QED
        BY <1>1, <2>1, <3>1, <4>1 DEF key
    <3>2. CASE k # key
      <4>1. sessions'[k] = sessions[k] /\ sessions[k] # None
        BY <2>1, <3>2 DEF Without
      <4>2. sessions[k] \in Objs /\ heap[sessions[k]].key = k
        BY <1>1, <4>1 DEF MapInv
      <4>3. \A p \in Objs : p > sessions[k] => heap[p].key # k
        BY <4>1 DEF MapInv
      <4>4. \A p \in Objs' : p \in Objs \/ (p = o /\ heap'[p].key = key)
        BY <2>1 DEF key, o
      <4>5. QED
        BY <1>2, <3>2, <4>1, <4>2, <4>3, <4>4
    <3>3. QED
      BY <3>1, <3>2
  <2>3. \A p \in Objs' : heap'[p].namespaces \subseteq {heap'[p].key} \X Scenarios
    BY <1>2, <2>1 DEF MapInv
  <2>4. QED
    BY <2>2, <2>3 DEF MapInv
<1>5. QED
  BY <1>3, <1>4 DEF Resolved

LEMMA UpdateKeepsMap ==
    ASSUME StoreInv, MapInv, NEW o \in Objs, NEW s \in Session, s.key = heap[o].key,
           s.namespaces \subseteq {s.key} \X Scenarios,
           heap' = [heap EXCEPT ![o] = s], UNCHANGED sessions
    PROVE  MapInv'
<1>1. Objs' = Objs /\ \A p \in Objs : heap'[p] = IF p = o THEN s ELSE heap[p]
  BY HeapUpdate
<1>2. \A k \in Keys : sessions[k] # None => sessions[k] \in Objs
  BY StoreTypes
<1>3. QED
  BY <1>1, <1>2 DEF MapInv

\* What leaves the Map had expired and was handed over, and nothing comes back.
LEMMA ResolvedEvicts ==
    ASSUME StoreInv, MapInv, NEW K, Resolved(K), NEW o \in Objs
    PROVE  /\ Held(o)' => Held(o)
           /\ Held(o) /\ ~Held(o)' =>
                 Expired(heap[o]) /\ {o} \X heap[o].namespaces \subseteq deletes'
<1>1. /\ Len(heap) \in Nat /\ Objs = 1 .. Len(heap) /\ sessions \in [Keys -> Nat]
      /\ \A k \in Keys : sessions[k] # None => sessions[k] \in Objs
      /\ o # None
  BY StoreTypes DEF None
<1>2. ASSUME NEW k \in Keys, k \notin K, sessions'[k] # sessions[k]
      PROVE  Added(K) /\ k = heap'[Len(heap')].key
  <2>1. Without(K) \in [Keys -> Nat \cup {None}] /\ Without(K)[k] = sessions[k]
    BY <1>1, <1>2 DEF Without
  <2>2. sessions' # Without(K)
    BY <1>2, <2>1
  <2>3. Added(K)
    BY <2>2 DEF Resolved
  <2> DEFINE key == heap'[Len(heap')].key
  <2>4. sessions' = [Without(K) EXCEPT ![key] = Len(heap')]
    BY <2>3 DEF Added
  <2> HIDE DEF key
  <2>5. k = key
    BY <1>2, <2>1, <2>4
  <2>6. QED
    BY <2>3, <2>5 DEF key
<1>3. \A k \in Keys : sessions'[k] = o => sessions[k] = o
  <2>1. CASE sessions' = Without(K)
    BY <1>1, <2>1 DEF Without
  <2>2. CASE Added(K)
    BY <1>1, <2>2 DEF Added, Without
  <2>3. QED
    BY <2>1, <2>2 DEF Resolved
<1>4. Held(o)' => Held(o)
  BY <1>3 DEF Held
<1>5. ASSUME NEW k \in Keys, sessions[k] = o, sessions'[k] # o
      PROVE  Expired(heap[o]) /\ {o} \X heap[o].namespaces \subseteq deletes'
  <2>1. k \in K
    <3>1. CASE Added(K) /\ k = heap'[Len(heap')].key
      BY <1>1, <1>5, <3>1 DEF Added, MapInv
    <3>2. QED
      BY <1>2, <1>5, <3>1
  <2>2. Expired(heap[o])
    BY <1>5, <2>1 DEF Resolved, ExpiredKeys
  <2>3. {o} \X heap[o].namespaces \subseteq HandedOver(K)
    BY <1>5, <2>1 DEF HandedOver
  <2>4. QED
    BY <2>2, <2>3 DEF Resolved
<1>6. QED
  BY <1>4, <1>5 DEF Held

\* What has been handed over is in the Map no longer.
LEMMA DroppedIsGone ==
    ASSUME StoreInv, MapInv, NEW K, Resolved(K), NEW k \in K,
           NEW o, o = sessions[k]
    PROVE  o \in Objs /\ ~Held(o)'
<1>1. /\ Len(heap) \in Nat /\ Objs = 1 .. Len(heap) /\ sessions \in [Keys -> Nat]
      /\ k \in Keys /\ o \in Objs /\ o # None
  BY StoreTypes DEF Resolved, ExpiredKeys, None
<1>2. \A j \in Keys : sessions[j] = o => j = k
  BY <1>1 DEF MapInv
<1>3. \A j \in Keys : sessions'[j] # o
  <2>1. CASE sessions' = Without(K)
    BY <1>1, <1>2, <2>1 DEF Without
  <2>2. CASE Added(K)
    BY <1>1, <1>2, <2>2 DEF Added, Without
  <2>3. QED
    BY <2>1, <2>2 DEF Resolved
<1>4. QED
  BY <1>1, <1>3 DEF Held

LEMMA MapInvInit == StoreInit => MapInv
<1> SUFFICES ASSUME StoreInit PROVE MapInv
  OBVIOUS
<1>1. Objs = {}
  BY StoreInvInit, StoreTypes, EmptySeq DEF StoreInit
<1>2. QED
  BY <1>1 DEF StoreInit, MapInv

\* A step of the store, as far as the Map is concerned.
LEMMA MapStep ==
    ASSUME StoreInv, MapInv, [StoreNext]_storeVars
    PROVE  /\ MapInv'
           /\ \A o \in Objs :
                 Held(o) /\ ~Held(o)' =>
                    Expired(heap[o]) /\ {o} \X heap[o].namespaces \subseteq deletes'
<1> DEFINE Evicts == \A o \in Objs :
              Held(o) /\ ~Held(o)' =>
                 Expired(heap[o]) /\ {o} \X heap[o].namespaces \subseteq deletes'
<1>1. \A o \in Objs : heap[o] \in Session
  BY StoreTypes
<1>2. UNCHANGED sessions => Evicts
  BY DEF Held
<1>3. ASSUME NEW K, Resolved(K) PROVE MapInv' /\ Evicts
  BY <1>3, ResolvedKeepsMap, ResolvedEvicts
<1>4. ASSUME NEW o \in Objs, NEW s \in Session, s.key = heap[o].key,
             s.namespaces \subseteq {s.key} \X Scenarios, Update(o, s)
      PROVE  MapInv' /\ Evicts
  <2>1. MapInv'
    BY <1>4, UpdateKeepsMap DEF Update
  <2>2. Evicts
    BY <1>2, <1>4 DEF Update
  <2>3. QED
    BY <2>1, <2>2
<1>5. ASSUME NEW o \in Objs, RateCheck(o) \/ LlmRateCheck(o) PROVE MapInv' /\ Evicts
  <2>1. PICK s \in {CheckRate(heap[o]), CheckLlmRate(heap[o])} : Update(o, s)
    BY <1>5 DEF RateCheck, LlmRateCheck
  <2>2. s \in Session /\ SameBooks(heap[o], s)
    BY <1>1, StoreTypes, CheckRateSound, CheckLlmRateSound, CheckRateBooks, CheckLlmRateBooks
  <2>3. QED
    BY <1>4, <2>1, <2>2 DEF MapInv, SameBooks
<1>6. ASSUME NEW o \in Objs, NEW count \in BatchSizes, Commit(o, count) PROVE MapInv' /\ Evicts
  <2> DEFINE s == CommitMemory(heap[o], count)
  <2>1. s \in Session
    BY <1>1, CommitMemoryType, StoreAssumption
  <2>2. s.key = heap[o].key /\ s.namespaces = heap[o].namespaces
    BY <1>1 DEF CommitMemory, Session
  <2> HIDE DEF s
  <2>3. Update(o, s)
    BY <1>6 DEF Commit, s
  <2>4. QED
    BY <1>4, <2>1, <2>2, <2>3 DEF MapInv
<1>7. ASSUME NEW o \in Objs, NEW scenario \in Scenarios, Track(o, scenario)
      PROVE  MapInv' /\ Evicts
  <2> DEFINE ns == <<heap[o].key, scenario>>
             s == TrackNamespace(heap[o], ns)
  <2>1. s \in Session
    BY <1>1, TrackNamespaceType
  <2>2. s.key = heap[o].key /\ s.namespaces = heap[o].namespaces \cup {ns}
    BY <1>1 DEF TrackNamespace, Session
  <2> HIDE DEF s
  <2>3. Update(o, s)
    BY <1>7 DEF Track, s
  <2>4. s.namespaces \subseteq {s.key} \X Scenarios
    BY <2>2 DEF MapInv
  <2>5. QED
    BY <1>4, <2>1, <2>2, <2>3, <2>4
<1>8. ASSUME Tick \/ UNCHANGED storeVars PROVE MapInv' /\ Evicts
  <2>1. UNCHANGED <<sessions, heap>>
    BY <1>8 DEF Tick, storeVars
  <2>2. QED
    BY <1>2, <2>1 DEF MapInv, Objs
<1>9. ASSUME NEW hdr \in Ids \cup {NoHeader}, NEW ip \in ClientIps, Resolve(hdr, ip)
      PROVE  MapInv' /\ Evicts
  BY <1>3, <1>9, ResolveEffect
<1>10. ASSUME Sweep PROVE MapInv' /\ Evicts
  BY <1>3, <1>10, SweepResolved
<1> HIDE DEF Evicts
<1>11. MapInv' /\ Evicts
  <2>1. \/ \E hdr \in Ids \cup {NoHeader}, ip \in ClientIps : Resolve(hdr, ip)
        \/ \E o \in Objs : RateCheck(o) \/ LlmRateCheck(o)
        \/ \E o \in Objs, count \in BatchSizes : Commit(o, count)
        \/ \E o \in Objs, scenario \in Scenarios : Track(o, scenario)
        \/ Sweep
        \/ Tick \/ UNCHANGED storeVars
    BY DEF StoreNext
  <2>2. QED
    BY <1>5, <1>6, <1>7, <1>8, <1>9, <1>10, <2>1, Zenon
<1>12. QED
  BY <1>11 DEF Evicts

\* Nothing leaves the Map before its time, and what leaves it is handed to
\* onExpire with every namespace it tracked, whichever of resolve and sweep
\* drops it (sessions.js, resolve and sweep).
THEOREM EvictionCompletes == StoreSpec => EvictionComplete
<1> DEFINE Evicts == \A o \in Objs :
              Held(o) /\ ~Held(o)' =>
                 /\ Expired(heap[o])
                 /\ {o} \X heap[o].namespaces \subseteq deletes'
<1>1. StoreInv /\ MapInv /\ [StoreNext]_storeVars => MapInv' /\ Evicts
  BY MapStep
<1>2. EvictionComplete <=> [][Evicts]_storeVars
  BY DEF EvictionComplete
<1> HIDE DEF Evicts
<1>3. StoreSpec => [][Evicts]_storeVars
  BY <1>1, MapInvInit, StoreInvHolds, PTL DEF StoreSpec
<1>4. QED
  BY <1>2, <1>3

-----------------------------------------------------------------------------
(* Retry-After *)

\* A nonempty set of numbers has a least element.
LEMMA LeastNumber ==
    ASSUME NEW S \in SUBSET Nat, S # {}
    PROVE  \E m \in S : \A k \in S : m <= k
<1>1. PICK m \in S : \A k \in S : ~(<<k, m>> \in OpToRel(<, Nat))
  BY NatLessThanWellFounded, WFMin, Zenon
<1>2. \A k \in S : ~(k < m)
  BY <1>1 DEF OpToRel
<1>3. QED
  BY <1>2

\* A duration in whole seconds, rounded up.
LEMMA RoundedUp ==
    ASSUME NEW t \in Nat \ {0}, NEW n \in Nat \ {0}
    PROVE  LET wait == (t + n - 1) \div n
           IN  wait \in Nat \ {0} /\ wait * n >= t
<1> DEFINE b == t + n - 1
           wait == b \div n
<1>1. b \in Nat /\ b >= n
  OBVIOUS
<1>2. t = b - n + 1
  OBVIOUS
<1> HIDE DEF b
<1>3. wait \in Int /\ wait * n > b - n
  BY <1>1
<1> HIDE DEF wait
<1>4. wait > 0
  <2>1. ASSUME wait <= 0 PROVE wait * n <= 0
    BY <1>3, <2>1
  <2>2. QED
    BY <1>1, <1>3, <2>1
<1>5. wait * n \in Int
  BY <1>3
<1>6. wait \in Nat \ {0} /\ wait * n >= t
  <2> DEFINE p == wait * n
  <2>1. p \in Int /\ p > b - n
    BY <1>3, <1>5
  <2> HIDE DEF p
  <2>2. p >= t
    BY <1>1, <1>2, <2>1
  <2>3. QED
    BY <1>3, <1>4, <2>2 DEF p
<1>7. QED
  BY <1>6 DEF wait, b

\* Who waits that long sees the oldest call leave the window.
LEMMA RetryAfterWaits ==
    ASSUME now \in Nat, NEW calls \in SUBSET Call, NEW window \in Nat \ {0},
           Recent(calls, window) # {}
    PROVE  LET then == now + RetryAfter(calls, window) * TicksPerSec
           IN  /\ then \in Nat /\ then >= now
               /\ \E c \in Recent(calls, window) : c.at <= then - window
<1> DEFINE kept == Recent(calls, window)
           times == {c.at : c \in kept}
           oldest == CHOOSE t \in times : \A c \in kept : t <= c.at
           left == oldest + window - now
           wait == (left + TicksPerSec - 1) \div TicksPerSec
<1>1. TicksPerSec \in Nat \ {0}
  BY StoreAssumption
<1>2. kept \subseteq Call /\ \A c \in kept : c.at \in Nat /\ c.at > now - window
  BY DEF Recent, Call
<1>3. oldest \in times
  <2>1. times \in SUBSET Nat /\ times # {}
    BY <1>2
  <2>2. \E t \in times : \A k \in times : t <= k
    BY <2>1, LeastNumber
  <2>3. \E t \in times : \A c \in kept : t <= c.at
    BY <2>2
  <2>4. QED
    BY <2>3
<1>4. PICK c \in kept : oldest = c.at
  BY <1>3
<1> HIDE DEF kept, oldest
<1>5. left \in Nat \ {0}
  BY <1>2, <1>4
<1>6. now + left = c.at + window
  BY <1>2, <1>4
<1>7. kept # {} /\ RetryAfter(calls, window) = IF wait < 1 THEN 1 ELSE wait
  BY DEF RetryAfter, kept, oldest
<1> HIDE DEF left
<1>8. wait \in Nat \ {0} /\ wait * TicksPerSec >= left
  BY <1>1, <1>5, RoundedUp
<1>9. wait * TicksPerSec \in Nat
  BY <1>1, <1>8
<1> HIDE DEF wait
<1>10. RetryAfter(calls, window) = wait
  BY <1>7, <1>8
<1> DEFINE ticks == wait * TicksPerSec
<1>11. ticks \in Nat /\ ticks >= left
  BY <1>8, <1>9
<1> HIDE DEF ticks
<1>12. now + ticks \in Nat /\ now + ticks >= now /\ c.at <= now + ticks - window
  BY <1>2, <1>4, <1>5, <1>6, <1>11
<1> DEFINE after == now + RetryAfter(calls, window) * TicksPerSec
<1>13. after = now + ticks
  BY <1>10 DEF ticks
<1> HIDE DEF after
<1>14. after \in Nat /\ after >= now /\ c.at <= after - window
  BY <1>2, <1>4, <1>11, <1>12, <1>13
<1>15. \E d \in kept : d.at <= after - window
  BY <1>14
<1>16. QED
  BY <1>14, <1>15 DEF kept, after

LEMMA RetryAfterFromLimit ==
    ASSUME StoreInv, RateNeverOver, RateLimit # 0
    PROVE  RetryAfterSuffices
<1> SUFFICES ASSUME NEW o \in Objs, ~RateOk(heap[o])
             PROVE  LET then == now + RetryAfter(heap[o].calls, RateWindow) * TicksPerSec
                    IN  Cardinality({c \in heap[o].calls : c.at > then - RateWindow}) < RateLimit
  BY DEF RetryAfterSuffices
<1> DEFINE calls == heap[o].calls
           kept == Recent(calls, RateWindow)
           then == now + RetryAfter(calls, RateWindow) * TicksPerSec
           later == {c \in calls : c.at > then - RateWindow}
<1>1. /\ now \in Nat /\ heap[o] \in Session /\ CallsSound(heap[o], now)
      /\ RateWindow \in Nat \ {0} /\ RateLimit \in Nat \ {0}
      /\ calls \in SUBSET Call /\ heap[o].admitted \in SUBSET Call
  BY StoreTypes, StoreAssumption DEF Session
<1>2. kept = Rate!InWindow(heap[o].admitted, now)
  BY <1>1, RecentIsWindow DEF CallsSound, Rate!InWindow
<1>3. Cardinality(kept) <= RateLimit
  <2>1. o \in 1 .. MaxObjs /\ AdmittedLog[o] = heap[o].admitted
    BY StoreTypes, StoreAssumption DEF StoreInv, AdmittedLog
  <2>2. now \in 0 .. now
    BY <1>1
  <2>3. Rate!Cardinality(Rate!InWindow(AdmittedLog[o], now)) <= RateLimit
    BY <2>1, <2>2 DEF RateNeverOver, Rate!NeverOver
  <2>4. QED
    BY <1>2, <2>1, <2>3, RateCardinality
<1>4. IsFiniteSet(kept) /\ Cardinality(kept) \in Nat
  <2>1. kept \in SUBSET heap[o].admitted /\ IsFiniteSet(heap[o].admitted)
    BY <1>1 DEF Recent, CallsSound, KeptSound
  <2>2. QED
    BY <2>1, FS_Subset, FS_CardinalityType
<1>5. kept # {}
  <2>1. Cardinality(kept) >= RateLimit
    BY <1>1, <1>4 DEF RateOk
  <2>2. QED
    BY <1>1, <2>1, FS_EmptySet
<1>6. PICK c \in kept : then \in Nat /\ then >= now /\ c.at <= then - RateWindow
  BY <1>1, <1>5, RetryAfterWaits
<1>7. later \subseteq kept /\ c \notin later
  <2> HIDE DEF then, calls
  <2>1. \A d \in calls : d.at \in Nat
    BY <1>1 DEF Call
  <2>2. c \in calls
    BY DEF Recent
  <2>3. QED
    BY <1>1, <1>6, <2>1, <2>2 DEF Recent
<1> HIDE DEF later, kept
<1>8. Cardinality(later) < Cardinality(kept)
  BY <1>4, <1>6, <1>7, FS_Subset, FS_CardinalityType
<1>9. Cardinality(later) \in Nat
  BY <1>4, <1>7, FS_Subset, FS_CardinalityType
<1>10. Cardinality(later) < RateLimit
  BY <1>1, <1>3, <1>4, <1>8, <1>9
<1>11. QED
  BY <1>10 DEF later

\* A client that waits as long as checkRate told it finds room, whatever the
\* limit, the window and the clock's unit (sessions.js, checkRate and the 429 of
\* server.js).  A limit of 0 admits nothing, ever; config.js allows it.
THEOREM RetryAfterHolds ==
    ASSUME RateLimit # 0
    PROVE  StoreSpec => []RetryAfterSuffices
<1>1. StoreInv /\ RateNeverOver => RetryAfterSuffices
  BY RetryAfterFromLimit
<1>2. QED
  BY <1>1, StoreInvHolds, RateHolds, PTL
=============================================================================
