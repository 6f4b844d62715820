-------------------------- MODULE LlmCompareProofs --------------------------
(***************************************************************************)
(* The whole playground proxy, for any number of overlapping comparisons,  *)
(* stores, restarts and models.  A session is seeded once, and whoever     *)
(* recalls finds the seed unless it was refused or given up.               *)
(*                                                                         *)
(* A step is one of the proxy's, which keeps what SandboxProxyProofs       *)
(* shows, or one of a comparison.  Apart says what the latter leaves       *)
(* alone, and with it the promises of the store and of the proxy hold for  *)
(* the whole: all of them but NoUnexplainedLeak, of which OnlySeedsLeak is *)
(* left.                                                                   *)
(***************************************************************************)
EXTENDS LlmCompare, SandboxProxyProofs

-----------------------------------------------------------------------------
(* The steps of a comparison *)

\* The body of a comparison has come; q is the request and s the session after.
Started(r, q, o, s) ==
    /\ req[r].pc = "body" /\ req[r].route = "compare"
    /\ o \in Objs /\ req[r].obj = o
    /\ q \in Request /\ q.pc \in {"done", "seeding", "recalling"}
    /\ q.route = "compare" /\ q.obj = o
    /\ q.pc = "done" => q.ns = req[r].ns
    /\ q.pc # "done" => q.ns = <<heap[o].key, DefaultScenario>> /\ q.status = req[r].status
    /\ s \in Session /\ CallsSound(s, now) /\ Admits(heap[o], s)
    /\ s.key = heap[o].key /\ s.namespaces = heap[o].namespaces
    /\ s.memoryCount = heap[o].memoryCount
    /\ s.ip = heap[o].ip /\ s.createdAt = heap[o].createdAt
    /\ heap[o].llmSeeded => s.llmSeeded
    /\ q.pc = "seeding" => s.llmSeeded /\ ~heap[o].llmSeeded
    /\ heap' = [heap EXCEPT ![o] = s]
    /\ req' = [req EXCEPT ![r] = q]
    /\ cmp' = [cmp EXCEPT ![r].seed = IF q.pc = "seeding" THEN "out" ELSE cmp[r].seed]
    /\ wire' = [wire EXCEPT ![r] = IF q.pc = "recalling" THEN "out" ELSE wire[r]]
    /\ UNCHANGED <<now, sessions, deletes, engine, mode, restarts, purgeArmed, history>>

LEMMA SeededType ==
    ASSUME NEW s \in Session, CallsSound(s, now)
    PROVE  /\ Seeded(s) \in Session /\ CallsSound(Seeded(s), now)
           /\ Seeded(s).key = s.key /\ Seeded(s).namespaces = s.namespaces
           /\ Seeded(s).memoryCount = s.memoryCount
           /\ Seeded(s).ip = s.ip /\ Seeded(s).createdAt = s.createdAt
           /\ Seeded(s).admitted = s.admitted /\ Seeded(s).llmAdmitted = s.llmAdmitted
           /\ Seeded(s).llmSeeded
BY DEF Seeded, Session, CallsSound

LEMMA VerdictType ==
    ASSUME NEW s, NEW body
    PROVE  Verdict(s, body) \in {0, 400, 429, 500, 503}
BY LlmAssumption DEF Verdict

LEMMA StartsEffect ==
    ASSUME TypeInv, NEW r \in Requests, NEW body, CompareStarts(r, body)
    PROVE  \E q, o, s : Started(r, q, o, s)
<1> DEFINE o == req[r].obj
           limited == IF LlmConfigured THEN CheckLlmRate(heap[o]) ELSE heap[o]
           verdict == Verdict(heap[o], body)
           seeds == verdict = 0 /\ ~limited.llmSeeded
           s == IF seeds THEN Seeded(limited) ELSE limited
           a == [req[r] EXCEPT !.ns = <<heap[o].key, DefaultScenario>>]
           b == [a EXCEPT !.pc = IF seeds THEN "seeding" ELSE "recalling"]
           q == IF verdict # 0 THEN Replied(req[r], verdict) ELSE b
<1>1. /\ req \in [Requests -> Request] /\ req[r] \in Request
      /\ req[r].pc = "body" /\ req[r].route = "compare"
  BY DEF TypeInv, ProxyTypeOK, CompareStarts
<1>2. /\ o \in Objs /\ heap[o] \in Session /\ CallsSound(heap[o], now) /\ now \in Nat
  BY <1>1, StoreTypes DEF TypeInv, ProxyTypeOK
<1>3. verdict \in {0, 400, 429, 500, 503}
  BY VerdictType
<1>4. /\ heap' = [heap EXCEPT ![o] = s]
      /\ req' = [req EXCEPT ![r] = q]
      /\ cmp' = [cmp EXCEPT ![r].seed = IF seeds THEN "out" ELSE cmp[r].seed]
      /\ wire' = [wire EXCEPT ![r] = IF verdict = 0 /\ ~seeds THEN "out" ELSE wire[r]]
      /\ UNCHANGED <<now, sessions, deletes, engine, mode, restarts, purgeArmed, history>>
  BY DEF CompareStarts
<1>5. /\ limited \in Session /\ CallsSound(limited, now) /\ Admits(heap[o], limited)
      /\ limited.key = heap[o].key /\ limited.namespaces = heap[o].namespaces
      /\ limited.memoryCount = heap[o].memoryCount
      /\ limited.ip = heap[o].ip /\ limited.createdAt = heap[o].createdAt
      /\ limited.llmSeeded = heap[o].llmSeeded
  BY <1>2, CheckLlmRateSound, CheckLlmRateBooks, CheckLlmRateAdmits, AdmitsNothing
     DEF SameBooks
<1> HIDE DEF limited, verdict
<1>6. /\ s \in Session /\ CallsSound(s, now) /\ Admits(heap[o], s)
      /\ s.key = heap[o].key /\ s.namespaces = heap[o].namespaces
      /\ s.memoryCount = heap[o].memoryCount
      /\ s.ip = heap[o].ip /\ s.createdAt = heap[o].createdAt
      /\ heap[o].llmSeeded => s.llmSeeded
      /\ seeds => s.llmSeeded /\ ~heap[o].llmSeeded
  BY <1>5, SeededType DEF Admits
<1> HIDE DEF s
<1>7. <<heap[o].key, DefaultScenario>> \in Namespaces
  BY <1>2, LlmAssumption DEF Session, Namespaces
<1>8. /\ a \in Request /\ a.ns = <<heap[o].key, DefaultScenario>> /\ a.route = "compare"
      /\ a.obj = o /\ a.status = req[r].status
  BY <1>1, <1>7 DEF Request
<1> HIDE DEF a
<1>9. /\ b \in Request /\ b.ns = a.ns /\ b.route = "compare" /\ b.obj = o
      /\ b.status = req[r].status
      /\ b.pc = IF seeds THEN "seeding" ELSE "recalling"
  BY <1>8 DEF Request
<1> HIDE DEF b
<1>10. /\ q \in Request /\ q.pc \in {"done", "seeding", "recalling"}
       /\ q.route = "compare" /\ q.obj = o
       /\ q.pc = "done" => q.ns = req[r].ns
       /\ q.pc # "done" => q.ns = <<heap[o].key, DefaultScenario>> /\ q.status = req[r].status
       /\ (q.pc = "seeding") = seeds
       /\ (q.pc = "recalling") = (verdict = 0 /\ ~seeds)
  <2>1. CASE verdict = 0
    BY <1>8, <1>9, <2>1
  <2>2. CASE verdict # 0
    BY <1>1, <1>3, <2>2, RepliedType
  <2>3. QED
    BY <2>1, <2>2
<1> HIDE DEF q, o, seeds
<1>11. Started(r, q, o, s)
  BY <1>1, <1>2, <1>4, <1>6, <1>10 DEF Started, o
<1>12. QED
  BY <1>11

\* A comparison goes on, from one of its awaits to the next or to its reply.
Advanced(r, q) ==
    /\ \/ /\ req[r].pc = "seeding" /\ q.pc = "recalling"
          /\ wire' = [wire EXCEPT ![r] = "out"]
          /\ \E wait \in {"answered", "failed"} :
                /\ wait = "answered" => cmp[r].seed # "out"
                /\ cmp' = [cmp EXCEPT ![r].wait = wait]
       \/ /\ req[r].pc = "recalling" /\ q.pc = "asking"
          /\ wire' = wire
          /\ \E found \in SUBSET Requests, warned \in BOOLEAN :
                cmp' = [cmp EXCEPT ![r].memories = found, ![r].warned = warned]
       \/ /\ req[r].pc = "asking" /\ q.pc = "done"
          /\ wire' = wire
          /\ cmp' = cmp
    /\ q \in Request /\ q.route = req[r].route /\ q.obj = req[r].obj /\ q.ns = req[r].ns
    /\ q.pc # "done" => q.status = req[r].status
    /\ req' = [req EXCEPT ![r] = q]
    /\ UNCHANGED <<now, sessions, heap, deletes, engine, mode, restarts, purgeArmed, history>>

LEMMA AdvanceEffect ==
    ASSUME TypeInv, NEW r \in Requests, SeedEnds(r) \/ RecallEnds(r) \/ CompareReplies(r)
    PROVE  \E q : Advanced(r, q)
<1>1. req \in [Requests -> Request] /\ req[r] \in Request
  BY DEF TypeInv, ProxyTypeOK
<1>2. CASE SeedEnds(r)
  <2> DEFINE q == [req[r] EXCEPT !.pc = "recalling"]
  <2>1. /\ q \in Request /\ q.pc = "recalling" /\ q.status = req[r].status
        /\ q.route = req[r].route /\ q.obj = req[r].obj /\ q.ns = req[r].ns
        /\ req' = [req EXCEPT ![r] = q]
    BY <1>1, <1>2 DEF Request, SeedEnds
  <2> HIDE DEF q
  <2>2. Advanced(r, q)
    BY <1>2, <2>1 DEF SeedEnds, Advanced
  <2>3. QED
    BY <2>2
<1>3. CASE RecallEnds(r)
  <2> DEFINE q == [req[r] EXCEPT !.pc = "asking"]
  <2>1. /\ q \in Request /\ q.pc = "asking" /\ q.status = req[r].status
        /\ q.route = req[r].route /\ q.obj = req[r].obj /\ q.ns = req[r].ns
        /\ req' = [req EXCEPT ![r] = q]
    BY <1>1, <1>3 DEF Request, RecallEnds
  <2> HIDE DEF q
  <2>2. \E found \in SUBSET Requests, warned \in BOOLEAN :
           cmp' = [cmp EXCEPT ![r].memories = found, ![r].warned = warned]
    <3>1. PICK outcome \in {"answer", "error"} :
             cmp' = [cmp EXCEPT
                       ![r].memories = IF outcome = "answer" /\ wire[r] = "ok"
                                       THEN req[r].found ELSE {},
                       ![r].warned = outcome = "error"]
      BY <1>3 DEF RecallEnds
    <3> DEFINE found == IF outcome = "answer" /\ wire[r] = "ok" THEN req[r].found ELSE {}
               warned == outcome = "error"
    <3>2. found \in SUBSET Requests /\ warned \in BOOLEAN
      BY <1>1 DEF Request
    <3>3. cmp' = [cmp EXCEPT ![r].memories = found, ![r].warned = warned]
      BY <3>1
    <3> HIDE DEF found, warned
    <3>4. QED
      BY <3>2, <3>3
  <2>3. Advanced(r, q)
    BY <1>3, <2>1, <2>2 DEF RecallEnds, Advanced
  <2>4. QED
    BY <2>3
<1>4. CASE CompareReplies(r)
  <2> DEFINE q == Replied(req[r], 200)
  <2>1. /\ q \in Request /\ q.pc = "done"
        /\ q.route = req[r].route /\ q.obj = req[r].obj /\ q.ns = req[r].ns
        /\ req' = [req EXCEPT ![r] = q]
    BY <1>1, <1>4, RepliedType DEF CompareReplies
  <2> HIDE DEF q
  <2>2. Advanced(r, q)
    BY <1>4, <2>1 DEF CompareReplies, Advanced
  <2>3. QED
    BY <2>2
<1>5. QED
  BY <1>2, <1>3, <1>4

\* What a step does when comparisons take part.
LEMMA LlmStepEffect ==
    ASSUME TypeInv, [LlmNext]_llmVars
    PROVE  \/ [ProxyNext]_proxyVars /\ UNCHANGED cmp
           \/ \E r \in Requests : \E q, o, s : Started(r, q, o, s)
           \/ \E r \in Requests : \E q : Advanced(r, q)
           \/ \E r \in Requests : \E side \in Sides : ModelAnswers(r, side)
           \/ \E r \in Requests : EngineSeed(r)
           \/ \E r \in Requests : EngineSeedRefused(r)
<1>1. CASE UNCHANGED llmVars
  BY <1>1 DEF llmVars, proxyVars
<1>2. CASE ProxyNext /\ UNCHANGED cmp
  BY <1>2
<1>3. ASSUME NEW r \in Requests, CompareStep(r)
      PROVE  \/ \E q, o, s : Started(r, q, o, s)
             \/ \E q : Advanced(r, q)
             \/ \E side \in Sides : ModelAnswers(r, side)
  BY <1>3, StartsEffect, AdvanceEffect DEF CompareStep
<1>4. QED
  BY <1>1, <1>2, <1>3 DEF LlmNext

-----------------------------------------------------------------------------
(* What SandboxProxyProofs knows still holds *)

\* The heap after a comparison has begun.
LEMMA StartedHeap ==
    ASSUME TypeInv, NEW r, NEW q, NEW o, NEW s, Started(r, q, o, s)
    PROVE  /\ Objs' = Objs /\ Len(heap') = Len(heap)
           /\ \A p \in Objs : heap'[p] = IF p = o THEN s ELSE heap[p]
BY HeapUpdate DEF TypeInv, Started

LEMMA LlmStepGrows ==
    ASSUME TypeInv, [LlmNext]_llmVars
    PROVE  Grows
<1>1. ASSUME NEW r \in Requests, NEW q, NEW o, NEW s, Started(r, q, o, s) PROVE Grows
  <2>1. /\ o \in Objs /\ s.key = heap[o].key /\ s.namespaces = heap[o].namespaces
        /\ heap[o].llmSeeded => s.llmSeeded
    BY <1>1 DEF Started
  <2>2. QED
    BY <1>1, <2>1, StartedHeap DEF Grows
<1>2. UNCHANGED heap => Grows
  BY DEF Grows, Objs
<1>3. ASSUME NEW r \in Requests, NEW q, Advanced(r, q) PROVE Grows
  BY <1>2, <1>3 DEF Advanced
<1>4. ASSUME NEW r \in Requests, NEW side \in Sides, ModelAnswers(r, side) PROVE Grows
  BY <1>2, <1>4 DEF ModelAnswers, proxyVars
<1>5. ASSUME NEW r \in Requests, EngineSeed(r) \/ EngineSeedRefused(r) PROVE Grows
  BY <1>2, <1>5 DEF EngineSeed, EngineSeedRefused
<1>6. QED
  BY <1>1, <1>3, <1>4, <1>5, LlmStepEffect, StepGrows, Zenon

LEMMA LlmTypeInvStep == TypeInv /\ [LlmNext]_llmVars => TypeInv'
<1> SUFFICES ASSUME TypeInv, [LlmNext]_llmVars PROVE TypeInv'
  OBVIOUS
<1>1. /\ StoreInv /\ req \in [Requests -> Request]
      /\ \A r \in Requests : /\ req[r].pc \notin {"idle", "done"} => req[r].obj \in Objs
                             /\ req[r].obj <= Len(heap)
                             /\ req[r].pc = "idle" => req[r] = Idle /\ wire[r] = "none"
      /\ wire \in [Requests -> {"none", "out", "ok", "refused", "missing"}]
      /\ engine \in [Namespaces -> SUBSET Requests]
      /\ history \in [raced : SUBSET Nat, stranded : SUBSET Requests,
                      purged : SUBSET Namespaces]
  BY DEF TypeInv, ProxyTypeOK
<1>2. Len(heap) \in Nat /\ Objs = 1 .. Len(heap)
  BY <1>1, StoreTypes
<1>3. ASSUME [ProxyNext]_proxyVars PROVE TypeInv'
  BY <1>3, TypeInvStep
<1>4. ASSUME NEW r \in Requests, NEW q \in Request, req' = [req EXCEPT ![r] = q],
             q.pc # "idle", q.obj \in Objs,
             Objs' = Objs, Len(heap') = Len(heap), StoreInv',
             wire' \in [Requests -> {"none", "out", "ok", "refused", "missing"}],
             \A t \in Requests \ {r} : wire'[t] = wire[t],
             UNCHANGED <<engine, mode, restarts, purgeArmed, history>>
      PROVE  TypeInv'
  <2>1. Len(heap') >= Len(heap) /\ q.obj <= Len(heap') /\ q.obj \in Objs'
    BY <1>2, <1>4
  <2>2. /\ req' \in [Requests -> Request]
        /\ \A t \in Requests :
              /\ req'[t].pc \notin {"idle", "done"} => req'[t].obj \in Objs'
              /\ req'[t].obj <= Len(heap')
              /\ req'[t].pc = "idle" => req'[t] = Idle
    BY <1>4, <2>1, RequestTypes
  <2>3. \A t \in Requests : req'[t].pc = "idle" => wire'[t] = "none"
    BY <1>1, <1>4
  <2>4. /\ StoreTypeOK' /\ StoreInv'
        /\ engine' = engine /\ mode' = mode /\ restarts' = restarts
        /\ purgeArmed' = purgeArmed /\ history' = history
    BY <1>4 DEF StoreInv
  <2>5. QED
    BY <1>4, <2>2, <2>3, <2>4 DEF TypeInv, ProxyTypeOK
<1>5. ASSUME NEW r \in Requests, NEW q, NEW o, NEW s, Started(r, q, o, s) PROVE TypeInv'
  <2>1. StoreInv'
    BY <1>1, <1>5, UpdateKeepsInv DEF Started, Update
  <2>2. /\ q \in Request /\ q.pc # "idle" /\ q.obj \in Objs /\ req' = [req EXCEPT ![r] = q]
        /\ wire' = [wire EXCEPT ![r] = IF q.pc = "recalling" THEN "out" ELSE wire[r]]
        /\ UNCHANGED <<engine, mode, restarts, purgeArmed, history>>
    BY <1>5 DEF Started
  <2>3. /\ wire' \in [Requests -> {"none", "out", "ok", "refused", "missing"}]
        /\ \A t \in Requests \ {r} : wire'[t] = wire[t]
    BY <1>1, <2>2
  <2>4. QED
    BY <1>4, <1>5, <2>1, <2>2, <2>3, StartedHeap
<1>6. ASSUME NEW r \in Requests, NEW q, Advanced(r, q) PROVE TypeInv'
  <2>1. /\ q \in Request /\ q.pc # "idle" /\ req' = [req EXCEPT ![r] = q]
        /\ q.obj = req[r].obj /\ req[r].pc \notin {"idle", "done"}
        /\ wire' = wire \/ wire' = [wire EXCEPT ![r] = "out"]
        /\ UNCHANGED <<now, sessions, heap, deletes, engine, mode, restarts, purgeArmed,
                       history>>
    BY <1>6 DEF Advanced
  <2>2. Objs' = Objs /\ q.obj \in Objs
    BY <1>1, <2>1 DEF Objs
  <2>3. StoreInv'
    BY <1>1, <2>1 DEF StoreInv, StoreTypeOK, CallsSound, KeptSound, Objs
  <2>4. /\ wire' \in [Requests -> {"none", "out", "ok", "refused", "missing"}]
        /\ \A t \in Requests \ {r} : wire'[t] = wire[t]
    BY <1>1, <2>1
  <2>5. QED
    BY <1>4, <2>1, <2>2, <2>3, <2>4
<1>7. ASSUME NEW r \in Requests, NEW side \in Sides, ModelAnswers(r, side) PROVE TypeInv'
  <2>1. UNCHANGED proxyVars
    BY <1>7 DEF ModelAnswers
  <2>2. QED
    BY <1>3, <2>1
<1>8. ASSUME NEW r \in Requests, EngineSeedRefused(r) PROVE TypeInv'
  <2>1. UNCHANGED proxyVars
    BY <1>8 DEF EngineSeedRefused, proxyVars
  <2>2. QED
    BY <1>3, <2>1
<1>9. ASSUME NEW r \in Requests, EngineSeed(r) PROVE TypeInv'
  <2>1. /\ engine' \in [Namespaces -> SUBSET Requests]
        /\ history' \in [raced : SUBSET Nat, stranded : SUBSET Requests,
                         purged : SUBSET Namespaces]
    BY <1>1, <1>9 DEF EngineSeed
  <2>2. UNCHANGED <<now, sessions, heap, deletes, req, wire, mode, restarts, purgeArmed>>
    BY <1>9 DEF EngineSeed
  <2>3. StoreInv' /\ Objs' = Objs
    BY <1>1, <2>2 DEF StoreInv, StoreTypeOK, CallsSound, KeptSound, Objs
  <2>4. QED
    BY <2>1, <2>2, <2>3 DEF TypeInv, ProxyTypeOK, StoreInv
<1>10. QED
  BY <1>3, <1>5, <1>6, <1>7, <1>8, <1>9, LlmStepEffect, Zenon

LEMMA LlmRequestInvStep == TypeInv /\ RequestInv /\ [LlmNext]_llmVars => RequestInv'
<1> SUFFICES ASSUME TypeInv, RequestInv, [LlmNext]_llmVars PROVE RequestInv'
  OBVIOUS
<1>1. /\ req \in [Requests -> Request] /\ Grows
      /\ \A r \in Requests : req[r].pc \notin {"idle", "done"} => req[r].obj \in Objs
      /\ wire \in [Requests -> {"none", "out", "ok", "refused", "missing"}]
      /\ \A r \in Requests : RequestOK(req[r], wire[r], heap)
  BY LlmStepGrows DEF TypeInv, ProxyTypeOK, RequestInv
<1>2. \A r \in Requests : RequestOK(req[r], wire[r], heap')
  BY <1>1, GrownRequest
<1>3. ASSUME NEW r \in Requests, NEW q, NEW w, RequestOK(q, w, heap'),
             req' = [req EXCEPT ![r] = q],
             wire'[r] = w, \A t \in Requests \ {r} : wire'[t] = wire[t]
      PROVE  RequestInv'
  BY <1>1, <1>2, <1>3 DEF RequestInv
<1>4. ASSUME [ProxyNext]_proxyVars PROVE RequestInv'
  BY <1>4, RequestInvStep
<1>5. ASSUME NEW r \in Requests, NEW q, NEW o, NEW s, Started(r, q, o, s) PROVE RequestInv'
  <2> DEFINE w == IF q.pc = "recalling" THEN "out" ELSE wire[r]
  <2>1. /\ req[r].pc = "body" /\ req[r].obj = o /\ o \in Objs
        /\ q.pc \in {"done", "seeding", "recalling"} /\ q.route = "compare" /\ q.obj = o
        /\ q.pc = "done" => q.ns = req[r].ns
        /\ q.pc # "done" => /\ q.ns = <<heap[o].key, DefaultScenario>>
                            /\ q.status = req[r].status
    BY <1>5 DEF Started
  <2>2. /\ req' = [req EXCEPT ![r] = q] /\ wire' = [wire EXCEPT ![r] = w]
    BY <1>5 DEF Started
  <2>3. wire[r] = "none" /\ req[r].ns = Untouched /\ req[r].status = 0
    BY <1>1, <2>1 DEF RequestOK
  <2>4. o \in 1 .. Len(heap') /\ heap'[o].key = heap[o].key
    BY <1>1, <2>1 DEF Grows, Objs
  <2>5. RequestOK(q, w, heap')
    <3>1. w \in {"none", "out"} /\ (w = "out" => q.pc = "recalling")
      BY <2>3
    <3> HIDE DEF w
    <3>2. /\ q.pc # "done" => q.status = 0 /\ q.ns \in {heap'[q.obj].key} \X Scenarios
          /\ q.pc = "done" => q.ns = Untouched
      <4>1. <<heap[o].key, DefaultScenario>> \in {heap[o].key} \X Scenarios
        BY LlmAssumption
      <4>2. {heap'[q.obj].key} = {heap[o].key}
        BY <2>1, <2>4
      <4>3. QED
        BY <2>1, <2>3, <4>1, <4>2
    <3>3. QED
      BY <2>1, <2>4, <3>1, <3>2 DEF RequestOK
  <2>6. wire'[r] = w /\ \A t \in Requests \ {r} : wire'[t] = wire[t]
    BY <1>1, <2>2
  <2>7. QED
    BY <1>3, <2>2, <2>5, <2>6
<1>6. ASSUME NEW r \in Requests, NEW q, Advanced(r, q) PROVE RequestInv'
  <2>1. /\ req[r].pc \in {"seeding", "recalling", "asking"}
        /\ q.pc \in {"recalling", "asking", "done"}
        /\ q.route = req[r].route /\ q.obj = req[r].obj /\ q.ns = req[r].ns
        /\ q.pc # "done" => q.status = req[r].status
        /\ req' = [req EXCEPT ![r] = q]
        /\ wire' = wire \/ wire' = [wire EXCEPT ![r] = "out"]
    BY <1>6 DEF Advanced
  <2>2. PICK w : wire'[r] = w /\ \A t \in Requests \ {r} : wire'[t] = wire[t]
    BY <1>1, <2>1
  <2>3. req[r].route # "store" /\ req[r].status = 0
    BY <1>1, <2>1 DEF RequestOK
  <2>4. q.obj \in 1 .. Len(heap')
    BY <1>1, <2>1 DEF Grows, Objs
  <2>5. q.ns # Untouched => q.ns \in {heap'[q.obj].key} \X Scenarios
    BY <1>2, <2>1 DEF RequestOK
  <2>6. RequestOK(q, w, heap')
    BY <2>1, <2>3, <2>4, <2>5 DEF RequestOK
  <2>7. QED
    BY <1>3, <2>1, <2>2, <2>6
<1>7. ASSUME NEW r \in Requests, NEW side \in Sides, ModelAnswers(r, side) PROVE RequestInv'
  BY <1>7, <1>2 DEF ModelAnswers, proxyVars, RequestInv
<1>8. ASSUME NEW r \in Requests, EngineSeed(r) \/ EngineSeedRefused(r) PROVE RequestInv'
  BY <1>8, <1>2 DEF EngineSeed, EngineSeedRefused, RequestInv
<1>9. QED
  BY <1>4, <1>5, <1>6, <1>7, <1>8, LlmStepEffect, Zenon

\* What a step of a comparison leaves alone: the Map and the process, the books
\* of every session, and the requests that store; the engine only gets a seed.
Apart ==
    /\ UNCHANGED <<now, sessions, deletes, mode, purgeArmed>>
    /\ history'.raced = history.raced /\ history'.purged = history.purged
    /\ history.stranded \subseteq history'.stranded
    /\ Objs' = Objs
    /\ \A o \in Objs : /\ heap'[o].key = heap[o].key
                       /\ heap'[o].namespaces = heap[o].namespaces
                       /\ heap'[o].memoryCount = heap[o].memoryCount
    /\ \A r \in Requests :
          /\ req'[r].route = req[r].route /\ req'[r].obj = req[r].obj
          /\ req[r].route = "store" => req'[r] = req[r] /\ wire'[r] = wire[r]
          /\ req'[r].pc \in {"idle", "body"} => req'[r] = req[r]
    /\ engine' = engine \/ \E r \in Requests : EngineSeed(r)

LEMMA LlmStepApart ==
    ASSUME TypeInv, RequestInv, [LlmNext]_llmVars
    PROVE  ([ProxyNext]_proxyVars /\ UNCHANGED cmp) \/ Apart
<1>1. /\ req \in [Requests -> Request]
      /\ wire \in [Requests -> {"none", "out", "ok", "refused", "missing"}]
      /\ history \in [raced : SUBSET Nat, stranded : SUBSET Requests, purged : SUBSET Namespaces]
  BY DEF TypeInv, ProxyTypeOK
<1>2. ASSUME UNCHANGED <<now, sessions, heap, deletes, mode, purgeArmed>>,
             history'.raced = history.raced, history'.purged = history.purged,
             history.stranded \subseteq history'.stranded,
             \A r \in Requests :
                /\ req'[r].route = req[r].route /\ req'[r].obj = req[r].obj
                /\ req[r].route = "store" => req'[r] = req[r] /\ wire'[r] = wire[r]
                /\ req'[r].pc \in {"idle", "body"} => req'[r] = req[r],
             engine' = engine \/ \E r \in Requests : EngineSeed(r)
      PROVE  Apart
  BY <1>2 DEF Apart, Objs
<1>3. ASSUME NEW r \in Requests, NEW q, NEW o, NEW s, Started(r, q, o, s) PROVE Apart
  <2>1. /\ req[r].route = "compare" /\ q.route = "compare" /\ q.obj = o /\ req[r].obj = o
        /\ q.pc \in {"done", "seeding", "recalling"}
        /\ o \in Objs /\ s.key = heap[o].key /\ s.namespaces = heap[o].namespaces
        /\ s.memoryCount = heap[o].memoryCount
        /\ req' = [req EXCEPT ![r] = q]
        /\ wire' = [wire EXCEPT ![r] = IF q.pc = "recalling" THEN "out" ELSE wire[r]]
        /\ UNCHANGED <<now, sessions, deletes, engine, mode, purgeArmed, history>>
    BY <1>3 DEF Started
  <2>2. \A x \in Requests :
           /\ req'[x].route = req[x].route /\ req'[x].obj = req[x].obj
           /\ req[x].route = "store" => req'[x] = req[x] /\ wire'[x] = wire[x]
           /\ req'[x].pc \in {"idle", "body"} => req'[x] = req[x]
    BY <1>1, <2>1
  <2>3. Objs' = Objs /\ \A p \in Objs : heap'[p] = IF p = o THEN s ELSE heap[p]
    BY <1>3, StartedHeap
  <2>4. \A p \in Objs : /\ heap'[p].key = heap[p].key
                        /\ heap'[p].namespaces = heap[p].namespaces
                        /\ heap'[p].memoryCount = heap[p].memoryCount
    BY <2>1, <2>3
  <2>5. UNCHANGED <<now, sessions, deletes, engine, mode, purgeArmed, history>>
    BY <2>1
  <2>6. QED
    BY <2>2, <2>3, <2>4, <2>5 DEF Apart
<1>4. ASSUME NEW r \in Requests, NEW q, Advanced(r, q) PROVE Apart
  <2>1. /\ req[r].pc \in {"seeding", "recalling", "asking"}
        /\ q.pc \in {"recalling", "asking", "done"}
        /\ q.route = req[r].route /\ q.obj = req[r].obj
        /\ req' = [req EXCEPT ![r] = q]
        /\ wire' = wire \/ wire' = [wire EXCEPT ![r] = "out"]
        /\ UNCHANGED <<now, sessions, heap, deletes, engine, mode, purgeArmed, history>>
    BY <1>4 DEF Advanced
  <2>2. req[r].route # "store"
    BY <2>1 DEF RequestInv, RequestOK
  <2>3. \A x \in Requests :
           /\ req'[x].route = req[x].route /\ req'[x].obj = req[x].obj
           /\ req[x].route = "store" => req'[x] = req[x] /\ wire'[x] = wire[x]
           /\ req'[x].pc \in {"idle", "body"} => req'[x] = req[x]
    BY <1>1, <2>1, <2>2
  <2>4. QED
    BY <1>2, <2>1, <2>3
<1>5. ASSUME NEW r \in Requests, NEW side \in Sides, ModelAnswers(r, side) PROVE Apart
  BY <1>2, <1>5 DEF ModelAnswers, proxyVars
<1>6. ASSUME NEW r \in Requests, EngineSeedRefused(r) PROVE Apart
  BY <1>2, <1>6 DEF EngineSeedRefused
<1>7. ASSUME NEW r \in Requests, EngineSeed(r) PROVE Apart
  <2>1. /\ history'.raced = history.raced /\ history'.purged = history.purged
        /\ history.stranded \subseteq history'.stranded
    BY <1>1, <1>7 DEF EngineSeed
  <2>2. UNCHANGED <<now, sessions, heap, deletes, req, wire, mode, purgeArmed>>
    BY <1>7 DEF EngineSeed
  <2>3. QED
    BY <1>2, <1>7, <2>1, <2>2
<1>8. QED
  BY <1>3, <1>4, <1>5, <1>6, <1>7, LlmStepEffect, Zenon

LEMMA LlmMapInvStep == TypeInv /\ MapInv /\ [LlmNext]_llmVars => MapInv'
<1> SUFFICES ASSUME TypeInv, MapInv, [LlmNext]_llmVars PROVE MapInv'
  OBVIOUS
<1>1. ASSUME [ProxyNext]_proxyVars PROVE MapInv'
  BY <1>1, MapInvStep
<1>2. ASSUME NEW r \in Requests, NEW q, NEW o, NEW s, Started(r, q, o, s) PROVE MapInv'
  <2>1. /\ o \in Objs /\ s \in Session /\ s.key = heap[o].key
        /\ s.namespaces = heap[o].namespaces
        /\ heap' = [heap EXCEPT ![o] = s] /\ UNCHANGED sessions
    BY <1>2 DEF Started
  <2>2. s.namespaces \subseteq {s.key} \X Scenarios
    BY <2>1 DEF MapInv
  <2>3. QED
    BY <2>1, <2>2, UpdateKeepsMap DEF TypeInv
<1>3. UNCHANGED <<sessions, heap>> => MapInv'
  BY DEF MapInv, Objs
<1>4. ASSUME NEW r \in Requests, NEW q, Advanced(r, q) PROVE MapInv'
  BY <1>3, <1>4 DEF Advanced
<1>5. ASSUME NEW r \in Requests, NEW side \in Sides, ModelAnswers(r, side) PROVE MapInv'
  BY <1>3, <1>5 DEF ModelAnswers, proxyVars
<1>6. ASSUME NEW r \in Requests, EngineSeed(r) \/ EngineSeedRefused(r) PROVE MapInv'
  BY <1>3, <1>6 DEF EngineSeed, EngineSeedRefused
<1>7. QED
  BY <1>1, <1>2, <1>4, <1>5, <1>6, LlmStepEffect, Zenon

LEMMA BaseInvStep == BaseInv /\ [LlmNext]_llmVars => BaseInv'
<1> SUFFICES ASSUME BaseInv, [LlmNext]_llmVars PROVE BaseInv'
  OBVIOUS
<1>1. TypeInv /\ RequestInv /\ MapInv /\ DeletesInv /\ Grows
  BY LlmStepGrows DEF BaseInv
<1>2. DeletesInv'
  <2>1. CASE [ProxyNext]_proxyVars
    BY <1>1, <2>1, DeletesInvStep
  <2>2. CASE Apart
    BY <1>1, <2>2 DEF DeletesInv, Apart, Held
  <2>3. QED
    BY <1>1, <2>1, <2>2, LlmStepApart
<1>3. QED
  BY <1>1, <1>2, LlmTypeInvStep, LlmRequestInvStep, LlmMapInvStep DEF BaseInv

-----------------------------------------------------------------------------
(* The seed of a session *)

\* Comparison r and its session agree on who seeds: the flag is set with the
\* seed, both the seed and the recall use the session's default namespace, and
\* a seed the engine has not answered is waited for, unless the wait was given
\* up or the session is gone.
CompareOK(r) ==
    LET o == req[r].obj
        seeds == cmp[r].seed # "none"
    IN  /\ req[r].pc \in {"idle", "body"} => ~seeds
        /\ req[r].pc = "seeding" => seeds
        /\ seeds => req[r].route = "compare" /\ o \in Objs /\ heap[o].llmSeeded
        /\ seeds \/ (req[r].route = "compare" /\ wire[r] # "none") =>
              o \in Objs /\ req[r].ns = <<heap[o].key, DefaultScenario>>
        /\ cmp[r].seed = "out" =>
              req[r].pc = "seeding" \/ cmp[r].wait = "failed" \/ ~Held(o)

OneSeeds ==
    \A r, s \in Requests :
        cmp[r].seed # "none" /\ cmp[s].seed # "none" /\ req[r].obj = req[s].obj => r = s

CompareInv ==
    /\ cmp \in [Requests -> Comparison]
    /\ \A r \in Requests : CompareOK(r)
    /\ OneSeeds

\* What a step of the proxy means for a comparison.
LEMMA StepCompares ==
    ASSUME TypeInv, RequestInv, [ProxyNext]_proxyVars, NEW s \in Requests
    PROVE  /\ req'[s].pc \in {"idle", "body"} => req[s].pc \in {"idle", "body"}
           /\ req'[s].pc = "seeding" => req[s].pc = "seeding"
           /\ req[s].pc = "seeding" => req'[s].pc = "seeding" \/ Stopped
           /\ req'[s].route = "compare" /\ wire[s] = "none" => wire'[s] = "none"
<1> DEFINE Fits == /\ req'[s].pc \in {"idle", "body"} => req[s].pc \in {"idle", "body"}
                   /\ req'[s].pc = "seeding" => req[s].pc = "seeding"
                   /\ req[s].pc = "seeding" => req'[s].pc = "seeding" \/ Stopped
                   /\ req'[s].route = "compare" /\ wire[s] = "none" => wire'[s] = "none"
<1>1. /\ req \in [Requests -> Request]
      /\ wire \in [Requests -> {"none", "out", "ok", "refused", "missing"}]
  BY DEF TypeInv, ProxyTypeOK
<1>2. UNCHANGED <<req, wire>> => Fits
  OBVIOUS
<1>3. ASSUME NEW r \in Requests, NEW q, NEW w, req' = [req EXCEPT ![r] = q],
             wire' = [wire EXCEPT ![r] = w],
             q.pc \in {"idle", "body"} => req[r].pc \in {"idle", "body"},
             q.pc = "seeding" => req[r].pc = "seeding",
             req[r].pc = "seeding" => q.pc = "seeding",
             q.route = "compare" => w = wire[r] \/ wire[r] # "none"
      PROVE  Fits
  BY <1>1, <1>3
<1>4. ASSUME NEW r \in Requests, NEW q, NEW K, Arrived(r, q, K) PROVE Fits
  <2> DEFINE w == IF q.pc = "sent" THEN "out" ELSE wire[r]
  <2>1. /\ req' = [req EXCEPT ![r] = q] /\ wire' = [wire EXCEPT ![r] = w]
        /\ req[r].pc = "idle" /\ q.pc \in {"body", "sent", "done"}
        /\ q.route = "compare" => w = wire[r]
    BY <1>4 DEF Arrived, Newcomer
  <2> HIDE DEF w, Fits
  <2>2. QED
    BY <1>3, <2>1
<1>5. ASSUME NEW r \in Requests, NEW q, Refused(r, q) PROVE Fits
  BY <1>1, <1>5 DEF Refused
<1>6. ASSUME NEW r \in Requests, NEW q, NEW o, Forwarded(r, q, o) PROVE Fits
  BY <1>1, <1>6 DEF Forwarded
<1>7. ASSUME NEW r \in Requests, NEW q, NEW status, Answered(r, q, status) PROVE Fits
  BY <1>1, <1>7 DEF Answered
<1>8. ASSUME NEW r \in Requests, EngineStore(r) \/ EngineMissing(r) \/ EngineRefuse(r) PROVE Fits
  BY <1>1, <1>8 DEF EngineStore, EngineMissing, EngineRefuse
<1>9. ASSUME NEW r \in Requests, NEW q, Noted(r, q) PROVE Fits
  BY <1>1, <1>9 DEF Noted
<1>10. ASSUME Stopped PROVE Fits
  <2>1. wire' = wire
    BY <1>10 DEF Stopped
  <2>2. QED
    BY <1>10, <2>1, StoppedEffect
<1>11. ASSUME NEW d \in deletes, DeleteApplied(d) \/ DeleteLost(d) PROVE UNCHANGED <<req, wire>>
  BY <1>11 DEF DeleteApplied, DeleteLost
<1>12. ASSUME \/ SweepTimer \/ PurgeStale \/ PurgeFails
              \/ Shutdown \/ Start \/ Clock \/ UNCHANGED proxyVars
       PROVE  UNCHANGED <<req, wire>>
  BY <1>12 DEF SweepTimer, PurgeStale, PurgeFails, Shutdown, Start, Clock, proxyVars
<1> HIDE DEF Fits
<1>13. Fits
  BY <1>2, <1>4, <1>5, <1>6, <1>7, <1>8, <1>9, <1>10, <1>11, <1>12, StepEffect, Zenon
<1>14. QED
  BY <1>13 DEF Fits

\* What a step changes of the comparisons' own state.
LEMMA CmpType ==
    ASSUME TypeInv, cmp \in [Requests -> Comparison], [LlmNext]_llmVars
    PROVE  cmp' \in [Requests -> Comparison]
<1>1. Models \in Nat \ {0} /\ req \in [Requests -> Request]
  BY LlmAssumption DEF TypeInv, ProxyTypeOK
<1>2. ASSUME NEW r \in Requests, NEW c \in Comparison, cmp' = [cmp EXCEPT ![r] = c]
      PROVE  cmp' \in [Requests -> Comparison]
  BY <1>2
<1>3. ASSUME NEW r \in Requests, NEW seed \in {"none", "out", "stored", "failed"},
             cmp' = [cmp EXCEPT ![r].seed = seed]
      PROVE  cmp' \in [Requests -> Comparison]
  BY <1>3 DEF Comparison
<1>4. ASSUME NEW r \in Requests, NEW q, NEW o, NEW s, Started(r, q, o, s)
      PROVE  cmp' \in [Requests -> Comparison]
  <2> DEFINE seed == IF q.pc = "seeding" THEN "out" ELSE cmp[r].seed
  <2>1. seed \in {"none", "out", "stored", "failed"} /\ cmp' = [cmp EXCEPT ![r].seed = seed]
    BY <1>4 DEF Started, Comparison
  <2> HIDE DEF seed
  <2>2. QED
    BY <1>3, <2>1
<1>5. ASSUME NEW r \in Requests, NEW q, Advanced(r, q) PROVE cmp' \in [Requests -> Comparison]
  <2>1. ASSUME NEW wait \in {"answered", "failed"}, cmp' = [cmp EXCEPT ![r].wait = wait]
        PROVE  cmp' \in [Requests -> Comparison]
    <3> DEFINE c == [cmp[r] EXCEPT !.wait = wait]
    <3>1. cmp[r] \in Comparison
      OBVIOUS
    <3>2. c \in Comparison
      BY <3>1 DEF Comparison
    <3>3. cmp' = [cmp EXCEPT ![r] = c]
      BY <2>1
    <3> HIDE DEF c
    <3>4. QED
      BY <1>2, <3>2, <3>3
  <2>2. ASSUME NEW found \in SUBSET Requests, NEW warned \in BOOLEAN,
               cmp' = [cmp EXCEPT ![r].memories = found, ![r].warned = warned]
        PROVE  cmp' \in [Requests -> Comparison]
    <3> DEFINE a == [cmp[r] EXCEPT !.memories = found]
               b == [a EXCEPT !.warned = warned]
    <3>1. cmp[r] \in Comparison
      OBVIOUS
    <3>2. a \in Comparison
      BY <3>1 DEF Comparison
    <3>3. cmp' = [cmp EXCEPT ![r] = b]
      BY <2>2
    <3> HIDE DEF a
    <3>4. b \in Comparison
      BY <3>2 DEF Comparison
    <3> HIDE DEF b
    <3>5. QED
      BY <1>2, <3>3, <3>4
  <2>3. QED
    BY <1>5, <2>1, <2>2 DEF Advanced
<1>6. ASSUME NEW r \in Requests, NEW side \in Sides, ModelAnswers(r, side)
      PROVE  cmp' \in [Requests -> Comparison]
  <2>1. cmp[r] \in Comparison
    OBVIOUS
  <2>2. CASE cmp' = [cmp EXCEPT ![r].answered[side] = TRUE]
    <3> DEFINE answered == [cmp[r].answered EXCEPT ![side] = TRUE]
               c == [cmp[r] EXCEPT !.answered = answered]
    <3>1. answered \in [Sides -> BOOLEAN]
      BY <2>1 DEF Comparison
    <3>2. cmp' = [cmp EXCEPT ![r] = c]
      BY <2>2
    <3> HIDE DEF answered
    <3>3. c \in Comparison
      BY <2>1, <3>1 DEF Comparison
    <3> HIDE DEF c
    <3>4. QED
      BY <1>2, <3>2, <3>3
  <2>3. CASE cmp' = [cmp EXCEPT ![r].tried[side] = @ + 1]
    <3> DEFINE tried == [cmp[r].tried EXCEPT ![side] = @ + 1]
               c == [cmp[r] EXCEPT !.tried = tried]
    <3>1. cmp[r].tried \in [Sides -> 1 .. Models + 1] /\ cmp[r].tried[side] <= Models
      BY <1>1, <1>6, <2>1 DEF Comparison, ModelAnswers, Finished
    <3>2. tried \in [Sides -> 1 .. Models + 1]
      BY <1>1, <3>1
    <3>3. cmp' = [cmp EXCEPT ![r] = c]
      BY <2>3
    <3> HIDE DEF tried
    <3>4. c \in Comparison
      BY <2>1, <3>2 DEF Comparison
    <3> HIDE DEF c
    <3>5. QED
      BY <1>2, <3>3, <3>4
  <2>4. QED
    BY <1>6, <2>2, <2>3 DEF ModelAnswers
<1>7. ASSUME NEW r \in Requests, EngineSeed(r) \/ EngineSeedRefused(r)
      PROVE  cmp' \in [Requests -> Comparison]
  BY <1>3, <1>7 DEF EngineSeed, EngineSeedRefused
<1>8. QED
  BY <1>4, <1>5, <1>6, <1>7, LlmStepEffect

\* Nothing old enters the Map.
LEMMA LlmStepHolds ==
    ASSUME BaseInv, [LlmNext]_llmVars, NEW o \in Objs, Held(o)'
    PROVE  Held(o)
BY LlmStepApart, StepEvicts DEF BaseInv, Held, Apart

\* A comparison that a step leaves where it was.
LEMMA Bystander ==
    ASSUME BaseInv, [LlmNext]_llmVars, NEW t \in Requests, CompareOK(t),
           req'[t] = req[t], wire'[t] = wire[t],
           cmp'[t].seed = cmp[t].seed, cmp'[t].wait = cmp[t].wait
    PROVE  CompareOK(t)'
<1>1. Grows
  BY LlmStepGrows DEF BaseInv
<1>2. PICK o : o = req[t].obj /\ o = req'[t].obj
  OBVIOUS
<1>3. o \in Objs /\ Held(o)' => Held(o)
  BY LlmStepHolds
<1>4. o \in Objs => /\ o \in Objs' /\ heap'[o].key = heap[o].key
                    /\ heap[o].llmSeeded => heap'[o].llmSeeded
  BY <1>1 DEF Grows
<1>5. /\ req'[t].pc \in {"idle", "body"} => cmp'[t].seed = "none"
      /\ req'[t].pc = "seeding" => cmp'[t].seed # "none"
  BY DEF CompareOK
<1>6. cmp'[t].seed # "none" =>
         req'[t].route = "compare" /\ o \in Objs' /\ heap'[o].llmSeeded
  BY <1>2, <1>4 DEF CompareOK
<1>7. cmp'[t].seed # "none" \/ (req'[t].route = "compare" /\ wire'[t] # "none") =>
         o \in Objs' /\ req'[t].ns = <<heap'[o].key, DefaultScenario>>
  BY <1>2, <1>4 DEF CompareOK
<1>8. cmp'[t].seed = "out" => req'[t].pc = "seeding" \/ cmp'[t].wait = "failed" \/ ~Held(o)'
  BY <1>2, <1>3 DEF CompareOK
<1>9. Held(o)' <=> Held(req[t].obj)'
  BY <1>2 DEF Held
<1>10. QED
  BY <1>2, <1>5, <1>6, <1>7, <1>8, <1>9 DEF CompareOK, Held

\* A step of the proxy.
LEMMA ProxyKeepsCompare ==
    ASSUME BaseInv, [LlmNext]_llmVars, [ProxyNext]_proxyVars, UNCHANGED cmp,
           NEW t \in Requests, CompareOK(t)
    PROVE  CompareOK(t)' /\ (cmp[t].seed # "none" => Settled(t))
<1>1. TypeInv /\ RequestInv /\ Grows
  BY LlmStepGrows DEF BaseInv
<1>2. cmp[t].seed # "none" \/ wire[t] # "none" => Settled(t)
  BY <1>1, StepSettled DEF CompareOK
<1>3. /\ req'[t].pc \in {"idle", "body"} => req[t].pc \in {"idle", "body"}
      /\ req'[t].pc = "seeding" => req[t].pc = "seeding"
      /\ req[t].pc = "seeding" => req'[t].pc = "seeding" \/ Stopped
      /\ req'[t].route = "compare" /\ wire[t] = "none" => wire'[t] = "none"
  BY <1>1, StepCompares
<1>4. PICK o : o = req'[t].obj
  OBVIOUS
<1>5. cmp[t].seed # "none" \/ wire[t] # "none" =>
         o = req[t].obj /\ req'[t].route = req[t].route /\ req'[t].ns = req[t].ns
  BY <1>2, <1>4 DEF Settled
<1>6. o \in Objs => /\ o \in Objs' /\ heap'[o].key = heap[o].key
                    /\ heap[o].llmSeeded => heap'[o].llmSeeded
  BY <1>1 DEF Grows
<1>7. o \in Objs /\ Held(o)' => Held(o)
  BY LlmStepHolds
<1>8. /\ req'[t].pc \in {"idle", "body"} => cmp'[t].seed = "none"
      /\ req'[t].pc = "seeding" => cmp'[t].seed # "none"
  BY <1>3 DEF CompareOK
<1>9. cmp'[t].seed # "none" =>
         req'[t].route = "compare" /\ o \in Objs' /\ heap'[o].llmSeeded
  BY <1>5, <1>6 DEF CompareOK
<1>10. cmp'[t].seed # "none" \/ (req'[t].route = "compare" /\ wire'[t] # "none") =>
          o \in Objs' /\ req'[t].ns = <<heap'[o].key, DefaultScenario>>
  BY <1>3, <1>5, <1>6 DEF CompareOK
<1>11. ASSUME cmp'[t].seed = "out"
       PROVE  req'[t].pc = "seeding" \/ cmp'[t].wait = "failed" \/ ~Held(o)'
  <2>1. o \in Objs /\ o = req[t].obj
    BY <1>5, <1>11 DEF CompareOK
  <2>2. CASE Stopped
    BY <2>1, <2>2 DEF Stopped, Held, Objs, None
  <2>3. CASE ~Stopped
    BY <1>3, <1>7, <1>11, <2>1, <2>3 DEF CompareOK
  <2>4. QED
    BY <2>2, <2>3
<1>12. CompareOK(t)'
  BY <1>4, <1>8, <1>9, <1>10, <1>11 DEF CompareOK, Held
<1>13. QED
  BY <1>2, <1>12

LEMMA CompareInvStep == BaseInv /\ CompareInv /\ [LlmNext]_llmVars => CompareInv'
<1> SUFFICES ASSUME BaseInv, CompareInv, [LlmNext]_llmVars PROVE CompareInv'
  OBVIOUS
<1>1. /\ TypeInv /\ RequestInv /\ Grows /\ OneSeeds
      /\ req \in [Requests -> Request]
      /\ wire \in [Requests -> {"none", "out", "ok", "refused", "missing"}]
      /\ cmp \in [Requests -> Comparison] /\ cmp' \in [Requests -> Comparison]
      /\ \A t \in Requests : CompareOK(t)
  BY LlmStepGrows, CmpType DEF BaseInv, CompareInv, TypeInv, ProxyTypeOK
<1>2. ASSUME \A t \in Requests : CompareOK(t)',
             \A t \in Requests : cmp[t].seed # "none" => req'[t].obj = req[t].obj,
             \A t \in Requests : cmp'[t].seed # "none" => cmp[t].seed # "none"
      PROVE  CompareInv'
  <2>1. OneSeeds'
    BY <1>1, <1>2 DEF OneSeeds
  <2>2. QED
    BY <1>1, <1>2, <2>1 DEF CompareInv
<1>3. ASSUME [ProxyNext]_proxyVars, UNCHANGED cmp PROVE CompareInv'
  <2>1. \A t \in Requests : CompareOK(t)' /\ (cmp[t].seed # "none" => Settled(t))
    BY <1>1, <1>3, ProxyKeepsCompare
  <2>2. QED
    BY <1>2, <1>3, <2>1 DEF Settled
<1>4. ASSUME NEW r \in Requests, NEW q, NEW o, NEW s, Started(r, q, o, s) PROVE CompareInv'
  <2>1. /\ req[r].pc = "body" /\ o \in Objs /\ req[r].obj = o
        /\ q.pc \in {"done", "seeding", "recalling"} /\ q.route = "compare" /\ q.obj = o
        /\ q.pc # "done" => q.ns = <<heap[o].key, DefaultScenario>>
        /\ s.key = heap[o].key
        /\ q.pc = "seeding" => s.llmSeeded /\ ~heap[o].llmSeeded
        /\ req' = [req EXCEPT ![r] = q]
        /\ cmp' = [cmp EXCEPT ![r].seed = IF q.pc = "seeding" THEN "out" ELSE cmp[r].seed]
        /\ wire' = [wire EXCEPT ![r] = IF q.pc = "recalling" THEN "out" ELSE wire[r]]
    BY <1>4 DEF Started
  <2>2. \A t \in Requests \ {r} : req'[t] = req[t] /\ wire'[t] = wire[t] /\ cmp'[t] = cmp[t]
    BY <1>1, <2>1
  <2>3. /\ req'[r] = q /\ cmp'[r].seed = (IF q.pc = "seeding" THEN "out" ELSE "none")
        /\ wire'[r] = IF q.pc = "recalling" THEN "out" ELSE "none"
    <3>1. cmp[r].seed = "none"
      BY <1>1, <2>1 DEF CompareOK
    <3>2. wire[r] = "none"
      BY <1>1, <2>1 DEF RequestInv, RequestOK
    <3>3. cmp'[r].seed = IF q.pc = "seeding" THEN "out" ELSE cmp[r].seed
      BY <1>1, <2>1 DEF Comparison
    <3>4. QED
      BY <1>1, <2>1, <3>1, <3>2, <3>3
  <2>4. o \in Objs' /\ heap'[o] = s
    BY <1>1, <1>4, <2>1, StartedHeap
  <2>5. CompareOK(r)'
    BY <2>1, <2>3, <2>4 DEF CompareOK
  <2>6. \A t \in Requests : CompareOK(t)'
    BY <1>1, <2>2, <2>5, Bystander
  <2>7. OneSeeds'
    <3>1. \A t \in Requests \ {r} : cmp'[t].seed # "none" /\ req'[t].obj = o => heap[o].llmSeeded
      BY <1>1, <2>2 DEF CompareOK
    <3>2. \A t \in Requests \ {r} :
             cmp'[t].seed # "none" /\ cmp'[r].seed # "none" => req'[t].obj # req'[r].obj
      BY <2>1, <2>3, <3>1
    <3>3. QED
      BY <1>1, <2>2, <3>2 DEF OneSeeds
  <2>8. QED
    BY <1>1, <2>6, <2>7 DEF CompareInv
<1>5. ASSUME NEW r \in Requests, NEW q, Advanced(r, q) PROVE CompareInv'
  <2>1. /\ req' = [req EXCEPT ![r] = q] /\ q.obj = req[r].obj /\ q.ns = req[r].ns
        /\ q.route = req[r].route /\ UNCHANGED <<sessions, heap>>
        /\ req[r].pc \in {"seeding", "recalling", "asking"}
        /\ q.pc \in {"recalling", "asking", "done"}
    BY <1>5 DEF Advanced
  <2>2. \A t \in Requests \ {r} : req'[t] = req[t] /\ wire'[t] = wire[t] /\ cmp'[t] = cmp[t]
    BY <1>1, <1>5 DEF Advanced
  <2>3. /\ cmp'[r].seed = cmp[r].seed
        /\ req[r].pc # "seeding" => cmp'[r].wait = cmp[r].wait
        /\ req[r].pc = "seeding" => (cmp[r].seed = "out" => cmp'[r].wait = "failed")
    <3>1. cmp[r] \in Comparison
      BY <1>1
    <3>2. CASE req[r].pc = "seeding"
      <4>1. PICK wait \in {"answered", "failed"} :
               /\ wait = "answered" => cmp[r].seed # "out"
               /\ cmp' = [cmp EXCEPT ![r].wait = wait]
        BY <1>5, <3>2 DEF Advanced
      <4>2. cmp'[r].seed = cmp[r].seed /\ cmp'[r].wait = wait
        BY <1>1, <3>1, <4>1 DEF Comparison
      <4>3. QED
        BY <3>2, <4>1, <4>2
    <3>3. CASE req[r].pc = "recalling"
      <4>1. PICK found \in SUBSET Requests, warned \in BOOLEAN :
               cmp' = [cmp EXCEPT ![r].memories = found, ![r].warned = warned]
        BY <1>5, <3>3 DEF Advanced
      <4>2. QED
        BY <1>1, <3>1, <3>3, <4>1 DEF Comparison
    <3>4. CASE req[r].pc = "asking"
      <4>1. cmp'[r] = cmp[r]
        BY <1>5, <3>4 DEF Advanced
      <4>2. QED
        BY <3>4, <4>1
    <3>5. QED
      BY <2>1, <3>2, <3>3, <3>4
  <2>4. wire'[r] # "none" => wire[r] # "none" \/ req[r].pc = "seeding"
    BY <1>1, <1>5 DEF Advanced
  <2>5. req[r].pc = "seeding" => cmp[r].seed # "none"
    BY <1>1 DEF CompareOK
  <2>6. CompareOK(r)'
    <3>1. req'[r] = q /\ Objs' = Objs /\ heap' = heap /\ sessions' = sessions
      BY <1>1, <2>1 DEF Objs
    <3>2. CompareOK(r)
      BY <1>1
    <3>3. /\ cmp'[r].seed # "none" =>
                q.route = "compare" /\ q.obj \in Objs /\ heap[q.obj].llmSeeded
          /\ cmp'[r].seed # "none" \/ (q.route = "compare" /\ wire'[r] # "none") =>
                q.obj \in Objs /\ q.ns = <<heap[q.obj].key, DefaultScenario>>
      BY <2>1, <2>3, <2>4, <2>5, <3>2 DEF CompareOK
    <3>4. cmp'[r].seed = "out" => cmp'[r].wait = "failed" \/ ~Held(q.obj)
      BY <2>1, <2>3, <3>2 DEF CompareOK, Held
    <3>5. QED
      BY <2>1, <3>1, <3>3, <3>4 DEF CompareOK, Held
  <2>7. \A t \in Requests : CompareOK(t)'
    BY <1>1, <2>2, <2>6, Bystander
  <2>8. \A t \in Requests : req'[t].obj = req[t].obj /\ cmp'[t].seed = cmp[t].seed
    BY <1>1, <2>1, <2>2, <2>3
  <2>9. QED
    BY <1>2, <2>7, <2>8
<1>6. ASSUME UNCHANGED <<sessions, heap, req, wire>>, NEW r \in Requests,
             \A t \in Requests \ {r} : cmp'[t] = cmp[t],
             cmp'[r].wait = cmp[r].wait,
             \/ cmp'[r].seed = cmp[r].seed
             \/ cmp[r].seed = "out" /\ cmp'[r].seed \in {"stored", "failed"}
      PROVE  CompareInv'
  <2>1. req' = req /\ wire' = wire /\ heap' = heap /\ sessions' = sessions /\ Objs' = Objs
    BY <1>6 DEF Objs
  <2>2. \A t \in Requests \ {r} : CompareOK(t)'
    BY <1>1, <1>6, <2>1, Bystander
  <2>3. CompareOK(r)'
    BY <1>1, <1>6, <2>1 DEF CompareOK, Held
  <2>4. QED
    BY <1>2, <1>6, <2>1, <2>2, <2>3
<1>7. ASSUME NEW r \in Requests, NEW side \in Sides, ModelAnswers(r, side) PROVE CompareInv'
  <2>1. /\ cmp[r] \in Comparison /\ UNCHANGED <<sessions, heap, req, wire>>
        /\ \/ cmp' = [cmp EXCEPT ![r].answered[side] = TRUE]
           \/ cmp' = [cmp EXCEPT ![r].tried[side] = @ + 1]
    BY <1>1, <1>7 DEF ModelAnswers, proxyVars
  <2>2. /\ \A t \in Requests \ {r} : cmp'[t] = cmp[t]
        /\ cmp'[r].wait = cmp[r].wait /\ cmp'[r].seed = cmp[r].seed
    BY <1>1, <2>1 DEF Comparison
  <2>3. QED
    BY <1>6, <2>1, <2>2
<1>8. ASSUME NEW r \in Requests, EngineSeedRefused(r) PROVE CompareInv'
  <2>1. /\ cmp[r] \in Comparison /\ cmp[r].seed = "out"
        /\ UNCHANGED <<sessions, heap, req, wire>>
        /\ cmp' = [cmp EXCEPT ![r].seed = "failed"]
    BY <1>1, <1>8 DEF EngineSeedRefused
  <2>2. /\ \A t \in Requests \ {r} : cmp'[t] = cmp[t]
        /\ cmp'[r].wait = cmp[r].wait /\ cmp'[r].seed = "failed"
    BY <1>1, <2>1 DEF Comparison
  <2>3. QED
    BY <1>6, <2>1, <2>2
<1>9. ASSUME NEW r \in Requests, EngineSeed(r) PROVE CompareInv'
  <2>1. /\ cmp[r] \in Comparison /\ cmp[r].seed = "out"
        /\ UNCHANGED <<sessions, heap, req, wire>>
        /\ cmp' = [cmp EXCEPT ![r].seed = "stored"]
    BY <1>1, <1>9 DEF EngineSeed
  <2>2. /\ \A t \in Requests \ {r} : cmp'[t] = cmp[t]
        /\ cmp'[r].wait = cmp[r].wait /\ cmp'[r].seed = "stored"
    BY <1>1, <2>1 DEF Comparison
  <2>3. QED
    BY <1>6, <2>1, <2>2
<1> HIDE DEF CompareInv
<1>10. QED
  BY <1>3, <1>4, <1>5, <1>7, <1>8, <1>9, <1>1, LlmStepEffect, Zenon

LEMMA LlmInvHolds == LlmSpec => [](BaseInv /\ CompareInv)
<1>1. LlmInit => BaseInv /\ CompareInv
  <2> SUFFICES ASSUME LlmInit PROVE BaseInv /\ CompareInv
    OBVIOUS
  <2>1. /\ ProxyInit /\ StoreInit /\ deletes = {} /\ cmp = [r \in Requests |-> NotStarted]
        /\ req = [r \in Requests |-> Idle] /\ wire = [r \in Requests |-> "none"]
    BY DEF LlmInit, ProxyInit, StoreInit
  <2>2. BaseInv
    BY <2>1, TypeInvInit, RequestInvInit, MapInvInit DEF BaseInv, DeletesInv
  <2>3. NotStarted \in Comparison /\ NotStarted.seed = "none"
    BY LlmAssumption DEF NotStarted, Comparison
  <2>4. CompareInv
    BY <2>1, <2>3 DEF CompareInv, CompareOK, OneSeeds, Idle
  <2>5. QED
    BY <2>2, <2>4
<1>2. BaseInv /\ CompareInv /\ [LlmNext]_llmVars => BaseInv' /\ CompareInv'
  BY BaseInvStep, CompareInvStep
<1>3. QED
  BY <1>1, <1>2, PTL DEF LlmSpec

\* The types hold whatever comparisons do, and a cascade never tries more
\* models than there are (llm-compare.js, MODEL_CASCADE).
THEOREM LlmTypeCorrect == LlmSpec => []LlmTypeOK
<1>1. BaseInv /\ CompareInv => LlmTypeOK
  BY DEF BaseInv, CompareInv, TypeInv, LlmTypeOK
<1>2. QED
  BY <1>1, LlmInvHolds, PTL

\* However many first comparisons of a session overlap, one of them seeds: the
\* flag is set before the seed is awaited (llm-compare.js).
THEOREM SeededOnce == LlmSpec => []SeedOnce
<1>1. CompareInv => SeedOnce
  <2> SUFFICES ASSUME CompareInv, NEW o \in Objs
               PROVE  Cardinality({r \in Requests : req[r].obj = o /\ cmp[r].seed # "none"}) <= 1
    BY DEF SeedOnce
  <2> DEFINE S == {r \in Requests : req[r].obj = o /\ cmp[r].seed # "none"}
  <2>1. \A r, s \in S : r = s
    BY DEF CompareInv, OneSeeds
  <2>2. CASE S = {}
    BY <2>2, FS_EmptySet
  <2>3. CASE S # {}
    <3>1. PICK r : S = {r}
      BY <2>1, <2>3
    <3> HIDE DEF S
    <3>2. Cardinality(S) = 1
      BY <3>1, FS_Singleton
    <3>3. Cardinality(S) <= 1
      BY <3>2
    <3>4. QED
      BY <3>3 DEF S
  <2>4. QED
    BY <2>2, <2>3
<1>2. QED
  BY <1>1, LlmInvHolds, PTL

\* A seed that the engine has stored stays there while its session is in its
\* first life and no purge has listed its namespace.
SeedKept ==
    \A s \in Requests :
        LET o == req[s].obj
        IN  (/\ cmp[s].seed = "stored" /\ req[s].ns \notin history.purged
             /\ Held(o) /\ FirstLife(o))
            => s \in engine[req[s].ns]

LEMMA LlmStepEngine ==
    ASSUME BaseInv, [LlmNext]_llmVars,
           NEW o \in Objs, Held(o), FirstLife(o),
           NEW ns \in {heap[o].key} \X Scenarios, ns \notin history.purged
    PROVE  engine[ns] \subseteq engine'[ns]
<1>1. TypeInv /\ RequestInv /\ MapInv /\ DeletesInv /\ engine \in [Namespaces -> SUBSET Requests]
  BY DEF BaseInv, TypeInv, ProxyTypeOK
<1>2. ns \in Namespaces
  BY <1>1, StoreTypes DEF TypeInv, Session, Namespaces
<1>3. ASSUME NEW r \in Requests, EngineStore(r) \/ EngineSeed(r)
      PROVE  engine[ns] \subseteq engine'[ns]
  BY <1>1, <1>2, <1>3 DEF EngineStore, EngineSeed
<1>4. ASSUME NEW d \in deletes, DeleteApplied(d) PROVE engine[ns] \subseteq engine'[ns]
  <2>1. d[2] # ns
    BY <1>1, NotDeleted
  <2>2. QED
    BY <1>1, <1>2, <1>4, <2>1 DEF DeleteApplied
<1>5. QED
  BY <1>1, <1>3, <1>4, StepEngine, LlmStepApart DEF Apart

\* A seed becomes stored when the engine stores it, and its comparison sticks
\* to its session and namespace.
LEMMA LlmStepSeeds ==
    ASSUME BaseInv, CompareInv, [LlmNext]_llmVars, NEW s \in Requests, cmp'[s].seed = "stored"
    PROVE  /\ req'[s].obj = req[s].obj /\ req'[s].ns = req[s].ns /\ cmp[s].seed # "none"
           /\ cmp[s].seed = "stored" \/ EngineSeed(s)
<1> DEFINE Sticks == /\ req'[s].obj = req[s].obj /\ req'[s].ns = req[s].ns
                     /\ cmp[s].seed # "none"
                     /\ cmp[s].seed = "stored" \/ EngineSeed(s)
<1>1. /\ TypeInv /\ req \in [Requests -> Request] /\ cmp \in [Requests -> Comparison]
      /\ \A t \in Requests : CompareOK(t)
  BY DEF BaseInv, CompareInv, TypeInv, ProxyTypeOK
<1>2. ASSUME [ProxyNext]_proxyVars, UNCHANGED cmp PROVE Sticks
  <2>1. cmp[s].seed # "none"
    BY <1>2
  <2>2. Settled(s)
    BY <1>1, <1>2, <2>1, ProxyKeepsCompare
  <2>3. QED
    BY <1>2, <2>1, <2>2 DEF Settled
<1>3. ASSUME NEW r \in Requests, NEW q, NEW o, NEW t, Started(r, q, o, t) PROVE Sticks
  <2>1. /\ req[r].pc = "body" /\ req' = [req EXCEPT ![r] = q]
        /\ cmp' = [cmp EXCEPT ![r].seed = IF q.pc = "seeding" THEN "out" ELSE cmp[r].seed]
    BY <1>3 DEF Started
  <2>2. cmp[r].seed = "none"
    BY <1>1, <2>1 DEF CompareOK
  <2>3. r # s
    <3>1. cmp'[r].seed \in {"out", "none"}
      BY <1>1, <2>1, <2>2 DEF Comparison
    <3>2. QED
      BY <3>1
  <2>4. QED
    BY <1>1, <2>1, <2>3
<1>4. ASSUME NEW r \in Requests, NEW q, Advanced(r, q) PROVE Sticks
  <2>1. cmp'[s].seed = cmp[s].seed
    <3>1. cmp[s] \in Comparison
      BY <1>1
    <3>2. CASE cmp' = cmp
      BY <3>2
    <3>3. ASSUME NEW wait, cmp' = [cmp EXCEPT ![r].wait = wait]
          PROVE  cmp'[s].seed = cmp[s].seed
      BY <1>1, <3>1, <3>3 DEF Comparison
    <3>4. ASSUME NEW found, NEW warned,
                 cmp' = [cmp EXCEPT ![r].memories = found, ![r].warned = warned]
          PROVE  cmp'[s].seed = cmp[s].seed
      BY <1>1, <3>1, <3>4 DEF Comparison
    <3>5. \/ cmp' = cmp
          \/ \E wait \in {"answered", "failed"} : cmp' = [cmp EXCEPT ![r].wait = wait]
          \/ \E found \in SUBSET Requests, warned \in BOOLEAN :
                 cmp' = [cmp EXCEPT ![r].memories = found, ![r].warned = warned]
      BY <1>4, Zenon DEF Advanced
    <3>6. CASE \E wait \in {"answered", "failed"} : cmp' = [cmp EXCEPT ![r].wait = wait]
      BY <3>3, <3>6, Zenon
    <3>7. CASE \E found \in SUBSET Requests, warned \in BOOLEAN :
                  cmp' = [cmp EXCEPT ![r].memories = found, ![r].warned = warned]
      BY <3>4, <3>7, Zenon
    <3>8. QED
      BY <3>2, <3>5, <3>6, <3>7, Zenon
  <2>2. req'[s].obj = req[s].obj /\ req'[s].ns = req[s].ns
    BY <1>1, <1>4 DEF Advanced
  <2>3. QED
    BY <2>1, <2>2
<1>5. ASSUME NEW r \in Requests, NEW side \in Sides, ModelAnswers(r, side) PROVE Sticks
  <2>1. /\ cmp[s] \in Comparison /\ req' = req
        /\ \/ cmp' = [cmp EXCEPT ![r].answered[side] = TRUE]
           \/ cmp' = [cmp EXCEPT ![r].tried[side] = @ + 1]
    BY <1>1, <1>5 DEF ModelAnswers, proxyVars
  <2>2. cmp'[s].seed = cmp[s].seed
    BY <1>1, <2>1 DEF Comparison
  <2>3. QED
    BY <2>1, <2>2
<1>6. ASSUME NEW r \in Requests, EngineSeed(r) PROVE Sticks
  <2>1. /\ cmp[s] \in Comparison /\ cmp[r].seed = "out" /\ req' = req
        /\ cmp' = [cmp EXCEPT ![r].seed = "stored"]
    BY <1>1, <1>6 DEF EngineSeed
  <2>2. s # r => cmp'[s] = cmp[s]
    BY <1>1, <2>1
  <2>3. QED
    BY <1>6, <2>1, <2>2
<1>7. ASSUME NEW r \in Requests, EngineSeedRefused(r) PROVE Sticks
  <2>1. /\ cmp[s] \in Comparison /\ req' = req
        /\ cmp' = [cmp EXCEPT ![r].seed = "failed"]
    BY <1>1, <1>7 DEF EngineSeedRefused
  <2>2. cmp'[s] = cmp[s]
    <3>1. s = r => cmp'[s].seed = "failed"
      BY <1>1, <2>1 DEF Comparison
    <3>2. QED
      BY <1>1, <2>1, <3>1
  <2>3. QED
    BY <2>1, <2>2
<1> HIDE DEF Sticks
<1>8. Sticks
  BY <1>1, <1>2, <1>3, <1>4, <1>5, <1>6, <1>7, LlmStepEffect, Zenon
<1>9. QED
  BY <1>8 DEF Sticks

LEMMA SeedKeptStep == BaseInv /\ CompareInv /\ SeedKept /\ [LlmNext]_llmVars => SeedKept'
<1> SUFFICES ASSUME BaseInv, CompareInv, SeedKept, [LlmNext]_llmVars, NEW s \in Requests,
                    cmp'[s].seed = "stored", req'[s].ns \notin history'.purged,
                    Held(req[s].obj)', FirstLife(req[s].obj)'
             PROVE  s \in engine'[req'[s].ns]
  BY DEF SeedKept
<1>1. /\ TypeInv /\ RequestInv /\ StoreInv /\ MapInv /\ DeletesInv /\ Grows
      /\ CompareOK(s)
      /\ engine \in [Namespaces -> SUBSET Requests]
      /\ Len(heap) \in Nat /\ \A p \in Objs : heap[p].key \in Keys
  BY StoreTypes, LlmStepGrows DEF BaseInv, CompareInv, TypeInv, ProxyTypeOK, Session
<1>2. /\ req'[s].obj = req[s].obj /\ req'[s].ns = req[s].ns /\ cmp[s].seed # "none"
      /\ cmp[s].seed = "stored" \/ EngineSeed(s)
  BY LlmStepSeeds
<1>3. PICK o : o = req[s].obj /\ o = req'[s].obj
  BY <1>2
<1>4. PICK ns : ns = req[s].ns /\ ns = req'[s].ns
  BY <1>2
<1>5. /\ o \in Objs /\ ns = <<heap[o].key, DefaultScenario>>
      /\ ns \in {heap[o].key} \X Scenarios /\ ns \in Namespaces
  <2>1. o \in Objs /\ ns = <<heap[o].key, DefaultScenario>>
    BY <1>1, <1>2, <1>3, <1>4 DEF CompareOK
  <2>2. QED
    BY <1>1, <2>1, LlmAssumption DEF Namespaces
<1>6. CASE EngineSeed(s)
  BY <1>1, <1>4, <1>5, <1>6 DEF EngineSeed
<1>7. CASE cmp[s].seed = "stored"
  <2>1. Held(o)' /\ \A p \in 1 .. o - 1 : heap'[p].key # heap'[o].key
    BY <1>3 DEF Held, FirstLife
  <2>2. Held(o)
    BY <1>5, <2>1, LlmStepHolds
  <2>3. FirstLife(o)
    <3>1. \A p \in 1 .. o - 1 : p \in Objs
      BY <1>1, <1>5 DEF Objs
    <3>2. QED
      BY <1>1, <1>5, <2>1, <3>1 DEF Grows, FirstLife
  <2>4. ns \notin history.purged
    BY <1>1, <1>4, LlmStepApart, StepRemembers DEF Apart
  <2>5. s \in engine[ns]
    BY <1>3, <1>4, <1>7, <2>2, <2>3, <2>4 DEF SeedKept
  <2>6. engine[ns] \subseteq engine'[ns]
    BY <1>5, <2>2, <2>3, <2>4, LlmStepEngine
  <2>7. QED
    BY <1>4, <2>5, <2>6
<1>8. QED
  BY <1>2, <1>6, <1>7

\* A recall is answered by the engine with all that it then holds.
LEMMA RecallFinds ==
    ASSUME BaseInv, CompareInv, [LlmNext]_llmVars, NEW r \in Requests,
           req[r].route = "compare", wire[r] = "out", wire'[r] \in {"ok", "missing"}
    PROVE  req[r].ns # Untouched => engine[req[r].ns] \subseteq req'[r].found
<1>1. /\ TypeInv /\ RequestInv /\ CompareOK(r)
      /\ req \in [Requests -> Request]
      /\ wire \in [Requests -> {"none", "out", "ok", "refused", "missing"}]
  BY DEF BaseInv, CompareInv, TypeInv, ProxyTypeOK
<1> DEFINE Finds == req[r].ns # Untouched => engine[req[r].ns] \subseteq req'[r].found
<1>2. wire'[r] # "out" /\ wire'[r] # wire[r]
  OBVIOUS
<1>3. ASSUME NEW x \in Requests, NEW w, wire' = [wire EXCEPT ![x] = w] PROVE x = r /\ w = wire'[r]
  BY <1>1, <1>2, <1>3
<1>4. ASSUME NEW x \in Requests, NEW q, Noted(x, q) PROVE Finds
  <2>1. wire' = [wire EXCEPT ![x] = "ok"]
    BY <1>4 DEF Noted
  <2>2. x = r
    BY <1>3, <2>1
  <2>3. QED
    BY <1>4, <2>2 DEF Noted
<1>5. ASSUME NEW x \in Requests, NEW q, NEW K, Arrived(x, q, K) PROVE FALSE
  <2> DEFINE w == IF q.pc = "sent" THEN "out" ELSE wire[x]
  <2>1. wire' = [wire EXCEPT ![x] = w]
    BY <1>5 DEF Arrived
  <2>2. w = "out" \/ w = wire[x]
    OBVIOUS
  <2> HIDE DEF w
  <2>3. x = r /\ w = wire'[r]
    BY <1>3, <2>1
  <2>4. QED
    BY <1>2, <2>2, <2>3
<1>6. ASSUME NEW x \in Requests, NEW q, NEW o, Forwarded(x, q, o) PROVE FALSE
  <2>1. wire' = [wire EXCEPT ![x] = "out"]
    BY <1>6 DEF Forwarded
  <2>2. QED
    BY <1>2, <1>3, <2>1
<1>7. ASSUME NEW x \in Requests, NEW q, NEW status, Answered(x, q, status) PROVE FALSE
  BY <1>2, <1>7 DEF Answered
<1>8. ASSUME NEW x \in Requests, NEW q, Refused(x, q) PROVE FALSE
  BY <1>2, <1>8 DEF Refused
<1>9. ASSUME NEW x \in Requests, EngineStore(x) PROVE FALSE
  <2>1. wire' = [wire EXCEPT ![x] = "ok"] /\ req[x].route = "store"
    BY <1>9 DEF EngineStore
  <2>2. QED
    BY <1>3, <2>1
<1>10. ASSUME NEW x \in Requests, EngineRefuse(x) PROVE FALSE
  <2>1. wire' = [wire EXCEPT ![x] = "refused"]
    BY <1>10 DEF EngineRefuse
  <2>2. QED
    BY <1>3, <2>1
<1>19. ASSUME NEW x \in Requests, EngineMissing(x) PROVE Finds
  <2>1. wire' = [wire EXCEPT ![x] = "missing"] /\ (req[x].ns # Untouched => engine[req[x].ns] = {})
    BY <1>19 DEF EngineMissing
  <2>2. x = r
    BY <1>3, <2>1
  <2>3. QED
    BY <2>1, <2>2
<1>11. ASSUME NEW d \in deletes, DeleteApplied(d) \/ DeleteLost(d) PROVE FALSE
  BY <1>2, <1>11 DEF DeleteApplied, DeleteLost
<1>12. ASSUME \/ SweepTimer \/ PurgeStale \/ PurgeFails \/ Stopped \/ Shutdown \/ Start
              \/ Clock \/ UNCHANGED proxyVars
       PROVE  FALSE
  BY <1>2, <1>12 DEF SweepTimer, PurgeStale, PurgeFails, Stopped, Shutdown, Start, Clock,
                     proxyVars
<1>13. ASSUME [ProxyNext]_proxyVars PROVE Finds
  <2> HIDE DEF Finds
  <2>1. QED
    BY <1>1, <1>4, <1>5, <1>6, <1>7, <1>8, <1>9, <1>10, <1>11, <1>12, <1>13, <1>19,
       StepEffect, Zenon
<1>14. ASSUME NEW x \in Requests, NEW q, NEW o, NEW s, Started(x, q, o, s) PROVE FALSE
  <2> DEFINE w == IF q.pc = "recalling" THEN "out" ELSE wire[x]
  <2>1. wire' = [wire EXCEPT ![x] = w]
    BY <1>14 DEF Started
  <2>2. w = "out" \/ w = wire[x]
    OBVIOUS
  <2> HIDE DEF w
  <2>3. x = r /\ w = wire'[r]
    BY <1>3, <2>1
  <2>4. QED
    BY <1>2, <2>2, <2>3
<1>15. ASSUME NEW x \in Requests, NEW q, Advanced(x, q) PROVE FALSE
  <2>1. wire' = wire \/ wire' = [wire EXCEPT ![x] = "out"]
    BY <1>15 DEF Advanced
  <2>2. QED
    BY <1>2, <1>3, <2>1
<1>16. ASSUME NEW x \in Requests, NEW side \in Sides, ModelAnswers(x, side) PROVE FALSE
  BY <1>2, <1>16 DEF ModelAnswers, proxyVars
<1>17. ASSUME NEW x \in Requests, EngineSeed(x) \/ EngineSeedRefused(x) PROVE FALSE
  BY <1>2, <1>17 DEF EngineSeed, EngineSeedRefused
<1> HIDE DEF Finds
<1>18. Finds
  BY <1>1, <1>13, <1>14, <1>15, <1>16, <1>17, LlmStepEffect, Zenon
<1>20. QED
  BY <1>18 DEF Finds

\* A recall finds the seed of its session, unless the comparison that seeds is
\* still waiting for it, was refused it or gave it up, while the session lives
\* and nothing older deletes the namespace (llm-compare.js, the seed race).
THEOREM SeedFound == LlmSpec => SeedFoundByRecalls
<1> DEFINE Found ==
              \A r, s \in Requests :
                 LET o == req[r].obj
                 IN  (/\ req[r].route = "compare" /\ wire[r] = "out" /\ wire'[r] \in {"ok", "missing"}
                      /\ req[s].obj = o /\ cmp[s].seed # "none"
                      /\ req[r].ns \notin history.purged
                      /\ Held(o) /\ \A p \in 1 .. o - 1 : heap[p].key # heap[o].key)
                     => \/ s \in req'[r].found
                        \/ req[s].pc = "seeding" \/ cmp[s].seed = "failed" \/ cmp[s].wait = "failed"
<1>1. BaseInv /\ CompareInv /\ SeedKept /\ [LlmNext]_llmVars => Found
  <2> SUFFICES ASSUME BaseInv, CompareInv, SeedKept, [LlmNext]_llmVars,
                      NEW r \in Requests, NEW s \in Requests, NEW o, o = req[r].obj,
                      req[r].route = "compare", wire[r] = "out",
                      wire'[r] \in {"ok", "missing"},
                      req[s].obj = o, cmp[s].seed # "none", req[r].ns \notin history.purged,
                      Held(o), \A p \in 1 .. o - 1 : heap[p].key # heap[o].key,
                      req[s].pc # "seeding", cmp[s].seed # "failed", cmp[s].wait # "failed"
               PROVE  s \in req'[r].found
    BY DEF Held
  <2>1. CompareOK(r) /\ CompareOK(s) /\ cmp[s] \in Comparison
    BY DEF CompareInv
  <2>2. /\ req[r].ns = <<heap[o].key, DefaultScenario>>
        /\ req[s].ns = <<heap[o].key, DefaultScenario>>
    BY <2>1 DEF CompareOK
  <2>3. cmp[s].seed = "stored"
    <3>1. cmp[s].seed # "out"
      BY <2>1 DEF CompareOK, Held
    <3>2. QED
      BY <2>1, <3>1 DEF Comparison
  <2>4. s \in engine[req[s].ns]
    BY <2>2, <2>3 DEF SeedKept, FirstLife, Held
  <2>5. req[r].ns # Untouched
    BY <2>2 DEF Untouched
  <2>6. engine[req[r].ns] \subseteq req'[r].found
    BY <2>5, RecallFinds, Zenon
  <2>7. QED
    BY <2>2, <2>4, <2>6
<1>2. LlmInit => SeedKept
  BY DEF LlmInit, NotStarted, SeedKept
<1> HIDE DEF Found
<1>3. LlmSpec => [][Found]_llmVars
  BY <1>1, <1>2, LlmInvHolds, SeedKeptStep, PTL DEF LlmSpec
<1>4. QED
  BY <1>3 DEF Found, SeedFoundByRecalls

-----------------------------------------------------------------------------
(* What a seed leaves behind *)

\* A step of a comparison explains as well as the state before it what it does
\* not store itself.
LEMMA ApartExplains ==
    ASSUME TypeInv, Apart, NEW ns, Explained(ns)
    PROVE  Explained(ns)'
<1>1. StoreInv
  BY DEF TypeInv
<1>2. ASSUME NEW k \in Keys, sessions[k] # None
      PROVE  heap'[sessions[k]].namespaces = heap[sessions[k]].namespaces
  BY <1>1, <1>2, StoreTypes DEF Apart
<1>3. QED
  BY <1>2 DEF Explained, Apart

\* The seed of comparison r may lie in ns.
Seeds(r, ns) ==
    cmp[r].seed = "stored" /\ ns = <<heap[req[r].obj].key, DefaultScenario>>

LEMMA StillSeeds ==
    ASSUME BaseInv, CompareInv, [LlmNext]_llmVars,
           NEW ns, NEW r \in Requests, Seeds(r, ns), cmp'[r].seed = "stored"
    PROVE  Seeds(r, ns)'
<1>1. req'[r].obj = req[r].obj
  BY LlmStepSeeds
<1>2. req[r].obj \in Objs
  BY DEF CompareInv, CompareOK, Seeds
<1>3. heap'[req[r].obj].key = heap[req[r].obj].key
  BY <1>2, LlmStepGrows DEF BaseInv, Grows
<1>4. QED
  BY <1>1, <1>3 DEF Seeds

\* A stored seed stays a stored seed.
LEMMA StoredStaysStored ==
    ASSUME cmp \in [Requests -> Comparison], TypeInv, RequestInv, [LlmNext]_llmVars,
           \A s \in Requests : CompareOK(s),
           NEW r \in Requests, cmp[r].seed = "stored"
    PROVE  cmp'[r].seed = "stored"
<1>1. cmp[r] \in Comparison
  OBVIOUS
<1>2. ASSUME NEW s \in Requests, NEW q, NEW o, NEW t, Started(s, q, o, t)
      PROVE  cmp'[r].seed = "stored"
  <2>1. req[s].pc = "body" /\ \E seed : cmp' = [cmp EXCEPT ![s].seed = seed]
    BY <1>2 DEF Started
  <2>2. s # r
    BY <2>1 DEF CompareOK
  <2>3. QED
    BY <2>1, <2>2
<1>3. ASSUME NEW s \in Requests, NEW q, Advanced(s, q) PROVE cmp'[r].seed = "stored"
  <2>1. \/ cmp' = cmp
        \/ \E wait \in {"answered", "failed"} : cmp' = [cmp EXCEPT ![s].wait = wait]
        \/ \E found \in SUBSET Requests, warned \in BOOLEAN :
               cmp' = [cmp EXCEPT ![s].memories = found, ![s].warned = warned]
    BY <1>3, Zenon DEF Advanced
  <2>2. ASSUME NEW wait, cmp' = [cmp EXCEPT ![s].wait = wait] PROVE cmp'[r].seed = "stored"
    BY <1>1, <2>2 DEF Comparison
  <2>3. ASSUME NEW found, NEW warned,
               cmp' = [cmp EXCEPT ![s].memories = found, ![s].warned = warned]
        PROVE  cmp'[r].seed = "stored"
    BY <1>1, <2>3 DEF Comparison
  <2>4. CASE \E wait \in {"answered", "failed"} : cmp' = [cmp EXCEPT ![s].wait = wait]
    BY <2>2, <2>4, Zenon
  <2>5. CASE \E found \in SUBSET Requests, warned \in BOOLEAN :
                cmp' = [cmp EXCEPT ![s].memories = found, ![s].warned = warned]
    BY <2>3, <2>5, Zenon
  <2>6. QED
    BY <2>1, <2>4, <2>5
<1>4. ASSUME NEW s \in Requests, NEW side \in Sides, ModelAnswers(s, side)
      PROVE  cmp'[r].seed = "stored"
  <2>1. \/ cmp' = [cmp EXCEPT ![s].answered[side] = TRUE]
        \/ cmp' = [cmp EXCEPT ![s].tried[side] = @ + 1]
    BY <1>4 DEF ModelAnswers
  <2>2. QED
    BY <1>1, <2>1 DEF Comparison
<1>5. ASSUME NEW s \in Requests, EngineSeed(s) \/ EngineSeedRefused(s)
      PROVE  cmp'[r].seed = "stored"
  <2>1. cmp[s].seed = "out" /\ \E seed : cmp' = [cmp EXCEPT ![s].seed = seed]
    BY <1>5 DEF EngineSeed, EngineSeedRefused
  <2>2. s # r
    BY <2>1
  <2>3. QED
    BY <2>1, <2>2
<1>6. QED
  BY <1>2, <1>3, <1>4, <1>5, LlmStepEffect, Zenon

LEMMA OnlySeedsLeakStep ==
    BaseInv /\ CompareInv /\ OnlySeedsLeak /\ [LlmNext]_llmVars => OnlySeedsLeak'
<1> SUFFICES ASSUME BaseInv, CompareInv, OnlySeedsLeak, [LlmNext]_llmVars,
                    NEW ns \in Namespaces, NEW r \in engine'[ns], r \notin history'.stranded
             PROVE  Explained(ns)' \/ Seeds(r, ns)'
  BY DEF OnlySeedsLeak, Explained, Seeds
<1>1. /\ TypeInv /\ RequestInv /\ MapInv
      /\ engine \in [Namespaces -> SUBSET Requests]
      /\ history \in [raced : SUBSET Nat, stranded : SUBSET Requests, purged : SUBSET Namespaces]
      /\ cmp \in [Requests -> Comparison] /\ \A s \in Requests : CompareOK(s)
  BY DEF BaseInv, CompareInv, TypeInv, ProxyTypeOK
<1>2. ASSUME r \in engine[ns] PROVE Explained(ns)' \/ Seeds(r, ns)'
  <2>1. r \in Requests /\ r \notin history.stranded
    BY <1>1, <1>2, LlmStepApart, StepRemembers DEF Apart
  <2>2. Explained(ns) \/ Seeds(r, ns)
    BY <1>2, <2>1 DEF OnlySeedsLeak, Explained, Seeds
  <2>3. CASE Explained(ns)
    BY <1>1, <1>2, <2>3, LlmStepApart, ApartExplains, StillExplained
  <2>4. CASE Seeds(r, ns)
    <3>1. cmp'[r].seed = "stored"
      BY <1>1, <2>1, <2>4, StoredStaysStored DEF Seeds
    <3>2. QED
      BY <2>1, <2>4, <3>1, StillSeeds
  <2>5. QED
    BY <2>2, <2>3, <2>4
<1>3. CASE engine' = engine
  BY <1>2, <1>3
<1>4. ASSUME NEW d \in deletes, DeleteApplied(d) PROVE r \in engine[ns]
  BY <1>1, <1>4 DEF DeleteApplied
<1>5. ASSUME NEW s \in Requests, EngineStore(s), r \notin engine[ns] PROVE Explained(ns)'
  BY <1>1, <1>5, StoreExplained
<1>6. ASSUME NEW s \in Requests, EngineSeed(s), r \notin engine[ns] PROVE Seeds(r, ns)'
  <2>1. r = s /\ ns = req[r].ns
    BY <1>1, <1>6 DEF EngineSeed
  <2>2. /\ cmp[r].seed = "out" /\ UNCHANGED <<heap, req>>
        /\ cmp' = [cmp EXCEPT ![r].seed = "stored"]
    BY <1>6, <2>1 DEF EngineSeed
  <2>3. cmp'[r].seed = "stored"
    BY <1>1, <2>1, <2>2 DEF Comparison
  <2>4. ns = <<heap[req[r].obj].key, DefaultScenario>>
    BY <1>1, <2>1, <2>2 DEF CompareOK
  <2>5. QED
    BY <2>2, <2>3, <2>4 DEF Seeds
<1>7. QED
  BY <1>1, <1>2, <1>3, <1>4, <1>5, <1>6, StepEngine, LlmStepApart DEF Apart

\* The seed goes past trackNamespace and so past onExpire; nothing else of what
\* a playground with comparisons leaves in the engine goes unexplained, and a
\* seed lies only in the default namespace of its session (llm-compare.js).
THEOREM OnlySeedsLeakHolds == LlmSpec => []OnlySeedsLeak
<1>1. LlmInit => OnlySeedsLeak
  BY DEF LlmInit, ProxyInit, OnlySeedsLeak
<1>2. QED
  BY <1>1, LlmInvHolds, OnlySeedsLeakStep, PTL DEF LlmSpec

-----------------------------------------------------------------------------
(* The proxy's promises, with comparisons among its requests *)

\* What the stores of a session are and what they are charged.
LEMMA ApartStores ==
    ASSUME TypeInv, Apart
    PROVE  /\ Objs' = Objs /\ \A o \in Objs : heap'[o].memoryCount = heap[o].memoryCount
           /\ \A o : StoresOf(o)' = StoresOf(o) /\ \A r \in StoresOf(o) : req'[r] = req[r]
BY DEF Apart, StoresOf

LEMMA LlmChargedRightHolds == LlmSpec => []ChargedRight
<1>1. BaseInv /\ BaseInv' /\ ChargedRight /\ [LlmNext]_llmVars => ChargedRight'
  <2> SUFFICES ASSUME BaseInv, BaseInv', ChargedRight, [LlmNext]_llmVars PROVE ChargedRight'
    OBVIOUS
  <2>1. TypeInv /\ RequestInv
    BY DEF BaseInv
  <2>2. CASE [ProxyNext]_proxyVars
    BY <2>2, ChargedRightStep
  <2>3. CASE Apart
    <3> SUFFICES ASSUME NEW o \in Objs PROVE heap'[o].memoryCount = Total(req', Paying(o)')
      BY <2>1, <2>3, ApartStores DEF ChargedRight
    <3>1. \A r \in StoresOf(o) : req'[r] = req[r]
      BY <2>1, <2>3, ApartStores
    <3>2. Paying(o)' = Paying(o) /\ \A r \in Paying(o) : req[r].count = req'[r].count
      BY <2>1, <2>3, <3>1, ApartStores DEF Paying
    <3>3. Total(req, Paying(o)) = Total(req', Paying(o))
      BY <2>1, <3>2, PayingTypes, TotalSame
    <3>4. QED
      BY <2>1, <2>3, <3>2, <3>3, ApartStores DEF ChargedRight
  <2>4. QED
    BY <2>1, <2>2, <2>3, LlmStepApart
<1>2. LlmInit => ChargedRight
  BY ChargedRightInit DEF LlmInit
<1>3. QED
  BY <1>1, <1>2, LlmInvHolds, PTL DEF LlmSpec

\* A session is charged for exactly the stores that were answered 2xx also
\* while it compares: neither the seed nor the 200 of a comparison is charged
\* (llm-compare.js).
THEOREM LlmCountRight == LlmSpec => []CountMatchesReplies
BY LlmChargedRightHolds, CountFromCharges, PTL

\* What a session was told is stored stays stored in its first life also while
\* it compares: the seed is added to what the namespace holds (llm-compare.js).
THEOREM LlmFirstLifeKept == LlmSpec => []FirstLifeKeepsItsMemories
<1>1. BaseInv /\ FirstLifeInv /\ [LlmNext]_llmVars => FirstLifeInv'
  <2> SUFFICES ASSUME BaseInv, FirstLifeInv, [LlmNext]_llmVars, Apart, NEW r \in Requests,
                      req'[r].route = "store", wire'[r] = "ok",
                      req'[r].ns \notin history'.purged,
                      Held(req[r].obj)', FirstLife(req[r].obj)'
               PROVE  r \in engine'[req'[r].ns]
    BY LlmStepApart, FirstLifeStep DEF BaseInv, FirstLifeInv
  <2>1. TypeInv /\ RequestInv /\ Len(heap) \in Nat
    BY StoreTypes DEF BaseInv, TypeInv
  <2>2. req'[r] = req[r] /\ wire[r] = "ok" /\ req[r].route = "store"
    BY DEF Apart
  <2>3. PICK o : o = req[r].obj /\ o = req'[r].obj
    BY <2>2
  <2>4. PICK ns : ns = req[r].ns /\ ns = req'[r].ns
    BY <2>2
  <2>5. o \in Objs /\ ns \in {heap[o].key} \X Scenarios
    BY <2>1, <2>2, <2>3, <2>4 DEF RequestInv, RequestOK, Objs
  <2>6. Held(o)' /\ \A p \in 1 .. o - 1 : heap'[p].key # heap'[o].key
    BY <2>3 DEF Held, FirstLife
  <2>7. Held(o)
    BY <2>6 DEF Held, Apart
  <2>8. FirstLife(o)
    <3>1. \A p \in 1 .. o - 1 : p \in Objs
      BY <2>1, <2>5 DEF Objs
    <3>2. QED
      BY <2>5, <2>6, <3>1 DEF FirstLife, Apart
  <2>9. ns \notin history.purged
    BY <2>4 DEF Apart
  <2>10. r \in engine[ns]
    BY <2>2, <2>3, <2>4, <2>7, <2>8, <2>9 DEF FirstLifeInv
  <2>11. engine[ns] \subseteq engine'[ns]
    BY <2>5, <2>7, <2>8, <2>9, LlmStepEngine
  <2>12. QED
    BY <2>4, <2>10, <2>11
<1>2. LlmInit => FirstLifeInv
  BY DEF LlmInit, ProxyInit, FirstLifeInv, Idle
<1>3. QED
  BY <1>1, <1>2, LlmInvHolds, FirstLifeFromInv, PTL DEF LlmSpec

\* What the engine holds is a store that it has said yes to, or a seed.
StoredOrSeed ==
    \A ns \in Namespaces : \A r \in engine[ns] :
        /\ req[r].route = "store" => wire[r] = "ok"
        /\ req[r].pc \notin {"idle", "body"}

LEMMA StoredOrSeedStep ==
    BaseInv /\ CompareInv /\ StoredOrSeed /\ [LlmNext]_llmVars => StoredOrSeed'
<1> SUFFICES ASSUME BaseInv, CompareInv, StoredOrSeed, [LlmNext]_llmVars,
                    NEW ns \in Namespaces, NEW r \in engine'[ns]
             PROVE  /\ req'[r].route = "store" => wire'[r] = "ok"
                    /\ req'[r].pc \notin {"idle", "body"}
  BY DEF StoredOrSeed
<1> DEFINE Fits == /\ req'[r].route = "store" => wire'[r] = "ok"
                   /\ req'[r].pc \notin {"idle", "body"}
<1>1. /\ TypeInv /\ RequestInv
      /\ engine \in [Namespaces -> SUBSET Requests]
      /\ wire \in [Requests -> {"none", "out", "ok", "refused", "missing"}]
      /\ \A s \in Requests : CompareOK(s)
  BY DEF BaseInv, CompareInv, TypeInv, ProxyTypeOK
<1>2. ASSUME r \in engine[ns] PROVE Fits
  <2>1. /\ r \in Requests /\ req[r].pc \notin {"idle", "body"}
        /\ req[r].route = "store" => wire[r] = "ok"
    BY <1>1, <1>2 DEF StoredOrSeed
  <2>2. CASE [ProxyNext]_proxyVars
    <3>1. Settled(r)
      BY <1>1, <2>1, <2>2, StepSettled
    <3>2. req'[r].pc \notin {"idle", "body"}
      BY <1>1, <2>1, <2>2, StepCompares
    <3>3. QED
      BY <2>1, <3>1, <3>2 DEF Settled
  <2>3. CASE Apart
    BY <2>1, <2>3 DEF Apart
  <2>4. QED
    BY <1>1, <2>2, <2>3, LlmStepApart
<1>3. CASE engine' = engine
  BY <1>2, <1>3
<1>4. ASSUME NEW d \in deletes, DeleteApplied(d) PROVE r \in engine[ns]
  BY <1>1, <1>4 DEF DeleteApplied
<1>5. ASSUME NEW s \in Requests, EngineStore(s), r \notin engine[ns] PROVE Fits
  <2>1. r = s
    BY <1>1, <1>5 DEF EngineStore
  <2>2. wire[r] = "out" /\ wire'[r] = "ok" /\ req' = req
    BY <1>1, <1>5, <2>1 DEF EngineStore
  <2>3. QED
    BY <1>1, <1>5, <2>1, <2>2 DEF RequestInv, RequestOK
<1>6. ASSUME NEW s \in Requests, EngineSeed(s), r \notin engine[ns] PROVE Fits
  <2>1. r = s
    BY <1>1, <1>6 DEF EngineSeed
  <2>2. cmp[r].seed = "out" /\ req' = req
    BY <1>6, <2>1 DEF EngineSeed
  <2>3. QED
    BY <1>1, <2>1, <1>6, <2>2 DEF CompareOK
<1> HIDE DEF Fits
<1>7. Fits
  BY <1>1, <1>2, <1>3, <1>4, <1>5, <1>6, StepEngine, LlmStepApart DEF Apart
<1>8. QED
  BY <1>7 DEF Fits

LEMMA LlmQuietStep == TypeInv /\ RequestInv /\ QuietInv /\ [LlmNext]_llmVars => QuietInv'
<1> SUFFICES ASSUME TypeInv, RequestInv, QuietInv, Apart,
                    NEW o \in Objs', o \notin history'.raced
             PROVE  Quiet(o)'
  BY LlmStepApart, QuietStep DEF QuietInv
<1>1. o \in Objs /\ Quiet(o) /\ heap'[o].memoryCount = heap[o].memoryCount
  BY DEF QuietInv, Apart
<1>2. StoresOf(o)' = StoresOf(o) /\ \A r \in StoresOf(o) : req'[r] = req[r]
  BY ApartStores
<1>3. InFlight(o)' \subseteq InFlight(o)
  BY <1>2 DEF InFlight
<1>4. \A r \in InFlight(o)' : req'[r].left = req[r].left /\ req'[r].count = req[r].count
  BY <1>2 DEF InFlight
<1>5. QED
  BY <1>1, <1>3, <1>4, StaysQuiet

LEMMA LlmQuietHolds == LlmSpec => []QuietInv
<1>1. LlmInit => QuietInv
  BY QuietInvInit DEF LlmInit
<1>2. QED
  BY <1>1, LlmInvHolds, LlmQuietStep, PTL DEF LlmSpec, BaseInv

\* The cap holds for the stores of a quiet session also while it compares; its
\* seed is not a store, and is not counted (llm-compare.js).
THEOREM LlmQuietWithinCap == LlmSpec => []QuietStoresStayWithinCap
<1>1. LlmInit => StoredOrSeed
  BY DEF LlmInit, ProxyInit, StoredOrSeed
<1>2. StoredOrSeed => StoredAnswered
  BY DEF StoredOrSeed, StoredAnswered
<1>3. QED
  BY <1>1, <1>2, LlmInvHolds, StoredOrSeedStep, LlmChargedRightHolds, LlmQuietHolds,
     CapFromQuiet, PTL DEF LlmSpec

\* Nor does a comparison between a store's forward and its answer make the
\* X-Sandbox-Memory-Remaining header untrue (server.js, writeHead's wrapper).
THEOREM LlmHeaderTrue == LlmSpec => HeaderTrueWhenQuiet
<1>1. BaseInv /\ QuietInv /\ [LlmNext]_llmVars => [HeaderStep]_proxyVars
  <2>1. CASE [ProxyNext]_proxyVars
    BY <2>1, HeaderFromQuiet DEF BaseInv
  <2>2. CASE Apart
    BY <2>2 DEF Apart, HeaderStep
  <2>3. QED
    BY <2>1, <2>2, LlmStepApart DEF BaseInv
<1>2. LlmSpec => [][HeaderStep]_proxyVars
  BY <1>1, LlmInvHolds, LlmQuietHolds, PTL DEF LlmSpec
<1>3. QED
  BY <1>2 DEF HeaderStep, HeaderTrueWhenQuiet

-----------------------------------------------------------------------------
(* The store, with comparisons among its users *)

LEMMA LlmStepMoves == TypeInv /\ [LlmNext]_llmVars => StoreMoves
<1> SUFFICES ASSUME TypeInv, [LlmNext]_llmVars PROVE StoreMoves
  OBVIOUS
<1>1. ASSUME NEW r \in Requests, NEW q, NEW o, NEW s, Started(r, q, o, s) PROVE StoreMoves
  <2>1. Booked(o, s)
    BY <1>1 DEF Started, Booked
  <2>2. QED
    BY <2>1 DEF StoreMoves
<1>2. UNCHANGED <<now, sessions, heap>> => StoreMoves
  BY DEF Calm, StoreMoves
<1>3. ASSUME NEW r \in Requests, NEW q, Advanced(r, q) PROVE StoreMoves
  BY <1>2, <1>3 DEF Advanced
<1>4. ASSUME NEW r \in Requests, NEW side \in Sides, ModelAnswers(r, side) PROVE StoreMoves
  BY <1>2, <1>4 DEF ModelAnswers, proxyVars
<1>5. ASSUME NEW r \in Requests, EngineSeed(r) \/ EngineSeedRefused(r) PROVE StoreMoves
  BY <1>2, <1>5 DEF EngineSeed, EngineSeedRefused
<1>6. QED
  BY <1>1, <1>3, <1>4, <1>5, StepMovesStore, LlmStepEffect, Zenon

LEMMA LlmWindows ==
    /\ LlmInit => Rate!SlidingInit /\ Llm!SlidingInit
    /\ TypeInv /\ [LlmNext]_llmVars => WindowsStep
<1>1. LlmInit => Rate!SlidingInit /\ Llm!SlidingInit
  BY ProxyStoreInit
     DEF LlmInit, StoreInit, Rate!SlidingInit, Llm!SlidingInit, AdmittedLog, LlmAdmittedLog, Objs
<1>2. QED
  BY <1>1, LlmStepMoves, MovesImplementWindows DEF TypeInv

LEMMA LlmTypeInvHolds == LlmSpec => []TypeInv
BY LlmInvHolds, PTL DEF BaseInv

\* Comparisons spend the slots of checkRate like any request (server.js), and it
\* still implements the limiter that forgets nothing.
THEOREM LlmRateImplements == LlmSpec => RateImplementsWindow
BY LlmWindows, LlmTypeInvHolds, PTL
   DEF LlmSpec, WindowsStep, RateImplementsWindow, Rate!SlidingSpec

\* So does checkLlmRate, whose slots are spent by comparisons before their body
\* is read (llm-compare.js).
THEOREM LlmLimiterImplements == LlmSpec => LlmImplementsWindow
BY LlmWindows, LlmTypeInvHolds, PTL
   DEF LlmSpec, WindowsStep, LlmImplementsWindow, Llm!SlidingSpec

\* No window holds more requests of a session than rateLimitPerMin, the
\* comparisons among them (sessions.js, checkRate).
THEOREM LlmRateHolds == LlmSpec => []RateNeverOver
BY LlmRateImplements, WindowKeepsRate, PTL

\* No ten-minute window holds more comparisons of a session than llmRateLimit
\* (llm-compare.js, the 429 before the body is read).
THEOREM ComparisonsNeverOver == LlmSpec => []LlmNeverOver
BY LlmLimiterImplements, WindowKeepsLlm, PTL

\* The wait that a 429 announces stays long enough when comparisons take slots
\* (sessions.js, checkRate).
THEOREM LlmRetryAfterHolds ==
    ASSUME RateLimit # 0
    PROVE  LlmSpec => []RetryAfterSuffices
<1>1. TypeInv /\ RateNeverOver => RetryAfterSuffices
  BY RetryAfterFromLimit DEF TypeInv
<1>2. QED
  BY <1>1, LlmTypeInvHolds, LlmRateHolds, PTL

\* No address that is counted has more live sessions than the ceiling while it
\* compares (sessions.js, resolve).
THEOREM LlmCeilingHolds == LlmSpec => []IpCeiling
<1>1. LlmInit => IpCeiling
  BY ProxyStoreInit, CeilingInit DEF LlmInit
<1>2. TypeInv /\ IpCeiling /\ [LlmNext]_llmVars => IpCeiling'
  BY LlmStepMoves, MovesKeepCeiling DEF TypeInv
<1>3. QED
  BY <1>1, <1>2, LlmTypeInvHolds, PTL DEF LlmSpec
=============================================================================
