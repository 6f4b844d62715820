------------------------- MODULE TifProvenanceProofs -------------------------
(***************************************************************************)
(* What the provenance validator leaves in the engine, for every number of *)
(* runs, every fixture and any number of failing requests.                 *)
(*                                                                         *)
(* What reaches the engine, and what a passing run rests on, does not      *)
(* depend on what the runs decide: the evidence may be anything, as long   *)
(* as there are one or two pieces of it.  That a decision can be taken at  *)
(* all, on memories that were recalled, comes after that; that it is the   *)
(* decision of the self-test, which is a matter of the fixture, comes last.*)
(***************************************************************************)
EXTENDS TifProvenance, SequenceTheorems, WellFoundedInduction, TLAPS

(***************************************************************************)
(* The inductive invariant                                                 *)
(***************************************************************************)

Exceptions == {"none", "AssertionError", "TimeoutError", "RuntimeError"}

IsEvidence(e) == e = <<e[1]>> \/ e = <<e[1], e[2]>>

\* The variables whose type the argument needs.
CoreType ==
    /\ session \in [Sessions -> {"none", "open", "ended"}]
    /\ stored \in [Ids -> Nat]
    /\ history \in [Ids -> Seq(Signals)]
    /\ linked = [s \in Sessions |-> linked[s]]
    /\ pc \in [Runs -> Requests]
    /\ at \in [Runs -> Nat] /\ \A r \in Runs : at[r] \in 1..Len(Fixture[r])
    /\ m \in [Runs -> Nat] /\ k \in [Runs -> Nat]
    /\ allPassed \in [Runs -> BOOLEAN]
    /\ raised \in [Runs -> Exceptions]
    /\ exit \in [Runs -> {-1, 0, 1}]
    /\ choice = [r \in Runs |-> choice[r]]
    /\ \A r \in Runs : "evidence" \in DOMAIN choice[r]
    /\ faults \in Seq([session : Sessions, request : Requests])

\* Where a run is in the memories of its scenario.
InMemories ==
    \A r \in Runs : pc[r] \in {"store", "feedback", "history"} =>
        m[r] \in DOMAIN Scenario(r).memories

\* Run r has got to scenario n, and past its start.
Begun(r, n) == n < at[r] \/ (n = at[r] /\ pc[r] \notin {"health", "start"})

\* Run r has got to memory pos of scenario n, not counting the one it is about to store.
Reached(r, n, pos) ==
    /\ Begun(r, n)
    /\ n = at[r] /\ pc[r] = "store" => pos < m[r]
    /\ n = at[r] /\ pc[r] \in {"feedback", "history"} => pos <= m[r]

TraceSent(r, n) ==
    \/ n < at[r]
    \/ n = at[r] /\ pc[r] \in {"link", "associated", "list", "end", "exited"}

\* Nothing is stored, and no signal received, ahead of the run that sends it.
SentInOrder ==
    \A id \in Ids :
        LET r == id.session[1]
            n == id.session[2]
        IN /\ stored[id] <= 1
           /\ stored[id] # 0 => IF id.pos = Trace THEN TraceSent(r, n) ELSE Reached(r, n, id.pos)
           /\ history[id] # <<>> => id.pos # Trace /\ Reached(r, n, id.pos)

IsPrefixOf(s, t) == Len(s) <= Len(t) /\ \A j \in 1..Len(s) : s[j] = t[j]

\* What arrived of a memory's feedback, and how far its run is with it.
FeedbackInOrder ==
    /\ \A id \in Ids : id.pos # Trace => IsPrefixOf(history[id], Source(id).feedback)
    /\ \A r \in Runs : pc[r] = "feedback" =>
         /\ k[r] \in 1..Len(Source(Id(r, m[r])).feedback)
         /\ Len(history[Id(r, m[r])]) = k[r] - 1

\* No session is open ahead of its run, the run has one when it needs one, and
\* an exception ends the scenario.
SessionsInOrder ==
    /\ \A s \in Sessions : session[s] # "none" => Begun(s[1], s[2])
    /\ \A r \in Runs :
         /\ raised[r] # "none" => pc[r] \in {"end", "exited"}
         /\ pc[r] = "health" => at[r] = 1
         /\ pc[r] \notin {"health", "start", "exited"} => session[SessionOf(r)] # "none"

\* The links a run has made so far are to its evidence.
LinksInOrder ==
    /\ \A s \in Sessions : linked[s] # {} => TraceSent(s[1], s[2])
    /\ \A r \in Runs :
         /\ pc[r] \in {"trace", "link", "associated", "list"} => IsEvidence(choice[r].evidence)
         /\ pc[r] = "link" => /\ k[r] \in 1..Len(choice[r].evidence)
                              /\ linked[SessionOf(r)] = {choice[r].evidence[j] : j \in 1..(k[r] - 1)}
         /\ pc[r] \in {"associated", "list"} => linked[SessionOf(r)] = Range(choice[r].evidence)

\* A scenario that rests on what its run left in the engine.
OwnEvidence(r, n) ==
    /\ [session |-> <<r, n>>, pos |-> Trace] \in Ids
    /\ stored[[session |-> <<r, n>>, pos |-> Trace]] # 0
    /\ linked[<<r, n>>] # {}
    /\ \A id \in linked[<<r, n>>] : id \in Ids /\ id.session = <<r, n>> /\ stored[id] # 0

PassedSoFar ==
    \A r \in Runs : raised[r] = "none" /\ allPassed[r] =>
        /\ \A n \in 1..(at[r] - 1) : OwnEvidence(r, n)
        /\ pc[r] \in {"end", "exited"} => OwnEvidence(r, at[r])

ExitMeansPassed ==
    \A r \in Runs :
        exit[r] = 0 => /\ pc[r] = "exited" /\ raised[r] = "none" /\ allPassed[r]
                       /\ at[r] = Len(Fixture[r])

\* Run r is past memory pos of its scenario n.
Past(r, n, pos) ==
    \/ n < at[r]
    \/ /\ n = at[r]
       /\ \/ pc[r] \in {"recall", "trace", "link", "associated", "list", "end", "exited"}
          \/ pc[r] \in {"store", "feedback", "history"} /\ pos < m[r]
          \/ pc[r] = "history" /\ pos = m[r]

\* What a run that raised nothing is past has been stored and got all its feedback.
Delivered ==
    \A id \in Ids :
        LET r == id.session[1]
            n == id.session[2]
        IN id.pos # Trace /\ raised[r] = "none" =>
             /\ Past(r, n, id.pos) =>
                  stored[id] # 0 /\ Len(history[id]) = Len(Source(id).feedback)
             /\ n = at[r] /\ pc[r] = "feedback" /\ id.pos = m[r] => stored[id] # 0

SentInv == CoreType /\ InMemories /\ SentInOrder /\ FeedbackInOrder
SessionInv == SentInv /\ SessionsInOrder /\ OpenSessionsExplained /\ ColdStartTolerated
EvidenceInv == SessionInv /\ LinksInOrder /\ PassedSoFar /\ ExitMeansPassed /\ Delivered

-----------------------------------------------------------------------------
(***************************************************************************)
(* Sessions and ids                                                        *)
(***************************************************************************)

LEMMA SessionShape ==
    /\ \A r \in Runs : \A n \in 1..Len(Fixture[r]) : <<r, n>> \in Sessions
    /\ \A s \in Sessions : /\ s = <<s[1], s[2]>> /\ s[1] \in Runs
                           /\ s[2] \in 1..Len(Fixture[s[1]])
<1>1. \A r \in Runs : DOMAIN Fixture[r] = 1..Len(Fixture[r])
  BY ProvenanceAssumption, LenProperties
<1>2. QED
  BY <1>1 DEF Sessions

LEMMA MemoriesShape ==
    ASSUME NEW s \in Sessions
    PROVE  /\ MemoriesIn(s) \in Seq(Range(MemoriesIn(s)))
           /\ DOMAIN MemoriesIn(s) = 1..Len(MemoriesIn(s)) /\ Len(MemoriesIn(s)) \in Nat \ {0}
           /\ \A p \in DOMAIN MemoriesIn(s) : MemoriesIn(s)[p].feedback \in Seq(Signals)
<1>1. s[1] \in Runs /\ s[2] \in DOMAIN Fixture[s[1]]
  BY SessionShape, ProvenanceAssumption, LenProperties
<1>2. /\ MemoriesIn(s) \in Seq(Range(MemoriesIn(s))) /\ MemoriesIn(s) # <<>>
      /\ \A p \in DOMAIN MemoriesIn(s) : MemoriesIn(s)[p].feedback \in Seq(Signals)
  BY <1>1, ProvenanceAssumption DEF MemoriesIn
<1>3. QED
  BY <1>2, LenProperties, EmptySeq

LEMMA IdShape ==
    /\ \A s \in Sessions : \A p \in {Trace} \cup DOMAIN MemoriesIn(s) :
         [session |-> s, pos |-> p] \in Ids
    /\ \A id \in Ids : /\ id = [session |-> id.session, pos |-> id.pos]
                       /\ id.session \in Sessions
                       /\ id.pos \in {Trace} \cup DOMAIN MemoriesIn(id.session)
                       /\ id.pos \in Nat /\ (id.pos # Trace => id.pos >= 1)
<1>1. \A s \in Sessions : \A p \in {Trace} \cup DOMAIN MemoriesIn(s) :
         [session |-> s, pos |-> p] \in Ids
  BY DEF Ids
<1>2. ASSUME NEW id \in Ids
      PROVE  /\ id = [session |-> id.session, pos |-> id.pos]
             /\ id.session \in Sessions
             /\ id.pos \in {Trace} \cup DOMAIN MemoriesIn(id.session)
             /\ id.pos \in Nat /\ (id.pos # Trace => id.pos >= 1)
  <2>1. PICK s \in Sessions : \E p \in {Trace} \cup DOMAIN MemoriesIn(s) :
               id = [session |-> s, pos |-> p]
    BY DEF Ids
  <2>2. PICK p \in {Trace} \cup DOMAIN MemoriesIn(s) : id = [session |-> s, pos |-> p]
    BY <2>1
  <2>3. DOMAIN MemoriesIn(s) = 1..Len(MemoriesIn(s)) /\ Len(MemoriesIn(s)) \in Nat
    BY MemoriesShape
  <2>4. id.session = s /\ id.pos = p
    BY <2>2
  <2>5. p \in Nat /\ (p # Trace => p >= 1)
    BY <2>3 DEF Trace
  <2>6. QED
    BY <2>2, <2>4, <2>5
<1>3. QED
  BY <1>1, <1>2

\* The ids run r is working on.
LEMMA OwnIds ==
    ASSUME CoreType, NEW r \in Runs
    PROVE  /\ SessionOf(r) \in Sessions /\ SessionOf(r) = <<r, at[r]>>
           /\ Scenario(r).memories = MemoriesIn(SessionOf(r))
           /\ Id(r, Trace) \in Ids
           /\ \A p \in DOMAIN Scenario(r).memories :
                 /\ Id(r, p) \in Ids /\ p \in Nat \ {0}
                 /\ Source(Id(r, p)).feedback \in Seq(Signals)
           /\ \A p : Id(r, p).session = <<r, at[r]>> /\ Id(r, p).pos = p
<1>1. SessionOf(r) \in Sessions /\ SessionOf(r) = <<r, at[r]>>
  BY SessionShape DEF CoreType, SessionOf
<1>2. Scenario(r).memories = MemoriesIn(SessionOf(r))
  BY DEF Scenario, MemoriesIn, SessionOf
<1>3. \A p : Id(r, p).session = <<r, at[r]>> /\ Id(r, p).pos = p
  BY DEF Id, SessionOf
<1>4. Id(r, Trace) \in Ids
  BY <1>1, IdShape DEF Id
<1>5. ASSUME NEW p \in DOMAIN Scenario(r).memories
      PROVE  /\ Id(r, p) \in Ids /\ p \in Nat \ {0}
             /\ Source(Id(r, p)).feedback \in Seq(Signals)
  <2>1. p \in DOMAIN MemoriesIn(SessionOf(r))
    BY <1>2
  <2>2. p \in Nat \ {0} /\ MemoriesIn(SessionOf(r))[p].feedback \in Seq(Signals)
    BY <1>1, <2>1, MemoriesShape
  <2>3. Id(r, p) \in Ids
    BY <1>1, <2>1, IdShape DEF Id
  <2>4. Source(Id(r, p)) = MemoriesIn(SessionOf(r))[p]
    BY DEF Id, Source
  <2>5. QED
    BY <2>2, <2>3, <2>4
<1>6. QED
  BY <1>1, <1>2, <1>3, <1>4, <1>5

-----------------------------------------------------------------------------
(***************************************************************************)
(* Types                                                                   *)
(***************************************************************************)

LEMMA Counted ==
    ASSUME NEW D, NEW f \in [D -> Nat], NEW d \in D, NEW g,
           g = f \/ g = [f EXCEPT ![d] = f[d] + 1]
    PROVE  g \in [D -> Nat]
<1>1. f[d] + 1 \in Nat
  OBVIOUS
<1>2. QED
  BY <1>1

LEMMA Replaced ==
    ASSUME NEW D, NEW f, f = [x \in D |-> f[x]], \A x \in D : "evidence" \in DOMAIN f[x],
           NEW d \in D, NEW v, "evidence" \in DOMAIN v
    PROVE  /\ [f EXCEPT ![d] = v] = [x \in D |-> [f EXCEPT ![d] = v][x]]
           /\ \A x \in D : "evidence" \in DOMAIN [f EXCEPT ![d] = v][x]
<1>1. DOMAIN f = D
  OBVIOUS
<1>2. [f EXCEPT ![d] = v] = [x \in D |-> IF x = d THEN v ELSE f[x]]
  BY <1>1
<1>3. QED
  BY <1>2

LEMMA CoreTypeInit == Init => CoreType
<1> SUFFICES ASSUME Init PROVE CoreType
  OBVIOUS
<1>1. \A r \in Runs : Len(Fixture[r]) \in Nat \ {0}
  BY ProvenanceAssumption, EmptySeq
<1>2. history \in [Ids -> Seq(Signals)]
  BY EmptySeq DEF Init
<1>3. at \in [Runs -> Nat] /\ \A r \in Runs : at[r] \in 1..Len(Fixture[r])
  BY <1>1 DEF Init
<1>4. faults \in Seq([session : Sessions, request : Requests])
  BY EmptySeq DEF Init
<1>5. QED
  BY <1>2, <1>3, <1>4 DEF Init, CoreType, Requests, Exceptions, NoChoice

\* A failure is noted with the request that failed.
LEMMA FaultType ==
    ASSUME CoreType, NEW r \in Runs, Fault(r)
    PROVE  /\ faults' \in Seq([session : Sessions, request : Requests])
           /\ faults' # <<>>
           /\ Len(faults') = Len(faults) + 1
           /\ \A n \in DOMAIN faults : n \in DOMAIN faults' /\ faults'[n] = faults[n]
           /\ \E n \in DOMAIN faults' : faults'[n] = [session |-> SessionOf(r), request |-> pc[r]]
<1> DEFINE fault == [session |-> SessionOf(r), request |-> pc[r]]
<1>1. fault \in [session : Sessions, request : Requests]
  BY OwnIds DEF CoreType
<1>2. faults \in Seq([session : Sessions, request : Requests]) /\ faults' = Append(faults, fault)
  BY DEF Fault, CoreType
<1> HIDE DEF fault
<1>3. /\ faults' \in Seq([session : Sessions, request : Requests])
      /\ Len(faults') = Len(faults) + 1 /\ Len(faults) \in Nat
      /\ \A n \in 1..Len(faults) : faults'[n] = faults[n]
      /\ faults'[Len(faults) + 1] = fault
  BY <1>1, <1>2, AppendProperties, LenProperties
<1>4. DOMAIN faults = 1..Len(faults) /\ DOMAIN faults' = 1..(Len(faults) + 1)
  BY <1>2, <1>3, LenProperties
<1>5. faults' # <<>>
  BY <1>3
<1>6. Len(faults) + 1 \in DOMAIN faults'
  BY <1>3, <1>4
<1>7. QED
  BY <1>3, <1>4, <1>5, <1>6 DEF fault

LEMMA CoreTypeStep == SentInv /\ [Next]_vars => CoreType'
<1> SUFFICES ASSUME CoreType, InMemories, FeedbackInOrder, [Next]_vars PROVE CoreType'
  BY DEF SentInv
<1> USE DEF CoreType, Goto, Exit, Raise, Requests, Exceptions, engine
<1>1. ASSUME NEW r \in Runs, Ready(r) PROVE CoreType'
  BY <1>1 DEF Ready
<1>2. ASSUME NEW r \in Runs, NotReady(r) PROVE CoreType'
  <2>1. pc' \in [Runs -> Requests]
    <3>1. pc' = pc \/ pc' = [pc EXCEPT ![r] = "exited"]
      BY <1>2 DEF NotReady
    <3>2. QED
      BY <3>1
  <2>2. m' \in [Runs -> Nat]
    <3>1. m' = m \/ m' = [m EXCEPT ![r] = m[r] + 1]
      BY <1>2 DEF NotReady
    <3>2. QED
      BY <3>1, Counted
  <2>3. raised' \in [Runs -> Exceptions]
    BY <1>2 DEF NotReady
  <2>4. exit' \in [Runs -> {-1, 0, 1}]
    BY <1>2 DEF NotReady
  <2>5. QED
    BY <1>2, <2>1, <2>2, <2>3, <2>4 DEF NotReady
<1>3. ASSUME NEW r \in Runs, StartSession(r) PROVE CoreType'
  BY <1>3, OwnIds DEF StartSession
<1>4. ASSUME NEW r \in Runs, StartFails(r) PROVE CoreType'
  <2>1. session' \in [Sessions -> {"none", "open", "ended"}]
    BY <1>4, OwnIds DEF StartFails
  <2>2. faults' \in Seq([session : Sessions, request : Requests])
    BY <1>4, FaultType DEF StartFails
  <2>3. QED
    BY <1>4, <2>1, <2>2 DEF StartFails
<1>5. ASSUME NEW r \in Runs, RecallScenario(r) PROVE CoreType'
  <2>1. pc' \in [Runs -> Requests] /\ raised' \in [Runs -> Exceptions]
    BY <1>5 DEF RecallScenario
  <2>2. /\ choice' = [s \in Runs |-> choice'[s]]
        /\ \A s \in Runs : "evidence" \in DOMAIN choice'[s]
    <3>1. CASE choice' = choice
      BY <3>1
    <3>2. ASSUME NEW scenario, NEW ms, choice' = [choice EXCEPT ![r] = Decide(scenario, ms)]
          PROVE  /\ choice' = [s \in Runs |-> choice'[s]]
                 /\ \A s \in Runs : "evidence" \in DOMAIN choice'[s]
      <4>1. "evidence" \in DOMAIN Decide(scenario, ms)
        BY DEF Decide
      <4>2. /\ choice = [s \in Runs |-> choice[s]]
            /\ \A s \in Runs : "evidence" \in DOMAIN choice[s]
        OBVIOUS
      <4> HIDE DEF CoreType
      <4>3. QED
        BY <3>2, <4>1, <4>2, Replaced
    <3>3. choice' = choice \/ \E scenario, ms : choice' = [choice EXCEPT ![r] = Decide(scenario, ms)]
      BY <1>5 DEF RecallScenario
    <3>4. QED
      BY <3>1, <3>2, <3>3
  <2>3. UNCHANGED <<at, m, k, allPassed, exit>>
    BY <1>5 DEF RecallScenario
  <2>4. QED
    BY <1>5, <2>1, <2>2, <2>3 DEF RecallScenario
<1>6. ASSUME NEW r \in Runs, GetFeedback(r) PROVE CoreType'
  <2>1. pc' \in [Runs -> Requests]
    <3>1. pc' = [pc EXCEPT ![r] = "store"] \/ pc' = [pc EXCEPT ![r] = "recall"]
      BY <1>6 DEF GetFeedback
    <3>2. QED
      BY <3>1
  <2>2. m' \in [Runs -> Nat]
    <3>1. m' = m \/ m' = [m EXCEPT ![r] = m[r] + 1]
      BY <1>6 DEF GetFeedback
    <3>2. QED
      BY <3>1, Counted
  <2>3. QED
    BY <1>6, <2>1, <2>2 DEF GetFeedback
<1>7. ASSUME NEW r \in Runs, LinkMemory(r) PROVE CoreType'
  <2>1. linked' = [s \in Sessions |-> linked'[s]]
    BY <1>7 DEF LinkMemory, Linked
  <2>2. pc' \in [Runs -> Requests] /\ k' \in [Runs -> Nat]
    BY <1>7 DEF LinkMemory
  <2>3. QED
    BY <1>7, <2>1, <2>2 DEF LinkMemory
<1>8. ASSUME NEW r \in Runs, RecallAssociated(r) PROVE CoreType'
  BY <1>8 DEF RecallAssociated
<1>9. ASSUME NEW r \in Runs, RecallAgain(r) PROVE CoreType'
  BY <1>9 DEF RecallAgain
<1>10. ASSUME NEW r \in Runs, ListSession(r) PROVE CoreType'
  BY <1>10, ZenonT(20) DEF ListSession
<1>20. ASSUME NEW r \in Runs, AfterScenario(r)
       PROVE  /\ pc' \in [Runs -> Requests] /\ exit' \in [Runs -> {-1, 0, 1}]
              /\ at' \in [Runs -> Nat] /\ \A s \in Runs : at'[s] \in 1..Len(Fixture[s])
              /\ choice' = [s \in Runs |-> choice'[s]]
              /\ \A s \in Runs : "evidence" \in DOMAIN choice'[s]
  <2>1. \/ pc' = [pc EXCEPT ![r] = "start"] /\ exit' = exit
        \/ pc' = [pc EXCEPT ![r] = "exited"] /\ exit' \in {[exit EXCEPT ![r] = 1], [exit EXCEPT ![r] = 0]}
    BY <1>20 DEF AfterScenario
  <2>2. pc' \in [Runs -> Requests] /\ exit' \in [Runs -> {-1, 0, 1}]
    BY <2>1
  <2>3. at' = at \/ (at[r] < Len(Fixture[r]) /\ at' = [at EXCEPT ![r] = at[r] + 1])
    BY <1>20 DEF AfterScenario, HasMoreScenarios
  <2>4. \A s \in Runs : Len(Fixture[s]) \in Nat
    BY ProvenanceAssumption, LenProperties
  <2>5. at' \in [Runs -> Nat] /\ \A s \in Runs : at'[s] \in 1..Len(Fixture[s])
    <3> HIDE DEF CoreType
    <3>0. at \in [Runs -> Nat]
      BY DEF CoreType
    <3>1. at' \in [Runs -> Nat]
      BY <2>3, <3>0, Counted
    <3>2. ASSUME NEW s \in Runs PROVE at'[s] \in 1..Len(Fixture[s])
      <4>1. at'[s] = at[s] \/ (s = r /\ at[s] < Len(Fixture[s]) /\ at'[s] = at[s] + 1)
        BY <2>3, <3>0
      <4>2. at[s] \in 1..Len(Fixture[s]) /\ Len(Fixture[s]) \in Nat
        BY <2>4 DEF CoreType
      <4>3. QED
        BY <4>1, <4>2
    <3>3. QED
      BY <3>1, <3>2
  <2>6. choice' = [choice EXCEPT ![r] = NoChoice] /\ "evidence" \in DOMAIN NoChoice
    BY <1>20 DEF AfterScenario, NoChoice
  <2>7. QED
    BY <2>2, <2>5, <2>6
<1>11. ASSUME NEW r \in Runs, EndSession(r) PROVE CoreType'
  <2>1. session' \in [Sessions -> {"none", "open", "ended"}]
    BY <1>11, OwnIds DEF EndSession
  <2>2. QED
    BY <1>11, <1>20, <2>1 DEF EndSession
<1>12. ASSUME NEW r \in Runs, EndFails(r) PROVE CoreType'
  <2>1. session' \in [Sessions -> {"none", "open", "ended"}]
    BY <1>12, OwnIds DEF EndFails
  <2>2. faults' \in Seq([session : Sessions, request : Requests])
    BY <1>12, FaultType DEF EndFails
  <2>3. QED
    BY <1>12, <1>20, <2>1, <2>2 DEF EndFails
<1>13. ASSUME NEW r \in Runs, StoreMemory(r) PROVE CoreType'
  <2>1. Id(r, m[r]) \in Ids
    BY <1>13, OwnIds DEF InMemories, StoreMemory
  <2>2. stored' \in [Ids -> Nat]
    BY <1>13, <2>1 DEF StoreMemory, Stored
  <2>3. QED
    BY <1>13, <2>2 DEF StoreMemory
<1>14. ASSUME NEW r \in Runs, SignalReceived(r), pc[r] = "feedback",
              k[r] \in 1..Len(Source(Id(r, m[r])).feedback)
       PROVE  history' \in [Ids -> Seq(Signals)]
  <2> DEFINE id == Id(r, m[r])
  <2>1. id \in Ids /\ Source(id).feedback \in Seq(Signals)
    BY <1>14, OwnIds DEF InMemories
  <2>2. Source(id).feedback[k[r]] \in Signals
    BY <1>14, <2>1, ElementOfSeq
  <2>3. Append(history[id], Source(id).feedback[k[r]]) \in Seq(Signals)
    BY <2>1, <2>2, AppendProperties
  <2>4. history' = [history EXCEPT ![id] = Append(history[id], Source(id).feedback[k[r]])]
    BY <1>14 DEF SignalReceived
  <2> HIDE DEF id
  <2>5. QED
    BY <2>1, <2>3, <2>4
<1>15. ASSUME NEW r \in Runs, SubmitFeedback(r) PROVE CoreType'
  <2>1. history' \in [Ids -> Seq(Signals)]
    BY <1>14, <1>15 DEF SubmitFeedback, FeedbackInOrder
  <2>2. QED
    BY <1>15, <2>1 DEF SubmitFeedback
<1>16. ASSUME NEW r \in Runs, StoreTrace(r) PROVE CoreType'
  <2>1. stored' \in [Ids -> Nat]
    <3>1. stored' = [stored EXCEPT ![Id(r, Trace)] = stored[Id(r, Trace)] + 1]
      BY <1>16 DEF StoreTrace, Stored
    <3>2. Id(r, Trace) \in Ids
      BY OwnIds
    <3>3. stored \in [Ids -> Nat]
      OBVIOUS
    <3> HIDE DEF CoreType
    <3>4. QED
      BY <3>1, <3>2, <3>3, Counted
  <2>2. QED
    BY <1>16, <2>1 DEF StoreTrace
<1>17. ASSUME NEW r \in Runs, RequestFails(r) PROVE CoreType'
  <2>1. faults' \in Seq([session : Sessions, request : Requests])
    BY <1>17, FaultType DEF RequestFails
  <2>2. stored' \in [Ids -> Nat]
    <3>1. \/ stored' = stored
          \/ /\ pc[r] = "store"
             /\ stored' = [stored EXCEPT ![Id(r, m[r])] = stored[Id(r, m[r])] + 1]
          \/ stored' = [stored EXCEPT ![Id(r, Trace)] = stored[Id(r, Trace)] + 1]
      BY <1>17 DEF RequestFails, Stored
    <3>2. Id(r, Trace) \in Ids /\ (pc[r] = "store" => Id(r, m[r]) \in Ids)
      BY OwnIds DEF InMemories
    <3> HIDE DEF CoreType
    <3>3. stored \in [Ids -> Nat]
      BY DEF CoreType
    <3>4. CASE pc[r] = "store" /\ stored' = [stored EXCEPT ![Id(r, m[r])] = stored[Id(r, m[r])] + 1]
      BY <3>2, <3>3, <3>4, Counted
    <3>5. CASE stored' = [stored EXCEPT ![Id(r, Trace)] = stored[Id(r, Trace)] + 1]
      BY <3>2, <3>3, <3>5, Counted
    <3>6. QED
      BY <3>1, <3>3, <3>4, <3>5
  <2>3. history' \in [Ids -> Seq(Signals)]
    BY <1>14, <1>17 DEF RequestFails, FeedbackInOrder
  <2>4. linked' = [s \in Sessions |-> linked'[s]]
    BY <1>17 DEF RequestFails, Linked
  <2>5. session' = session
    BY <1>17 DEF RequestFails
  <2>6. QED
    BY <1>17, <2>1, <2>2, <2>3, <2>4, <2>5 DEF RequestFails
<1>18. ASSUME NEW r \in Runs, RecallFails(r) PROVE CoreType'
  <2>1. faults' \in Seq([session : Sessions, request : Requests])
    BY <1>18, FaultType DEF RecallFails
  <2>2. /\ pc' = [pc EXCEPT ![r] = "end"]
        /\ raised' \in {[raised EXCEPT ![r] = "TimeoutError"], [raised EXCEPT ![r] = "RuntimeError"]}
        /\ UNCHANGED <<engine, at, m, k, choice, allPassed, exit>>
    BY <1>18 DEF RecallFails
  <2>3. pc' \in [Runs -> Requests] /\ raised' \in [Runs -> Exceptions]
    BY <2>2
  <2>4. QED
    BY <2>1, <2>2, <2>3
<1>19. CASE UNCHANGED vars
  BY <1>19 DEF vars, program
<1>21. QED
  BY <1>1, <1>2, <1>3, <1>4, <1>5, <1>6, <1>7, <1>8, <1>9, <1>10, <1>11, <1>12, <1>13, <1>15,
     <1>16, <1>17, <1>18, <1>19 DEF Next, Step, AllExited

-----------------------------------------------------------------------------
(***************************************************************************)
(* What a step of a run may do.  The invariants follow from this, and not  *)
(* from the actions one by one.                                            *)
(***************************************************************************)

OthersStay(r) ==
    \A s \in Runs \ {r} :
        /\ pc'[s] = pc[s] /\ at'[s] = at[s] /\ m'[s] = m[s] /\ k'[s] = k[s]
        /\ raised'[s] = raised[s] /\ allPassed'[s] = allPassed[s] /\ exit'[s] = exit[s]
        /\ choice'[s] = choice[s]

\* The order of requests.
Moves(r) ==
    LET Go(from, to) == pc[r] = from /\ pc'[r] \in to
        AtStays == at'[r] = at[r]
        Stays == at'[r] = at[r] /\ m'[r] = m[r]
    IN \/ Go("health", {"health", "start", "exited"}) /\ AtStays
       \/ Go("start", {"exited"}) /\ AtStays
       \/ Go("start", {"store"}) /\ AtStays /\ m'[r] = 1
       \/ Go("store", {"feedback", "history", "end"}) /\ Stays
       \/ Go("feedback", {"feedback", "history", "end"}) /\ Stays
       \/ Go("history", {"recall", "end"}) /\ Stays
       \/ /\ Go("history", {"store"}) /\ AtStays
          /\ m[r] < Len(Scenario(r).memories) /\ m'[r] = m[r] + 1
       \/ Go("recall", {"recall", "trace", "end"}) /\ Stays
       \/ Go("trace", {"link", "end"}) /\ Stays
       \/ Go("link", {"link", "associated", "end"}) /\ Stays
       \/ Go("associated", {"associated", "list", "end"}) /\ Stays
       \/ Go("list", {"end"}) /\ Stays
       \/ Go("end", {"exited"}) /\ Stays
       \/ Go("end", {"start"}) /\ at'[r] = at[r] + 1

LEMMA StepMoves ==
    ASSUME CoreType, NEW r \in Runs, Step(r)
    PROVE  OthersStay(r) /\ Moves(r)
<1> USE DEF CoreType, Goto, Exit, Raise, OthersStay
<1>1. CASE Ready(r)
  <2>1. OthersStay(r)
    BY <1>1 DEF Ready
  <2>2. Moves(r)
    BY <1>1 DEF Ready, Moves
  <2>3. QED
    BY <2>1, <2>2
<1>2. CASE NotReady(r)
  <2>1. OthersStay(r)
    BY <1>2 DEF NotReady
  <2>2. Moves(r)
    BY <1>2 DEF NotReady, Moves
  <2>3. QED
    BY <2>1, <2>2
<1>3. CASE StartSession(r)
  <2>1. OthersStay(r)
    BY <1>3 DEF StartSession
  <2>2. Moves(r)
    BY <1>3 DEF StartSession, Moves
  <2>3. QED
    BY <2>1, <2>2
<1>4. CASE StartFails(r)
  <2>1. OthersStay(r)
    BY <1>4 DEF StartFails
  <2>2. Moves(r)
    BY <1>4 DEF StartFails, Moves
  <2>3. QED
    BY <2>1, <2>2
<1>5. CASE StoreMemory(r)
  <2>1. OthersStay(r)
    BY <1>5 DEF StoreMemory
  <2>2. Moves(r)
    BY <1>5 DEF StoreMemory, Moves
  <2>3. QED
    BY <2>1, <2>2
<1>6. CASE SubmitFeedback(r)
  <2>1. OthersStay(r)
    BY <1>6 DEF SubmitFeedback
  <2>2. Moves(r)
    BY <1>6 DEF SubmitFeedback, Moves
  <2>3. QED
    BY <2>1, <2>2
<1>7. CASE GetFeedback(r)
  <2>1. OthersStay(r)
    BY <1>7 DEF GetFeedback
  <2>2. Moves(r)
    BY <1>7 DEF GetFeedback, Moves
  <2>3. QED
    BY <2>1, <2>2
<1>8. CASE RecallScenario(r)
  <2>1. OthersStay(r)
    BY <1>8 DEF RecallScenario
  <2>2. Moves(r)
    BY <1>8 DEF RecallScenario, Moves
  <2>3. QED
    BY <2>1, <2>2
<1>9. CASE StoreTrace(r)
  <2>1. OthersStay(r)
    BY <1>9 DEF StoreTrace
  <2>2. Moves(r)
    BY <1>9 DEF StoreTrace, Moves
  <2>3. QED
    BY <2>1, <2>2
<1>10. CASE LinkMemory(r)
  <2>1. OthersStay(r)
    BY <1>10 DEF LinkMemory
  <2>2. Moves(r)
    BY <1>10 DEF LinkMemory, Moves
  <2>3. QED
    BY <2>1, <2>2
<1>11. CASE RecallAssociated(r)
  <2>1. OthersStay(r)
    BY <1>11 DEF RecallAssociated
  <2>2. Moves(r)
    BY <1>11 DEF RecallAssociated, Moves
  <2>3. QED
    BY <2>1, <2>2
<1>12. CASE RecallAgain(r)
  <2>1. OthersStay(r)
    BY <1>12 DEF RecallAgain
  <2>2. Moves(r)
    BY <1>12 DEF RecallAgain, Moves
  <2>3. QED
    BY <2>1, <2>2
<1>13. CASE ListSession(r)
  <2>1. OthersStay(r)
    BY <1>13 DEF ListSession
  <2>2. Moves(r)
    BY <1>13 DEF ListSession, Moves
  <2>3. QED
    BY <2>1, <2>2
<1>14. CASE RequestFails(r)
  <2>1. OthersStay(r)
    BY <1>14 DEF RequestFails
  <2>2. Moves(r)
    BY <1>14 DEF RequestFails, Moves
  <2>3. QED
    BY <2>1, <2>2
<1>15. CASE RecallFails(r)
  <2>1. OthersStay(r)
    BY <1>15 DEF RecallFails
  <2>2. Moves(r)
    BY <1>15 DEF RecallFails, Moves
  <2>3. QED
    BY <2>1, <2>2
<1>16. CASE EndSession(r)
  <2>1. OthersStay(r)
    BY <1>16 DEF EndSession, AfterScenario, HasMoreScenarios
  <2>2. Moves(r)
    BY <1>16 DEF EndSession, AfterScenario, HasMoreScenarios, Moves
  <2>3. QED
    BY <2>1, <2>2
<1>17. CASE EndFails(r)
  <2>1. OthersStay(r)
    BY <1>17 DEF EndFails, AfterScenario, HasMoreScenarios
  <2>2. Moves(r)
    BY <1>17 DEF EndFails, AfterScenario, HasMoreScenarios, Moves
  <2>3. QED
    BY <2>1, <2>2
<1>18. QED
  BY <1>1, <1>2, <1>3, <1>4, <1>5, <1>6, <1>7, <1>8, <1>9, <1>10, <1>11, <1>12, <1>13, <1>14, <1>15, <1>16, <1>17 DEF Step

\* Runs only go forward.
LEMMA Progress ==
    ASSUME CoreType, NEW r \in Runs, OthersStay(r), Moves(r),
           NEW s \in Runs, NEW n \in Nat, NEW pos \in Nat
    PROVE  /\ Begun(s, n) => Begun(s, n)'
           /\ TraceSent(s, n) => TraceSent(s, n)'
           /\ Reached(s, n, pos) => Reached(s, n, pos)'
<1>1. at[s] \in Nat /\ m[s] \in Nat /\ pc[s] \in Requests
  BY DEF CoreType
<1>2. CASE s # r
  BY <1>2 DEF OthersStay, Begun, TraceSent, Reached
<1>3. CASE s = r
  BY <1>1, <1>3 DEF Moves, Begun, TraceSent, Reached
<1>4. QED
  BY <1>2, <1>3

LEMMA InMemoriesStep ==
    ASSUME CoreType, CoreType', InMemories, NEW r \in Runs, OthersStay(r), Moves(r)
    PROVE  InMemories'
<1> SUFFICES ASSUME NEW s \in Runs, pc'[s] \in {"store", "feedback", "history"}
             PROVE  m'[s] \in DOMAIN Fixture[s][at'[s]].memories
  BY DEF InMemories, Scenario
<1>1. <<s, at[s]>> \in Sessions /\ <<s, at'[s]>> \in Sessions
  BY SessionShape DEF CoreType
<1>2. /\ MemoriesIn(<<s, at[s]>>) = Fixture[s][at[s]].memories
      /\ MemoriesIn(<<s, at'[s]>>) = Fixture[s][at'[s]].memories
  BY DEF MemoriesIn
<1>3. /\ DOMAIN Fixture[s][at[s]].memories = 1..Len(Fixture[s][at[s]].memories)
      /\ Len(Fixture[s][at[s]].memories) \in Nat
      /\ DOMAIN Fixture[s][at'[s]].memories = 1..Len(Fixture[s][at'[s]].memories)
      /\ Len(Fixture[s][at'[s]].memories) \in Nat \ {0}
  BY <1>1, <1>2, MemoriesShape
<1>4. pc[s] \in {"store", "feedback", "history"} => m[s] \in DOMAIN Fixture[s][at[s]].memories
  BY DEF InMemories, Scenario
<1>5. CASE s # r
  BY <1>4, <1>5 DEF OthersStay
<1>6. CASE s = r
  <2>1. \/ at'[r] = at[r] /\ m'[r] = 1
        \/ at'[r] = at[r] /\ m'[r] = m[r] /\ pc[r] \in {"store", "feedback", "history"}
        \/ /\ at'[r] = at[r] /\ m'[r] = m[r] + 1 /\ pc[r] = "history"
           /\ m[r] < Len(Fixture[r][at[r]].memories)
    BY <1>6 DEF Moves, Scenario
  <2>2. QED
    BY <1>3, <1>4, <1>6, <2>1
<1>7. QED
  BY <1>5, <1>6

-----------------------------------------------------------------------------
(***************************************************************************)
(* Stores and feedback                                                     *)
(***************************************************************************)

\* What a step of run r may store, or give as feedback.
Sends(r) ==
    /\ \/ stored' = stored
       \/ /\ pc[r] = "store" /\ pc'[r] \in {"feedback", "history", "end"} /\ at'[r] = at[r] /\ m'[r] = m[r]
          /\ stored' = [stored EXCEPT ![Id(r, m[r])] = stored[Id(r, m[r])] + 1]
       \/ /\ pc[r] = "trace" /\ pc'[r] \in {"link", "end"} /\ at'[r] = at[r]
          /\ stored' = [stored EXCEPT ![Id(r, Trace)] = stored[Id(r, Trace)] + 1]
    /\ \/ history' = history
       \/ /\ pc[r] = "feedback" /\ SignalReceived(r) /\ at'[r] = at[r] /\ m'[r] = m[r]
          /\ pc'[r] \in {"history", "end"} \/ (pc'[r] = "feedback" /\ k'[r] = k[r] + 1)
    /\ pc'[r] = "feedback" =>
         \/ /\ pc[r] = "store" /\ at'[r] = at[r] /\ m'[r] = m[r] /\ k'[r] = 1 /\ history' = history
            /\ Source(Id(r, m[r])).feedback # <<>>
         \/ /\ pc[r] = "feedback" /\ SignalReceived(r) /\ at'[r] = at[r] /\ m'[r] = m[r] /\ k'[r] = k[r] + 1
            /\ k[r] < Len(Source(Id(r, m[r])).feedback)

LEMMA StepSends ==
    ASSUME CoreType, NEW r \in Runs, Step(r)
    PROVE  Sends(r)
<1> USE DEF CoreType, Goto, Exit, Raise, Sends, engine, Stored
<1>1. CASE Ready(r)
  BY <1>1 DEF Ready
<1>2. CASE NotReady(r)
  BY <1>2 DEF NotReady
<1>3. CASE StartSession(r)
  BY <1>3 DEF StartSession
<1>4. CASE StartFails(r)
  BY <1>4 DEF StartFails
<1>5. CASE StoreMemory(r)
  BY <1>5 DEF StoreMemory
<1>6. CASE SubmitFeedback(r)
  BY <1>6 DEF SubmitFeedback
<1>7. CASE GetFeedback(r)
  BY <1>7 DEF GetFeedback
<1>8. CASE RecallScenario(r)
  BY <1>8 DEF RecallScenario
<1>9. CASE StoreTrace(r)
  BY <1>9 DEF StoreTrace
<1>10. CASE LinkMemory(r)
  BY <1>10 DEF LinkMemory
<1>11. CASE RecallAssociated(r)
  BY <1>11 DEF RecallAssociated
<1>12. CASE RecallAgain(r)
  BY <1>12 DEF RecallAgain
<1>13. CASE ListSession(r)
  BY <1>13 DEF ListSession
<1>14. CASE RequestFails(r)
  BY <1>14 DEF RequestFails
<1>15. CASE RecallFails(r)
  BY <1>15 DEF RecallFails
<1>16. CASE EndSession(r)
  BY <1>16 DEF EndSession, AfterScenario
<1>17. CASE EndFails(r)
  BY <1>17 DEF EndFails, AfterScenario
<1>18. QED
  BY <1>1, <1>2, <1>3, <1>4, <1>5, <1>6, <1>7, <1>8, <1>9, <1>10, <1>11, <1>12, <1>13, <1>14, <1>15, <1>16, <1>17 DEF Step

LEMMA SentInOrderStep ==
    ASSUME CoreType, CoreType', InMemories, SentInOrder, NEW r \in Runs,
           OthersStay(r), Moves(r), Sends(r)
    PROVE  SentInOrder'
<1> SUFFICES ASSUME NEW id \in Ids
             PROVE  LET s == id.session[1]
                        n == id.session[2]
                    IN /\ stored'[id] <= 1
                       /\ stored'[id] # 0 => IF id.pos = Trace THEN TraceSent(s, n)' ELSE Reached(s, n, id.pos)'
                       /\ history'[id] # <<>> => id.pos # Trace /\ Reached(s, n, id.pos)'
  BY DEF SentInOrder
<1> DEFINE s == id.session[1]
           n == id.session[2]
<1>1. s \in Runs /\ n \in Nat /\ id.session = <<s, n>> /\ id.pos \in Nat
  BY IdShape, SessionShape
<1>2. /\ TraceSent(s, n) => TraceSent(s, n)'
      /\ Reached(s, n, id.pos) => Reached(s, n, id.pos)'
  BY <1>1, Progress
<1>3. /\ stored[id] <= 1 /\ stored[id] \in Nat
      /\ stored[id] # 0 => IF id.pos = Trace THEN TraceSent(s, n) ELSE Reached(s, n, id.pos)
      /\ history[id] # <<>> => id.pos # Trace /\ Reached(s, n, id.pos)
  BY DEF SentInOrder, CoreType
<1>4. /\ \A p : Id(r, p) = id => s = r /\ n = at[r] /\ id.pos = p
      /\ Id(r, Trace) \in Ids
      /\ pc[r] \in {"store", "feedback", "history"} => Id(r, m[r]) \in Ids /\ m[r] \in Nat \ {0}
  BY OwnIds DEF InMemories
<1> HIDE DEF s, n
<1>5. stored'[id] <= 1 /\ (stored'[id] # 0 => IF id.pos = Trace THEN TraceSent(s, n)' ELSE Reached(s, n, id.pos)')
  <2>1. CASE stored'[id] = stored[id]
    BY <1>2, <1>3, <2>1
  <2>2. CASE /\ pc[r] = "store" /\ pc'[r] \in {"feedback", "history", "end"} /\ at'[r] = at[r] /\ m'[r] = m[r]
             /\ id = Id(r, m[r]) /\ stored'[id] = stored[id] + 1
    <3>1. s = r /\ n = at[r] /\ id.pos = m[r] /\ id.pos # Trace /\ m[r] \in Nat
      BY <1>4, <2>2 DEF Trace
    <3>2. stored[id] = 0
      BY <1>3, <2>2, <3>1 DEF Reached
    <3>3. Reached(s, n, id.pos)'
      BY <2>2, <3>1 DEF Reached, Begun
    <3>4. QED
      BY <2>2, <3>1, <3>2, <3>3
  <2>3. CASE /\ pc[r] = "trace" /\ pc'[r] \in {"link", "end"} /\ at'[r] = at[r]
             /\ id = Id(r, Trace) /\ stored'[id] = stored[id] + 1
    <3>1. s = r /\ n = at[r] /\ id.pos = Trace /\ n \in Nat
      BY <1>1, <1>4, <2>3
    <3>2. stored[id] = 0
      BY <1>3, <2>3, <3>1 DEF TraceSent
    <3>3. TraceSent(s, n)'
      BY <2>3, <3>1 DEF TraceSent
    <3>4. QED
      BY <2>3, <3>1, <3>2, <3>3
  <2>4. stored \in [Ids -> Nat]
    BY DEF CoreType
  <2>5. CASE /\ pc[r] = "store" /\ pc'[r] \in {"feedback", "history", "end"} /\ at'[r] = at[r] /\ m'[r] = m[r]
             /\ stored' = [stored EXCEPT ![Id(r, m[r])] = stored[Id(r, m[r])] + 1]
    <3>1. stored'[id] = stored[id] \/ (id = Id(r, m[r]) /\ stored'[id] = stored[id] + 1)
      BY <2>4, <2>5
    <3>2. QED
      BY <2>1, <2>2, <2>5, <3>1
  <2>6. CASE /\ pc[r] = "trace" /\ pc'[r] \in {"link", "end"} /\ at'[r] = at[r]
             /\ stored' = [stored EXCEPT ![Id(r, Trace)] = stored[Id(r, Trace)] + 1]
    <3>1. stored'[id] = stored[id] \/ (id = Id(r, Trace) /\ stored'[id] = stored[id] + 1)
      BY <2>4, <2>6
    <3>2. QED
      BY <2>1, <2>3, <2>6, <3>1
  <2>7. QED
    BY <2>1, <2>5, <2>6 DEF Sends
<1>6. history'[id] # <<>> => id.pos # Trace /\ Reached(s, n, id.pos)'
  <2>1. CASE history'[id] = history[id]
    BY <1>2, <1>3, <2>1
  <2>2. CASE history'[id] # history[id]
    <3>1. /\ pc[r] = "feedback" /\ SignalReceived(r) /\ at'[r] = at[r] /\ m'[r] = m[r]
          /\ pc'[r] \in {"history", "end", "feedback"}
      BY <2>2 DEF Sends
    <3>2. id = Id(r, m[r])
      BY <1>4, <2>2, <3>1 DEF SignalReceived, CoreType
    <3>3. s = r /\ n = at[r] /\ id.pos = m[r] /\ id.pos # Trace /\ m[r] \in Nat
      BY <1>4, <3>1, <3>2 DEF Trace
    <3>4. QED
      BY <3>1, <3>3 DEF Reached, Begun
  <2>3. QED
    BY <2>1, <2>2
<1>7. QED
  BY <1>5, <1>6 DEF s, n

LEMMA FeedbackInOrderStep ==
    ASSUME CoreType, CoreType', InMemories, SentInOrder, FeedbackInOrder, NEW r \in Runs,
           OthersStay(r), Moves(r), Sends(r)
    PROVE  FeedbackInOrder'
<1> DEFINE own == Id(r, m[r])
           given == Source(own).feedback
<1>1. pc[r] \in {"store", "feedback"} =>
        own \in Ids /\ own.pos # Trace /\ given \in Seq(Signals) /\ history[own] \in Seq(Signals)
  <2>1. SUFFICES ASSUME pc[r] \in {"store", "feedback"}
                 PROVE  own \in Ids /\ own.pos # Trace /\ given \in Seq(Signals)
                        /\ history[own] \in Seq(Signals)
    OBVIOUS
  <2>2. m[r] \in DOMAIN Scenario(r).memories
    BY <2>1 DEF InMemories
  <2>3. own \in Ids /\ own.pos = m[r] /\ m[r] \in Nat \ {0} /\ given \in Seq(Signals)
    BY <2>2, OwnIds
  <2>4. history[own] \in Seq(Signals)
    BY <2>3 DEF CoreType
  <2>5. QED
    BY <2>3, <2>4 DEF Trace
<1>2. CASE history' # history
  <2>1. pc[r] = "feedback" /\ SignalReceived(r)
    BY <1>2 DEF Sends
  <2>2. /\ k[r] \in 1..Len(given) /\ Len(history[own]) = k[r] - 1
        /\ IsPrefixOf(history[own], given)
    BY <1>1, <2>1 DEF FeedbackInOrder
  <2>3. /\ history'[own] = Append(history[own], given[k[r]])
        /\ \A id \in Ids : id # own => history'[id] = history[id]
    BY <1>1, <2>1 DEF SignalReceived, CoreType
  <2>4. given[k[r]] \in Signals /\ Len(given) \in Nat /\ k[r] \in Nat
    BY <1>1, <2>1, <2>2, ElementOfSeq, LenProperties
  <2> HIDE DEF own, given
  <2>5. /\ Len(history'[own]) = k[r]
        /\ \A j \in 1..k[r] : history'[own][j] = IF j = k[r] THEN given[k[r]] ELSE history[own][j]
    <3>1. history[own] \in Seq(Signals) /\ history'[own] = Append(history[own], given[k[r]])
      BY <1>1, <2>1, <2>3
    <3>2. /\ Len(history'[own]) = Len(history[own]) + 1
          /\ \A j \in 1..Len(history[own]) : history'[own][j] = history[own][j]
          /\ history'[own][Len(history[own]) + 1] = given[k[r]]
      BY <2>4, <3>1, AppendProperties
    <3>3. QED
      BY <2>2, <2>4, <3>2
  <2>6. IsPrefixOf(history'[own], given)
    <3>1. ASSUME NEW j \in 1..k[r] PROVE history'[own][j] = given[j]
      <4>1. CASE j = k[r]
        BY <2>5, <4>1
      <4>2. CASE j # k[r]
        <5>1. j \in 1..Len(history[own])
          BY <2>2, <2>4, <4>2
        <5>2. QED
          BY <2>2, <2>5, <4>2, <5>1 DEF IsPrefixOf
      <4>3. QED
        BY <4>1, <4>2
    <3>2. QED
      BY <2>2, <2>4, <2>5, <3>1 DEF IsPrefixOf
  <2>7. \A id \in Ids : id.pos # Trace => IsPrefixOf(history'[id], Source(id).feedback)
    BY <2>3, <2>6 DEF FeedbackInOrder, given
  <2>8. ASSUME NEW s \in Runs, pc'[s] = "feedback"
        PROVE  /\ k'[s] \in 1..Len(Source(Id(s, m[s])').feedback)
               /\ Len(history'[Id(s, m[s])']) = k'[s] - 1
    <3>1. CASE s = r
      <4>1. /\ at'[r] = at[r] /\ m'[r] = m[r] /\ k'[r] = k[r] + 1
            /\ k[r] < Len(given)
        BY <2>1, <2>8, <3>1 DEF Sends, own, given
      <4>2. Id(s, m[s])' = own
        BY <3>1, <4>1 DEF Id, SessionOf, own
      <4>3. QED
        BY <2>4, <2>5, <3>1, <4>1, <4>2 DEF given
    <3>2. CASE s # r
      <4>1. Id(s, m[s])' = Id(s, m[s]) /\ pc[s] = "feedback" /\ k'[s] = k[s]
        BY <2>8, <3>2 DEF OthersStay, Id, SessionOf
      <4>2. Id(s, m[s]) \in Ids /\ Id(s, m[s]).session = <<s, at[s]>>
        BY <4>1, OwnIds DEF InMemories
      <4>3. Id(s, m[s]) # own
        BY <3>2, <4>2, OwnIds DEF own
      <4>4. QED
        BY <2>3, <4>1, <4>2, <4>3 DEF FeedbackInOrder
    <3>3. QED
      BY <3>1, <3>2
  <2>9. QED
    BY <2>7, <2>8 DEF FeedbackInOrder
<1>3. CASE history' = history
  <2>1. ASSUME NEW s \in Runs, pc'[s] = "feedback"
        PROVE  /\ k'[s] \in 1..Len(Source(Id(s, m[s])').feedback)
               /\ Len(history'[Id(s, m[s])']) = k'[s] - 1
    <3>1. CASE s # r
      <4>1. Id(s, m[s])' = Id(s, m[s]) /\ pc[s] = "feedback" /\ k'[s] = k[s]
        BY <2>1, <3>1 DEF OthersStay, Id, SessionOf
      <4>2. QED
        BY <1>3, <4>1 DEF FeedbackInOrder
    <3>2. CASE s = r /\ pc[r] = "feedback"
      <4>1. /\ k[r] \in 1..Len(given) /\ Len(history[own]) = k[r] - 1
        BY <1>1, <3>2 DEF FeedbackInOrder
      <4>2. history'[own] = Append(history[own], given[k[r]])
        BY <1>1, <2>1, <3>2 DEF Sends, SignalReceived, CoreType
      <4>3. given[k[r]] \in Signals
        BY <1>1, <3>2, <4>1, ElementOfSeq
      <4> HIDE DEF own, given
      <4>4. Len(history'[own]) = Len(history[own]) + 1 /\ Len(history[own]) \in Nat
        BY <1>1, <3>2, <4>2, <4>3, AppendProperties, LenProperties
      <4>5. QED
        BY <1>3, <4>4
    <3>3. CASE s = r /\ pc[r] # "feedback"
      <4>1. /\ pc[r] = "store" /\ at'[r] = at[r] /\ m'[r] = m[r] /\ k'[r] = 1
            /\ given # <<>>
        BY <2>1, <3>3 DEF Sends
      <4>2. Id(s, m[s])' = own
        BY <3>3, <4>1 DEF Id, SessionOf
      <4>3. own.pos = m[r] /\ own.session = <<r, at[r]>> /\ m[r] \in Nat
        <5>1. m[r] \in Nat
          BY DEF CoreType
        <5>2. own.pos = m[r] /\ own.session = <<r, at[r]>>
          BY OwnIds
        <5>3. QED
          BY <5>1, <5>2
      <4>4. history[own] = <<>>
        BY <1>1, <4>1, <4>3 DEF SentInOrder, Reached
      <4>5. Len(given) \in Nat \ {0} /\ Len(<<>>) = 0
        BY <1>1, <4>1, EmptySeq
      <4> HIDE DEF own
      <4>6. QED
        BY <1>3, <3>3, <4>1, <4>2, <4>4, <4>5
    <3>4. QED
      BY <3>1, <3>2, <3>3
  <2>2. QED
    BY <1>3, <2>1 DEF FeedbackInOrder
<1>4. QED
  BY <1>2, <1>3

LEMMA SentInvInit == Init => SentInv
<1> SUFFICES ASSUME Init PROVE SentInv
  OBVIOUS
<1>1. CoreType
  BY CoreTypeInit
<1>2. InMemories
  BY DEF Init, InMemories
<1>3. SentInOrder
  BY DEF Init, SentInOrder
<1>4. FeedbackInOrder
  <2>1. ASSUME NEW id \in Ids, id.pos # Trace
        PROVE  IsPrefixOf(history[id], Source(id).feedback)
    <3>1. Source(id).feedback \in Seq(Signals)
      BY <2>1, IdShape, MemoriesShape DEF Source
    <3>2. Len(Source(id).feedback) \in Nat /\ history[id] = <<>> /\ Len(<<>>) = 0
      BY <3>1, LenProperties, EmptySeq DEF Init
    <3>3. QED
      BY <3>2 DEF IsPrefixOf
  <2>2. QED
    BY <2>1 DEF Init, FeedbackInOrder
<1>5. QED
  BY <1>1, <1>2, <1>3, <1>4 DEF SentInv

LEMMA SentInvStep == SentInv /\ [Next]_vars => SentInv'
<1> SUFFICES ASSUME SentInv, [Next]_vars PROVE SentInv'
  OBVIOUS
<1>1. CoreType'
  BY CoreTypeStep
<1>2. ASSUME NEW r \in Runs, Step(r) PROVE SentInv'
  <2>1. OthersStay(r) /\ Moves(r) /\ Sends(r)
    BY <1>2, StepMoves, StepSends DEF SentInv
  <2>2. InMemories' /\ SentInOrder' /\ FeedbackInOrder'
    BY <1>1, <2>1, InMemoriesStep, SentInOrderStep, FeedbackInOrderStep DEF SentInv
  <2>3. QED
    BY <1>1, <2>2 DEF SentInv
<1>3. CASE UNCHANGED vars
  <2>1. InMemories'
    BY <1>3 DEF SentInv, InMemories, Scenario, vars, program
  <2>2. SentInOrder'
    BY <1>3 DEF SentInv, SentInOrder, TraceSent, Reached, Begun, vars, program, engine
  <2>3. FeedbackInOrder'
    BY <1>3 DEF SentInv, FeedbackInOrder, Id, SessionOf, vars, program, engine
  <2>4. QED
    BY <1>1, <2>1, <2>2, <2>3 DEF SentInv
<1>4. QED
  BY <1>2, <1>3 DEF Next, AllExited

(* For every fixture, every number of runs that share an agent id, and any   *)
(* number of failures: a store or a signal of feedback reaches the engine at *)
(* most once, and the feedback of a memory in the fixture's order            *)
(* (store_memory, submit_feedback, store_decision_trace).                    *)
THEOREM NothingIsSentTwice == Spec => []NothingSentTwice
<1>1. SentInv => NothingSentTwice
  <2> SUFFICES ASSUME SentInv, NEW id \in Ids
               PROVE  /\ stored[id] <= 1
                      /\ id.pos # Trace => /\ Len(history[id]) <= Len(Source(id).feedback)
                                           /\ \A n \in DOMAIN history[id] :
                                                 history[id][n] = Source(id).feedback[n]
    BY DEF NothingSentTwice
  <2>1. stored[id] <= 1
    BY DEF SentInv, SentInOrder
  <2>2. history[id] \in Seq(Signals) /\ DOMAIN history[id] = 1..Len(history[id])
    BY LenProperties DEF SentInv, CoreType
  <2>3. id.pos # Trace => IsPrefixOf(history[id], Source(id).feedback)
    BY DEF SentInv, FeedbackInOrder
  <2>4. QED
    BY <2>1, <2>2, <2>3 DEF IsPrefixOf
<1>2. QED
  BY <1>1, SentInvInit, SentInvStep, PTL DEF Spec

-----------------------------------------------------------------------------
(***************************************************************************)
(* Sessions and exceptions                                                 *)
(***************************************************************************)

FaultNoted(r) ==
    \E n \in DOMAIN faults' : faults'[n] = [session |-> SessionOf(r), request |-> pc[r]]

FaultsKept == \A n \in DOMAIN faults : n \in DOMAIN faults' /\ faults'[n] = faults[n]

\* What a step of run r may do to its session, and what it may raise.
Guards(r) ==
    /\ \/ session' = session
       \/ /\ pc[r] = "start" /\ pc'[r] \in {"store", "exited"}
          /\ session' = [session EXCEPT ![SessionOf(r)] = "open"]
       \/ pc[r] = "end" /\ session' = [session EXCEPT ![SessionOf(r)] = "ended"]
    /\ pc'[r] = "store" /\ pc[r] = "start" => session'[SessionOf(r)] # "none"
    /\ pc[r] = "end" => FaultNoted(r) \/ session'[SessionOf(r)] = "ended"
    /\ pc[r] = "start" /\ pc'[r] = "exited" => FaultNoted(r) /\ faults' # <<>>
    /\ FaultsKept
    /\ faults' = <<>> => faults = <<>>
    /\ \/ raised'[r] = raised[r]
       \/ pc[r] \in {"health", "start"} /\ pc'[r] = "exited" /\ (pc[r] = "start" => faults' # <<>>)
       \/ pc'[r] = "end" /\ (raised'[r] = "AssertionError" \/ faults' # <<>>)
    /\ pc[r] = "end" /\ pc'[r] = "start" => raised[r] = "none"

LEMMA StepGuards ==
    ASSUME CoreType, NEW r \in Runs, Step(r)
    PROVE  Guards(r)
<1> USE DEF CoreType, Goto, Exit, Raise, Guards, engine, FaultsKept
<1>1. CASE Ready(r)
  BY <1>1 DEF Ready
<1>2. CASE NotReady(r)
  BY <1>2 DEF NotReady
<1>3. CASE StartSession(r)
  BY <1>3, OwnIds DEF StartSession
<1>4. CASE StartFails(r)
  <2>1. FaultNoted(r) /\ FaultsKept /\ faults' # <<>>
    BY <1>4, FaultType DEF StartFails, FaultNoted
  <2>2. QED
    BY <1>4, <2>1 DEF StartFails
<1>5. CASE StoreMemory(r)
  BY <1>5 DEF StoreMemory
<1>6. CASE SubmitFeedback(r)
  BY <1>6 DEF SubmitFeedback
<1>7. CASE GetFeedback(r)
  BY <1>7 DEF GetFeedback
<1>8. CASE RecallScenario(r)
  BY <1>8 DEF RecallScenario
<1>9. CASE StoreTrace(r)
  BY <1>9 DEF StoreTrace
<1>10. CASE LinkMemory(r)
  BY <1>10 DEF LinkMemory
<1>11. CASE RecallAssociated(r)
  BY <1>11 DEF RecallAssociated
<1>12. CASE RecallAgain(r)
  BY <1>12 DEF RecallAgain
<1>13. CASE ListSession(r)
  BY <1>13 DEF ListSession
<1>14. CASE RequestFails(r)
  <2>1. FaultNoted(r) /\ FaultsKept /\ faults' # <<>>
    BY <1>14, FaultType DEF RequestFails, FaultNoted
  <2>2. QED
    BY <1>14, <2>1 DEF RequestFails
<1>15. CASE RecallFails(r)
  <2>1. FaultNoted(r) /\ FaultsKept /\ faults' # <<>>
    BY <1>15, FaultType DEF RecallFails, FaultNoted
  <2>2. QED
    BY <1>15, <2>1 DEF RecallFails
<1>16. CASE EndSession(r)
  BY <1>16, OwnIds DEF EndSession, AfterScenario
<1>17. CASE EndFails(r)
  <2>1. FaultNoted(r) /\ FaultsKept /\ faults' # <<>>
    BY <1>17, FaultType DEF EndFails, FaultNoted
  <2>2. QED
    BY <1>17, <2>1 DEF EndFails, AfterScenario
<1>18. QED
  BY <1>1, <1>2, <1>3, <1>4, <1>5, <1>6, <1>7, <1>8, <1>9, <1>10, <1>11, <1>12, <1>13, <1>14, <1>15, <1>16, <1>17 DEF Step

LEMMA SessionInvStep ==
    ASSUME SessionInv, SentInv', NEW r \in Runs, OthersStay(r), Moves(r), Guards(r)
    PROVE  SessionInv'
<1> USE DEF SessionInv
<1>1. CoreType /\ CoreType'
  BY DEF SentInv
<1>2. ASSUME NEW s \in Sessions
      PROVE  /\ s = <<s[1], s[2]>> /\ s[1] \in Runs /\ s[2] \in Nat
             /\ Begun(s[1], s[2]) => Begun(s[1], s[2])'
             /\ s = SessionOf(r) => s[1] = r /\ s[2] = at[r]
  BY <1>1, SessionShape, Progress DEF SessionOf
<1>3. /\ SessionOf(r) \in Sessions
      /\ \A s \in Sessions : s # SessionOf(r) => session'[s] = session[s]
  BY <1>1, OwnIds DEF Guards, CoreType
<1>4. SessionsInOrder'
  <2>1. ASSUME NEW s \in Sessions, session'[s] # "none" PROVE Begun(s[1], s[2])'
    <3>1. CASE session[s] # "none"
      BY <1>2, <3>1 DEF SessionsInOrder
    <3>2. CASE session[s] = "none"
      <4>1. s = SessionOf(r) /\ pc[r] \in {"start", "end"} /\ (pc[r] = "start" => pc'[r] \in {"store", "exited"})
        BY <1>3, <2>1, <3>2 DEF Guards
      <4>2. at[r] \in Nat /\ (at'[r] = at[r] \/ at'[r] = at[r] + 1)
            /\ (pc'[r] = "start" => at'[r] = at[r] + 1) /\ pc'[r] # "health"
        BY <1>1, <4>1 DEF Moves, CoreType
      <4>3. QED
        BY <1>2, <4>1, <4>2 DEF Begun
    <3>3. QED
      BY <3>1, <3>2
  <2>2. ASSUME NEW s \in Runs, raised'[s] # "none" PROVE pc'[s] \in {"end", "exited"}
    BY <2>2 DEF SessionsInOrder, OthersStay, Moves, Guards
  <2>3. ASSUME NEW s \in Runs, pc'[s] = "health" PROVE at'[s] = 1
    BY <2>3 DEF SessionsInOrder, OthersStay, Moves
  <2>4. ASSUME NEW s \in Runs, pc'[s] \notin {"health", "start", "exited"}
        PROVE  session'[SessionOf(s)'] # "none"
    <3>1. (pc'[s] = pc[s] /\ at'[s] = at[s]) \/ s = r
      BY DEF OthersStay
    <3>2. /\ at'[s] = at[s]
          /\ \/ pc[s] \notin {"health", "start", "exited"}
             \/ s = r /\ pc[r] = "start" /\ pc'[r] = "store"
      <4>1. CASE s = r
        BY <2>4, <4>1 DEF Moves
      <4>2. QED
        BY <2>4, <3>1, <4>1
    <3>3. SessionOf(s)' = SessionOf(s) /\ SessionOf(s) \in Sessions
      <4>1. SessionOf(s)' = SessionOf(s)
        BY <3>2 DEF SessionOf
      <4>2. SessionOf(s) \in Sessions
        BY <1>1, OwnIds
      <4>3. QED
        BY <4>1, <4>2
    <3>4. CASE s = r /\ pc[r] = "start" /\ pc'[r] = "store"
      BY <3>3, <3>4 DEF Guards
    <3>5. CASE pc[s] \notin {"health", "start", "exited"}
      <4>1. session[SessionOf(s)] # "none"
        BY <3>5 DEF SessionsInOrder
      <4>2. QED
        BY <1>1, <1>3, <3>3, <4>1 DEF Guards, CoreType
    <3>6. QED
      BY <3>2, <3>4, <3>5
  <2>5. QED
    BY <2>1, <2>2, <2>3, <2>4 DEF SessionsInOrder
<1>5. OpenSessionsExplained'
  <2> SUFFICES ASSUME NEW s \in Sessions, session'[s] = "open",
                      at'[s[1]] > s[2] \/ pc'[s[1]] = "exited"
               PROVE  \E n \in DOMAIN faults' : faults'[n].session = s /\ faults'[n].request \in {"start", "end"}
    BY DEF OpenSessionsExplained
  <2>1. CASE session[s] = "open" /\ (at[s[1]] > s[2] \/ pc[s[1]] = "exited")
    BY <2>1 DEF OpenSessionsExplained, Guards, FaultsKept
  <2>2. CASE ~(session[s] = "open" /\ (at[s[1]] > s[2] \/ pc[s[1]] = "exited"))
    <3>1. s[1] = r
      <4>1. CASE s # SessionOf(r) /\ s[1] # r
        BY <1>2, <1>3, <2>2, <4>1 DEF OthersStay
      <4>2. QED
        BY <1>2, <4>1
    <3>2. /\ at[r] \in Nat /\ at'[r] \in {at[r], at[r] + 1}
          /\ at'[r] = at[r] + 1 => pc[r] = "end"
          /\ pc'[r] = "exited" => pc[r] \in {"health", "start", "end"}
          /\ pc[r] # "exited"
      <4>1. at[r] \in Nat
        BY <1>1 DEF CoreType
      <4>2. /\ at'[r] \in {at[r], at[r] + 1}
            /\ pc'[r] = "exited" => pc[r] \in {"health", "start", "end"}
            /\ pc[r] # "exited"
        BY DEF Moves
      <4>3. pc[r] # "end" => at'[r] = at[r]
        BY DEF Moves
      <4>4. QED
        BY <4>1, <4>2, <4>3
    <3>3. s = SessionOf(r) /\ pc[r] \in {"start", "end"}
      <4>1. session[s] = "open" => Begun(r, s[2])
        BY <3>1 DEF SessionsInOrder
      <4>2. s[2] = at[r]
        <5>1. CASE session[s] = "open"
          BY <1>2, <2>2, <3>1, <3>2, <4>1, <5>1 DEF Begun
        <5>2. CASE session[s] # "open"
          BY <1>2, <1>3, <5>2
        <5>3. QED
          BY <5>1, <5>2
      <4>3. s = SessionOf(r)
        BY <1>2, <3>1, <4>2 DEF SessionOf
      <4>4. pc[r] \in {"start", "end"}
        <5>1. pc[r] = "health" => session' = session
          BY DEF Guards
        <5>2. CASE pc[r] = "health"
          BY <3>2, <4>1, <4>2, <5>1, <5>2 DEF Begun
        <5>3. QED
          BY <1>2, <3>1, <3>2, <4>2, <5>2
      <4>5. QED
        BY <4>3, <4>4
    <3>4. FaultNoted(r)
      BY <1>2, <3>1, <3>2, <3>3 DEF Guards
    <3>5. QED
      BY <3>3, <3>4 DEF FaultNoted
  <2>3. QED
    BY <2>1, <2>2
<1>6. ColdStartTolerated'
  <2> SUFFICES ASSUME faults' = <<>>, NEW s \in Runs, session'[<<s, 1>>] # "none"
               PROVE  raised'[s] \in {"none", "AssertionError"}
    BY DEF ColdStartTolerated
  <2>1. faults = <<>> /\ (session[<<s, 1>>] # "none" => raised[s] \in {"none", "AssertionError"})
    BY DEF Guards, ColdStartTolerated
  <2>2. <<s, 1>> \in Sessions
    <3>1. Len(Fixture[s]) \in Nat \ {0}
      BY ProvenanceAssumption, EmptySeq
    <3>2. QED
      BY <3>1, SessionShape
  <2>3. CASE s # r
    BY <1>2, <1>3, <2>1, <2>2, <2>3 DEF OthersStay
  <2>4. CASE s = r /\ session[<<r, 1>>] # "none"
    <3>1. Begun(r, 1)
      BY <2>2, <2>4 DEF SessionsInOrder
    <3>2. pc[r] # "health"
      BY <3>1 DEF Begun, SessionsInOrder
    <3>3. QED
      BY <2>1, <2>4, <3>2 DEF Guards
  <2>5. CASE s = r /\ session[<<r, 1>>] = "none"
    <3>1. pc[r] \in {"start", "end"}
      BY <2>5 DEF Guards
    <3>2. CASE pc[r] = "start"
      BY <2>5, <3>2 DEF Guards, SessionsInOrder
    <3>3. pc[r] # "end"
      <4>1. SUFFICES ASSUME pc[r] = "end" PROVE FALSE
        OBVIOUS
      <4>2. SessionOf(r) = <<r, 1>>
        BY <1>3, <2>2, <2>5
      <4>3. QED
        BY <2>5, <4>1, <4>2 DEF SessionsInOrder
    <3>4. QED
      BY <3>1, <3>2, <3>3
  <2>6. QED
    BY <2>3, <2>4, <2>5
<1>7. QED
  BY <1>4, <1>5, <1>6

LEMMA SessionInvInit == Init => SessionInv
<1> SUFFICES ASSUME Init PROVE SessionInv
  OBVIOUS
<1>1. SentInv
  BY SentInvInit
<1>2. SessionsInOrder
  BY DEF Init, SessionsInOrder
<1>3. OpenSessionsExplained
  BY DEF Init, OpenSessionsExplained
<1>4. ColdStartTolerated
  BY DEF Init, ColdStartTolerated
<1>5. QED
  BY <1>1, <1>2, <1>3, <1>4 DEF SessionInv

LEMMA SessionInvNext == SessionInv /\ [Next]_vars => SessionInv'
<1> SUFFICES ASSUME SessionInv, [Next]_vars PROVE SessionInv'
  OBVIOUS
<1>1. SentInv /\ SentInv'
  BY SentInvStep DEF SessionInv
<1>2. ASSUME NEW r \in Runs, Step(r) PROVE SessionInv'
  <2>1. OthersStay(r) /\ Moves(r) /\ Guards(r)
    BY <1>1, <1>2, StepMoves, StepGuards DEF SentInv
  <2>2. QED
    BY <1>1, <2>1, SessionInvStep
<1>3. CASE UNCHANGED vars
  <2>1. SessionsInOrder'
    BY <1>3 DEF SessionInv, SessionsInOrder, SessionOf, Begun, vars, program, engine
  <2>2. OpenSessionsExplained'
    BY <1>3 DEF SessionInv, OpenSessionsExplained, vars, program, engine
  <2>3. ColdStartTolerated'
    BY <1>3 DEF SessionInv, ColdStartTolerated, vars, program, engine
  <2>4. QED
    BY <1>1, <2>1, <2>2, <2>3 DEF SessionInv
<1>4. QED
  BY <1>2, <1>3 DEF Next, AllExited

(* A session that is open although its run has left it is one whose start or *)
(* end got no usable answer: whatever else fails, the finally clause of      *)
(* run_runtime_scenario reaches the engine.                                  *)
THEOREM OpenSessionsAreExplained == Spec => []OpenSessionsExplained
<1>1. SessionInv => OpenSessionsExplained
  BY DEF SessionInv
<1>2. QED
  BY <1>1, SessionInvInit, SessionInvNext, PTL DEF Spec

(* As long as nothing but first attempts at a recall has timed out, a run    *)
(* that opened a session ends with no exception but the AssertionError of an *)
(* empty recall (recall_with_retry, recall_associated).                      *)
THEOREM ColdStartIsTolerated == Spec => []ColdStartTolerated
<1>1. SessionInv => ColdStartTolerated
  BY DEF SessionInv
<1>2. QED
  BY <1>1, SessionInvInit, SessionInvNext, PTL DEF Spec

-----------------------------------------------------------------------------
(***************************************************************************)
(* Evidence and verdicts                                                   *)
(***************************************************************************)

\* The evidence run r has chosen, and where it is linked.
Evidence(r) == choice[r].evidence
LinkTo(r, id) == linked' = [linked EXCEPT ![SessionOf(r)] = @ \cup {id}]

\* What a step of run r may do to its links, its evidence and its verdicts.
Links(r) ==
    LET Go(from, to) == pc[r] = from /\ pc'[r] \in to
    IN /\ \A id \in Ids : stored[id] # 0 => stored'[id] # 0
       /\ \/ Go("recall", {"trace"}) /\ linked' = linked /\ IsEvidence(Evidence(r)')
          \/ /\ Go("trace", {"link"}) /\ linked' = linked /\ Evidence(r)' = Evidence(r)
             /\ k'[r] = 1
          \/ /\ Go("link", {"link"}) /\ LinkTo(r, Evidence(r)[k[r]]) /\ Evidence(r)' = Evidence(r)
             /\ k[r] < Len(Evidence(r)) /\ k'[r] = k[r] + 1
          \/ /\ Go("link", {"associated"}) /\ LinkTo(r, Evidence(r)[k[r]]) /\ Evidence(r)' = Evidence(r)
             /\ ~(k[r] < Len(Evidence(r)))
          \/ Go("link", {"end"}) /\ (linked' = linked \/ LinkTo(r, Evidence(r)[k[r]]))
          \/ Go("associated", {"associated", "list"}) /\ linked' = linked /\ Evidence(r)' = Evidence(r)
          \/ pc'[r] \notin {"trace", "link", "associated", "list"} /\ linked' = linked
       /\ raised'[r] = "none" => /\ raised[r] = "none"
                                 /\ pc'[r] = "end" => pc[r] = "list"
                                 /\ pc'[r] = "exited" => pc[r] = "end"
       /\ allPassed'[r] => /\ allPassed[r]
                           /\ (pc[r] = "list" /\ raised'[r] = "none") =>
                                {Id(r, Trace)} \cup Range(Evidence(r)) \subseteq InSession(SessionOf(r))
       /\ pc[r] = "list" => stored' = stored
       /\ exit'[r] # exit[r] /\ exit'[r] = 0 => /\ pc'[r] = "exited" /\ raised'[r] = "none" /\ allPassed'[r]
                                                /\ at'[r] = at[r] /\ ~HasMoreScenarios(r)

LEMMA StepLinks ==
    ASSUME CoreType, NEW r \in Runs, Step(r)
    PROVE  Links(r)
<1> USE DEF CoreType, Goto, Exit, Raise, Links, engine, Evidence
<1>0. /\ \A pos : Stored(Id(r, pos)) => \A id \in Ids : stored[id] # 0 => stored'[id] # 0
      /\ stored' = stored => \A id \in Ids : stored[id] # 0 => stored'[id] # 0
  BY DEF Stored
<1>1. CASE Ready(r)
  BY <1>0, <1>1 DEF Ready
<1>2. CASE NotReady(r)
  BY <1>0, <1>2 DEF NotReady
<1>3. CASE StartSession(r)
  BY <1>0, <1>3 DEF StartSession
<1>4. CASE StartFails(r)
  BY <1>0, <1>4 DEF StartFails
<1>5. CASE StoreMemory(r)
  BY <1>0, <1>5 DEF StoreMemory
<1>6. CASE SubmitFeedback(r)
  BY <1>0, <1>6 DEF SubmitFeedback
<1>7. CASE GetFeedback(r)
  BY <1>0, <1>7 DEF GetFeedback
<1>8. CASE RecallScenario(r)
  <2>1. PICK answer \in RecallAnswers :
          LET ms == Enrich(answer, Scenario(r), fetched[r]) IN
          \/ ms = <<>> /\ Raise(r, "AssertionError")
          \/ /\ choice' = [choice EXCEPT ![r] = Decide(Scenario(r), ms)]
             /\ Goto(r, "trace")
             /\ UNCHANGED <<at, raised, allPassed, exit>>
    BY <1>8 DEF RecallScenario
  <2> DEFINE ms == Enrich(answer, Scenario(r), fetched[r])
             d == Decide(Scenario(r), ms)
  <2>2. IsEvidence(d.evidence)
    BY DEF Decide, IsEvidence
  <2> HIDE DEF ms, d
  <2>3. pc[r] = "recall" /\ stored' = stored /\ linked' = linked
    BY <1>8 DEF RecallScenario
  <2>4. CASE Raise(r, "AssertionError")
    BY <1>0, <2>3, <2>4
  <2>5. CASE /\ choice' = [choice EXCEPT ![r] = d] /\ Goto(r, "trace")
             /\ UNCHANGED <<at, raised, allPassed, exit>>
    <3>1. IsEvidence(Evidence(r)')
      BY <2>2, <2>5
    <3>2. QED
      BY <1>0, <2>3, <2>5, <3>1
  <2>6. QED
    BY <2>1, <2>4, <2>5 DEF d, ms
<1>9. CASE StoreTrace(r)
  BY <1>0, <1>9 DEF StoreTrace
<1>10. CASE LinkMemory(r)
  BY <1>0, <1>10 DEF LinkMemory, Linked, LinkTo
<1>11. CASE RecallAssociated(r)
  BY <1>0, <1>11 DEF RecallAssociated
<1>12. CASE RecallAgain(r)
  BY <1>0, <1>12 DEF RecallAgain
<1>13. CASE ListSession(r)
  BY <1>0, <1>13 DEF ListSession, Passes
<1>14. CASE RequestFails(r)
  BY <1>0, <1>14 DEF RequestFails, Linked, LinkTo
<1>15. CASE RecallFails(r)
  BY <1>0, <1>15 DEF RecallFails
<1>16. CASE EndSession(r)
  BY <1>0, <1>16 DEF EndSession, AfterScenario
<1>17. CASE EndFails(r)
  BY <1>0, <1>17 DEF EndFails, AfterScenario
<1>18. QED
  BY <1>1, <1>2, <1>3, <1>4, <1>5, <1>6, <1>7, <1>8, <1>9, <1>10, <1>11, <1>12, <1>13, <1>14, <1>15, <1>16, <1>17 DEF Step

\* Evidence is one id, or two.
LEMMA EvidenceShape ==
    ASSUME NEW e, IsEvidence(e)
    PROVE  /\ Len(e) \in {1, 2}
           /\ Range(e) = {e[j] : j \in 1..Len(e)} /\ Range(e) # {}
<1>1. ASSUME NEW a, e = <<a>>
      PROVE  DOMAIN e = 1..Len(e) /\ Len(e) = 1
  BY <1>1
<1>2. ASSUME NEW a, NEW b, e = <<a, b>>
      PROVE  DOMAIN e = 1..Len(e) /\ Len(e) = 2
  BY <1>2
<1>3. DOMAIN e = 1..Len(e) /\ Len(e) \in {1, 2}
  BY <1>1, <1>2 DEF IsEvidence
<1>4. Range(e) = {e[j] : j \in 1..Len(e)}
  BY <1>3 DEF Range
<1>5. e[1] \in Range(e)
  BY <1>3, <1>4
<1>6. QED
  BY <1>3, <1>4, <1>5

LEMMA LinksInOrderStep ==
    ASSUME SentInv, SentInv', LinksInOrder, NEW r \in Runs, OthersStay(r), Moves(r), Links(r)
    PROVE  LinksInOrder'
<1>1. CoreType /\ CoreType'
  BY DEF SentInv
<1>2. /\ \A s \in Sessions : s # SessionOf(r) => linked'[s] = linked[s]
      /\ SessionOf(r) \in Sessions /\ SessionOf(r) = <<r, at[r]>>
      /\ linked' = linked \/ (pc[r] = "link" /\ pc'[r] \in {"link", "associated", "end"})
  <2>1. SessionOf(r) \in Sessions /\ SessionOf(r) = <<r, at[r]>>
    BY <1>1, OwnIds
  <2>2. \/ linked' = linked
        \/ /\ pc[r] = "link" /\ pc'[r] \in {"link", "associated", "end"}
           /\ LinkTo(r, Evidence(r)[k[r]])
    BY DEF Links
  <2>3. linked = [s \in Sessions |-> linked[s]]
    BY <1>1 DEF CoreType
  <2>4. ASSUME NEW id, LinkTo(r, id), NEW s \in Sessions, s # SessionOf(r)
        PROVE  linked'[s] = linked[s]
    BY <2>3, <2>4 DEF LinkTo
  <2>5. \A s \in Sessions : s # SessionOf(r) => linked'[s] = linked[s]
    BY <2>2, <2>4
  <2>6. QED
    BY <2>1, <2>2, <2>5
<1>3. ASSUME NEW s \in Sessions, linked'[s] # {} PROVE TraceSent(s[1], s[2])'
  <2>1. s[1] \in Runs /\ s[2] \in Nat
    BY SessionShape
  <2>2. CASE linked[s] # {}
    BY <1>1, <2>1, <2>2, Progress DEF LinksInOrder
  <2>3. CASE linked[s] = {}
    <3>1. s = <<r, at[r]>> /\ pc[r] = "link" /\ pc'[r] \in {"link", "associated", "end"}
      BY <1>2, <1>3, <2>3
    <3>2. at'[r] = at[r]
      BY <3>1 DEF Moves
    <3>3. QED
      BY <3>1, <3>2 DEF TraceSent
  <2>4. QED
    BY <2>2, <2>3
<1>4. ASSUME NEW s \in Runs
      PROVE  /\ pc'[s] \in {"trace", "link", "associated", "list"} => IsEvidence(Evidence(s)')
             /\ pc'[s] = "link" => /\ k'[s] \in 1..Len(Evidence(s)')
                                   /\ linked'[SessionOf(s)'] = {Evidence(s)'[j] : j \in 1..(k'[s] - 1)}
             /\ pc'[s] \in {"associated", "list"} => linked'[SessionOf(s)'] = Range(Evidence(s)')
  <2> DEFINE e == Evidence(s)
             done == linked[SessionOf(s)]
  <2>1. /\ pc[s] \in {"trace", "link", "associated", "list"} => IsEvidence(e)
        /\ pc[s] = "link" => k[s] \in 1..Len(e) /\ done = {e[j] : j \in 1..(k[s] - 1)}
        /\ pc[s] \in {"associated", "list"} => done = Range(e)
    BY DEF LinksInOrder, Evidence
  <2>2. SessionOf(s) \in Sessions
    BY <1>1, OwnIds
  <2>3. CASE s # r
    <3>1. SessionOf(s)' = SessionOf(s) /\ Evidence(s)' = e /\ pc'[s] = pc[s] /\ k'[s] = k[s]
      BY <2>3 DEF OthersStay, SessionOf, Evidence
    <3>2. linked'[SessionOf(s)] = done
      BY <1>2, <2>2, <2>3 DEF SessionOf
    <3>3. QED
      BY <2>1, <3>1, <3>2
  <2>4. CASE s = r /\ pc'[r] \in {"trace", "link", "associated", "list"}
    <3>1. at'[r] = at[r] /\ SessionOf(r)' = SessionOf(r) /\ k[r] \in Nat
      <4>1. at'[r] = at[r]
        BY <2>4 DEF Moves
      <4>2. SessionOf(r)' = SessionOf(r)
        BY <4>1 DEF SessionOf
      <4>3. k[r] \in Nat
        BY <1>1 DEF CoreType
      <4>4. QED
        BY <4>1, <4>2, <4>3
    <3>2. CASE pc'[r] = "trace"
      BY <2>4, <3>2 DEF Links
    <3>3. CASE pc[r] = "trace" /\ pc'[r] = "link"
      <4>1. linked' = linked /\ Evidence(r)' = e /\ k'[r] = 1 /\ IsEvidence(e)
        BY <2>1, <2>4, <3>3 DEF Links
      <4>2. done = {}
        <5>1. ~TraceSent(r, at[r])
          BY <1>1, <3>3 DEF TraceSent, CoreType
        <5>2. QED
          BY <1>2, <2>2, <2>4, <5>1 DEF LinksInOrder
      <4>3. Len(e) \in {1, 2} /\ {e[j] : j \in 1..(1 - 1)} = {}
        BY <4>1, EvidenceShape
      <4>4. linked'[SessionOf(s)'] = {}
        <5>1. s = r /\ linked'[SessionOf(r)'] = linked[SessionOf(r)]
          BY <2>4, <3>1, <4>1
        <5>2. QED
          BY <4>2, <5>1
      <4>5. k'[s] \in 1..Len(Evidence(s)')
        <5>1. s = r /\ Evidence(r)' = e /\ k'[r] = 1 /\ Evidence(s)' = Evidence(r)'
          BY <2>4, <4>1 DEF Evidence
        <5>2. Len(Evidence(s)') \in {1, 2}
          BY <4>3, <5>1
        <5>3. k'[s] = 1 /\ \A n \in {1, 2} : 1 \in 1..n
          BY <5>1
        <5>4. QED
          BY <5>2, <5>3
      <4>6. {Evidence(s)'[j] : j \in 1..(k'[s] - 1)} = {}
        BY <2>4, <4>1
      <4>7. QED
        BY <2>4, <3>3, <4>1, <4>4, <4>5, <4>6
    <3>4. CASE pc[r] = "link" /\ pc'[r] \in {"link", "associated"}
      <4>1. /\ Evidence(r)' = e /\ linked' = [linked EXCEPT ![SessionOf(r)] = @ \cup {e[k[r]]}]
            /\ pc'[r] = "link" => k[r] < Len(e) /\ k'[r] = k[r] + 1
            /\ pc'[r] = "associated" => ~(k[r] < Len(e))
        BY <2>4, <3>4 DEF Links, LinkTo
      <4>2. /\ IsEvidence(e) /\ k[r] \in 1..Len(e)
            /\ done = {e[j] : j \in 1..(k[r] - 1)}
        BY <2>1, <2>4, <3>4
      <4>3. linked'[SessionOf(r)] = done \cup {e[k[r]]}
        BY <1>1, <1>2, <2>4, <4>1 DEF CoreType
      <4>4. Len(e) \in {1, 2} /\ Range(e) = {e[j] : j \in 1..Len(e)}
        BY <4>2, EvidenceShape
      <4> HIDE DEF e, done
      <4>5. done \cup {e[k[r]]} = {e[j] : j \in 1..k[r]}
        <5>1. CASE k[r] = 1
          BY <4>2, <5>1
        <5>2. CASE k[r] = 2
          BY <4>2, <5>2
        <5>3. QED
          BY <3>1, <4>2, <4>4, <5>1, <5>2
      <4>6. CASE pc'[r] = "link"
        BY <2>4, <3>1, <4>1, <4>2, <4>3, <4>4, <4>5, <4>6
      <4>7. CASE pc'[r] = "associated"
        <5>1. k[r] = Len(e)
          BY <4>1, <4>2, <4>4, <4>7
        <5>2. QED
          BY <2>4, <3>1, <4>1, <4>2, <4>3, <4>4, <4>5, <4>7, <5>1
      <4>8. QED
        BY <3>4, <4>6, <4>7
    <3>5. CASE pc[r] = "associated" /\ pc'[r] \in {"associated", "list"}
      <4>1. linked' = linked /\ Evidence(r)' = e /\ IsEvidence(e) /\ done = Range(e)
        BY <2>1, <2>4, <3>5 DEF Links
      <4>2. QED
        BY <2>4, <3>1, <3>5, <4>1
    <3>6. QED
      BY <2>4, <3>2, <3>3, <3>4, <3>5 DEF Moves
  <2>5. QED
    BY <2>3, <2>4
<1>5. QED
  BY <1>3, <1>4 DEF LinksInOrder, Evidence

\* A scenario that a run is past, or about to leave, keeps its evidence.
LEMMA EvidenceStays ==
    ASSUME SentInv, SentInv', NEW r \in Runs, OthersStay(r), Links(r), pc[r] # "link",
           NEW s \in Runs, NEW n, OwnEvidence(s, n)
    PROVE  OwnEvidence(s, n)'
<1>1. linked' = linked
  BY DEF Links
<1>2. \A id \in Ids : stored[id] # 0 => stored'[id] # 0
  BY DEF Links
<1>3. QED
  BY <1>1, <1>2 DEF OwnEvidence

\* Only the scenario a run is at is being linked.
LEMMA LinkedElsewhere ==
    ASSUME CoreType, NEW r \in Runs, Links(r),
           NEW s \in Runs, NEW n \in 1..Len(Fixture[s]), s # r \/ n # at[r]
    PROVE  linked'[<<s, n>>] = linked[<<s, n>>]
<1>1. <<s, n>> \in Sessions /\ SessionOf(r) = <<r, at[r]>>
  BY SessionShape DEF SessionOf
<1>2. linked = [q \in Sessions |-> linked[q]]
  BY DEF CoreType
<1>3. ASSUME NEW id, LinkTo(r, id) PROVE linked'[<<s, n>>] = linked[<<s, n>>]
  <2>1. <<s, n>> # SessionOf(r)
    BY <1>1
  <2>2. QED
    BY <1>1, <1>2, <1>3, <2>1 DEF LinkTo
<1>4. QED
  BY <1>3 DEF Links

\* Likewise when another run, or a later scenario, is being linked.
LEMMA EvidenceKept ==
    ASSUME SentInv, SentInv', NEW r \in Runs, OthersStay(r), Links(r),
           NEW s \in Runs, NEW n \in 1..Len(Fixture[s]), s # r \/ n # at[r], OwnEvidence(s, n)
    PROVE  OwnEvidence(s, n)'
<1>1. linked'[<<s, n>>] = linked[<<s, n>>]
  BY LinkedElsewhere DEF SentInv
<1>2. \A id \in Ids : stored[id] # 0 => stored'[id] # 0
  BY DEF Links
<1>3. QED
  BY <1>1, <1>2 DEF OwnEvidence

LEMMA PassedSoFarStep ==
    ASSUME EvidenceInv, SentInv', LinksInOrder', NEW r \in Runs,
           OthersStay(r), Moves(r), Links(r)
    PROVE  PassedSoFar'
<1>1. CoreType /\ CoreType' /\ SentInv /\ LinksInOrder /\ PassedSoFar
  BY DEF EvidenceInv, SessionInv, SentInv
<1> SUFFICES ASSUME NEW s \in Runs, raised'[s] = "none", allPassed'[s],
                    NEW n, n \in 1..(at'[s] - 1) \/ (n = at'[s] /\ pc'[s] \in {"end", "exited"})
             PROVE  OwnEvidence(s, n)'
  BY DEF PassedSoFar, OwnEvidence
<1>2. at[s] \in 1..Len(Fixture[s]) /\ at'[s] \in 1..Len(Fixture[s]) /\ Len(Fixture[s]) \in Nat
  <2>1. Len(Fixture[s]) \in Nat
    BY ProvenanceAssumption, LenProperties
  <2>2. QED
    BY <1>1, <2>1 DEF CoreType
<1>3. raised[s] = "none" /\ allPassed[s]
  BY DEF OthersStay, Links
<1>4. /\ \A j \in 1..(at[s] - 1) : OwnEvidence(s, j)
      /\ pc[s] \in {"end", "exited"} => OwnEvidence(s, at[s])
  BY <1>1, <1>3 DEF PassedSoFar
<1>5. CASE n \in 1..(at[s] - 1)
  <2>1. n \in 1..Len(Fixture[s]) /\ n # at[s] /\ OwnEvidence(s, n)
    BY <1>2, <1>4, <1>5
  <2>2. s # r \/ n # at[r]
    BY <2>1
  <2>3. QED
    BY <1>1, <2>1, <2>2, EvidenceKept
<1>6. CASE s # r
  <2>1. at'[s] = at[s] /\ pc'[s] = pc[s]
    BY <1>6 DEF OthersStay
  <2>2. n \in 1..Len(Fixture[s]) /\ OwnEvidence(s, n)
    BY <1>2, <1>4, <2>1
  <2>3. QED
    BY <1>1, <1>6, <2>2, EvidenceKept
<1>7. CASE s = r /\ n \notin 1..(at[s] - 1) /\ pc[r] = "end"
  <2>1. at'[r] = at[r] \/ (at'[r] = at[r] + 1 /\ pc'[r] = "start")
    BY <1>7 DEF Moves
  <2>2. n = at[r]
    BY <1>2, <1>7, <2>1
  <2>3. OwnEvidence(r, n) /\ pc[r] # "link"
    BY <1>4, <1>7, <2>2
  <2>4. QED
    BY <1>1, <1>7, <2>3, EvidenceStays
<1>8. CASE s = r /\ n \notin 1..(at[s] - 1) /\ pc[r] # "end"
  <2>1. at'[r] = at[r]
    BY <1>8 DEF Moves
  <2>2. n = at[r] /\ pc'[r] \in {"end", "exited"}
    BY <1>8, <2>1
  <2>3. pc[r] = "list"
    BY <1>8, <2>2 DEF Links
  <2>4. /\ linked' = linked /\ stored' = stored
        /\ {Id(r, Trace)} \cup Range(Evidence(r)) \subseteq InSession(SessionOf(r))
    BY <1>8, <2>3 DEF Links
  <2>5. linked[<<r, n>>] = Range(Evidence(r)) /\ Range(Evidence(r)) # {}
    BY <1>1, <2>2, <2>3, EvidenceShape DEF LinksInOrder, Evidence, SessionOf
  <2>6. \A id \in InSession(SessionOf(r)) : id \in Ids /\ id.session = <<r, n>> /\ stored[id] # 0
    <3>1. \A id \in Ids : stored[id] \in Nat
      BY <1>1 DEF CoreType
    <3>2. QED
      BY <2>2, <3>1 DEF InSession, Recallable, SessionOf
  <2>7. Id(r, Trace) = [session |-> <<r, n>>, pos |-> Trace]
    BY <2>2 DEF Id, SessionOf
  <2>8. OwnEvidence(r, n)
    BY <2>4, <2>5, <2>6, <2>7 DEF OwnEvidence
  <2>9. QED
    BY <1>8, <2>4, <2>8 DEF OwnEvidence
<1>9. QED
  BY <1>5, <1>6, <1>7, <1>8

LEMMA ExitMeansPassedStep ==
    ASSUME CoreType, CoreType', ExitMeansPassed, NEW r \in Runs, OthersStay(r), Moves(r), Links(r)
    PROVE  ExitMeansPassed'
<1> SUFFICES ASSUME NEW s \in Runs, exit'[s] = 0
             PROVE  /\ pc'[s] = "exited" /\ raised'[s] = "none" /\ allPassed'[s]
                    /\ at'[s] = Len(Fixture[s])
  BY DEF ExitMeansPassed
<1>1. CASE s # r
  BY <1>1 DEF OthersStay, ExitMeansPassed
<1>2. CASE s = r
  <2>1. pc[r] # "exited"
    BY DEF Moves
  <2>2. exit[r] # 0
    BY <2>1 DEF ExitMeansPassed
  <2>3. pc'[r] = "exited" /\ raised'[r] = "none" /\ allPassed'[r] /\ at'[r] = at[r] /\ ~HasMoreScenarios(r)
    BY <1>2, <2>2 DEF Links
  <2>4. at[r] = Len(Fixture[r])
    <3>1. Len(Fixture[r]) \in Nat /\ at[r] \in 1..Len(Fixture[r])
      BY ProvenanceAssumption, LenProperties DEF CoreType
    <3>2. QED
      BY <2>3, <3>1 DEF HasMoreScenarios
  <2>5. QED
    BY <1>2, <2>3, <2>4
<1>3. QED
  BY <1>1, <1>2

-----------------------------------------------------------------------------
(***************************************************************************)
(* What is delivered by the time a run is past it                          *)
(***************************************************************************)

\* What a step of run r must have done to get to the next request.
Delivers(r) ==
    LET own == Id(r, m[r])
    IN /\ pc[r] = "store" /\ pc'[r] \in {"feedback", "history"} => stored'[own] = stored[own] + 1
       /\ pc[r] = "store" /\ pc'[r] = "history" => Source(own).feedback = <<>> /\ history' = history
       /\ pc[r] = "feedback" /\ pc'[r] = "history" =>
            SignalReceived(r) /\ ~(k[r] < Len(Source(own).feedback))
       /\ pc[r] = "history" /\ pc'[r] = "recall" => m[r] >= Len(Scenario(r).memories)
       /\ pc[r] # "feedback" => history' = history

LEMMA StepDelivers ==
    ASSUME CoreType, InMemories, NEW r \in Runs, Step(r)
    PROVE  Delivers(r)
<1> USE DEF CoreType, Goto, Exit, Raise, Delivers, engine
<1>0. pc[r] = "store" => Id(r, m[r]) \in Ids
  BY OwnIds DEF InMemories
<1>1. CASE Ready(r)
  BY <1>1 DEF Ready
<1>2. CASE NotReady(r)
  BY <1>2 DEF NotReady
<1>3. CASE StartSession(r)
  BY <1>3 DEF StartSession
<1>4. CASE StartFails(r)
  BY <1>4 DEF StartFails
<1>5. CASE StoreMemory(r)
  BY <1>0, <1>5 DEF StoreMemory, Stored
<1>6. CASE SubmitFeedback(r)
  BY <1>6 DEF SubmitFeedback
<1>7. CASE GetFeedback(r)
  BY <1>7 DEF GetFeedback
<1>8. CASE RecallScenario(r)
  BY <1>8 DEF RecallScenario
<1>9. CASE StoreTrace(r)
  BY <1>9 DEF StoreTrace
<1>10. CASE LinkMemory(r)
  BY <1>10 DEF LinkMemory
<1>11. CASE RecallAssociated(r)
  BY <1>11 DEF RecallAssociated
<1>12. CASE RecallAgain(r)
  BY <1>12 DEF RecallAgain
<1>13. CASE ListSession(r)
  BY <1>13 DEF ListSession
<1>14. CASE RequestFails(r)
  BY <1>14 DEF RequestFails
<1>15. CASE RecallFails(r)
  BY <1>15 DEF RecallFails
<1>16. CASE EndSession(r)
  BY <1>16 DEF EndSession, AfterScenario
<1>17. CASE EndFails(r)
  BY <1>17 DEF EndFails, AfterScenario
<1>18. QED
  BY <1>1, <1>2, <1>3, <1>4, <1>5, <1>6, <1>7, <1>8, <1>9, <1>10, <1>11, <1>12, <1>13, <1>14, <1>15, <1>16, <1>17 DEF Step

LEMMA DeliveredStep ==
    ASSUME SentInv, SentInv', Delivered, NEW r \in Runs,
           OthersStay(r), Moves(r), Sends(r), Links(r), Delivers(r)
    PROVE  Delivered'
<1> SUFFICES ASSUME NEW id \in Ids, id.pos # Trace,
                    NEW s, NEW n, s = id.session[1], n = id.session[2], raised'[s] = "none"
             PROVE  /\ Past(s, n, id.pos)' =>
                         stored'[id] # 0 /\ Len(history'[id]) = Len(Source(id).feedback)
                    /\ n = at'[s] /\ pc'[s] = "feedback" /\ id.pos = m'[s] => stored'[id] # 0
  BY DEF Delivered, Past, Source
<1> DEFINE own == Id(r, m[r])
           given == Source(id).feedback
<1>1. /\ CoreType /\ CoreType' /\ InMemories /\ FeedbackInOrder
      /\ s \in Runs /\ n \in 1..Len(Fixture[s]) /\ id = [session |-> <<s, n>>, pos |-> id.pos]
      /\ id.pos \in DOMAIN MemoriesIn(<<s, n>>) /\ id.pos \in Nat /\ id.pos >= 1
  <2>1. CoreType /\ CoreType' /\ InMemories /\ FeedbackInOrder
    BY DEF SentInv
  <2>2. /\ id.session \in Sessions /\ id = [session |-> id.session, pos |-> id.pos]
        /\ id.pos \in DOMAIN MemoriesIn(id.session) /\ id.pos \in Nat /\ id.pos >= 1
    BY IdShape
  <2>3. id.session = <<s, n>> /\ s \in Runs /\ n \in 1..Len(Fixture[s])
    BY <2>2, SessionShape
  <2>4. QED
    BY <2>1, <2>2, <2>3
<1>2. /\ at[s] \in Nat /\ at'[s] \in Nat /\ m[s] \in Nat /\ m'[s] \in Nat /\ n \in Nat
      /\ stored[id] \in Nat
  <2>1. Len(Fixture[s]) \in Nat
    BY <1>1, ProvenanceAssumption, LenProperties
  <2>2. QED
    BY <1>1, <2>1 DEF CoreType
<1>3. stored[id] # 0 => stored'[id] # 0
  BY DEF Links
<1>4. raised[s] = "none"
  BY <1>1 DEF OthersStay, Links
<1>5. /\ Past(s, n, id.pos) => stored[id] # 0 /\ Len(history[id]) = Len(given)
      /\ n = at[s] /\ pc[s] = "feedback" /\ id.pos = m[s] => stored[id] # 0
  BY <1>4 DEF Delivered
<1>6. ~(s = r /\ n = at[r] /\ id.pos = m[r] /\ pc[r] = "feedback") => history'[id] = history[id]
  <2>1. CASE history' = history
    BY <2>1
  <2>2. CASE history' # history
    <3>1. pc[r] = "feedback" /\ SignalReceived(r)
      BY <2>2 DEF Sends
    <3>2. own.session = <<r, at[r]>> /\ own.pos = m[r]
      BY <1>1, OwnIds
    <3>3. id = own => s = r /\ n = at[r] /\ id.pos = m[r]
      BY <3>2
    <3>4. id # own => history'[id] = history[id]
      BY <1>1, <3>1 DEF SignalReceived, CoreType
    <3>5. QED
      BY <3>1, <3>3, <3>4
  <2>3. QED
    BY <2>1, <2>2
<1> HIDE DEF own, given
<1>7. CASE s # r
  <2>1. Past(s, n, id.pos)' => Past(s, n, id.pos)
    BY <1>7, <1>1 DEF OthersStay, Past
  <2>2. at'[s] = at[s] /\ pc'[s] = pc[s] /\ m'[s] = m[s]
    BY <1>1, <1>7 DEF OthersStay
  <2>3. QED
    BY <1>3, <1>5, <1>6, <1>7, <2>1, <2>2 DEF given
<1>8. CASE s = r
  <2>1. ASSUME n = at'[r], id.pos = m'[r], pc'[r] \in {"feedback", "history"}
        PROVE  /\ stored'[id] # 0
               /\ pc'[r] = "history" => Len(history'[id]) = Len(given)
    <3>1. /\ at'[r] = at[r] /\ m'[r] = m[r] /\ pc[r] \in {"store", "feedback"}
      BY <2>1 DEF Moves
    <3>2. own = id
      BY <1>1, <1>8, <2>1, <3>1 DEF own, Id, SessionOf
    <3>3. history[id] \in Seq(Signals) /\ given \in Seq(Signals) /\ IsPrefixOf(history[id], given)
      <4>1. history[id] \in Seq(Signals) /\ IsPrefixOf(history[id], given)
        BY <1>1 DEF CoreType, FeedbackInOrder, given
      <4>2. given \in Seq(Signals)
        BY IdShape, MemoriesShape DEF given, Source
      <4>3. QED
        BY <4>1, <4>2
    <3>4. CASE pc[r] = "store"
      <4>1. stored'[id] = stored[id] + 1
        BY <2>1, <3>2, <3>4 DEF Delivers, own
      <4>2. pc'[r] = "history" => given = <<>> /\ history' = history
        BY <3>2, <3>4 DEF Delivers, own, given
      <4>3. Len(history[id]) \in Nat /\ (given = <<>> => Len(history[id]) = Len(given))
        BY <3>3, LenProperties DEF IsPrefixOf
      <4>4. QED
        BY <1>2, <4>1, <4>2, <4>3
    <3>5. CASE pc[r] = "feedback"
      <4>1. stored'[id] # 0
        BY <1>3, <1>5, <1>8, <2>1, <3>1, <3>5
      <4>2. k[r] \in 1..Len(given) /\ Len(history[id]) = k[r] - 1
        BY <1>1, <3>2, <3>5 DEF FeedbackInOrder, own, given
      <4>3. ASSUME pc'[r] = "history" PROVE Len(history'[id]) = Len(given)
        <5>1. SignalReceived(r) /\ ~(k[r] < Len(given))
          BY <3>2, <3>5, <4>3 DEF Delivers, own, given
        <5>2. history'[id] = Append(history[id], given[k[r]])
          BY <1>1, <3>2, <5>1 DEF SignalReceived, CoreType, own, given
        <5>3. given[k[r]] \in Signals /\ Len(given) \in Nat
          BY <3>3, <4>2, ElementOfSeq, LenProperties
        <5>4. Len(history'[id]) = Len(history[id]) + 1
          BY <3>3, <5>2, <5>3, AppendProperties
        <5>5. QED
          BY <4>2, <5>1, <5>3, <5>4
      <4>4. QED
        BY <4>1, <4>3
    <3>6. QED
      BY <3>1, <3>4, <3>5
  <2>2. CASE Past(r, n, id.pos)
    <3>1. stored'[id] # 0
      BY <1>3, <1>5, <1>8, <2>2
    <3>2. ~(n = at[r] /\ id.pos = m[r] /\ pc[r] = "feedback")
      BY <1>2, <1>8, <2>2 DEF Past
    <3>3. Len(history'[id]) = Len(given)
      BY <1>5, <1>6, <1>8, <2>2, <3>2
    <3>4. QED
      BY <3>1, <3>3 DEF given
  <2>3. CASE ~Past(r, n, id.pos)
    <3>1. (pc'[r] = "end" => pc[r] = "list") /\ (pc'[r] = "exited" => pc[r] = "end")
      BY <1>8 DEF Links
    <3>2. ASSUME Past(r, n, id.pos)'
          PROVE  n = at'[r] /\ id.pos = m'[r] /\ pc'[r] = "history"
      <4>1. n = at'[r] /\ at'[r] = at[r]
        <5>1. at'[r] = at[r] \/ (at'[r] = at[r] + 1 /\ pc[r] = "end" /\ pc'[r] = "start")
          BY DEF Moves
        <5>2. CASE at'[r] = at[r]
          BY <2>3, <3>2, <5>2 DEF Past
        <5>3. CASE at'[r] = at[r] + 1 /\ pc[r] = "end" /\ pc'[r] = "start"
          <6>1. n < at'[r]
            BY <3>2, <5>3 DEF Past
          <6>2. n < at[r] \/ n = at[r]
            BY <1>2, <1>8, <5>3, <6>1
          <6>3. QED
            BY <2>3, <5>3, <6>2 DEF Past
        <5>4. QED
          BY <5>1, <5>2, <5>3
      <4>2. /\ pc[r] \notin {"recall", "trace", "link", "associated", "list", "end", "exited"}
            /\ pc[r] \in {"store", "feedback", "history"} => ~(id.pos < m[r])
            /\ pc[r] = "history" => id.pos # m[r]
        BY <2>3, <4>1 DEF Past
      <4>3. \/ pc'[r] \in {"recall", "trace", "link", "associated", "list", "end", "exited"}
            \/ pc'[r] \in {"store", "feedback", "history"} /\ id.pos < m'[r]
            \/ pc'[r] = "history" /\ id.pos = m'[r]
        <5>1. ~(n < at'[r])
          BY <1>2, <1>8, <4>1
        <5>2. QED
          BY <3>2, <5>1 DEF Past
      <4>4. pc'[r] \notin {"trace", "link", "associated", "list", "end", "exited"}
        BY <3>1, <4>2 DEF Moves
      <4>5. pc'[r] # "recall"
        <5>1. SUFFICES ASSUME pc'[r] = "recall" PROVE FALSE
          OBVIOUS
        <5>2. pc[r] = "history" /\ m[r] >= Len(Scenario(r).memories)
          BY <4>2, <5>1 DEF Moves, Delivers
        <5>3. id.pos \in DOMAIN Scenario(r).memories
          BY <1>1, <1>8, <4>1 DEF Scenario, MemoriesIn
        <5>4. DOMAIN Scenario(r).memories = 1..Len(Scenario(r).memories) /\ Len(Scenario(r).memories) \in Nat
          BY <1>1, OwnIds, MemoriesShape
        <5>5. QED
          BY <1>2, <1>8, <4>2, <5>2, <5>3, <5>4
      <4>6. ~(pc'[r] \in {"store", "feedback", "history"} /\ id.pos < m'[r])
        <5>1. SUFFICES ASSUME pc'[r] \in {"store", "feedback", "history"}, id.pos < m'[r] PROVE FALSE
          OBVIOUS
        <5>2. \/ m'[r] = 1
              \/ m'[r] = m[r] /\ pc[r] \in {"store", "feedback", "history"}
              \/ m'[r] = m[r] + 1 /\ pc[r] = "history"
          BY <5>1 DEF Moves
        <5>3. QED
          BY <1>1, <1>2, <1>8, <4>2, <5>1, <5>2
      <4>7. QED
        BY <4>1, <4>3, <4>4, <4>5, <4>6
    <3>3. QED
      BY <1>8, <2>1, <3>2 DEF given
  <2>4. QED
    BY <1>8, <2>1, <2>2, <2>3
<1>9. QED
  BY <1>7, <1>8

-----------------------------------------------------------------------------
(* Verdicts, step by step *)

LEMMA EvidenceInvInit == Init => EvidenceInv
<1> SUFFICES ASSUME Init PROVE EvidenceInv
  OBVIOUS
<1>1. SessionInv
  BY SessionInvInit
<1>2. LinksInOrder
  BY DEF Init, LinksInOrder
<1>3. PassedSoFar
  BY DEF Init, PassedSoFar
<1>4. ExitMeansPassed
  BY DEF Init, ExitMeansPassed
<1>5. Delivered
  <2>1. \A id \in Ids : id.session[1] \in Runs /\ id.session[2] \in Nat \ {0}
    <3> SUFFICES ASSUME NEW id \in Ids PROVE id.session[1] \in Runs /\ id.session[2] \in Nat \ {0}
      OBVIOUS
    <3>1. id.session[1] \in Runs /\ id.session[2] \in 1..Len(Fixture[id.session[1]])
      BY IdShape, SessionShape
    <3>2. Len(Fixture[id.session[1]]) \in Nat
      BY <3>1, ProvenanceAssumption, LenProperties
    <3>3. QED
      BY <3>1, <3>2
  <2>2. QED
    BY <2>1 DEF Init, Delivered, Past
<1>6. QED
  BY <1>1, <1>2, <1>3, <1>4, <1>5 DEF EvidenceInv

LEMMA EvidenceInvStep == EvidenceInv /\ [Next]_vars => EvidenceInv'
<1> SUFFICES ASSUME EvidenceInv, [Next]_vars PROVE EvidenceInv'
  OBVIOUS
<1>1. SessionInv /\ SessionInv' /\ SentInv /\ SentInv' /\ CoreType /\ CoreType'
  <2>1. SessionInv /\ SessionInv'
    BY SessionInvNext DEF EvidenceInv
  <2>2. QED
    BY <2>1 DEF SessionInv, SentInv
<1>2. ASSUME NEW r \in Runs, Step(r) PROVE EvidenceInv'
  <2>1. OthersStay(r) /\ Moves(r) /\ Sends(r) /\ Links(r) /\ Delivers(r)
    BY <1>1, <1>2, StepMoves, StepSends, StepLinks, StepDelivers DEF SentInv
  <2>2. LinksInOrder'
    BY <1>1, <2>1, LinksInOrderStep DEF EvidenceInv
  <2>3. PassedSoFar'
    BY <1>1, <2>1, <2>2, PassedSoFarStep
  <2>4. ExitMeansPassed'
    BY <1>1, <2>1, ExitMeansPassedStep DEF EvidenceInv
  <2>5. Delivered'
    BY <1>1, <2>1, DeliveredStep DEF EvidenceInv
  <2>6. QED
    BY <1>1, <2>2, <2>3, <2>4, <2>5 DEF EvidenceInv
<1>3. CASE UNCHANGED vars
  <2>1. LinksInOrder'
    BY <1>3 DEF EvidenceInv, LinksInOrder, TraceSent, SessionOf, vars, program, engine
  <2>2. PassedSoFar'
    <3>1. UNCHANGED <<stored, linked, pc, at, raised, allPassed>>
      BY <1>3 DEF vars, program, engine
    <3>2. ASSUME NEW r, NEW n PROVE OwnEvidence(r, n)' <=> OwnEvidence(r, n)
      BY <3>1 DEF OwnEvidence
    <3>3. QED
      BY <3>1, <3>2 DEF EvidenceInv, PassedSoFar
  <2>3. ExitMeansPassed'
    BY <1>3 DEF EvidenceInv, ExitMeansPassed, vars, program, engine
  <2>4. Delivered'
    BY <1>3 DEF EvidenceInv, Delivered, Past, vars, program, engine
  <2>5. QED
    BY <1>1, <2>1, <2>2, <2>3, <2>4 DEF EvidenceInv
<1>4. QED
  BY <1>2, <1>3 DEF Next, AllExited

(* A run that exits with code 0 has, for every scenario of its fixture, all  *)
(* its memories in the engine, each with all its feedback and in order, and  *)
(* a trace of its own session, linked to memories of that session and to no  *)
(* other, whatever the other runs of its agent id did meanwhile and whatever *)
(* the decisions were (run_runtime_scenario, main).                          *)
THEOREM PassesOnOwnEvidence == Spec => []PassedOnOwnEvidence
<1>1. EvidenceInv => PassedOnOwnEvidence
  <2> SUFFICES ASSUME EvidenceInv, NEW r \in Runs, exit[r] = 0, NEW n \in DOMAIN Fixture[r]
               PROVE  /\ \A id \in Ids : id.session = <<r, n>> /\ id.pos # Trace =>
                            stored[id] > 0 /\ history[id] = Source(id).feedback
                      /\ stored[[session |-> <<r, n>>, pos |-> Trace]] > 0
                      /\ linked[<<r, n>>] # {}
                      /\ \A id \in linked[<<r, n>>] : id.session = <<r, n>> /\ stored[id] > 0
    BY DEF PassedOnOwnEvidence
  <2>1. Len(Fixture[r]) \in Nat /\ n \in 1..Len(Fixture[r])
    BY ProvenanceAssumption, LenProperties
  <2>2. /\ pc[r] = "exited" /\ raised[r] = "none" /\ allPassed[r]
        /\ at[r] = Len(Fixture[r])
    BY DEF EvidenceInv, ExitMeansPassed
  <2>3. n \in 1..(at[r] - 1) \/ n = at[r]
    BY <2>1, <2>2
  <2>4. OwnEvidence(r, n)
    BY <2>2, <2>3 DEF EvidenceInv, PassedSoFar
  <2>5. \A id \in Ids : stored[id] # 0 => stored[id] > 0
    BY DEF EvidenceInv, SessionInv, SentInv, CoreType
  <2>6. ASSUME NEW id \in Ids, id.session = <<r, n>>, id.pos # Trace
        PROVE  stored[id] > 0 /\ history[id] = Source(id).feedback
    <3>1. Past(r, n, id.pos)
      BY <2>1, <2>2, <2>3 DEF Past
    <3>2. stored[id] # 0 /\ Len(history[id]) = Len(Source(id).feedback)
      BY <2>2, <2>6, <3>1 DEF EvidenceInv, Delivered
    <3>3. history[id] \in Seq(Signals) /\ IsPrefixOf(history[id], Source(id).feedback)
      BY <2>6 DEF EvidenceInv, SessionInv, SentInv, CoreType, FeedbackInOrder
    <3>4. Source(id).feedback \in Seq(Signals)
      BY <2>6, IdShape, MemoriesShape DEF Source
    <3>5. history[id] = Source(id).feedback
      BY <3>2, <3>3, <3>4, SeqEqual DEF IsPrefixOf
    <3>6. QED
      BY <2>5, <3>2, <3>5
  <2>7. QED
    BY <2>4, <2>5, <2>6 DEF OwnEvidence
<1>2. QED
  BY <1>1, EvidenceInvInit, EvidenceInvStep, PTL DEF Spec

-----------------------------------------------------------------------------
(***************************************************************************)
(* Loops and lists                                                         *)
(***************************************************************************)

\* A set of natural numbers that is not empty has a least one.
LEMMA LeastIndex ==
    ASSUME NEW S \in SUBSET Nat, S # {}
    PROVE  \E i \in S : \A j \in S : i <= j
<1>1. PICK i \in S : \A j \in S : ~(<<j, i>> \in OpToRel(<, Nat))
  BY NatLessThanWellFounded, WFMin, Zenon
<1>2. \A j \in S : ~(j < i)
  BY <1>1 DEF OpToRel
<1>3. QED
  BY <1>2

\* The values a loop goes through: step[j] is what its j-th pass does.
Iterates(f, len, base, step) == f[0] = base /\ \A j \in 1 .. len : f[j] = step[j][f[j - 1]]

LEMMA RecursionExists ==
    ASSUME NEW T, NEW len \in Nat, NEW base \in T, NEW step \in [1 .. len -> [T -> T]]
    PROVE  \E f \in [0 .. len -> T] : Iterates(f, len, base, step)
<1> USE DEF Iterates
<1> DEFINE Upto(f, top) == f[0] = base /\ \A j \in 1 .. top : f[j] = step[j][f[j - 1]]
           Bad == {top \in 0 .. len : ~\E f \in [0 .. top -> T] : Upto(f, top)}
<1> SUFFICES ASSUME Bad # {} PROVE FALSE
  OBVIOUS
<1>1. PICK top \in Bad : \A other \in Bad : top <= other
  <2>1. Bad \in SUBSET Nat
    OBVIOUS
  <2>2. QED
    BY <2>1, LeastIndex
<1>2. top # 0
  <2> SUFFICES \E f \in [0 .. 0 -> T] : Upto(f, 0)
    BY <1>1
  <2> WITNESS [j \in 0 .. 0 |-> base] \in [0 .. 0 -> T]
  <2> QED
    OBVIOUS
<1>3. top \in 1 .. len /\ top - 1 \in 0 .. len
  <2>1. top \in 0 .. len
    BY <1>1
  <2>2. QED
    BY <1>2, <2>1
<1>4. PICK f \in [0 .. top - 1 -> T] : Upto(f, top - 1)
  <2> DEFINE below == top - 1
  <2>1. below \in 0 .. len /\ ~(top <= below)
    BY <1>3
  <2> HIDE DEF below, Upto
  <2>2. \E f \in [0 .. below -> T] : Upto(f, below)
    BY <1>1, <2>1
  <2>3. QED
    BY <2>2 DEF below
<1> DEFINE last == step[top][f[top - 1]]
           g == [j \in 0 .. top |-> IF j = top THEN last ELSE f[j]]
<1>5. last \in T
  BY <1>3, <1>4
<1> HIDE DEF last
<1>6. g \in [0 .. top -> T]
  BY <1>3, <1>4, <1>5
<1>7. Upto(g, top)
  <2>1. g[0] = base
    BY <1>3, <1>4
  <2>2. ASSUME NEW j \in 1 .. top PROVE g[j] = step[j][g[j - 1]]
    <3>1. CASE j = top
      BY <1>3, <3>1 DEF last
    <3>2. CASE j # top
      BY <1>3, <1>4, <3>2
    <3>3. QED
      BY <3>1, <3>2
  <2>3. QED
    BY <2>1, <2>2
<1>8. top \notin Bad
  BY <1>6, <1>7
<1>9. QED
  BY <1>1, <1>8

\* Python's max finds an element that is as great as any.
LEMMA FirstMaxIsGreatest ==
    ASSUME NEW D \in SUBSET Nat, D # {}, NEW score, \A j \in D : score[j] \in Scores
    PROVE  /\ FirstMax(D, score) \in D
           /\ \A j \in D : score[j] <= score[FirstMax(D, score)]
<1> DEFINE gaps == {100 - score[j] : j \in D}
           First(i) == i \in D /\ \A j \in D : score[j] < score[i] \/ (score[j] = score[i] /\ i <= j)
<1>1. \A j \in D : score[j] \in Int /\ 100 - score[j] \in Nat
  <2> SUFFICES ASSUME NEW j \in D PROVE score[j] \in Int /\ 100 - score[j] \in Nat
    OBVIOUS
  <2> DEFINE v == score[j]
  <2>1. v \in Scores
    OBVIOUS
  <2> HIDE DEF v
  <2>2. v \in Int /\ 100 - v \in Nat
    BY <2>1 DEF Scores
  <2>3. QED
    BY <2>2 DEF v
<1>2. PICK gap \in gaps : \A other \in gaps : gap <= other
  <2>1. gaps \in SUBSET Nat /\ gaps # {}
    BY <1>1, Zenon
  <2>2. QED
    BY <2>1, LeastIndex
<1> DEFINE tops == {j \in D : 100 - score[j] = gap}
<1>3. PICK i \in tops : \A j \in tops : i <= j
  <2>1. tops \in SUBSET Nat /\ tops # {}
    BY <1>2
  <2>2. QED
    BY <2>1, LeastIndex
<1>4. First(i)
  <2> SUFFICES ASSUME NEW j \in D PROVE score[j] < score[i] \/ (score[j] = score[i] /\ i <= j)
    BY <1>3
  <2>1. gap = 100 - score[i] /\ gap <= 100 - score[j]
    BY <1>2, <1>3
  <2>2. CASE score[j] = score[i]
    BY <1>3, <2>1, <2>2
  <2>3. CASE score[j] # score[i]
    <3> DEFINE v == score[j]
               w == score[i]
    <3>1. v \in Int /\ w \in Int /\ 100 - w <= 100 - v /\ v # w
      BY <1>1, <1>3, <2>1, <2>3
    <3> HIDE DEF v, w
    <3>2. v < w
      BY <3>1
    <3>3. QED
      BY <3>2 DEF v, w
  <2>4. QED
    BY <2>2, <2>3
<1> DEFINE c == CHOOSE x \in D : \A j \in D : score[j] < score[x] \/ (score[j] = score[x] /\ x <= j)
<1>5. First(c)
  BY <1>4
<1>6. FirstMax(D, score) = c
  BY DEF FirstMax
<1> HIDE DEF c
<1>7. \A j \in D : score[j] <= score[c]
  <2> SUFFICES ASSUME NEW j \in D PROVE score[j] <= score[c]
    OBVIOUS
  <2>1. score[j] \in Int /\ score[c] \in Int /\ (score[j] < score[c] \/ score[j] = score[c])
    BY <1>1, <1>5
  <2>2. QED
    BY <2>1
<1>8. QED
  BY <1>5, <1>6, <1>7

LEMMA FunctionAsSequence ==
    ASSUME NEW S, NEW len \in Nat, NEW s \in [1 .. len -> S]
    PROVE  s \in Seq(S)
OBVIOUS

\* What holds of a loop's first value, and passes from each to the next, holds of the last.
LEMMA LoopStays ==
    ASSUME NEW T, NEW len \in Nat, NEW f, f[0] \in T,
           \A j \in 1 .. len : f[j - 1] \in T => f[j] \in T
    PROVE  f[len] \in T
<1> DEFINE Bad == {j \in 0 .. len : f[j] \notin T}
<1> SUFFICES ASSUME Bad # {} PROVE FALSE
  OBVIOUS
<1>1. PICK j \in Bad : \A i \in Bad : j <= i
  <2>1. Bad \in SUBSET Nat
    OBVIOUS
  <2> HIDE DEF Bad
  <2>2. QED
    BY <2>1, LeastIndex
<1>2. j \in 1 .. len /\ j - 1 \in 0 .. len /\ ~(j <= j - 1) /\ f[j] \notin T
  <2>1. j \in 0 .. len /\ f[j] \notin T
    BY <1>1
  <2> HIDE DEF Bad
  <2>2. j # 0
    BY <2>1
  <2>3. QED
    BY <2>1, <2>2
<1>3. f[j - 1] \in T
  BY <1>1, <1>2
<1>4. QED
  BY <1>2, <1>3

\* The loop behind [x for x in seq if x in S].
LEMMA ThoseLoop ==
    ASSUME NEW U, NEW seq \in Seq(U), NEW S
    PROVE  \E f : /\ Those(seq, S) = f[Len(seq)] /\ f[0] = <<>>
                  /\ \A j \in 0 .. Len(seq) : f[j] \in Seq(U)
                  /\ \A j \in 1 .. Len(seq) :
                       f[j] = IF seq[j] \in S THEN Append(f[j - 1], seq[j]) ELSE f[j - 1]
<1> DEFINE len == Len(seq)
           T == Seq(U)
           empty == <<>>
           Pass(j, s) == IF seq[j] \in S THEN Append(s, seq[j]) ELSE s
           KeptAt(f, j) == IF j = 0 THEN empty
                           ELSE IF seq[j] \in S THEN Append(f[j - 1], seq[j]) ELSE f[j - 1]
           f == CHOOSE h : h = [j \in 0 .. len |-> KeptAt(h, j)]
           step == [j \in 1 .. len |-> [s \in T |-> Pass(j, s)]]
<1>1. len \in Nat /\ \A j \in 1 .. len : seq[j] \in U
  OBVIOUS
<1>2. Those(seq, S) = f[len]
  BY DEF Those
<1> HIDE DEF len
<1>3. empty \in T /\ \A j \in 1 .. len, s \in T : Pass(j, s) \in T
  BY <1>1
<1>4. step \in [1 .. len -> [T -> T]] /\ \A j \in 1 .. len, s \in T : step[j][s] = Pass(j, s)
  <2> HIDE DEF Pass, T
  <2>1. QED
    BY <1>3
<1>5. \A h, j : j # 0 => KeptAt(h, j) = Pass(j, h[j - 1])
  OBVIOUS
<1>6. \A h : KeptAt(h, 0) = empty
  OBVIOUS
<1> HIDE DEF KeptAt, Pass, step, T, empty
<1>7. \E h : h = [j \in 0 .. len |-> KeptAt(h, j)]
  <2>1. PICK g \in [0 .. len -> T] : Iterates(g, len, empty, step)
    BY <1>1, <1>3, <1>4, RecursionExists
  <2>2. ASSUME NEW j \in 0 .. len PROVE g[j] = KeptAt(g, j)
    <3>1. CASE j = 0
      BY <1>6, <2>1, <3>1 DEF Iterates
    <3>2. CASE j # 0
      <4>1. j \in 1 .. len /\ j - 1 \in 0 .. len
        BY <1>1, <3>2
      <4>2. g[j - 1] \in T /\ g[j] = step[j][g[j - 1]]
        BY <2>1, <4>1 DEF Iterates
      <4>3. step[j][g[j - 1]] = Pass(j, g[j - 1])
        BY <1>4, <4>1, <4>2, Zenon
      <4>4. KeptAt(g, j) = Pass(j, g[j - 1])
        BY <1>5, <3>2, Zenon
      <4>5. QED
        BY <4>2, <4>3, <4>4, Zenon
    <3>3. QED
      BY <3>1, <3>2
  <2>3. g = [j \in 0 .. len |-> KeptAt(g, j)]
    BY <2>2
  <2>4. QED
    BY <2>3
<1>8. f = [j \in 0 .. len |-> KeptAt(f, j)]
  BY <1>7
<1> HIDE DEF f
<1>9. f[0] = empty
  <2>1. 0 \in 0 .. len
    BY <1>1
  <2>2. QED
    BY <1>6, <1>8, <2>1
<1>10. ASSUME NEW j \in 1 .. len PROVE f[j] = Pass(j, f[j - 1])
  <2>1. j \in 0 .. len /\ j # 0
    BY <1>1
  <2>2. QED
    BY <1>5, <1>8, <2>1
<1>11. ASSUME NEW top \in 0 .. len PROVE f[top] \in T
  <2>1. top \in Nat /\ \A j \in 1 .. top : j \in 1 .. len
    BY <1>1
  <2>2. f[0] \in T /\ \A j \in 1 .. top : f[j - 1] \in T => f[j] \in T
    BY <1>3, <1>9, <1>10, <2>1
  <2>3. QED
    BY <2>1, <2>2, LoopStays
<1>12. QED
  BY <1>2, <1>9, <1>10, <1>11 DEF T, Pass, empty, len

\* [x for x in seq if x in S] is a list of members of S.
LEMMA ThoseType ==
    ASSUME NEW U, NEW seq \in Seq(U), NEW S
    PROVE  Those(seq, S) \in Seq(U \cap S)
<1> DEFINE T == Seq(U \cap S)
<1>1. PICK f : /\ Those(seq, S) = f[Len(seq)] /\ f[0] = <<>>
               /\ \A j \in 0 .. Len(seq) : f[j] \in Seq(U)
               /\ \A j \in 1 .. Len(seq) :
                    f[j] = IF seq[j] \in S THEN Append(f[j - 1], seq[j]) ELSE f[j - 1]
  BY ThoseLoop
<1>2. Len(seq) \in Nat /\ \A j \in 1 .. Len(seq) : seq[j] \in U
  OBVIOUS
<1>3. <<>> \in T /\ \A s \in T, x \in U \cap S : Append(s, x) \in T
  OBVIOUS
<1> HIDE DEF T
<1>4. f[0] \in T /\ \A j \in 1 .. Len(seq) : f[j - 1] \in T => f[j] \in T
  BY <1>1, <1>2, <1>3
<1>5. f[Len(seq)] \in T
  BY <1>2, <1>4, LoopStays
<1>6. QED
  BY <1>1, <1>5 DEF T

\* When all of them are, it is the list itself.
LEMMA ThoseAll ==
    ASSUME NEW U, NEW seq \in Seq(U), NEW S, \A j \in 1 .. Len(seq) : seq[j] \in S
    PROVE  Those(seq, S) = seq
<1>1. PICK f : /\ Those(seq, S) = f[Len(seq)] /\ f[0] = <<>>
               /\ \A j \in 0 .. Len(seq) : f[j] \in Seq(U)
               /\ \A j \in 1 .. Len(seq) :
                    f[j] = IF seq[j] \in S THEN Append(f[j - 1], seq[j]) ELSE f[j - 1]
  BY ThoseLoop
<1> DEFINE len == Len(seq)
           Same(s, j) == Len(s) = j /\ \A i \in 1 .. j : s[i] = seq[i]
<1>2. /\ len \in Nat /\ \A j \in 1 .. len : seq[j] \in S /\ seq[j] \in U
      /\ Those(seq, S) = f[len] /\ \A j \in 0 .. len : f[j] \in Seq(U)
  BY <1>1
<1>3. \A j \in 1 .. len : f[j] = Append(f[j - 1], seq[j])
  BY <1>1, <1>2
<1> HIDE DEF len
<1> DEFINE Bad == {j \in 0 .. len : ~Same(f[j], j)}
<1>4. ASSUME NEW j \in 1 .. len, Same(f[j - 1], j - 1) PROVE Same(f[j], j)
  <2>1. j - 1 \in 0 .. len /\ f[j - 1] \in Seq(U) /\ seq[j] \in U
    BY <1>2
  <2>2. f[j] = Append(f[j - 1], seq[j])
    BY <1>3
  <2> DEFINE s == f[j - 1]
  <2>3. s \in Seq(U) /\ Len(s) = j - 1 /\ \A i \in 1 .. j - 1 : s[i] = seq[i]
    BY <1>4, <2>1
  <2>4. f[j] = Append(s, seq[j])
    BY <2>2
  <2> HIDE DEF s
  <2>5. Len(f[j]) = j
    BY <1>2, <2>1, <2>3, <2>4
  <2>6. \A i \in 1 .. j : f[j][i] = seq[i]
    BY <1>2, <2>1, <2>3, <2>4
  <2>7. QED
    BY <2>5, <2>6
<1>5. Bad = {}
  <2> SUFFICES ASSUME Bad # {} PROVE FALSE
    OBVIOUS
  <2>1. PICK j \in Bad : \A i \in Bad : j <= i
    <3>1. Bad \in SUBSET Nat
      BY <1>2
    <3> HIDE DEF Bad
    <3>2. QED
      BY <3>1, LeastIndex
  <2>2. j \in 0 .. len /\ ~Same(f[j], j)
    BY <2>1
  <2>3. j # 0
    BY <1>1, <2>2
  <2>4. j \in 1 .. len /\ j - 1 \in 0 .. len /\ ~(j <= j - 1)
    BY <1>2, <2>2, <2>3
  <2>5. Same(f[j - 1], j - 1)
    BY <2>1, <2>4
  <2>6. QED
    BY <1>4, <2>2, <2>4, <2>5
<1>6. Same(f[len], len) /\ f[len] \in Seq(U)
  <2>1. len \in 0 .. len
    BY <1>2
  <2>2. QED
    BY <1>2, <1>5, <2>1
<1>7. f[len] = seq
  BY <1>6, SeqEqual DEF len
<1>8. QED
  BY <1>2, <1>7

\* When one of them is, it is not empty.
LEMMA ThoseSome ==
    ASSUME NEW U, NEW seq \in Seq(U), NEW S, NEW k0 \in 1 .. Len(seq), seq[k0] \in S
    PROVE  Those(seq, S) # <<>>
<1>1. PICK f : /\ Those(seq, S) = f[Len(seq)] /\ f[0] = <<>>
               /\ \A j \in 0 .. Len(seq) : f[j] \in Seq(U)
               /\ \A j \in 1 .. Len(seq) :
                    f[j] = IF seq[j] \in S THEN Append(f[j - 1], seq[j]) ELSE f[j - 1]
  BY ThoseLoop
<1> DEFINE len == Len(seq)
<1>2. /\ len \in Nat /\ k0 \in 1 .. len /\ \A j \in 1 .. len : seq[j] \in U
      /\ Those(seq, S) = f[len] /\ \A j \in 0 .. len : f[j] \in Seq(U)
      /\ \A j \in 1 .. len : f[j] = IF seq[j] \in S THEN Append(f[j - 1], seq[j]) ELSE f[j - 1]
  BY <1>1
<1> HIDE DEF len
<1>3. ASSUME NEW j \in 1 .. len, seq[j] \in S PROVE f[j] # <<>>
  <2>1. j - 1 \in 0 .. len
    BY <1>2
  <2>2. f[j - 1] \in Seq(U) /\ seq[j] \in U /\ f[j] = Append(f[j - 1], seq[j])
    BY <1>2, <1>3, <2>1
  <2>3. Len(f[j]) = Len(f[j - 1]) + 1 /\ Len(f[j - 1]) \in Nat
    BY <2>2, AppendProperties, LenProperties
  <2>4. QED
    BY <2>3, EmptySeq
<1> DEFINE Bad == {j \in k0 .. len : f[j] = <<>>}
<1>4. Bad = {}
  <2> SUFFICES ASSUME Bad # {} PROVE FALSE
    OBVIOUS
  <2>1. PICK j \in Bad : \A i \in Bad : j <= i
    <3>1. Bad \in SUBSET Nat
      BY <1>2
    <3> HIDE DEF Bad
    <3>2. QED
      BY <3>1, LeastIndex
  <2>2. j \in 1 .. len /\ f[j] = <<>> /\ j # k0
    BY <1>2, <1>3, <2>1
  <2>3. j - 1 \in k0 .. len /\ ~(j <= j - 1)
    BY <1>2, <2>1, <2>2
  <2>4. f[j - 1] # <<>>
    BY <2>1, <2>3
  <2>5. seq[j] \notin S
    BY <1>3, <2>2
  <2>6. f[j] = f[j - 1]
    BY <1>2, <2>2, <2>5
  <2>7. QED
    BY <2>2, <2>4, <2>6
<1>5. len \in k0 .. len
  BY <1>2
<1>6. QED
  BY <1>2, <1>4, <1>5

LEMMA ApplySignalType ==
    ASSUME NEW rel \in Reliabilities, NEW signal \in Signals
    PROVE  ApplySignal(rel, signal) \in Reliabilities
<1>1. ASSUME NEW v \in Int PROVE Clamp(v) \in Scores
  BY DEF Clamp, Scores
<1>2. ASSUME NEW c \in {"t", "i", "f"} PROVE Clamp(rel[c] + FeedbackDeltas[signal][c]) \in Scores
  <2>1. rel[c] \in Int
    BY DEF Reliabilities, Scores
  <2>2. FeedbackDeltas[signal][c] \in Int
    <3>1. signal = "upvote" \/ signal = "downvote" \/ signal = "flag"
      BY DEF Signals
    <3>2. c = "t" \/ c = "i" \/ c = "f"
      OBVIOUS
    <3>3. QED
      BY <3>1, <3>2 DEF FeedbackDeltas
  <2> DEFINE a == rel[c]
             b == FeedbackDeltas[signal][c]
  <2>3. a \in Int /\ b \in Int
    BY <2>1, <2>2
  <2> HIDE DEF a, b
  <2>4. Clamp(a + b) \in Scores
    BY <1>1, <2>3
  <2>5. QED
    BY <2>4 DEF a, b
<1>3. ApplySignal(rel, signal) \in [{"t", "i", "f"} -> Scores]
  BY <1>2 DEF ApplySignal
<1>4. QED
  BY <1>3 DEF Reliabilities

\* Derived reliability is reliability, whatever the feedback.
LEMMA DerivedType ==
    ASSUME NEW initial \in Reliabilities, NEW feedback \in Seq(Signals)
    PROVE  Derived(initial, feedback) \in Reliabilities
<1> DEFINE len == Len(feedback)
           T == Reliabilities
           base == initial
           Pass(j, s) == ApplySignal(s, feedback[j])
           At(f, j) == IF j = 0 THEN base ELSE ApplySignal(f[j - 1], feedback[j])
           f == CHOOSE h : h = [j \in 0 .. len |-> At(h, j)]
           step == [j \in 1 .. len |-> [s \in T |-> Pass(j, s)]]
<1>1. len \in Nat /\ \A j \in 1 .. len : feedback[j] \in Signals
  OBVIOUS
<1>2. Derived(initial, feedback) = f[len]
  BY DEF Derived
<1> HIDE DEF len
<1>3. base \in T /\ \A j \in 1 .. len, s \in T : Pass(j, s) \in T
  BY <1>1, ApplySignalType
<1>4. step \in [1 .. len -> [T -> T]] /\ \A j \in 1 .. len, s \in T : step[j][s] = Pass(j, s)
  <2> HIDE DEF Pass, T
  <2>1. QED
    BY <1>3
<1>5. \A h, j : j # 0 => At(h, j) = Pass(j, h[j - 1])
  OBVIOUS
<1>6. \A h : At(h, 0) = base
  OBVIOUS
<1> HIDE DEF At, Pass, step, T, base
<1>7. \E h : h = [j \in 0 .. len |-> At(h, j)]
  <2>1. PICK g \in [0 .. len -> T] : Iterates(g, len, base, step)
    BY <1>1, <1>3, <1>4, RecursionExists
  <2>2. ASSUME NEW j \in 0 .. len PROVE g[j] = At(g, j)
    <3>1. CASE j = 0
      BY <1>6, <2>1, <3>1 DEF Iterates
    <3>2. CASE j # 0
      <4>1. j \in 1 .. len /\ j - 1 \in 0 .. len
        BY <1>1, <3>2
      <4>2. g[j - 1] \in T /\ g[j] = step[j][g[j - 1]]
        BY <2>1, <4>1 DEF Iterates
      <4>3. step[j][g[j - 1]] = Pass(j, g[j - 1])
        BY <1>4, <4>1, <4>2, Zenon
      <4>4. At(g, j) = Pass(j, g[j - 1])
        BY <1>5, <3>2, Zenon
      <4>5. QED
        BY <4>2, <4>3, <4>4, Zenon
    <3>3. QED
      BY <3>1, <3>2
  <2>3. g = [j \in 0 .. len |-> At(g, j)]
    BY <2>2
  <2>4. QED
    BY <2>3
<1>8. f = [j \in 0 .. len |-> At(f, j)]
  BY <1>7
<1> HIDE DEF f
<1>9. f[0] \in T
  <2>1. 0 \in 0 .. len
    BY <1>1
  <2>2. QED
    BY <1>3, <1>6, <1>8, <2>1
<1>10. ASSUME NEW j \in 1 .. len, f[j - 1] \in T PROVE f[j] \in T
  <2>1. j \in 0 .. len /\ j # 0
    BY <1>1
  <2>2. f[j] = Pass(j, f[j - 1])
    BY <1>5, <1>8, <2>1
  <2>3. QED
    BY <1>3, <1>10, <2>2
<1>11. f[len] \in T
  BY <1>1, <1>9, <1>10, LoopStays
<1>12. QED
  BY <1>2, <1>11 DEF T

LEMMA DeriveType ==
    ASSUME NEW mem, mem.feedback \in Seq(Signals), InitialReliability(mem) \in Reliabilities
    PROVE  DeriveReliability(mem) \in Reliabilities
BY DerivedType DEF DeriveReliability

-----------------------------------------------------------------------------
(***************************************************************************)
(* What a run decides on                                                   *)
(***************************************************************************)

\* The baseline is one of the memories.
LEMMA BaselineType ==
    ASSUME NEW S, NEW ms \in Seq(S), ms # <<>>, \A j \in DOMAIN ms : ms[j].importance \in Scores
    PROVE  ChooseBaseline(ms) \in DOMAIN ms
<1> DEFINE score == [j \in DOMAIN ms |-> ms[j].importance]
<1>1. DOMAIN ms \in SUBSET Nat /\ DOMAIN ms # {}
  <2>1. DOMAIN ms = 1 .. Len(ms) /\ Len(ms) \in Nat
    BY LenProperties
  <2>2. Len(ms) # 0
    BY EmptySeq
  <2>3. QED
    BY <2>1, <2>2
<1>2. \A j \in DOMAIN ms : score[j] \in Scores
  OBVIOUS
<1>3. ChooseBaseline(ms) = FirstMax(DOMAIN ms, score)
  BY DEF ChooseBaseline
<1> HIDE DEF score
<1>4. QED
  BY <1>1, <1>2, <1>3, FirstMaxIsGreatest

\* So is the one to act on.
LEMMA PositionType ==
    ASSUME NEW S, NEW ms \in Seq(S), ms # <<>>, \A j \in DOMAIN ms : ms[j].importance \in Scores,
           NEW rels, DOMAIN rels = DOMAIN ms, \A j \in DOMAIN ms : rels[j] \in Reliabilities
    PROVE  FeedbackAwarePosition(ms, rels) \in DOMAIN ms
<1>1. ASSUME NEW action, ClassOf(rels, action) # {}, NEW key \in {"t", "i", "f"}
      PROVE  FirstMax(ClassOf(rels, action), Component(rels, key)) \in DOMAIN ms
  <2> DEFINE D == ClassOf(rels, action)
             score == Component(rels, key)
  <2>1. D \in SUBSET DOMAIN ms
    BY DEF ClassOf
  <2>2. ASSUME NEW j \in D PROVE score[j] \in Scores
    <3>1. j \in DOMAIN ms /\ rels[j] \in Reliabilities
      BY <2>1
    <3>2. rels[j][key] \in Scores
      BY <3>1 DEF Reliabilities
    <3>3. score[j] = rels[j][key]
      BY <3>1 DEF Component
    <3>4. QED
      BY <3>2, <3>3
  <2>3. D \in SUBSET Nat /\ D # {}
    <3>1. DOMAIN ms = 1 .. Len(ms) /\ Len(ms) \in Nat
      BY LenProperties
    <3>2. QED
      BY <1>1, <2>1, <3>1
  <2> HIDE DEF D, score
  <2>4. FirstMax(D, score) \in D
    BY <2>2, <2>3, FirstMaxIsGreatest
  <2>5. QED
    BY <2>1, <2>4 DEF D, score
<1>2. ChooseBaseline(ms) \in DOMAIN ms
  BY BaselineType
<1>3. QED
  BY <1>1, <1>2 DEF FeedbackAwarePosition

\* A memory as the run sees it after a recall.
Enriched(e) ==
    /\ e.id \in Ids /\ e.importance \in Scores
    /\ e.meta = TRUE /\ e.rel \in Reliabilities /\ e.feedback \in Seq(Signals)

\* The evidence of a decision is among the memories it was taken on.
LEMMA EvidenceFromMemories ==
    ASSUME NEW S, NEW ms \in Seq(S), ms # <<>>, \A j \in DOMAIN ms : Enriched(ms[j]), NEW scenario
    PROVE  Range(Decide(scenario, ms).evidence) \subseteq Ids
<1> DEFINE rels == [j \in DOMAIN ms |-> DeriveReliability(ms[j])]
           pos == FeedbackAwarePosition(ms, rels)
           wanted == {mem \in Range(ms) : mem.fixture = scenario.safe}
           safe == Those(ms, wanted)
           e == Decide(scenario, ms).evidence
<1>1. \A j \in DOMAIN ms : rels[j] \in Reliabilities
  <2> SUFFICES ASSUME NEW j \in DOMAIN ms PROVE DeriveReliability(ms[j]) \in Reliabilities
    OBVIOUS
  <2>1. ms[j].feedback \in Seq(Signals) /\ InitialReliability(ms[j]) \in Reliabilities
    BY DEF Enriched, InitialReliability
  <2>2. QED
    BY <2>1, DeriveType
<1>2. pos \in DOMAIN ms
  <2>1. DOMAIN rels = DOMAIN ms /\ \A j \in DOMAIN ms : ms[j].importance \in Scores
    BY DEF Enriched
  <2> HIDE DEF rels
  <2>2. QED
    BY <1>1, <2>1, PositionType
<1>3. ChooseFeedbackAware(ms).pos = pos
  BY DEF ChooseFeedbackAware
<1>4. e = IF safe # <<>> /\ safe[1].id # ms[pos].id THEN <<ms[pos].id, safe[1].id>> ELSE <<ms[pos].id>>
  <2> HIDE DEF pos
  <2>1. QED
    BY <1>3 DEF Decide
<1> HIDE DEF pos, rels, e
<1>5. ms[pos].id \in Ids
  BY <1>2 DEF Enriched
<1>6. safe # <<>> => safe[1].id \in Ids
  <2>1. safe \in Seq(S \cap wanted)
    BY ThoseType
  <2>2. ASSUME safe # <<>> PROVE safe[1] \in wanted
    <3> HIDE DEF safe
    <3>1. 1 \in 1 .. Len(safe)
      BY <2>1, <2>2, EmptySeq, LenProperties
    <3>2. QED
      BY <2>1, <3>1
  <2>3. \A mem \in wanted : mem.id \in Ids
    BY DEF Enriched, Range
  <2>4. QED
    BY <2>2, <2>3
<1> HIDE DEF safe
<1>7. ASSUME NEW a \in Ids, NEW b \in Ids
      PROVE  Range(<<a>>) \subseteq Ids /\ Range(<<a, b>>) \subseteq Ids
  BY DEF Range
<1>8. Range(e) \subseteq Ids
  BY <1>4, <1>5, <1>6, <1>7
<1>9. QED
  BY <1>8 DEF e

\* What a run has read back of its scenario's feedback, and for which memories.
FetchedSoFar ==
    /\ fetched = [r \in Runs |-> fetched[r]]
    /\ \A r \in Runs :
         /\ \A x \in DOMAIN fetched[r] : fetched[r][x] \in Seq(Signals)
         /\ \A j \in DOMAIN Scenario(r).memories :
              (pc[r] = "recall" \/ (pc[r] \in {"store", "feedback", "history"} /\ j < m[r])) =>
                Scenario(r).memories[j].fixture \in DOMAIN fetched[r]

\* The engine answers with a list of what is stored.
LEMMA AnswerType ==
    ASSUME NEW answer \in RecallAnswers
    PROVE  answer \in Seq(Ids)
<1>1. PICK n \in 0 .. TopK : answer \in Injection(1 .. n, Recallable)
  BY DEF RecallAnswers
<1>2. n \in Nat /\ answer \in [1 .. n -> Recallable]
  BY <1>1, ProvenanceAssumption DEF Injection
<1>3. answer \in Seq(Recallable)
  BY <1>2, FunctionAsSequence
<1>4. Recallable \subseteq Ids
  BY DEF Recallable
<1>5. QED
  BY <1>3, <1>4

\* What is recalled of a scenario finds the feedback that was read back for it.
LEMMA EnrichType ==
    ASSUME CoreType, FetchedSoFar, NEW r \in Runs, pc[r] = "recall", NEW answer \in RecallAnswers
    PROVE  LET ms == Enrich(answer, Scenario(r), fetched[r])
           IN  ms \in Seq(Range(ms)) /\ \A j \in DOMAIN ms : Enriched(ms[j])
<1> DEFINE scenario == Scenario(r)
           Known(id) == /\ id.pos # Trace
                        /\ Source(id).fixture \in {mem.fixture : mem \in Range(scenario.memories)}
           wanted == {id \in Range(answer) : Known(id)}
           known == Those(answer, wanted)
           Entry(id) == [id |-> id, fixture |-> Source(id).fixture,
                         importance |-> Source(id).importance,
                         meta |-> TRUE, rel |-> Source(id).rel,
                         feedback |-> ExtractFeedbackSignals(fetched[r][Source(id).fixture])]
           ms == Enrich(answer, scenario, fetched[r])
<1>1. ms = [n \in DOMAIN known |-> Entry(known[n])]
  BY DEF Enrich
<1>2. answer \in Seq(Ids)
  BY AnswerType
<1>3. known \in Seq(Ids \cap wanted)
  <2> HIDE DEF wanted
  <2>1. QED
    BY <1>2, ThoseType
<1>4. DOMAIN known = 1 .. Len(known) /\ Len(known) \in Nat
      /\ \A n \in DOMAIN known : known[n] \in Ids /\ Known(known[n])
  <2>1. DOMAIN known = 1 .. Len(known) /\ Len(known) \in Nat
        /\ \A n \in 1 .. Len(known) : known[n] \in Ids \cap wanted
    <3> HIDE DEF known, wanted
    <3>1. QED
      BY <1>3, LenProperties
  <2>2. \A id \in wanted : Known(id)
    OBVIOUS
  <2> HIDE DEF known, wanted, Known
  <2>3. QED
    BY <2>1, <2>2
<1>5. ASSUME NEW id \in Ids, Known(id) PROVE Enriched(Entry(id))
  <2>1. id.session \in Sessions /\ id.pos \in DOMAIN MemoriesIn(id.session)
    BY <1>5, IdShape
  <2>2. Source(id).importance \in Scores /\ Source(id).rel \in Reliabilities
    <3>1. id.session[1] \in Runs /\ id.session[2] \in DOMAIN Fixture[id.session[1]]
      BY <2>1, SessionShape, ProvenanceAssumption, LenProperties
    <3>2. QED
      BY <2>1, <3>1, ProvenanceAssumption DEF Source, MemoriesIn
  <2>3. Source(id).fixture \in DOMAIN fetched[r]
    <3>1. PICK mem \in Range(scenario.memories) : Source(id).fixture = mem.fixture
      BY <1>5
    <3>2. PICK j \in DOMAIN scenario.memories : scenario.memories[j] = mem
      BY <3>1 DEF Range
    <3>3. QED
      BY <3>1, <3>2 DEF FetchedSoFar
  <2>4. fetched[r][Source(id).fixture] \in Seq(Signals)
    BY <2>3 DEF FetchedSoFar
  <2>5. ExtractFeedbackSignals(fetched[r][Source(id).fixture]) \in Seq(Signals)
    <3> DEFINE entries == fetched[r][Source(id).fixture]
    <3>1. entries \in Seq(Signals)
      BY <2>4
    <3> HIDE DEF entries
    <3>2. Those(entries, Signals) \in Seq(Signals \cap Signals)
      BY <3>1, ThoseType
    <3>3. Signals \cap Signals = Signals
      OBVIOUS
    <3>4. QED
      BY <3>2, <3>3 DEF ExtractFeedbackSignals, entries
  <2>6. QED
    BY <2>2, <2>5 DEF Enriched
<1> HIDE DEF known, Entry, Known, ms
<1>6. DOMAIN ms = 1 .. Len(known) /\ \A n \in DOMAIN ms : Enriched(ms[n])
  BY <1>1, <1>4, <1>5
<1>7. ms \in [1 .. Len(known) -> Range(ms)]
  BY <1>1, <1>6 DEF Range
<1>8. ms \in Seq(Range(ms))
  BY <1>4, <1>7, FunctionAsSequence
<1>9. QED
  BY <1>6, <1>8 DEF ms

\* What a step of run r does to what it has read back.
Fetches(r) ==
    \/ fetched' = fetched /\ (pc[r] = "history" => pc'[r] = "end")
    \/ fetched' = [fetched EXCEPT ![r] = <<>>] /\ pc[r] = "end"
    \/ /\ pc[r] = "history" /\ pc'[r] # "end"
       /\ pc'[r] = "recall" => m[r] >= Len(Scenario(r).memories)
       /\ \E entries \in {history[Id(r, m[r])], Reverse(history[Id(r, m[r])])} :
            fetched' = [fetched EXCEPT ![r] = Entered(fetched[r], Source(Id(r, m[r])).fixture, entries)]

\* Where its evidence comes from, and what it tries again.
Chooses(r) ==
    /\ \/ Evidence(r)' = Evidence(r)
       \/ Evidence(r)' = <<>>
       \/ /\ pc[r] = "recall"
          /\ \E answer \in RecallAnswers :
               LET ms == Enrich(answer, Scenario(r), fetched[r])
               IN  ms # <<>> /\ Evidence(r)' = Decide(Scenario(r), ms).evidence
    /\ retried' \in {retried, [retried EXCEPT ![r] = TRUE], [retried EXCEPT ![r] = FALSE]}

LEMMA StepFetches ==
    ASSUME CoreType, NEW r \in Runs, Step(r)
    PROVE  Fetches(r)
<1> USE DEF CoreType, Goto, Exit, Raise, Fetches
<1>1. CASE Ready(r)
  BY <1>1 DEF Ready
<1>2. CASE NotReady(r)
  BY <1>2 DEF NotReady
<1>3. CASE StartSession(r)
  BY <1>3 DEF StartSession
<1>4. CASE StartFails(r)
  BY <1>4 DEF StartFails
<1>5. CASE StoreMemory(r)
  BY <1>5 DEF StoreMemory
<1>6. CASE SubmitFeedback(r)
  BY <1>6 DEF SubmitFeedback
<1>7. CASE GetFeedback(r)
  <2>1. PICK entries \in {history[Id(r, m[r])], Reverse(history[Id(r, m[r])])} :
          fetched' = [fetched EXCEPT ![r] = Entered(fetched[r], Source(Id(r, m[r])).fixture, entries)]
    BY <1>7 DEF GetFeedback
  <2>2. /\ pc[r] = "history" /\ pc'[r] # "end"
        /\ pc'[r] = "recall" => m[r] >= Len(Scenario(r).memories)
    BY <1>7 DEF GetFeedback
  <2>3. QED
    BY <2>1, <2>2
<1>8. CASE RecallScenario(r)
  BY <1>8 DEF RecallScenario
<1>9. CASE StoreTrace(r)
  BY <1>9 DEF StoreTrace
<1>10. CASE LinkMemory(r)
  BY <1>10 DEF LinkMemory
<1>11. CASE RecallAssociated(r)
  BY <1>11 DEF RecallAssociated
<1>12. CASE RecallAgain(r)
  BY <1>12 DEF RecallAgain
<1>13. CASE ListSession(r)
  BY <1>13 DEF ListSession
<1>14. CASE RequestFails(r)
  BY <1>14 DEF RequestFails
<1>15. CASE RecallFails(r)
  BY <1>15 DEF RecallFails
<1>16. CASE EndSession(r)
  BY <1>16 DEF EndSession, AfterScenario
<1>17. CASE EndFails(r)
  BY <1>17 DEF EndFails, AfterScenario
<1>18. QED
  BY <1>1, <1>2, <1>3, <1>4, <1>5, <1>6, <1>7, <1>8, <1>9, <1>10, <1>11, <1>12, <1>13, <1>14, <1>15, <1>16, <1>17 DEF Step

LEMMA StepChooses ==
    ASSUME CoreType, NEW r \in Runs, Step(r)
    PROVE  Chooses(r)
<1> USE DEF CoreType, Goto, Exit, Raise, Chooses, Evidence
<1>1. CASE Ready(r)
  BY <1>1 DEF Ready
<1>2. CASE NotReady(r)
  BY <1>2 DEF NotReady
<1>3. CASE StartSession(r)
  BY <1>3 DEF StartSession
<1>4. CASE StartFails(r)
  BY <1>4 DEF StartFails
<1>5. CASE StoreMemory(r)
  BY <1>5 DEF StoreMemory
<1>6. CASE SubmitFeedback(r)
  BY <1>6 DEF SubmitFeedback
<1>7. CASE GetFeedback(r)
  BY <1>7 DEF GetFeedback
<1>8. CASE RecallScenario(r)
  <2>1. PICK answer \in RecallAnswers :
          LET ms == Enrich(answer, Scenario(r), fetched[r]) IN
          \/ ms = <<>> /\ Raise(r, "AssertionError")
          \/ /\ ms # <<>>
             /\ choice' = [choice EXCEPT ![r] = Decide(Scenario(r), ms)]
             /\ retried' = [retried EXCEPT ![r] = FALSE]
    BY <1>8 DEF RecallScenario
  <2> DEFINE ms == Enrich(answer, Scenario(r), fetched[r])
             d == Decide(Scenario(r), ms)
  <2>2. CASE Raise(r, "AssertionError")
    BY <2>2
  <2>3. CASE ms # <<>> /\ choice' = [choice EXCEPT ![r] = d] /\ retried' = [retried EXCEPT ![r] = FALSE]
    <3>1. pc[r] = "recall"
      BY <1>8 DEF RecallScenario
    <3>2. choice'[r] = d
      <4> HIDE DEF d, ms
      <4>1. QED
        BY <2>3
    <3>3. QED
      BY <2>3, <3>1, <3>2
  <2>4. QED
    BY <2>1, <2>2, <2>3
<1>9. CASE StoreTrace(r)
  BY <1>9 DEF StoreTrace
<1>10. CASE LinkMemory(r)
  BY <1>10 DEF LinkMemory
<1>11. CASE RecallAssociated(r)
  BY <1>11 DEF RecallAssociated
<1>12. CASE RecallAgain(r)
  BY <1>12 DEF RecallAgain
<1>13. CASE ListSession(r)
  BY <1>13 DEF ListSession
<1>14. CASE RequestFails(r)
  BY <1>14 DEF RequestFails
<1>15. CASE RecallFails(r)
  BY <1>15 DEF RecallFails
<1>16. CASE EndSession(r)
  BY <1>16 DEF EndSession, AfterScenario, NoChoice
<1>17. CASE EndFails(r)
  BY <1>17 DEF EndFails, AfterScenario, NoChoice
<1>18. QED
  BY <1>1, <1>2, <1>3, <1>4, <1>5, <1>6, <1>7, <1>8, <1>9, <1>10, <1>11, <1>12, <1>13, <1>14, <1>15, <1>16, <1>17 DEF Step

LEMMA ReversedType ==
    ASSUME NEW S, NEW s \in Seq(S)
    PROVE  Reverse(s) \in Seq(S)
<1>1. Len(s) \in Nat /\ \A j \in 1 .. Len(s) : s[j] \in S
  BY LenProperties
<1>2. \A j \in 1 .. Len(s) : (Len(s) - j) + 1 \in 1 .. Len(s)
  BY <1>1
<1>3. Reverse(s) \in [1 .. Len(s) -> S]
  BY <1>1, <1>2 DEF Reverse
<1>4. QED
  BY <1>1, <1>3, FunctionAsSequence

\* What is read back of a memory's feedback is entered under its fixture id.
LEMMA FetchedEntry ==
    ASSUME fetched = [s \in Runs |-> fetched[s]], NEW r \in Runs, Fetches(r),
           pc[r] = "history", pc'[r] # "end"
    PROVE  LET id == Id(r, m[r])
               x == Source(id).fixture
           IN  \E entries \in {history[id], Reverse(history[id])} :
                 /\ DOMAIN fetched'[r] = {x} \cup DOMAIN fetched[r]
                 /\ \A y \in DOMAIN fetched'[r] :
                       fetched'[r][y] = IF y = x THEN entries ELSE fetched[r][y]
<1> DEFINE id == Id(r, m[r])
           x == Source(id).fixture
<1>1. PICK entries \in {history[id], Reverse(history[id])} :
             fetched' = [fetched EXCEPT ![r] = Entered(fetched[r], x, entries)]
  BY DEF Fetches
<1> DEFINE new == Entered(fetched[r], x, entries)
<1> HIDE DEF x, id
<1>2. /\ DOMAIN new = {x} \cup DOMAIN fetched[r]
      /\ \A y \in DOMAIN new : new[y] = IF y = x THEN entries ELSE fetched[r][y]
  BY DEF Entered
<1>3. fetched'[r] = new
  BY <1>1
<1>4. QED
  BY <1>2, <1>3 DEF x, id

LEMMA FetchedSoFarStep ==
    ASSUME CoreType, CoreType', InMemories, FetchedSoFar, NEW r \in Runs, OthersStay(r), Moves(r), Fetches(r)
    PROVE  FetchedSoFar'
<1>1. fetched' = [s \in Runs |-> fetched'[s]] /\ \A s \in Runs : s # r => fetched'[s] = fetched[s]
  BY DEF Fetches, FetchedSoFar
<1>2. /\ \A s \in Runs : at[s] \in Nat /\ m[s] \in Nat /\ at'[s] \in Nat /\ m'[s] \in Nat
      /\ history \in [Ids -> Seq(Signals)] /\ fetched = [s \in Runs |-> fetched[s]]
  BY DEF CoreType, FetchedSoFar
<1>3. ASSUME NEW s \in Runs, s # r
      PROVE  /\ \A x \in DOMAIN fetched'[s] : fetched'[s][x] \in Seq(Signals)
             /\ \A j \in DOMAIN Scenario(s)'.memories :
                  (pc'[s] = "recall" \/ (pc'[s] \in {"store", "feedback", "history"} /\ j < m'[s])) =>
                    Scenario(s)'.memories[j].fixture \in DOMAIN fetched'[s]
  <2>1. fetched'[s] = fetched[s] /\ pc'[s] = pc[s] /\ m'[s] = m[s] /\ Scenario(s)' = Scenario(s)
    BY <1>1, <1>3 DEF OthersStay, Scenario
  <2>2. QED
    BY <2>1 DEF FetchedSoFar
<1>4. /\ \A x \in DOMAIN fetched'[r] : fetched'[r][x] \in Seq(Signals)
      /\ \A j \in DOMAIN Scenario(r)'.memories :
           (pc'[r] = "recall" \/ (pc'[r] \in {"store", "feedback", "history"} /\ j < m'[r])) =>
             Scenario(r)'.memories[j].fixture \in DOMAIN fetched'[r]
  <2>1. CASE pc[r] = "end"
    <3>1. fetched'[r] = fetched[r] \/ fetched'[r] = <<>>
      BY <1>2, <2>1 DEF Fetches, FetchedSoFar
    <3>2. pc'[r] \notin {"recall", "store", "feedback", "history"}
      BY <2>1 DEF Moves
    <3>3. QED
      BY <3>1, <3>2 DEF FetchedSoFar
  <2>2. CASE fetched' = fetched /\ pc[r] # "end" /\ (pc[r] = "history" => pc'[r] = "end")
    <3>1. Scenario(r)' = Scenario(r)
      BY <2>2 DEF Moves, Scenario
    <3>2. /\ pc'[r] = "recall" => pc[r] = "recall"
          /\ pc'[r] \in {"store", "feedback", "history"} =>
               \/ m'[r] = 1
               \/ m'[r] = m[r] /\ pc[r] \in {"store", "feedback", "history"}
      BY <2>2 DEF Moves
    <3>3. \A j \in DOMAIN Scenario(r).memories : ~(j < 1)
      BY OwnIds
    <3>4. QED
      BY <2>2, <3>1, <3>2, <3>3 DEF FetchedSoFar
  <2>3. CASE pc[r] = "history" /\ pc'[r] # "end"
    <3> DEFINE id == Id(r, m[r])
               x == Source(id).fixture
               ms == Scenario(r).memories
    <3>1. PICK entries \in {history[id], Reverse(history[id])} :
                 /\ DOMAIN fetched'[r] = {x} \cup DOMAIN fetched[r]
                 /\ \A y \in DOMAIN fetched'[r] :
                       fetched'[r][y] = IF y = x THEN entries ELSE fetched[r][y]
      BY <1>2, <2>3, FetchedEntry
    <3>2. m[r] \in DOMAIN ms /\ id \in Ids
      BY <2>3, OwnIds DEF InMemories
    <3>3. entries \in Seq(Signals)
      <4>1. history[id] \in Seq(Signals)
        BY <1>2, <3>2
      <4> HIDE DEF id
      <4>2. QED
        BY <3>1, <4>1, ReversedType
    <3>4. x = ms[m[r]].fixture
      BY DEF Id, Source, SessionOf, MemoriesIn, Scenario
    <3> HIDE DEF x, id
    <3>5. \A y \in DOMAIN fetched'[r] : fetched'[r][y] \in Seq(Signals)
      BY <3>1, <3>3 DEF FetchedSoFar
    <3>6. \A j \in DOMAIN ms : j <= m[r] => ms[j].fixture \in DOMAIN fetched'[r]
      <4> SUFFICES ASSUME NEW j \in DOMAIN ms, j <= m[r] PROVE ms[j].fixture \in DOMAIN fetched'[r]
        OBVIOUS
      <4>1. j \in Nat
        BY OwnIds
      <4>2. CASE j = m[r]
        BY <3>1, <3>4, <4>2
      <4>3. CASE j # m[r]
        <5>1. j < m[r]
          BY <1>2, <4>1, <4>3
        <5>2. QED
          BY <2>3, <3>1, <5>1 DEF FetchedSoFar
      <4>4. QED
        BY <4>2, <4>3
    <3>7. Scenario(r)' = Scenario(r)
      BY <2>3 DEF Moves, Scenario
    <3>8. CASE pc'[r] = "store"
      <4>1. m'[r] = m[r] + 1
        BY <2>3, <3>8 DEF Moves
      <4>2. \A j \in DOMAIN ms : j < m'[r] => j <= m[r]
        <5>1. \A j \in DOMAIN ms : j \in Nat
          BY OwnIds
        <5>2. QED
          BY <1>2, <4>1, <5>1
      <4>3. QED
        BY <3>5, <3>6, <3>7, <3>8, <4>2
    <3>9. CASE pc'[r] = "recall"
      <4>1. m[r] >= Len(ms)
        BY <2>3, <3>9 DEF Fetches
      <4>2. \A j \in DOMAIN ms : j \in 1 .. Len(ms) /\ Len(ms) \in Nat
        <5>1. DOMAIN ms = 1 .. Len(ms) /\ Len(ms) \in Nat
          BY OwnIds, MemoriesShape
        <5>2. QED
          BY <5>1
      <4>3. \A j \in DOMAIN ms : j <= m[r]
        BY <1>2, <4>1, <4>2
      <4>4. QED
        BY <3>5, <3>6, <3>7, <3>9, <4>3
    <3>10. QED
      BY <2>3, <3>8, <3>9 DEF Moves
  <2>4. QED
    BY <2>1, <2>2, <2>3 DEF Fetches
<1>5. QED
  BY <1>1, <1>3, <1>4 DEF FetchedSoFar

\* What was decided on and linked so far are memories of the runs.
EvidenceTyped ==
    /\ linked \in [Sessions -> SUBSET Ids]
    /\ retried \in [Runs -> BOOLEAN]
    /\ \A r \in Runs : Range(Evidence(r)) \subseteq Ids

LEMMA EvidenceTypedStep ==
    ASSUME CoreType, FetchedSoFar, LinksInOrder, EvidenceTyped, NEW r \in Runs,
           OthersStay(r), Links(r), Chooses(r)
    PROVE  EvidenceTyped'
<1>1. linked' \in [Sessions -> SUBSET Ids]
  <2>1. ASSUME pc[r] = "link" PROVE Evidence(r)[k[r]] \in Ids
    <3>1. IsEvidence(Evidence(r)) /\ k[r] \in 1 .. Len(Evidence(r))
      BY <2>1 DEF LinksInOrder, Evidence
    <3>2. Evidence(r)[k[r]] \in Range(Evidence(r))
      BY <3>1, EvidenceShape
    <3>3. QED
      BY <3>2 DEF EvidenceTyped
  <2>2. linked' = linked \/ (pc[r] = "link" /\ LinkTo(r, Evidence(r)[k[r]]))
    BY DEF Links
  <2>3. SessionOf(r) \in Sessions
    BY OwnIds
  <2>4. QED
    BY <2>1, <2>2, <2>3 DEF LinkTo, EvidenceTyped
<1>2. retried' \in [Runs -> BOOLEAN]
  BY DEF Chooses, EvidenceTyped
<1>3. ASSUME NEW s \in Runs PROVE Range(Evidence(s)') \subseteq Ids
  <2>1. CASE s # r
    BY <2>1 DEF OthersStay, Evidence, EvidenceTyped
  <2>2. CASE Evidence(r)' = Evidence(r)
    <3>1. CASE s = r
      BY <2>2, <3>1 DEF EvidenceTyped, Evidence
    <3>2. QED
      BY <2>1, <3>1
  <2>3. CASE s = r /\ Evidence(r)' = <<>>
    <3>1. Range(<<>>) = {}
      BY DEF Range
    <3>2. Evidence(s)' = <<>>
      BY <2>3 DEF Evidence
    <3>3. QED
      BY <3>1, <3>2
  <2>4. ASSUME s = r, pc[r] = "recall", NEW answer \in RecallAnswers, NEW ms,
               ms = Enrich(answer, Scenario(r), fetched[r]), ms # <<>>,
               Evidence(r)' = Decide(Scenario(r), ms).evidence
        PROVE  Range(Evidence(s)') \subseteq Ids
    <3>1. ms \in Seq(Range(ms)) /\ \A j \in DOMAIN ms : Enriched(ms[j])
      BY <2>4, EnrichType
    <3>2. Range(Decide(Scenario(r), ms).evidence) \subseteq Ids
      BY <2>4, <3>1, EvidenceFromMemories
    <3>3. Evidence(s)' = Evidence(r)'
      BY <2>4 DEF Evidence
    <3>4. QED
      BY <2>4, <3>2, <3>3
  <2>5. QED
    BY <2>1, <2>2, <2>3, <2>4 DEF Chooses
<1>4. QED
  BY <1>1, <1>2, <1>3 DEF EvidenceTyped

DecisionInv == EvidenceInv /\ FetchedSoFar /\ EvidenceTyped

LEMMA DecisionInvInit == Init => DecisionInv
<1> SUFFICES ASSUME Init PROVE DecisionInv
  OBVIOUS
<1>1. EvidenceInv
  BY EvidenceInvInit
<1>2. FetchedSoFar
  BY DEF Init, FetchedSoFar
<1>3. EvidenceTyped
  BY DEF Init, EvidenceTyped, Evidence, NoChoice, Range
<1>4. QED
  BY <1>1, <1>2, <1>3 DEF DecisionInv

LEMMA DecisionInvStep == DecisionInv /\ [Next]_vars => DecisionInv'
<1> SUFFICES ASSUME DecisionInv, [Next]_vars PROVE DecisionInv'
  OBVIOUS
<1>1. EvidenceInv /\ EvidenceInv' /\ CoreType /\ CoreType' /\ InMemories /\ LinksInOrder
  BY EvidenceInvStep DEF DecisionInv, EvidenceInv, SessionInv, SentInv
<1>2. ASSUME NEW r \in Runs, Step(r) PROVE DecisionInv'
  <2>1. OthersStay(r) /\ Moves(r) /\ Links(r) /\ Fetches(r) /\ Chooses(r)
    BY <1>1, <1>2, StepMoves, StepLinks, StepFetches, StepChooses
  <2>2. FetchedSoFar'
    BY <1>1, <2>1, FetchedSoFarStep DEF DecisionInv
  <2>3. EvidenceTyped'
    BY <1>1, <2>1, EvidenceTypedStep DEF DecisionInv
  <2>4. QED
    BY <1>1, <2>2, <2>3 DEF DecisionInv
<1>3. CASE UNCHANGED vars
  <2>1. FetchedSoFar' /\ EvidenceTyped'
    BY <1>3 DEF DecisionInv, FetchedSoFar, EvidenceTyped, Evidence, Scenario, vars, program, engine
  <2>2. QED
    BY <1>1, <2>1 DEF DecisionInv
<1>4. QED
  BY <1>2, <1>3 DEF Next, AllExited

(* The state stays of its type.  What could go wrong is the decision: the    *)
(* feedback it looks up for each memory it recalled has been read back, so   *)
(* the lookup by fixture id finds it (enrich_recalled_memories), and the     *)
(* evidence is among the memories that were recalled, whatever was recalled  *)
(* and whatever the feedback (choose_feedback_aware).                        *)
THEOREM ProvenanceTypeCorrect == Spec => []ProvenanceTypeOK
<1>1. DecisionInv => ProvenanceTypeOK
  <2> SUFFICES ASSUME DecisionInv PROVE ProvenanceTypeOK
    OBVIOUS
  <2>1. CoreType /\ EvidenceTyped
    BY DEF DecisionInv, EvidenceInv, SessionInv, SentInv
  <2>2. \A r \in Runs : at[r] \in DOMAIN Fixture[r]
    BY <2>1, ProvenanceAssumption, LenProperties DEF CoreType
  <2>3. QED
    BY <2>1, <2>2 DEF CoreType, EvidenceTyped, Evidence, ProvenanceTypeOK, Exceptions
<1>2. QED
  BY <1>1, DecisionInvInit, DecisionInvStep, PTL DEF Spec

-----------------------------------------------------------------------------
(***************************************************************************)
(* The decision is the one of the self-test                                *)
(***************************************************************************)

\* A memory as the run sees it is one of the fixture, its feedback read in one
\* order or the other.
ReadAs(e, mem) ==
    /\ e.fixture = mem.fixture /\ e.importance = mem.importance
    /\ Source(e.id).fixture = mem.fixture
    /\ DeriveReliability(e) \in Readings(mem)

\* What was read back of a memory's feedback is all of it.
FetchedWhole ==
    \A r \in Runs : \A j \in DOMAIN Scenario(r).memories :
        (pc[r] = "recall" \/ (pc[r] \in {"store", "feedback", "history"} /\ j < m[r])) =>
            LET mem == Scenario(r).memories[j]
            IN  fetched[r][mem.fixture] \in {mem.feedback, Reverse(mem.feedback)}

AsExpected(ids, scenario) ==
    {Source(id).fixture : id \in ids} = {scenario.direct, scenario.safe}

\* A decision with both memories at hand is on the memory to act on, and has
\* the safe one as its other evidence.
ChosenAsExpected ==
    \A r \in Runs : /\ "recallOk" \in DOMAIN choice[r]
                    /\ choice[r].recallOk => AsExpected(Range(Evidence(r)), Scenario(r))

\* So is what the traces of all scenarios that passed are linked to.
LinkedSoFar ==
    \A r \in Runs : raised[r] = "none" /\ allPassed[r] =>
        /\ \A n \in 1..(at[r] - 1) : AsExpected(linked[<<r, n>>], Fixture[r][n])
        /\ pc[r] \in {"end", "exited"} => AsExpected(linked[<<r, at[r]>>], Scenario(r))

SelfTestInv == DecisionInv /\ FetchedWhole /\ ChosenAsExpected /\ LinkedSoFar

\* Of a class, the best by a component is chosen.
LEMMA BestOfClass ==
    ASSUME NEW rels, DOMAIN rels \in SUBSET Nat, \A j \in DOMAIN rels : rels[j] \in Reliabilities,
           NEW action, ClassOf(rels, action) # {}, NEW key \in {"t", "i", "f"}
    PROVE  LET best == FirstMax(ClassOf(rels, action), Component(rels, key))
           IN  /\ best \in DOMAIN rels /\ Classify(rels[best]) = action
               /\ \A d \in DOMAIN rels :
                    Classify(rels[d]) = action => ~(rels[d][key] > rels[best][key])
<1> DEFINE D == ClassOf(rels, action)
           score == Component(rels, key)
           best == FirstMax(D, score)
<1>1. D \in SUBSET Nat /\ D # {} /\ \A j \in D : j \in DOMAIN rels
  BY DEF ClassOf
<1>2. \A j \in DOMAIN rels : rels[j][key] \in Scores /\ score[j] = rels[j][key]
  BY DEF Component, Reliabilities
<1>3. \A d : d \in D <=> d \in DOMAIN rels /\ Classify(rels[d]) = action
  BY DEF ClassOf
<1> HIDE DEF D, score
<1>4. best \in D /\ \A j \in D : score[j] <= score[best]
  BY <1>1, <1>2, FirstMaxIsGreatest
<1> HIDE DEF best
<1>5. ASSUME NEW d \in DOMAIN rels, Classify(rels[d]) = action, rels[d][key] > rels[best][key]
      PROVE  FALSE
  <2>1. score[d] <= score[best]
    BY <1>3, <1>4, <1>5
  <2>2. /\ rels[d][key] \in Int /\ rels[best][key] \in Int
        /\ rels[d][key] <= rels[best][key]
    BY <1>2, <1>3, <1>4, <2>1 DEF Scores
  <2>3. QED
    BY <1>5, <2>2
<1>6. best \in DOMAIN rels /\ Classify(rels[best]) = action
  BY <1>3, <1>4
<1>7. QED
  BY <1>5, <1>6 DEF best, D, score

\* The baseline is as important as any.
LEMMA BaselineIsGreatest ==
    ASSUME NEW S, NEW ms \in Seq(S), ms # <<>>, \A j \in DOMAIN ms : ms[j].importance \in Scores,
           NEW d \in DOMAIN ms
    PROVE  ~(ms[d].importance > ms[ChooseBaseline(ms)].importance)
<1> DEFINE score == [j \in DOMAIN ms |-> ms[j].importance]
           best == ChooseBaseline(ms)
<1>1. DOMAIN ms \in SUBSET Nat /\ DOMAIN ms # {}
  <2>1. DOMAIN ms = 1 .. Len(ms) /\ Len(ms) \in Nat
    BY LenProperties
  <2>2. Len(ms) # 0
    BY EmptySeq
  <2>3. QED
    BY <2>1, <2>2
<1>2. \A j \in DOMAIN ms : score[j] \in Scores /\ score[j] = ms[j].importance
  OBVIOUS
<1>3. best = FirstMax(DOMAIN ms, score)
  BY DEF ChooseBaseline
<1> HIDE DEF score, best
<1>4. best \in DOMAIN ms /\ score[d] <= score[best]
  BY <1>1, <1>2, <1>3, FirstMaxIsGreatest
<1>5. /\ ms[d].importance \in Int /\ ms[best].importance \in Int
      /\ ms[d].importance <= ms[best].importance
  <2>1. score[d] = ms[d].importance /\ score[best] = ms[best].importance
    BY <1>2, <1>4
  <2>2. score[d] \in Scores /\ score[best] \in Scores
    BY <1>2, <1>4
  <2>3. \A v \in Scores : v \in Int
    BY DEF Scores
  <2>4. QED
    BY <1>4, <2>1, <2>2, <2>3
<1>6. QED
  BY <1>5 DEF best

\* No memory outranks the one that is chosen.
LEMMA PositionOutranks ==
    ASSUME NEW S, NEW ms \in Seq(S), ms # <<>>, \A j \in DOMAIN ms : ms[j].importance \in Scores,
           NEW rels, DOMAIN rels = DOMAIN ms, \A j \in DOMAIN ms : rels[j] \in Reliabilities,
           NEW d \in DOMAIN ms
    PROVE  LET pos == FeedbackAwarePosition(ms, rels)
           IN  ~Outranks(ms[d], rels[d], ms[pos], rels[pos])
<1> DEFINE pos == FeedbackAwarePosition(ms, rels)
           Class(action) == ClassOf(rels, action)
           Best(action, key) == FirstMax(Class(action), Component(rels, key))
           Beats(action, key) == Classify(rels[d]) = action => ~(rels[d][key] > rels[Best(action, key)][key])
<1>1. DOMAIN rels \in SUBSET Nat
  BY LenProperties
<1>2. ASSUME NEW action, Class(action) # {}, NEW key \in {"t", "i", "f"}
      PROVE  Classify(rels[Best(action, key)]) = action /\ Beats(action, key)
  BY <1>1, <1>2, BestOfClass
<1>3. \A action : Class(action) = {} => Classify(rels[d]) # action
  BY DEF ClassOf
<1>4. Classify(rels[d]) \in Actions
  BY DEF Classify, Actions, Reuse
<1> HIDE DEF Class, Best, Beats
<1>5. CASE Class("surface_contradiction") # {}
  <2>1. pos = Best("surface_contradiction", "f")
    BY <1>5 DEF FeedbackAwarePosition, Class, Best
  <2>2. Classify(rels[pos]) = "surface_contradiction" /\ Beats("surface_contradiction", "f")
    BY <1>2, <1>5, <2>1
  <2> HIDE DEF pos
  <2>3. QED
    BY <2>1, <2>2 DEF Outranks, Beats, Reuse, pos
<1>6. CASE Class("surface_contradiction") = {} /\ Class("ask_clarification") # {}
  <2>1. pos = Best("ask_clarification", "i")
    BY <1>6 DEF FeedbackAwarePosition, Class, Best
  <2>2. /\ Classify(rels[pos]) = "ask_clarification" /\ Beats("ask_clarification", "i")
        /\ Classify(rels[d]) # "surface_contradiction"
    BY <1>2, <1>3, <1>6, <2>1
  <2> HIDE DEF pos
  <2>3. QED
    BY <2>1, <2>2 DEF Outranks, Beats, Reuse, pos
<1>7. CASE /\ Class("surface_contradiction") = {} /\ Class("ask_clarification") = {}
           /\ Class("reuse_confidently") # {}
  <2>1. pos = Best("reuse_confidently", "t")
    BY <1>7 DEF FeedbackAwarePosition, Class, Best
  <2>2. /\ Classify(rels[pos]) = "reuse_confidently" /\ Beats("reuse_confidently", "t")
        /\ Classify(rels[d]) \notin {"surface_contradiction", "ask_clarification"}
    BY <1>2, <1>3, <1>7, <2>1
  <2> HIDE DEF pos
  <2>3. QED
    BY <2>1, <2>2 DEF Outranks, Beats, Reuse, pos
<1>8. CASE /\ Class("surface_contradiction") = {} /\ Class("ask_clarification") = {}
           /\ Class("reuse_confidently") = {}
  <2>1. pos = ChooseBaseline(ms)
    BY <1>8 DEF FeedbackAwarePosition, Class
  <2>2. Classify(rels[d]) = "reuse_with_caveat"
    BY <1>3, <1>4, <1>8 DEF Actions, Reuse
  <2>3. ~(ms[d].importance > ms[pos].importance)
    BY <2>1, BaselineIsGreatest
  <2> HIDE DEF pos
  <2>4. QED
    BY <2>2, <2>3 DEF Outranks, pos
<1>9. QED
  BY <1>5, <1>6, <1>7, <1>8

\* With both memories at hand the evidence is the expected one.
LEMMA DecidesAsExpected ==
    ASSUME NEW scenario, Decisive(scenario), NEW S, NEW ms \in Seq(S), ms # <<>>,
           \A j \in DOMAIN ms : Enriched(ms[j]),
           \A j \in DOMAIN ms : \E mem \in Range(scenario.memories) : ReadAs(ms[j], mem),
           BothRecalled(scenario, ms)
    PROVE  AsExpected(Range(Decide(scenario, ms).evidence), scenario)
<1> DEFINE rels == [j \in DOMAIN ms |-> DeriveReliability(ms[j])]
           pos == FeedbackAwarePosition(ms, rels)
           wanted == {mem \in Range(ms) : mem.fixture = scenario.safe}
           safe == Those(ms, wanted)
           e == Decide(scenario, ms).evidence
<1>1. DOMAIN ms = 1 .. Len(ms) /\ \A j \in DOMAIN ms : ms[j].importance \in Scores
  BY LenProperties DEF Enriched
<1>2. \A j \in DOMAIN ms : rels[j] \in Reliabilities
  <2> SUFFICES ASSUME NEW j \in DOMAIN ms PROVE DeriveReliability(ms[j]) \in Reliabilities
    OBVIOUS
  <2>1. ms[j].feedback \in Seq(Signals) /\ InitialReliability(ms[j]) \in Reliabilities
    BY DEF Enriched, InitialReliability
  <2>2. QED
    BY <2>1, DeriveType
<1>3. DOMAIN rels = DOMAIN ms /\ \A j \in DOMAIN ms : rels[j] = DeriveReliability(ms[j])
  OBVIOUS
<1>4. ChooseFeedbackAware(ms).pos = pos
  BY DEF ChooseFeedbackAware
<1>5. e = IF safe # <<>> /\ safe[1].id # ms[pos].id THEN <<ms[pos].id, safe[1].id>> ELSE <<ms[pos].id>>
  <2> HIDE DEF pos
  <2>1. QED
    BY <1>4 DEF Decide
<1> HIDE DEF rels
<1>6. pos \in DOMAIN ms
  BY <1>1, <1>2, <1>3, PositionType
<1>7. \A d \in DOMAIN ms : ~Outranks(ms[d], rels[d], ms[pos], rels[pos])
  BY <1>1, <1>2, <1>3, PositionOutranks
<1> HIDE DEF pos, e
<1>8. Source(ms[pos].id).fixture = scenario.direct
  <2>1. PICK d \in DOMAIN ms : ms[d].fixture = scenario.direct
    BY DEF BothRecalled, Range
  <2>2. PICK mem \in Range(scenario.memories) : ReadAs(ms[d], mem)
    OBVIOUS
  <2>3. PICK other \in Range(scenario.memories) : ReadAs(ms[pos], other)
    BY <1>6
  <2>4. ~Outranks(mem, rels[d], other, rels[pos])
    BY <1>7, <2>2, <2>3 DEF Outranks, ReadAs
  <2>5. rels[d] \in Readings(mem) /\ rels[pos] \in Readings(other) /\ mem.fixture = scenario.direct
    BY <1>3, <1>6, <2>1, <2>2, <2>3 DEF ReadAs
  <2>6. other.fixture = scenario.direct
    BY <2>4, <2>5 DEF Decisive
  <2>7. QED
    BY <2>3, <2>6 DEF ReadAs
<1>9. safe # <<>> /\ Source(safe[1].id).fixture = scenario.safe
  <2>1. PICK d \in DOMAIN ms : ms[d].fixture = scenario.safe
    BY DEF BothRecalled, Range
  <2>2. d \in 1 .. Len(ms) /\ ms[d] \in wanted
    BY <1>1, <2>1 DEF Range
  <2>3. \A x \in wanted : Source(x.id).fixture = scenario.safe
    <3> SUFFICES ASSUME NEW j \in DOMAIN ms, ms[j].fixture = scenario.safe
                 PROVE  Source(ms[j].id).fixture = scenario.safe
      BY DEF Range
    <3> QED
      BY DEF ReadAs
  <2> HIDE DEF wanted
  <2>4. safe # <<>>
    BY <2>2, ThoseSome
  <2>5. safe \in Seq(S \cap wanted)
    BY ThoseType
  <2> HIDE DEF safe
  <2>6. 1 \in 1 .. Len(safe)
    BY <2>4, <2>5, EmptySeq, LenProperties
  <2>7. safe[1] \in wanted
    BY <2>5, <2>6
  <2>8. QED
    BY <2>3, <2>4, <2>7
<1> HIDE DEF safe
<1>10. \A a, b : Range(<<a>>) = {a} /\ Range(<<a, b>>) = {a, b}
  BY DEF Range
<1>11. Range(e) = {ms[pos].id, safe[1].id}
  BY <1>5, <1>9, <1>10
<1>12. QED
  BY <1>8, <1>9, <1>11 DEF AsExpected, e

\* Whatever is recalled of a scenario is read as memories of that scenario.
LEMMA EnrichReads ==
    ASSUME FixtureDecides, CoreType, FetchedSoFar, FetchedWhole,
           NEW r \in Runs, pc[r] = "recall", NEW answer \in RecallAnswers
    PROVE  LET ms == Enrich(answer, Scenario(r), fetched[r])
           IN  \A j \in DOMAIN ms : \E mem \in Range(Scenario(r).memories) : ReadAs(ms[j], mem)
<1> DEFINE scenario == Scenario(r)
           Known(id) == /\ id.pos # Trace
                        /\ Source(id).fixture \in {mem.fixture : mem \in Range(scenario.memories)}
           wanted == {id \in Range(answer) : Known(id)}
           known == Those(answer, wanted)
           Entry(id) == [id |-> id, fixture |-> Source(id).fixture,
                         importance |-> Source(id).importance,
                         meta |-> TRUE, rel |-> Source(id).rel,
                         feedback |-> ExtractFeedbackSignals(fetched[r][Source(id).fixture])]
           ms == Enrich(answer, scenario, fetched[r])
<1>1. ms = [n \in DOMAIN known |-> Entry(known[n])]
  BY DEF Enrich
<1>2. \A n \in DOMAIN known : known[n] \in Ids /\ Known(known[n])
  <2>1. answer \in Seq(Ids)
    BY AnswerType
  <2>2. known \in Seq(Ids \cap wanted)
    <3> HIDE DEF wanted
    <3>1. QED
      BY <2>1, ThoseType
  <2>3. \A n \in DOMAIN known : known[n] \in Ids \cap wanted
    <3> HIDE DEF known, wanted
    <3>1. QED
      BY <2>2, LenProperties
  <2>4. \A id \in wanted : Known(id)
    OBVIOUS
  <2> HIDE DEF known, wanted, Known
  <2>5. QED
    BY <2>3, <2>4
<1>3. ASSUME NEW id \in Ids, Known(id)
      PROVE  \E mem \in Range(scenario.memories) : ReadAs(Entry(id), mem)
  <2>1. PICK j \in DOMAIN scenario.memories : scenario.memories[j].fixture = Source(id).fixture
    BY <1>3 DEF Range
  <2> DEFINE mem == scenario.memories[j]
             entries == fetched[r][mem.fixture]
             e == Entry(id)
  <2>2. Id(r, j) \in Ids /\ Id(r, j).pos # Trace /\ Source(Id(r, j)) = mem
    BY OwnIds DEF Source, Id, Trace, SessionOf, MemoriesIn, Scenario
  <2>3. Source(id) = mem
    BY <1>3, <2>1, <2>2 DEF FixtureDecides
  <2>4. entries \in {mem.feedback, Reverse(mem.feedback)}
    BY DEF FetchedWhole
  <2>5. mem.feedback \in Seq(Signals)
    BY <2>2, OwnIds
  <2>6. entries \in Seq(Signals)
    BY <2>4, <2>5, ReversedType
  <2>7. ExtractFeedbackSignals(entries) = entries
    <3> HIDE DEF entries
    <3>1. \A i \in 1 .. Len(entries) : entries[i] \in Signals
      BY <2>6
    <3>2. QED
      BY <2>6, <3>1, ThoseAll DEF ExtractFeedbackSignals
  <2>8. /\ e.fixture = mem.fixture /\ e.importance = mem.importance /\ e.id = id
        /\ e.meta = TRUE /\ e.rel = mem.rel /\ e.feedback = entries
    BY <2>3, <2>7
  <2>9. DeriveReliability(e) = Derived(mem.rel, entries)
    <3> HIDE DEF e, entries, mem
    <3>1. QED
      BY <2>8 DEF DeriveReliability, InitialReliability
  <2>10. DeriveReliability(e) \in Readings(mem)
    BY <2>4, <2>9 DEF Readings
  <2>11. ReadAs(e, mem) /\ mem \in Range(scenario.memories)
    BY <2>3, <2>8, <2>10 DEF ReadAs, Range
  <2> HIDE DEF mem, e
  <2>12. QED
    BY <2>11 DEF e
<1> HIDE DEF known, Entry, Known, ms
<1>4. \A n \in DOMAIN ms : ms[n] = Entry(known[n]) /\ n \in DOMAIN known
  BY <1>1
<1>5. QED
  BY <1>2, <1>3, <1>4 DEF ms

-----------------------------------------------------------------------------
(* What is read back *)

\* When a run asks for the feedback of a memory, all of it has arrived.
LEMMA HistoryWhole ==
    ASSUME EvidenceInv, NEW r \in Runs, pc[r] = "history"
    PROVE  history[Id(r, m[r])] = Source(Id(r, m[r])).feedback
<1> DEFINE id == Id(r, m[r])
<1>1. CoreType /\ m[r] \in DOMAIN Scenario(r).memories /\ raised[r] = "none"
  BY DEF EvidenceInv, SessionInv, SentInv, InMemories, SessionsInOrder, CoreType, Exceptions
<1>2. id \in Ids /\ id.session = <<r, at[r]>> /\ id.pos = m[r] /\ m[r] \in Nat \ {0}
      /\ Source(id).feedback \in Seq(Signals)
  BY <1>1, OwnIds
<1> HIDE DEF id
<1>3. id.pos # Trace /\ Past(r, at[r], id.pos)
  BY <1>2 DEF Trace, Past
<1>4. Len(history[id]) = Len(Source(id).feedback)
  BY <1>1, <1>2, <1>3 DEF EvidenceInv, Delivered
<1>5. history[id] \in Seq(Signals) /\ IsPrefixOf(history[id], Source(id).feedback)
  BY <1>1, <1>2, <1>3 DEF EvidenceInv, SessionInv, SentInv, CoreType, FeedbackInOrder
<1>6. QED
  BY <1>2, <1>4, <1>5, SeqEqual DEF IsPrefixOf, id

LEMMA FetchedWholeStep ==
    ASSUME FixtureDecides, EvidenceInv, CoreType', FetchedSoFar, FetchedWhole,
           NEW r \in Runs, OthersStay(r), Moves(r), Fetches(r)
    PROVE  FetchedWhole'
<1>1. CoreType /\ InMemories /\ fetched = [s \in Runs |-> fetched[s]]
  BY DEF EvidenceInv, SessionInv, SentInv, FetchedSoFar
<1>2. \A s \in Runs : at[s] \in Nat /\ m[s] \in Nat /\ at'[s] \in Nat /\ m'[s] \in Nat
  BY <1>1 DEF CoreType
<1> SUFFICES ASSUME NEW s \in Runs, NEW j \in DOMAIN Scenario(s)'.memories,
                    pc'[s] = "recall" \/ (pc'[s] \in {"store", "feedback", "history"} /\ j < m'[s])
             PROVE  fetched'[s][Scenario(s)'.memories[j].fixture]
                      \in {Scenario(s)'.memories[j].feedback, Reverse(Scenario(s)'.memories[j].feedback)}
  BY DEF FetchedWhole
<1>3. CASE s # r
  <2>1. fetched'[s] = fetched[s]
    BY <1>1, <1>3 DEF Fetches
  <2>2. pc'[s] = pc[s] /\ m'[s] = m[s] /\ Scenario(s)' = Scenario(s)
    BY <1>3 DEF OthersStay, Scenario
  <2>3. QED
    BY <2>1, <2>2 DEF FetchedWhole
<1>4. CASE s = r /\ ~(pc[r] = "history" /\ pc'[r] # "end")
  <2>1. pc[r] # "end" /\ fetched' = fetched
    BY <1>4 DEF Moves, Fetches
  <2>2. Scenario(r)' = Scenario(r)
    BY <2>1 DEF Moves, Scenario
  <2>3. \/ pc[r] = "recall"
        \/ pc[r] \in {"store", "feedback", "history"} /\ j < m[r]
        \/ j < 1
    BY <1>4, <2>1 DEF Moves
  <2>4. ~(j < 1)
    BY <1>1, <1>4, <2>2, OwnIds
  <2>5. QED
    BY <1>4, <2>1, <2>2, <2>3, <2>4 DEF FetchedWhole
<1>5. CASE s = r /\ pc[r] = "history" /\ pc'[r] # "end"
  <2> DEFINE id == Id(r, m[r])
             x == Source(id).fixture
             ms == Scenario(r).memories
             mem == ms[j]
  <2>1. PICK entries \in {history[id], Reverse(history[id])} :
               /\ DOMAIN fetched'[r] = {x} \cup DOMAIN fetched[r]
               /\ \A y \in DOMAIN fetched'[r] :
                     fetched'[r][y] = IF y = x THEN entries ELSE fetched[r][y]
    BY <1>1, <1>5, FetchedEntry
  <2>2. m[r] \in DOMAIN ms /\ id \in Ids /\ id.pos # Trace /\ Source(id) = ms[m[r]]
    BY <1>1, <1>5, OwnIds DEF InMemories, Id, Source, SessionOf, MemoriesIn, Scenario, Trace
  <2>3. entries \in {ms[m[r]].feedback, Reverse(ms[m[r]].feedback)}
    BY <1>5, <2>1, <2>2, HistoryWhole
  <2>4. Scenario(r)' = Scenario(r) /\ j \in DOMAIN ms
    BY <1>5 DEF Moves, Scenario
  <2>5. Id(r, j) \in Ids /\ Id(r, j).pos # Trace /\ Source(Id(r, j)) = mem /\ j \in Nat
    BY <1>1, <2>4, OwnIds DEF Id, Source, SessionOf, MemoriesIn, Scenario, Trace
  <2>6. j = m[r] \/ j < m[r]
    <3>1. CASE pc'[r] = "recall"
      <4>1. m[r] >= Len(ms)
        BY <1>5, <3>1 DEF Fetches
      <4>2. j \in 1 .. Len(ms) /\ Len(ms) \in Nat
        BY <1>1, <2>4, OwnIds, MemoriesShape
      <4>3. QED
        BY <1>2, <4>1, <4>2
    <3>2. CASE pc'[r] # "recall"
      <4>1. j < m[r] + 1
        BY <1>5, <3>2 DEF Moves
      <4>2. QED
        BY <1>2, <2>5, <4>1
    <3>3. QED
      BY <3>1, <3>2
  <2>7. fetched'[r][mem.fixture] \in {mem.feedback, Reverse(mem.feedback)}
    <3>1. CASE mem.fixture = x
      <4>1. mem = ms[m[r]]
        BY <2>2, <2>5, <3>1 DEF FixtureDecides
      <4>2. fetched'[r][mem.fixture] = entries
        BY <2>1, <3>1
      <4>3. QED
        BY <2>3, <4>1, <4>2
    <3>2. CASE mem.fixture # x
      <4>1. j < m[r]
        BY <2>2, <2>6, <3>2
      <4>2. mem.fixture \in DOMAIN fetched[r]
        BY <1>5, <2>4, <4>1 DEF FetchedSoFar
      <4>3. fetched'[r][mem.fixture] = fetched[r][mem.fixture]
        BY <2>1, <3>2, <4>2
      <4>4. QED
        BY <1>5, <2>4, <4>1, <4>3 DEF FetchedWhole
    <3>3. QED
      BY <3>1, <3>2
  <2>8. QED
    BY <1>5, <2>4, <2>7
<1>6. QED
  BY <1>3, <1>4, <1>5

-----------------------------------------------------------------------------
(* What is decided, and linked *)

\* What a step of run r does to its decision, and what a pass says of it.
Decides(r) ==
    /\ \/ at'[r] = at[r] /\ choice'[r] = choice[r]
       \/ at'[r] = at[r] /\ \E ok : choice'[r] = [choice[r] EXCEPT !.associatedOk = ok]
       \/ choice'[r] = NoChoice
       \/ /\ at'[r] = at[r] /\ pc[r] = "recall"
          /\ \E answer \in RecallAnswers :
               LET ms == Enrich(answer, Scenario(r), fetched[r])
               IN  ms # <<>> /\ choice'[r] = Decide(Scenario(r), ms)
    /\ pc[r] = "list" /\ raised'[r] = "none" /\ allPassed'[r] => choice[r].recallOk

LEMMA StepDecides ==
    ASSUME CoreType, NEW r \in Runs, Step(r)
    PROVE  Decides(r)
<1> USE DEF CoreType, Goto, Exit, Raise, Decides
<1>1. CASE Ready(r)
  BY <1>1 DEF Ready
<1>2. CASE NotReady(r)
  BY <1>2 DEF NotReady
<1>3. CASE StartSession(r)
  BY <1>3 DEF StartSession
<1>4. CASE StartFails(r)
  BY <1>4 DEF StartFails
<1>5. CASE StoreMemory(r)
  BY <1>5 DEF StoreMemory
<1>6. CASE SubmitFeedback(r)
  BY <1>6 DEF SubmitFeedback
<1>7. CASE GetFeedback(r)
  BY <1>7 DEF GetFeedback
<1>8. CASE RecallScenario(r)
  <2>1. PICK answer \in RecallAnswers :
          LET ms == Enrich(answer, Scenario(r), fetched[r]) IN
          \/ ms = <<>> /\ Raise(r, "AssertionError")
          \/ /\ ms # <<>>
             /\ choice' = [choice EXCEPT ![r] = Decide(Scenario(r), ms)]
             /\ UNCHANGED at
    BY <1>8 DEF RecallScenario
  <2> DEFINE ms == Enrich(answer, Scenario(r), fetched[r])
             d == Decide(Scenario(r), ms)
  <2>2. pc[r] = "recall"
    BY <1>8 DEF RecallScenario
  <2>3. CASE Raise(r, "AssertionError")
    BY <2>2, <2>3
  <2>4. CASE ms # <<>> /\ choice' = [choice EXCEPT ![r] = d] /\ UNCHANGED at
    <3>1. choice'[r] = d
      <4> HIDE DEF d, ms
      <4>1. QED
        BY <2>4
    <3>2. QED
      BY <2>2, <2>4, <3>1
  <2>5. QED
    BY <2>1, <2>3, <2>4
<1>9. CASE StoreTrace(r)
  BY <1>9 DEF StoreTrace
<1>10. CASE LinkMemory(r)
  BY <1>10 DEF LinkMemory
<1>11. CASE RecallAssociated(r)
  <2>1. PICK answer \in AssociatedAnswers :
          choice' = [choice EXCEPT ![r].associatedOk = Range(choice[r].evidence) \subseteq answer]
    BY <1>11 DEF RecallAssociated
  <2> DEFINE ok == Range(choice[r].evidence) \subseteq answer
  <2>2. choice'[r] = [choice[r] EXCEPT !.associatedOk = ok]
    <3> HIDE DEF ok
    <3>1. QED
      BY <2>1 DEF ok
  <2>3. at'[r] = at[r] /\ pc[r] = "associated"
    BY <1>11 DEF RecallAssociated
  <2>4. QED
    BY <2>2, <2>3
<1>12. CASE RecallAgain(r)
  BY <1>12 DEF RecallAgain
<1>13. CASE ListSession(r)
  BY <1>13 DEF ListSession, Passes
<1>14. CASE RequestFails(r)
  BY <1>14 DEF RequestFails
<1>15. CASE RecallFails(r)
  BY <1>15 DEF RecallFails
<1>16. CASE EndSession(r)
  BY <1>16 DEF EndSession, AfterScenario
<1>17. CASE EndFails(r)
  BY <1>17 DEF EndFails, AfterScenario
<1>18. QED
  BY <1>1, <1>2, <1>3, <1>4, <1>5, <1>6, <1>7, <1>8, <1>9, <1>10, <1>11, <1>12, <1>13, <1>14, <1>15, <1>16, <1>17 DEF Step

LEMMA ChosenStep ==
    ASSUME FixtureDecides, CoreType, FetchedSoFar, FetchedWhole, ChosenAsExpected,
           NEW r \in Runs, OthersStay(r), Decides(r)
    PROVE  ChosenAsExpected'
<1> SUFFICES ASSUME NEW s \in Runs
             PROVE  /\ "recallOk" \in DOMAIN choice'[s]
                    /\ choice'[s].recallOk => AsExpected(Range(Evidence(s)'), Scenario(s)')
  BY DEF ChosenAsExpected, AsExpected
<1>1. /\ "recallOk" \in DOMAIN choice[s] /\ "evidence" \in DOMAIN choice[s]
      /\ choice[s].recallOk => AsExpected(Range(choice[s].evidence), Scenario(s))
  BY DEF ChosenAsExpected, Evidence, CoreType
<1>2. Evidence(s)' = choice'[s].evidence
  BY DEF Evidence
<1>3. CASE s # r
  <2>1. choice'[s] = choice[s] /\ Scenario(s)' = Scenario(s)
    BY <1>3 DEF OthersStay, Scenario
  <2>2. QED
    BY <1>1, <1>2, <2>1
<1>4. CASE s = r /\ at'[r] = at[r] /\ choice'[r] = choice[r]
  <2>1. Scenario(s)' = Scenario(s)
    BY <1>4 DEF Scenario
  <2>2. QED
    BY <1>1, <1>2, <1>4, <2>1
<1>5. ASSUME s = r, at'[r] = at[r], NEW ok, choice'[r] = [choice[r] EXCEPT !.associatedOk = ok]
      PROVE  /\ "recallOk" \in DOMAIN choice'[s]
             /\ choice'[s].recallOk => AsExpected(Range(Evidence(s)'), Scenario(s)')
  <2>1. Scenario(s)' = Scenario(s)
    BY <1>5 DEF Scenario
  <2>2. /\ "recallOk" \in DOMAIN choice'[s] /\ choice'[s].recallOk = choice[s].recallOk
        /\ choice'[s].evidence = choice[s].evidence
    BY <1>1, <1>5
  <2>3. QED
    BY <1>1, <1>2, <2>1, <2>2
<1>6. CASE s = r /\ choice'[r] = NoChoice
  BY <1>6 DEF NoChoice
<1>7. ASSUME s = r, at'[r] = at[r], pc[r] = "recall", NEW answer \in RecallAnswers, NEW ms,
             ms = Enrich(answer, Scenario(r), fetched[r]), ms # <<>>,
             choice'[r] = Decide(Scenario(r), ms)
      PROVE  /\ "recallOk" \in DOMAIN choice'[s]
             /\ choice'[s].recallOk => AsExpected(Range(Evidence(s)'), Scenario(s)')
  <2>1. Scenario(s)' = Scenario(s)
    BY <1>7 DEF Scenario
  <2>2. /\ "recallOk" \in DOMAIN Decide(Scenario(r), ms)
        /\ Decide(Scenario(r), ms).recallOk = BothRecalled(Scenario(r), ms)
    BY DEF Decide
  <2>3. /\ ms \in Seq(Range(ms)) /\ \A j \in DOMAIN ms : Enriched(ms[j])
        /\ \A j \in DOMAIN ms : \E mem \in Range(Scenario(r).memories) : ReadAs(ms[j], mem)
    BY <1>7, EnrichType, EnrichReads
  <2>4. Decisive(Scenario(r))
    <3>1. at[r] \in DOMAIN Fixture[r]
      BY ProvenanceAssumption, LenProperties DEF CoreType
    <3>2. QED
      BY <3>1 DEF FixtureDecides, Scenario
  <2>5. BothRecalled(Scenario(r), ms) => AsExpected(Range(Decide(Scenario(r), ms).evidence), Scenario(r))
    BY <1>7, <2>3, <2>4, DecidesAsExpected
  <2>6. QED
    BY <1>2, <1>7, <2>1, <2>2, <2>5
<1>8. QED
  BY <1>3, <1>4, <1>5, <1>6, <1>7 DEF Decides

LEMMA LinkedSoFarStep ==
    ASSUME CoreType, CoreType', LinksInOrder, ChosenAsExpected, LinkedSoFar,
           NEW r \in Runs, OthersStay(r), Moves(r), Links(r), Decides(r)
    PROVE  LinkedSoFar'
<1> SUFFICES ASSUME NEW s \in Runs, raised'[s] = "none", allPassed'[s],
                    NEW n, n \in 1..(at'[s] - 1) \/ (n = at'[s] /\ pc'[s] \in {"end", "exited"})
             PROVE  AsExpected(linked'[<<s, n>>], Fixture[s][n])
  BY DEF LinkedSoFar, AsExpected, Scenario
<1>1. at[s] \in 1..Len(Fixture[s]) /\ at'[s] \in 1..Len(Fixture[s]) /\ Len(Fixture[s]) \in Nat
  <2>1. Len(Fixture[s]) \in Nat
    BY ProvenanceAssumption, LenProperties
  <2>2. QED
    BY <2>1 DEF CoreType
<1>2. raised[s] = "none" /\ allPassed[s]
  BY DEF OthersStay, Links
<1>3. /\ \A j \in 1..(at[s] - 1) : AsExpected(linked[<<s, j>>], Fixture[s][j])
      /\ pc[s] \in {"end", "exited"} => AsExpected(linked[<<s, at[s]>>], Fixture[s][at[s]])
  BY <1>2 DEF LinkedSoFar, Scenario
<1>4. CASE n \in 1..(at[s] - 1)
  <2>1. n \in 1..Len(Fixture[s]) /\ n # at[s]
    BY <1>1, <1>4
  <2>2. linked'[<<s, n>>] = linked[<<s, n>>]
    BY <2>1, LinkedElsewhere
  <2>3. QED
    BY <1>3, <1>4, <2>2
<1>5. CASE s # r
  <2>1. at'[s] = at[s] /\ pc'[s] = pc[s]
    BY <1>5 DEF OthersStay
  <2>2. n \in 1..Len(Fixture[s]) /\ AsExpected(linked[<<s, n>>], Fixture[s][n])
    BY <1>1, <1>3, <2>1
  <2>3. QED
    BY <1>5, <2>2, LinkedElsewhere
<1>6. CASE s = r /\ n \notin 1..(at[s] - 1) /\ pc[r] = "end"
  <2>1. at'[r] = at[r] \/ (at'[r] = at[r] + 1 /\ pc'[r] = "start")
    BY <1>6 DEF Moves
  <2>2. n = at[r]
    BY <1>1, <1>6, <2>1
  <2>3. linked' = linked
    BY <1>6 DEF Links
  <2>4. QED
    BY <1>3, <1>6, <2>2, <2>3
<1>7. CASE s = r /\ n \notin 1..(at[s] - 1) /\ pc[r] # "end"
  <2>1. at'[r] = at[r]
    BY <1>7 DEF Moves
  <2>2. n = at[r] /\ pc'[r] \in {"end", "exited"}
    BY <1>7, <2>1
  <2>3. pc[r] = "list"
    BY <1>7, <2>2 DEF Links
  <2>4. linked' = linked
    BY <2>3 DEF Links
  <2>5. linked[<<r, n>>] = Range(Evidence(r))
    BY <2>2, <2>3 DEF LinksInOrder, Evidence, SessionOf
  <2>6. choice[r].recallOk
    BY <1>7, <2>3 DEF Decides
  <2>7. AsExpected(Range(Evidence(r)), Scenario(r))
    BY <2>6 DEF ChosenAsExpected
  <2>8. QED
    BY <1>7, <2>2, <2>4, <2>5, <2>7 DEF Scenario
<1>8. QED
  BY <1>4, <1>5, <1>6, <1>7

-----------------------------------------------------------------------------
(* Exit code 0 and the self-test *)

LEMMA SelfTestInvInit == Init => SelfTestInv
<1> SUFFICES ASSUME Init PROVE SelfTestInv
  OBVIOUS
<1>1. DecisionInv
  BY DecisionInvInit
<1>2. FetchedWhole /\ LinkedSoFar
  BY DEF Init, FetchedWhole, LinkedSoFar
<1>3. ChosenAsExpected
  BY DEF Init, ChosenAsExpected, NoChoice
<1>4. QED
  BY <1>1, <1>2, <1>3 DEF SelfTestInv

LEMMA SelfTestInvStep ==
    ASSUME FixtureDecides
    PROVE  SelfTestInv /\ [Next]_vars => SelfTestInv'
<1> SUFFICES ASSUME SelfTestInv, [Next]_vars PROVE SelfTestInv'
  OBVIOUS
<1>1. /\ DecisionInv /\ DecisionInv' /\ EvidenceInv /\ EvidenceInv' /\ CoreType /\ CoreType'
      /\ LinksInOrder /\ FetchedSoFar
  BY DecisionInvStep DEF SelfTestInv, DecisionInv, EvidenceInv, SessionInv, SentInv
<1>2. FetchedWhole /\ ChosenAsExpected /\ LinkedSoFar
  BY DEF SelfTestInv
<1>3. ASSUME NEW r \in Runs, Step(r) PROVE SelfTestInv'
  <2>1. OthersStay(r) /\ Moves(r) /\ Links(r) /\ Fetches(r) /\ Decides(r)
    BY <1>1, <1>3, StepMoves, StepLinks, StepFetches, StepDecides
  <2>2. FetchedWhole'
    BY <1>1, <1>2, <2>1, FetchedWholeStep
  <2>3. ChosenAsExpected'
    BY <1>1, <1>2, <2>1, ChosenStep
  <2>4. LinkedSoFar'
    BY <1>1, <1>2, <2>1, LinkedSoFarStep
  <2>5. QED
    BY <1>1, <2>2, <2>3, <2>4 DEF SelfTestInv
<1>4. CASE UNCHANGED vars
  <2>1. FetchedWhole' /\ ChosenAsExpected' /\ LinkedSoFar'
    BY <1>2, <1>4 DEF FetchedWhole, ChosenAsExpected, LinkedSoFar, Evidence, Scenario,
                      AsExpected, vars, program, engine
  <2>2. QED
    BY <1>1, <2>1 DEF SelfTestInv
<1>5. QED
  BY <1>3, <1>4 DEF Next, AllExited

(* For a fixture that decides (TLC checks that the repository's does): exit  *)
(* code 0 means that each trace is linked to the memory the self-test acts   *)
(* on and to its safe one, and to no other.  The run checks neither, only    *)
(* that both were recalled, and decides on whatever part of its memories the *)
(* engine returned, on copies that other runs stored, and on histories in    *)
(* any order (run_runtime_scenario, choose_feedback_aware,                   *)
(* evaluate_static_scenario).                                                *)
THEOREM PassesAsSelfTest ==
    ASSUME FixtureDecides
    PROVE  Spec => []PassedAsSelfTest
<1>1. SelfTestInv => PassedAsSelfTest
  <2> SUFFICES ASSUME SelfTestInv, NEW r \in Runs, exit[r] = 0, NEW n \in DOMAIN Fixture[r]
               PROVE  /\ {Source(id).fixture : id \in linked[<<r, n>>]}
                           = {EvaluateStatic(Fixture[r][n]).direct, Fixture[r][n].safe}
                      /\ EvaluateStatic(Fixture[r][n]).passed
    BY DEF PassedAsSelfTest
  <2>1. Len(Fixture[r]) \in Nat /\ n \in 1..Len(Fixture[r])
    BY ProvenanceAssumption, LenProperties
  <2>2. /\ pc[r] = "exited" /\ raised[r] = "none" /\ allPassed[r]
        /\ at[r] = Len(Fixture[r])
    BY DEF SelfTestInv, DecisionInv, EvidenceInv, ExitMeansPassed
  <2>3. n \in 1..(at[r] - 1) \/ n = at[r]
    BY <2>1, <2>2
  <2>4. AsExpected(linked[<<r, n>>], Fixture[r][n])
    BY <2>2, <2>3 DEF SelfTestInv, LinkedSoFar, Scenario
  <2>5. EvaluateStatic(Fixture[r][n]).passed
    BY DEF FixtureDecides, Decisive
  <2>6. EvaluateStatic(Fixture[r][n]).direct = Fixture[r][n].direct
    BY <2>5 DEF EvaluateStatic
  <2>7. QED
    BY <2>4, <2>5, <2>6 DEF AsExpected
<1>2. QED
  BY <1>1, SelfTestInvInit, SelfTestInvStep, PTL DEF Spec
=============================================================================
