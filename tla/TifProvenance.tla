---------------------------- MODULE TifProvenance ----------------------------
(***************************************************************************)
(* The runtime validation of examples/tif-provenance/                       *)
(* validate_tif_provenance.py, phase two.  For each scenario the program    *)
(* opens a session, stores memories, gives feedback and reads its history   *)
(* back, recalls, decides, stores a decision trace, links it to its         *)
(* evidence, and asks the engine for all of it again; the session is ended  *)
(* whatever happens.                                                        *)
(*                                                                          *)
(* Several runs may use one agent id at once: --agent-id names it, and the  *)
(* default is the fixture's id and the time in seconds.  Their memories are *)
(* then recalled by each other.                                             *)
(*                                                                          *)
(* A step is one request: what the engine does with it and what the program *)
(* does with the answer.  A request may also fail, in one of two ways:      *)
(* TimeoutError (the answer did not come while it was read) or any other    *)
(* exception (refused, an HTTP error, an answer that cannot be used).  In   *)
(* both cases the engine may have carried it out.  The engine is external.  *)
(***************************************************************************)
EXTENDS TifDecision, FiniteSets

CONSTANTS
    Runs,           \* processes of the program that share an agent id
    Fixture,        \* Fixture[r] is the sequence of scenarios run r was given
    TopK,           \* the most memories a recall returns (8 in the code)
    HealthRetries,  \* attempts of healthcheck (120 in the code)
    MaxFaults       \* bound of the model: requests that fail for good

(* A scenario: memories (fixture, importance, meta, rel, feedback), and what  *)
(* is expected: action, changed, direct and safe (fixture ids)                *)
ASSUME ProvenanceAssumption ==
    /\ HealthRetries \in Nat /\ TopK \in Nat /\ MaxFaults \in Nat
    /\ \A r \in Runs : /\ Fixture[r] \in Seq(Range(Fixture[r])) /\ Fixture[r] # <<>>
                       /\ \A k \in DOMAIN Fixture[r] :
                            LET ms == Fixture[r][k].memories IN
                            /\ ms \in Seq(Range(ms)) /\ ms # <<>>
                            /\ \A j \in DOMAIN ms : /\ ms[j].feedback \in Seq(Signals)
                                                     /\ ms[j].importance \in Scores
                                                     /\ ms[j].rel \in Reliabilities

Sessions == UNION {{<<r, n>> : n \in DOMAIN Fixture[r]} : r \in Runs}
MemoriesIn(s) == Fixture[s[1]][s[2]].memories

(* What the engine stores for a session: the trace, at 0, and its memories *)
Trace == 0
Ids == UNION {{[session |-> s, pos |-> p] : p \in {Trace} \cup DOMAIN MemoriesIn(s)} :
              s \in Sessions}
Source(id) == MemoriesIn(id.session)[id.pos]

VARIABLES
    \* the engine
    session,    \* [Sessions -> none, open or ended]
    stored,     \* [Ids -> how many stores of it were carried out]
    history,    \* [Ids -> the feedback received, in order]
    linked,     \* [Sessions -> what the trace of the session is linked to]
    \* the program, by run
    pc,         \* the request it is about to make
    at,         \* the scenario it is at
    m,          \* the memory, or the attempt of the health check, it is at
    k,          \* the signal, or the link, it is at
    retried,    \* whether this recall was already tried
    fetched,    \* feedback_history of the scenario, by fixture id
    choice,     \* what was decided, and on what evidence
    raised,     \* the exception that ends the run, if any
    allPassed,  \* all(item["passed"]) so far
    exit,       \* the exit code, -1 while running
    \* for the properties and the bound
    faults      \* the requests whose failure was not repaired, in order

engine == <<session, stored, history, linked>>
program == <<pc, at, m, k, retried, fetched, choice, raised, allPassed, exit>>
vars == <<engine, program, faults>>

Scenario(r) == Fixture[r][at[r]]
SessionOf(r) == <<r, at[r]>>
Id(r, pos) == [session |-> SessionOf(r), pos |-> pos]

NoChoice == [evidence |-> <<>>, action |-> "none", changed |-> FALSE,
             recallOk |-> FALSE, associatedOk |-> FALSE]

-----------------------------------------------------------------------------
(***************************************************************************)
(* Decisions                                                                *)
(***************************************************************************)

(* The static evaluation of a scenario, from the fixture alone *)
EvaluateStatic(scenario) ==
    LET ms == scenario.memories
        baseline == ChooseBaseline(ms)
        decision == ChooseFeedbackAware(ms)
        changed == \/ ms # <<>> /\ ms[baseline].fixture # ms[decision.pos].fixture
                   \/ decision.action # "reuse_confidently"
    IN [direct |-> IF ms = <<>> THEN "none" ELSE ms[decision.pos].fixture,
        action |-> decision.action,
        changed |-> changed,
        passed |-> /\ changed = scenario.changed
                   /\ decision.action = scenario.action
                   /\ ms # <<>> /\ ms[decision.pos].fixture = scenario.direct]

(* Recalled memories of other scenarios, and traces, are left out; the others *)
(* get the feedback this run read back for their fixture id, and keep their   *)
(* metadata.  A recalled memory is known by its id.                           *)
Enrich(recalled, scenario, feedbackOf) ==
    LET Known(id) == /\ id.pos # Trace
                     /\ Source(id).fixture \in {mem.fixture : mem \in Range(scenario.memories)}
        known == Those(recalled, {id \in Range(recalled) : Known(id)})
    IN [n \in DOMAIN known |->
          [id |-> known[n], fixture |-> Source(known[n]).fixture,
           importance |-> Source(known[n]).importance,
           meta |-> TRUE, rel |-> Source(known[n]).rel,
           feedback |-> ExtractFeedbackSignals(feedbackOf[Source(known[n]).fixture])]]

(* Mutant: recalling the memory to act on is enough *)
DirectRecalled(scenario, ms) == scenario.direct \in {mem.fixture : mem \in Range(ms)}

BothRecalled(scenario, ms) ==
    {scenario.direct, scenario.safe} \subseteq {mem.fixture : mem \in Range(ms)}

(* ms is not empty *)
Decide(scenario, ms) ==
    LET baseline == ms[ChooseBaseline(ms)]
        decision == ChooseFeedbackAware(ms)
        direct == ms[decision.pos]
        safe == Those(ms, {mem \in Range(ms) : mem.fixture = scenario.safe})
        same == baseline.fixture = direct.fixture
    IN [evidence |-> IF safe # <<>> /\ safe[1].id # direct.id
                     THEN <<direct.id, safe[1].id>> ELSE <<direct.id>>,
        action |-> decision.action,
        changed |-> ~(same /\ decision.action = "reuse_confidently"),
        recallOk |-> BothRecalled(scenario, ms),
        associatedOk |-> FALSE]

-----------------------------------------------------------------------------
(***************************************************************************)
(* What the engine may answer                                               *)
(***************************************************************************)

Recallable == {id \in Ids : stored[id] > 0}
RecallAnswers == UNION {Injection(1 .. n, Recallable) : n \in 0 .. TopK}

(* A trace is linked to its evidence, and evidence to the traces that use it *)
Neighbours(id) ==
    IF id.pos = Trace THEN linked[id.session]
    ELSE {t \in Recallable : t.pos = Trace /\ id \in linked[t.session]}

(* One memory and some of those it is linked to, or nothing *)
AssociatedAnswers ==
    {{}} \cup UNION {{{id} \cup more : more \in SUBSET Neighbours(id)} : id \in Recallable}

InSession(s) == {id \in Recallable : id.session = s}

-----------------------------------------------------------------------------
Init ==
    /\ session = [s \in Sessions |-> "none"]
    /\ stored = [id \in Ids |-> 0]
    /\ history = [id \in Ids |-> <<>>]
    /\ linked = [s \in Sessions |-> {}]
    /\ pc = [r \in Runs |-> "health"]
    /\ at = [r \in Runs |-> 1]
    /\ m = [r \in Runs |-> 1]
    /\ k = [r \in Runs |-> 1]
    /\ retried = [r \in Runs |-> FALSE]
    /\ fetched = [r \in Runs |-> <<>>]
    /\ choice = [r \in Runs |-> NoChoice]
    /\ raised = [r \in Runs |-> "none"]
    /\ allPassed = [r \in Runs |-> TRUE]
    /\ exit = [r \in Runs |-> -1]
    /\ faults = <<>>

Goto(r, label) == pc' = [pc EXCEPT ![r] = label]

Exit(r, code) == Goto(r, "exited") /\ exit' = [exit EXCEPT ![r] = code]

(* An exception in the try block: the finally clause comes next *)
Raise(r, exception) ==
    /\ Goto(r, "end")
    /\ raised' = [raised EXCEPT ![r] = exception]
    /\ UNCHANGED <<at, m, k, retried, fetched, choice, allPassed, exit>>

(* The request of run r fails *)
Fault(r) ==
    /\ Len(faults) < MaxFaults
    /\ faults' = Append(faults, [session |-> SessionOf(r), request |-> pc[r]])

-----------------------------------------------------------------------------
(***************************************************************************)
(* healthcheck                                                              *)
(***************************************************************************)

Ready(r) ==
    /\ pc[r] = "health"
    /\ Goto(r, "start")
    /\ UNCHANGED <<engine, at, m, k, retried, fetched, choice, raised, allPassed, exit, faults>>

(* Mutant: the attempts start again *)
NotReadyForever(r) ==
    /\ pc[r] = "health"
    /\ m' = [m EXCEPT ![r] = IF m[r] < HealthRetries THEN m[r] + 1 ELSE 1]
    /\ UNCHANGED <<engine, pc, at, k, retried, fetched, choice, raised, allPassed, exit, faults>>

(* Not ready, or any exception at all *)
NotReady(r) ==
    /\ pc[r] = "health"
    /\ \/ /\ m[r] < HealthRetries
          /\ m' = [m EXCEPT ![r] = m[r] + 1]
          /\ UNCHANGED <<pc, raised, exit>>
       \/ /\ m[r] >= HealthRetries
          /\ Exit(r, 1)
          /\ raised' = [raised EXCEPT ![r] = "RuntimeError"]
          /\ UNCHANGED m
    /\ UNCHANGED <<engine, at, k, retried, fetched, choice, allPassed, faults>>

-----------------------------------------------------------------------------
(***************************************************************************)
(* A scenario, request by request                                           *)
(***************************************************************************)

StartSession(r) ==
    /\ pc[r] = "start"
    /\ session' = [session EXCEPT ![SessionOf(r)] = "open"]
    /\ Goto(r, "store")
    /\ m' = [m EXCEPT ![r] = 1]
    /\ UNCHANGED <<stored, history, linked, at, k, retried, fetched, choice, raised, allPassed, exit, faults>>

(* Outside the try block: nobody ends a session the engine may have opened *)
StartFails(r) ==
    /\ pc[r] = "start"
    /\ Fault(r)
    /\ raised' = [raised EXCEPT ![r] = "RuntimeError"]
    /\ session' \in {session, [session EXCEPT ![SessionOf(r)] = "open"]}
    /\ Exit(r, 1)
    /\ UNCHANGED <<stored, history, linked, at, m, k, retried, fetched, choice, allPassed>>

Stored(id) == stored' = [stored EXCEPT ![id] = stored[id] + 1]

(* Mutant: a store that timed out is tried again, as a recall is *)
StoreMemoryTwice(r) ==
    LET id == Id(r, m[r]) IN
    /\ pc[r] = "store"
    /\ \/ /\ Goto(r, IF Source(id).feedback = <<>> THEN "history" ELSE "feedback")
          /\ k' = [k EXCEPT ![r] = 1]
          /\ UNCHANGED faults
       \/ Fault(r) /\ UNCHANGED <<pc, k>>
    /\ Stored(id)
    /\ UNCHANGED <<session, history, linked, at, m, retried, fetched, choice, raised,
                   allPassed, exit>>

StoreMemory(r) ==
    LET id == Id(r, m[r]) IN
    /\ pc[r] = "store"
    /\ Stored(id)
    /\ Goto(r, IF Source(id).feedback = <<>> THEN "history" ELSE "feedback")
    /\ k' = [k EXCEPT ![r] = 1]
    /\ UNCHANGED <<session, history, linked, at, m, retried, fetched, choice, raised,
                   allPassed, exit, faults>>

SignalReceived(r) ==
    LET id == Id(r, m[r]) IN
    history' = [history EXCEPT ![id] = Append(history[id], Source(id).feedback[k[r]])]

SubmitFeedback(r) ==
    /\ pc[r] = "feedback"
    /\ SignalReceived(r)
    /\ k' = [k EXCEPT ![r] = k[r] + 1]
    /\ Goto(r, IF k[r] < Len(Source(Id(r, m[r])).feedback) THEN "feedback" ELSE "history")
    /\ UNCHANGED <<session, stored, linked, at, m, retried, fetched, choice, raised,
                   allPassed, exit, faults>>

(* d[key] = value *)
Entered(d, key, value) ==
    [x \in DOMAIN d \cup {key} |-> IF x = key THEN value ELSE d[x]]

(* The engine lists a history oldest or newest first *)
GetFeedback(r) ==
    LET id == Id(r, m[r]) IN
    /\ pc[r] = "history"
    /\ \E entries \in {history[id], Reverse(history[id])} :
         fetched' = [fetched EXCEPT ![r] = Entered(fetched[r], Source(id).fixture, entries)]
    /\ \/ /\ m[r] < Len(Scenario(r).memories)
          /\ m' = [m EXCEPT ![r] = m[r] + 1]
          /\ Goto(r, "store")
       \/ /\ m[r] >= Len(Scenario(r).memories)
          /\ Goto(r, "recall")
          /\ UNCHANGED m
    /\ UNCHANGED <<engine, at, k, retried, choice, raised, allPassed, exit, faults>>

(* Recalls and decides; an empty recall fails an assertion *)
RecallScenario(r) ==
    /\ pc[r] = "recall"
    /\ \E answer \in RecallAnswers :
         LET ms == Enrich(answer, Scenario(r), fetched[r]) IN
         \/ ms = <<>> /\ Raise(r, "AssertionError")
         \/ /\ ms # <<>>
            /\ choice' = [choice EXCEPT ![r] = Decide(Scenario(r), ms)]
            /\ Goto(r, "trace")
            /\ retried' = [retried EXCEPT ![r] = FALSE]
            /\ UNCHANGED <<at, m, k, fetched, raised, allPassed, exit>>
    /\ UNCHANGED <<engine, faults>>

StoreTrace(r) ==
    /\ pc[r] = "trace"
    /\ Stored(Id(r, Trace))
    /\ Goto(r, "link")
    /\ k' = [k EXCEPT ![r] = 1]
    /\ UNCHANGED <<session, history, linked, at, m, retried, fetched, choice, raised,
                   allPassed, exit, faults>>

Linked(r) ==
    linked' = [linked EXCEPT ![SessionOf(r)] = @ \cup {choice[r].evidence[k[r]]}]

LinkMemory(r) ==
    /\ pc[r] = "link"
    /\ Linked(r)
    /\ k' = [k EXCEPT ![r] = k[r] + 1]
    /\ Goto(r, IF k[r] < Len(choice[r].evidence) THEN "link" ELSE "associated")
    /\ UNCHANGED <<session, stored, history, at, m, retried, fetched, choice, raised,
                   allPassed, exit, faults>>

RecallAssociated(r) ==
    /\ pc[r] = "associated"
    /\ \E answer \in AssociatedAnswers :
         choice' = [choice EXCEPT ![r].associatedOk = Range(choice[r].evidence) \subseteq answer]
    /\ Goto(r, "list")
    /\ retried' = [retried EXCEPT ![r] = FALSE]
    /\ UNCHANGED <<engine, at, m, k, fetched, raised, allPassed, exit, faults>>

(* Mutant: a recall that times out is not tried again *)
RecallGivesUp(r) ==
    /\ pc[r] \in {"recall", "associated"}
    /\ Raise(r, "TimeoutError")
    /\ UNCHANGED <<engine, faults>>

(* TimeoutError of a recall, the first time: no fault, for it is repaired *)
RecallAgain(r) ==
    /\ pc[r] \in {"recall", "associated"}
    /\ ~retried[r]
    /\ retried' = [retried EXCEPT ![r] = TRUE]
    /\ UNCHANGED <<engine, pc, at, m, k, fetched, choice, raised, allPassed, exit, faults>>

(* Mutant: the session need not list the evidence *)
PassesOnTraceAlone(r, listed) ==
    LET scenario == Scenario(r) IN
    /\ choice[r].changed = scenario.changed
    /\ choice[r].action = scenario.action
    /\ choice[r].recallOk /\ choice[r].associatedOk
    /\ Id(r, Trace) \in listed

Passes(r, listed) ==
    LET scenario == Scenario(r) IN
    /\ choice[r].changed = scenario.changed
    /\ choice[r].action = scenario.action
    /\ choice[r].recallOk /\ choice[r].associatedOk
    /\ {Id(r, Trace)} \cup Range(choice[r].evidence) \subseteq listed

(* session_memories and the verdict on the scenario *)
ListSession(r) ==
    /\ pc[r] = "list"
    /\ \E listed \in SUBSET InSession(SessionOf(r)) :
         allPassed' = [allPassed EXCEPT ![r] = allPassed[r] /\ Passes(r, listed)]
    /\ Goto(r, "end")
    /\ UNCHANGED <<engine, at, m, k, retried, fetched, choice, raised, exit, faults>>

(* Any other request of the try block that fails; which exception it is makes *)
(* no difference                                                              *)
RequestFails(r) ==
    /\ \/ /\ pc[r] = "store"
          /\ Stored(Id(r, m[r])) \/ UNCHANGED stored
          /\ UNCHANGED <<session, history, linked>>
       \/ /\ pc[r] = "feedback"
          /\ SignalReceived(r) \/ UNCHANGED history
          /\ UNCHANGED <<session, stored, linked>>
       \/ /\ pc[r] = "trace"
          /\ Stored(Id(r, Trace)) \/ UNCHANGED stored
          /\ UNCHANGED <<session, history, linked>>
       \/ /\ pc[r] = "link"
          /\ Linked(r) \/ UNCHANGED linked
          /\ UNCHANGED <<session, stored, history>>
       \/ /\ pc[r] \in {"history", "list"}
          /\ UNCHANGED engine
    /\ Fault(r)
    /\ Raise(r, "RuntimeError")

(* A recall that times out again, or fails otherwise *)
RecallFails(r) ==
    /\ pc[r] \in {"recall", "associated"}
    /\ Fault(r)
    /\ \/ retried[r] /\ Raise(r, "TimeoutError")
       \/ Raise(r, "RuntimeError")
    /\ UNCHANGED engine

-----------------------------------------------------------------------------
(***************************************************************************)
(* The finally clause, and what comes after it                              *)
(***************************************************************************)

(* Mutant: one too many *)
HasMoreScenariosOrEqual(r) == at[r] <= Len(Fixture[r])

HasMoreScenarios(r) == at[r] < Len(Fixture[r])

(* The scenario's variables die with it *)
AfterScenario(r) ==
  /\ choice' = [choice EXCEPT ![r] = NoChoice]
  /\ fetched' = [fetched EXCEPT ![r] = <<>>]
  /\ \/ /\ raised[r] # "none"
        /\ Exit(r, 1)
        /\ UNCHANGED at
     \/ /\ raised[r] = "none" /\ HasMoreScenarios(r)
        /\ at' = [at EXCEPT ![r] = at[r] + 1]
        /\ Goto(r, "start")
        /\ UNCHANGED exit
     \/ /\ raised[r] = "none" /\ ~HasMoreScenarios(r)
        /\ Exit(r, IF allPassed[r] THEN 0 ELSE 1)
        /\ UNCHANGED at

(* Mutant: the session is ended only when nothing was raised *)
EndSessionOnSuccess(r) ==
    /\ pc[r] = "end"
    /\ session' = IF raised[r] = "none"
                  THEN [session EXCEPT ![SessionOf(r)] = "ended"] ELSE session
    /\ AfterScenario(r)
    /\ UNCHANGED <<stored, history, linked, m, k, retried, raised, allPassed, faults>>

EndSession(r) ==
    /\ pc[r] = "end"
    /\ session' = [session EXCEPT ![SessionOf(r)] = "ended"]
    /\ AfterScenario(r)
    /\ UNCHANGED <<stored, history, linked, m, k, retried, raised, allPassed, faults>>

(* Swallowed *)
EndFails(r) ==
    /\ pc[r] = "end"
    /\ Fault(r)
    /\ session' \in {session, [session EXCEPT ![SessionOf(r)] = "ended"]}
    /\ AfterScenario(r)
    /\ UNCHANGED <<stored, history, linked, m, k, retried, raised, allPassed>>

-----------------------------------------------------------------------------
Step(r) ==
    \/ Ready(r) \/ NotReady(r)
    \/ StartSession(r) \/ StartFails(r)
    \/ StoreMemory(r) \/ SubmitFeedback(r) \/ GetFeedback(r)
    \/ RecallScenario(r) \/ StoreTrace(r) \/ LinkMemory(r)
    \/ RecallAssociated(r) \/ RecallAgain(r) \/ ListSession(r)
    \/ RequestFails(r) \/ RecallFails(r)
    \/ EndSession(r) \/ EndFails(r)

AllExited == (\A r \in Runs : pc[r] = "exited") /\ UNCHANGED vars

Next == (\E r \in Runs : Step(r)) \/ AllExited

Spec == Init /\ [][Next]_vars

(* Every request ends, answered or not (--request-timeout), so while some run *)
(* is not over the runs together go on.  Each has a bounded number of steps,  *)
(* so that is enough for all of them.                                         *)
FairSpec == Spec /\ WF_vars(Next)

-----------------------------------------------------------------------------
(***************************************************************************)
(* Properties                                                               *)
(***************************************************************************)

Requests == {"health", "start", "store", "feedback", "history", "recall", "trace", "link",
             "associated", "list", "end", "exited"}

(* Type invariant. *)
ProvenanceTypeOK ==
    /\ session \in [Sessions -> {"none", "open", "ended"}]
    /\ stored \in [Ids -> Nat]
    /\ history \in [Ids -> Seq(Signals)]
    /\ linked \in [Sessions -> SUBSET Ids]
    /\ pc \in [Runs -> Requests]
    /\ at \in [Runs -> Nat] /\ \A r \in Runs : at[r] \in DOMAIN Fixture[r]
    /\ m \in [Runs -> Nat] /\ k \in [Runs -> Nat]
    /\ retried \in [Runs -> BOOLEAN] /\ allPassed \in [Runs -> BOOLEAN]
    /\ \A r \in Runs : Range(choice[r].evidence) \subseteq Ids
    /\ raised \in [Runs -> {"none", "AssertionError", "TimeoutError", "RuntimeError"}]
    /\ exit \in [Runs -> {-1, 0, 1}]

(* Writes are not idempotent, and their answers may be lost: a store, or a    *)
(* signal of feedback, still reaches the engine at most once, and feedback in *)
(* the fixture's order (store_memory, submit_feedback, store_decision_trace   *)
(* beside the recalls, which are tried again).                                *)
NothingSentTwice ==
    \A id \in Ids :
        /\ stored[id] <= 1
        /\ id.pos # Trace => /\ Len(history[id]) <= Len(Source(id).feedback)
                             /\ \A n \in DOMAIN history[id] :
                                   history[id][n] = Source(id).feedback[n]

(* Exit code 0 rests on what the run itself left in the engine: for every     *)
(* scenario all its memories, each with all its feedback in the fixture's     *)
(* order, and a trace of its own session, linked to evidence of its own       *)
(* session only, although runs that share the agent id recall each other's    *)
(* memories, and although the decision may have been taken on one of those    *)
(* (run_runtime_scenario, main).                                              *)
PassedOnOwnEvidence ==
    \A r \in Runs : exit[r] = 0 =>
        \A n \in DOMAIN Fixture[r] :
            /\ \A id \in Ids : id.session = <<r, n>> /\ id.pos # Trace =>
                  stored[id] > 0 /\ history[id] = Source(id).feedback
            /\ stored[[session |-> <<r, n>>, pos |-> Trace]] > 0
            /\ linked[<<r, n>>] # {}
            /\ \A id \in linked[<<r, n>>] : id.session = <<r, n>> /\ stored[id] > 0

(* Exit code 0 and the self-test tell the same story: each trace is linked to *)
(* the memory the static evaluation acts on and to the one it calls safe, and *)
(* to no other.  The runtime check never compares the memory it acted on with *)
(* the expected one (evaluate_static_scenario does), and sees history in the  *)
(* engine's order.                                                            *)
PassedAsSelfTest ==
    \A r \in Runs : exit[r] = 0 =>
        \A n \in DOMAIN Fixture[r] :
            LET scenario == Fixture[r][n] IN
            /\ {Source(id).fixture : id \in linked[<<r, n>>]}
                 = {EvaluateStatic(scenario).direct, scenario.safe}
            /\ EvaluateStatic(scenario).passed

(* Fixtures for which exit code 0 has to tell that story: the self-test       *)
(* passes, and in whatever order each history is read, the memory to act on   *)
(* outranks each other one, not by its place in a list nor because a third    *)
(* one was recalled too.  The repository's scenarios are of this kind.        *)
Readings(mem) == {Derived(mem.rel, mem.feedback), Derived(mem.rel, Reverse(mem.feedback))}

Outranks(mem, rel, other, otherRel) ==
    LET action == Classify(rel)
        otherAction == Classify(otherRel)
    IN \/ /\ action = "surface_contradiction"
          /\ otherAction = action => rel.f > otherRel.f
       \/ /\ action = "ask_clarification"
          /\ otherAction = action => rel.i > otherRel.i
          /\ otherAction # "surface_contradiction"
       \/ /\ action = "reuse_confidently"
          /\ otherAction = action => rel.t > otherRel.t
          /\ otherAction \in Reuse
       \/ /\ action = "reuse_with_caveat" /\ otherAction = action
          /\ mem.importance > other.importance

Decisive(scenario) ==
    /\ EvaluateStatic(scenario).passed
    /\ \A mem, other \in Range(scenario.memories) :
          mem.fixture = scenario.direct /\ other.fixture # scenario.direct =>
             \A rel \in Readings(mem), otherRel \in Readings(other) :
                Outranks(mem, rel, other, otherRel)

(* ... and the runs of an agent mean the same memory by a fixture id          *)
FixtureDecides ==
    /\ \A r \in Runs : \A n \in DOMAIN Fixture[r] : Decisive(Fixture[r][n])
    /\ \A id, other \in Ids :
          /\ id.pos # Trace /\ other.pos # Trace
          /\ Source(id).fixture = Source(other).fixture
          => Source(id) = Source(other)

(* A session left open by a run that is over is one whose start or end got no *)
(* usable answer; every other exception on the way still ends it (the finally *)
(* clause of run_runtime_scenario, start_session before the try).             *)
OpenSessionsExplained ==
    \A s \in Sessions :
        session[s] = "open" /\ (at[s[1]] > s[2] \/ pc[s[1]] = "exited") =>
            \E n \in DOMAIN faults : faults[n].session = s /\ faults[n].request \in {"start", "end"}

(* "Recall is read-only. Retry once to tolerate cold ONNX/reranker startup":  *)
(* as long as the only failures are recalls that time out once each, nothing  *)
(* but an empty recall makes a run that got past the health check fail with   *)
(* an exception.                                                              *)
ColdStartTolerated ==
    faults = <<>> => \A r \in Runs : session[<<r, 1>>] # "none"
                                        => raised[r] \in {"none", "AssertionError"}

(* Every run ends, whatever fails: the health check counts its attempts, a    *)
(* recall is tried twice at most, and no loop repeats a request.              *)
Exits == <>(\A r \in Runs : pc[r] = "exited")
=============================================================================
