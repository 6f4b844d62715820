---------------------------- MODULE TifReliability ----------------------------
(***************************************************************************)
(* examples/tif-reliability/validate_tif_reliability.py, phase one: store   *)
(* memories that carry a reliability, recall them for each scenario, and    *)
(* compare what the importance alone would do with what (t, i, f) asks for. *)
(* One run of the program against one engine.  A step is a request and what *)
(* the program does with its answer.  The engine is external: it answers a  *)
(* recall with any of the agent's memories in any order and in any shape    *)
(* the program reads, with or without their metadata, and any request may   *)
(* fail.                                                                    *)
(***************************************************************************)
EXTENDS TifDecision, FiniteSets

CONSTANTS
    Memories,       \* fixture["memories"], a sequence of memories
    Scenarios,      \* fixture["scenarios"]: expectedAction, expectedChanged, topK and
                    \* selfTest, the ids fixture_memories_for_scenario has for it
    HealthRetries,  \* attempts of healthcheck
    Leftovers,      \* sets of fixture ids a run before may have stored for this agent
    Shapes          \* of the engine's answers

FixtureIds == {Memories[j].fixture : j \in DOMAIN Memories}

(* No scenario of the fixture expects what the lack of metadata leads to. *)
ASSUME TifAssumption ==
    /\ HealthRetries \in Nat
    /\ Memories \in Seq(ToSet(Memories)) /\ Memories # <<>>
    /\ ToSet(Memories) \subseteq
         [fixture : FixtureIds, importance : Scores, meta : {TRUE}, rel : Reliabilities]
    /\ Scenarios \in Seq(ToSet(Scenarios)) /\ Scenarios # <<>>
    /\ \A j \in DOMAIN Scenarios :
         /\ Scenarios[j].topK \in Nat
         /\ Scenarios[j].expectedAction \in Actions \ {"reuse_with_caveat"}
    /\ Leftovers \subseteq SUBSET FixtureIds
    /\ Shapes \subseteq {"list", "wrapped list", "memories", "wrapped results"}

VARIABLES
    recallable,  \* the engine: fixture ids stored for the agent
    pc,          \* main, health, store, recall, exited, or tested
    n,           \* attempt, memory or scenario the loop is at
    allPassed,   \* all(item["passed"]) so far
    exit,        \* the exit code, -1 while running
    last         \* the last answer and the verdict on it, for the properties

vars == <<recallable, pc, n, allPassed, exit, last>>

NoVerdict == [scenario |-> 0, seen |-> <<>>, shape |-> "none",
              action |-> "none", memory |-> "none", changed |-> FALSE, passed |-> FALSE]

-----------------------------------------------------------------------------
(***************************************************************************)
(* Reading and choosing, where phase one differs from phase two             *)
(***************************************************************************)

(* A bare list is returned as it is: what its items wrap is not looked for *)
NormalizeRecall(response) ==
    IF response.kind = "list"
    THEN [k \in DOMAIN Objects(response.items) |-> Objects(response.items)[k].self]
    ELSE NormalizeMemoryList(response, RecallKeys)

Reliability(m) == IF m.meta THEN m.rel ELSE Zero

ClassifyTif(m) == Classify(Reliability(m))

(* Mutant: the most important memory decides, whatever its reliability *)
MostImportantPosition(ms, rels) == ChooseBaseline(ms)

(* No tier for what may be reused confidently: the most important decides *)
TifAwarePosition(ms, rels) ==
    LET contradictions == ClassOf(rels, "surface_contradiction")
        unresolved == ClassOf(rels, "ask_clarification")
    IN IF contradictions # {} THEN FirstMax(contradictions, Component(rels, "f"))
       ELSE IF unresolved # {} THEN FirstMax(unresolved, Component(rels, "i"))
       ELSE ChooseBaseline(ms)

ChooseTifAware(ms) ==
    LET pos == TifAwarePosition(ms, [k \in DOMAIN ms |-> Reliability(ms[k])])
    IN IF ms = <<>> THEN [pos |-> 0, action |-> "no_memory"]
       ELSE [pos |-> pos, action |-> ClassifyTif(ms[pos])]

(* Mutant: passed compares the change and not the action *)
EvaluateChangeOnly(scenario, ms) ==
    LET decision == ChooseTifAware(ms)
        changed == ms # <<>> /\ decision.action # "reuse_confidently"
    IN [action |-> decision.action,
        memory |-> IF ms = <<>> THEN "none" ELSE ms[decision.pos].fixture,
        changed |-> changed,
        passed |-> changed = scenario.expectedChanged]

(* baseline_action is reuse_top_memory or, as the decision, no_memory: the  *)
(* two differ unless nothing was recalled                                   *)
Evaluate(scenario, ms) ==
    LET baseline == ChooseBaseline(ms)
        decision == ChooseTifAware(ms)
        same == ms # <<>> /\ ms[baseline].fixture = ms[decision.pos].fixture
        changed == ms # <<>> /\ ~(same /\ decision.action = "reuse_confidently")
    IN [action |-> decision.action,
        memory |-> IF ms = <<>> THEN "none" ELSE ms[decision.pos].fixture,
        changed |-> changed,
        passed |-> /\ changed = scenario.expectedChanged
                   /\ decision.action = scenario.expectedAction]

FixtureMemory(id) == CHOOSE m \in ToSet(Memories) : m.fixture = id

FixtureMemoriesFor(scenario) ==
    [k \in DOMAIN scenario.selfTest |-> FixtureMemory(scenario.selfTest[k])]

RunSelfTest ==
    \A k \in DOMAIN Scenarios : Evaluate(Scenarios[k], FixtureMemoriesFor(Scenarios[k])).passed

-----------------------------------------------------------------------------
(***************************************************************************)
(* The engine's answers                                                     *)
(***************************************************************************)

(* A wrapper read as a memory has neither reliability nor importance *)
Wrapper(m) == [m EXCEPT !.meta = FALSE, !.importance = 0]

AsItem(m, wrapped) ==
    [dict |-> TRUE, wrapped |-> wrapped, memory |-> m,
     self |-> IF wrapped THEN Wrapper(m) ELSE m]

Response(shape, ms) ==
    LET items == [k \in DOMAIN ms |-> AsItem(ms[k], shape \in {"wrapped list", "wrapped results"})]
    IN [kind |-> IF shape \in {"list", "wrapped list"} THEN "list" ELSE "dict",
        items |-> items, content |-> FALSE, self |-> Zero,
        lists |-> CASE shape = "memories" -> [memories |-> items]
                    [] shape = "wrapped results" -> [results |-> items]
                    [] OTHER -> <<>>]

Recallable(topK) ==
    UNION {SetToSeqs(ids) : ids \in {s \in SUBSET recallable : Cardinality(s) <= topK}}

Answers(topK) ==
    {[k \in DOMAIN ids |-> [FixtureMemory(ids[k]) EXCEPT !.meta = meta]] :
        ids \in Recallable(topK), meta \in BOOLEAN}

-----------------------------------------------------------------------------
Init ==
    /\ recallable \in Leftovers
    /\ pc = "main" /\ n = 1
    /\ allPassed = TRUE /\ exit = -1
    /\ last = NoVerdict

(* --self-test: no request is made *)
SelfTest ==
    /\ pc = "main"
    /\ pc' = "tested"
    /\ exit' = IF RunSelfTest THEN 0 ELSE 1
    /\ UNCHANGED <<recallable, n, allPassed, last>>

RunRuntimeValidation ==
    /\ pc = "main"
    /\ pc' = "health"
    /\ UNCHANGED <<recallable, n, allPassed, exit, last>>

(* An exception nobody catches: a traceback and exit code 1 *)
Raise == pc' = "exited" /\ exit' = 1 /\ UNCHANGED <<n, allPassed, last>>

(* Mutant: one too many *)
HasMoreMemoriesOrEqual == n <= Len(Memories)

HasMoreMemories == n < Len(Memories)

(* The next memory, or the first scenario *)
AfterStore ==
    IF HasMoreMemories
    THEN pc' = "store" /\ n' = n + 1
    ELSE pc' = "recall" /\ n' = 1

Ready ==
    /\ pc = "health"
    /\ pc' = "store" /\ n' = 1
    /\ UNCHANGED <<recallable, allPassed, exit, last>>

(* Not ready, or no answer: whatever the error, the next attempt follows *)
NotReady ==
    /\ pc = "health"
    /\ IF n < HealthRetries
       THEN n' = n + 1 /\ UNCHANGED <<pc, exit, allPassed, last>>
       ELSE Raise
    /\ UNCHANGED recallable

Store ==
    /\ pc = "store"
    /\ recallable' = recallable \cup {Memories[n].fixture}
    /\ AfterStore
    /\ UNCHANGED <<allPassed, exit, last>>

(* The answer is lost or an error; the engine may have stored all the same *)
StoreFails ==
    /\ pc = "store"
    /\ recallable' \in {recallable, recallable \cup {Memories[n].fixture}}
    /\ Raise

Recall ==
    /\ pc = "recall"
    /\ \E shape \in Shapes, answer \in Answers(Scenarios[n].topK) :
         LET verdict == Evaluate(Scenarios[n], NormalizeRecall(Response(shape, answer)))
             passed == allPassed /\ verdict.passed
         IN /\ last' = [scenario |-> n, seen |-> answer, shape |-> shape,
                        action |-> verdict.action, memory |-> verdict.memory,
                        changed |-> verdict.changed, passed |-> verdict.passed]
            /\ allPassed' = passed
            /\ IF n < Len(Scenarios)
               THEN n' = n + 1 /\ UNCHANGED <<pc, exit>>
               ELSE /\ pc' = "exited"
                    /\ exit' = IF passed THEN 0 ELSE 1
                    /\ UNCHANGED n
    /\ UNCHANGED recallable

(* A recall is not tried again in this phase *)
RecallFails ==
    /\ pc = "recall"
    /\ Raise
    /\ UNCHANGED recallable

Exited == pc \in {"exited", "tested"} /\ UNCHANGED vars

Next ==
    \/ SelfTest \/ RunRuntimeValidation
    \/ Ready \/ NotReady
    \/ Store \/ StoreFails
    \/ Recall \/ RecallFails
    \/ Exited

Spec == Init /\ [][Next]_vars

-----------------------------------------------------------------------------
(***************************************************************************)
(* Properties                                                               *)
(***************************************************************************)

(* Type invariant. *)
TifTypeOK ==
    /\ recallable \subseteq FixtureIds
    /\ pc \in {"main", "health", "store", "recall", "exited", "tested"}
    /\ n \in CASE pc = "store" -> DOMAIN Memories
              [] pc = "recall" -> DOMAIN Scenarios
              [] OTHER -> Nat
    /\ allPassed \in BOOLEAN
    /\ exit \in {-1, 0, 1} /\ (exit = -1 <=> pc \notin {"exited", "tested"})
    /\ last.action \in Actions \cup {"none", "no_memory"}
    /\ last.passed \in BOOLEAN

(* The verdict of a scenario follows from the memories in the engine's        *)
(* answer, in whatever order and shape they come (choose_tif_aware,           *)
(* normalize_recall_response): a contradiction among them is surfaced, the    *)
(* falsest one, whatever the importance of the others; failing that the least *)
(* resolved memory is asked about; only then does importance decide.          *)
VerdictReadsTheAnswer ==
    LET seen == {m \in ToSet(last.seen) : m.meta}
        At50(k) == {m \in seen : m.rel[k] >= 50}
        Foremost(k) == \E m \in At50(k) : /\ m.fixture = last.memory
                                          /\ \A o \in At50(k) : o.rel[k] <= m.rel[k]
        MostImportant == \E m \in seen : /\ m.fixture = last.memory
                                         /\ \A o \in seen : o.importance <= m.importance
    IN last.shape # "wrapped list" /\ seen # {} =>
         IF At50("f") # {} THEN last.action = "surface_contradiction" /\ Foremost("f")
         ELSE IF At50("i") # {} THEN last.action = "ask_clarification" /\ Foremost("i")
         ELSE last.action \in Reuse /\ MostImportant

(* A scenario passes only on metadata that went to the engine and came back   *)
(* where the program looks for it, and exit code 0 says so of the last one,   *)
(* after every memory was stored (self-test aside): an answer without         *)
(* metadata, or one that wraps its memories in a bare list, cannot pass for a *)
(* round trip.                                                                *)
PassMeansRoundTrip ==
    /\ last.passed => /\ last.shape # "wrapped list"
                      /\ \E m \in ToSet(last.seen) : m.meta /\ m.fixture = last.memory
    /\ (exit = 0 /\ pc = "exited") =>
                   /\ last.passed /\ last.scenario = Len(Scenarios)
                   /\ recallable = FixtureIds

(* The two phases choose by different rules (choose_tif_aware has no tier for *)
(* confident reuse, choose_feedback_aware has).  On the same memories, without*)
(* feedback, they act on the same one whenever it is a contradiction or       *)
(* unresolved, and what phase one reuses confidently phase two does too.      *)
PhasesAgree ==
    LET ms == [k \in DOMAIN last.seen |->
                 [fixture |-> last.seen[k].fixture, importance |-> last.seen[k].importance,
                  meta |-> last.seen[k].meta, rel |-> last.seen[k].rel, feedback |-> <<>>]]
        one == ChooseTifAware(ms)
        two == ChooseFeedbackAware(ms)
    IN /\ one.action \in {"surface_contradiction", "ask_clarification", "no_memory"} => one = two
       /\ one.action = "reuse_confidently" => two.action = "reuse_confidently"
       /\ two.action = "reuse_with_caveat" => one = two
=============================================================================
