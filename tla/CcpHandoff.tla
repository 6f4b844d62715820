------------------------------ MODULE CcpHandoff ------------------------------
(***************************************************************************)
(* examples/dakera-ccp-handoff/validate_dakera_ccp_handoff.py: agent A      *)
(* leaves a packet of memories in a session, one memory goes to another     *)
(* agent, and six scenarios ask what agent B recalls.  One process against  *)
(* one engine; a step is a request and what is done with its answer, but a  *)
(* recall and the verdict on its answer are two.                            *)
(*                                                                          *)
(* The engine is external.  It may recall memories of any agent, ranked one *)
(* way or another, with or without their metadata, in any shape the program *)
(* reads, and any request may fail, carried out or not.                     *)
(*                                                                          *)
(* The name of the agent is abstract: no memory of an earlier run with the  *)
(* same --agent-id is recalled.  Sizes are in characters.                   *)
(***************************************************************************)
EXTENDS Integers, Sequences, SequencesExt, FiniteSets, FiniteSetsExt

CONSTANTS
    FixtureOrder,   \* the ids of fixture["memories"], in order
    Memory,         \* [id -> t, i, f in hundredths; chars of content, json of it all]
    Scenarios,      \* fixture["scenarios"]: id, expected memory, action
    Transcripts,    \* sizes the full transcript may have
    Rankings,       \* orders in which the engine may rank memories
    Shapes,         \* of the engine's answers
    HealthRetries   \* attempts of healthcheck (120 in the code)

MemoryIds == ToSet(FixtureOrder)
Unrelated == "ccp-unrelated-agent-memory"
Decision == "ccp-key-decision"
LinkTargets == <<"ccp-evidence", "ccp-caveat">>
Packet == {Decision, "ccp-evidence", "ccp-caveat"}

Distinct(seq) == \A i, j \in DOMAIN seq : seq[i] = seq[j] => i = j

(* "runtime id" stands for whatever id the engine gives a memory *)
ASSUME CcpAssumption ==
    /\ HealthRetries \in Nat /\ Transcripts \subseteq Nat
    /\ FixtureOrder \in Seq(MemoryIds) /\ Distinct(FixtureOrder)
    /\ Packet \cup {Unrelated} \subseteq MemoryIds
    /\ \A id \in MemoryIds : Memory[id].chars \in Nat /\ Memory[id].json \in Nat
    /\ Scenarios \in Seq(ToSet(Scenarios)) /\ Scenarios # <<>>
    /\ \A j \in DOMAIN Scenarios : Scenarios[j].expected # "runtime id"
    /\ \A ranking \in Rankings : ranking \in Seq(MemoryIds) /\ Distinct(ranking)
    /\ Shapes \subseteq {"object", "list", "single", "other"}

VARIABLES
    transcript,  \* size of "\n".join(fixture["full_transcript"])
    \* the engine
    session,     \* none, open or ended
    stored,      \* memories: id, agent, and whether in the session
    links,       \* what the decision is linked to
    \* the program
    pc,          \* the request it is about to make
    n,           \* attempt, memory, link or scenario the loop is at
    sessionProof,  \* bool(session_ids)
    answer,      \* of the recall, until it is judged
    allPassed,   \* all(item["passed"]) so far
    raised,      \* whether an exception is on its way out
    exit,        \* the exit code, -1 while running
    failed       \* the requests that failed, for the properties

engine == <<session, stored, links>>
vars == <<transcript, engine, pc, n, sessionProof, answer, allPassed, raised, exit, failed>>

NoAnswer == [seen |-> <<>>, associated |-> {}, meta |-> FALSE, shape |-> "other"]

-----------------------------------------------------------------------------
(***************************************************************************)
(* Estimating and classifying                                               *)
(***************************************************************************)

TokenEstimate(chars) == IF chars + 3 < 4 THEN 1 ELSE (chars + 3) \div 4

(* "\n".join, of texts given by their sizes *)
JoinedChars(sizes) ==
    LET joined[j \in 0 .. Len(sizes)] ==
          IF j = 0 THEN 0
          ELSE IF j = 1 THEN sizes[1] ELSE joined[j - 1] + 1 + sizes[j]
    IN joined[Len(sizes)]

(* [memory for memory in memories if ...] *)
Filtered(seq, ids) ==
    LET kept[j \in 0 .. Len(seq)] ==
          IF j = 0 THEN <<>>
          ELSE IF seq[j] \in ids THEN Append(kept[j - 1], seq[j]) ELSE kept[j - 1]
    IN kept[Len(seq)]

(* Without its metadata a memory is known by the engine's id, a fixture id of *)
(* nothing: the fallback to runtime_to_fixture is for a memory with no id     *)
FixtureId(id, meta) == IF meta THEN id ELSE "runtime id"

Zero == [t |-> 0, i |-> 0, f |-> 0]
Reliability(id, meta) == IF meta THEN Memory[id] ELSE Zero

ClassifyCcp(rel) ==
    CASE rel.f >= 50 -> "surface_contradiction"
      [] rel.f < 50 /\ rel.i >= 50 -> "ask_clarification"
      [] rel.t >= 70 /\ rel.i <= 35 /\ rel.f <= 35 -> "continue_from_ccp"
      [] OTHER -> "continue_with_caveat"

-----------------------------------------------------------------------------
(***************************************************************************)
(* The self-test                                                            *)
(***************************************************************************)

FullTokens == TokenEstimate(transcript)

TokensOf(ids) == TokenEstimate(JoinedChars([k \in DOMAIN ids |-> Memory[ids[k]].chars]))

PacketOrder == Filtered(FixtureOrder, Packet)
PacketTokens == TokensOf(PacketOrder)

EvaluateStatic(scenario) ==
    LET found == scenario.expected \in MemoryIds
    IN CASE scenario.id = "namespace-agent-isolation" -> scenario.expected = Unrelated
         [] scenario.id = "token-economy" -> PacketTokens < FullTokens /\ found
         [] OTHER -> /\ found
                     /\ ClassifyCcp(Memory[scenario.expected]) = scenario.action

RunSelfTest == \A k \in DOMAIN Scenarios : EvaluateStatic(Scenarios[k])

-----------------------------------------------------------------------------
(***************************************************************************)
(* The verdict on what the engine recalled                                  *)
(***************************************************************************)

(* seq[:count] *)
Take(seq, count) == SubSeq(seq, 1, IF Len(seq) < count THEN Len(seq) ELSE count)

(* normalize_recall_response: memories, and what they are associated with.  A *)
(* bare list, and an object that is itself a memory, are read as both         *)
RecalledMemories(ans) ==
    CASE ans.shape \in {"object", "list"} -> ans.seen
      [] ans.shape = "single" -> Take(ans.seen, 1)
      [] OTHER -> <<>>

AssociatedMemories(ans) ==
    IF ans.shape = "object" THEN ans.associated ELSE ToSet(RecalledMemories(ans))

(* The scenarios that ask for include_associated *)
Associated(scenario) == scenario.id \in {"nuanced-decision", "basic-handoff"}

RecallOk(scenario, recalled, associated) ==
    \/ scenario.expected \in recalled
    \/ scenario.id = "nuanced-decision" /\ scenario.expected \in associated

(* Mutant: one of the two links is enough *)
EitherAssociatedOk(scenario, recalled, associated) ==
    /\ scenario.id = "basic-handoff" => ToSet(LinkTargets) \cap associated # {}
    /\ scenario.id = "nuanced-decision" =>
         "ccp-caveat" \in recalled \cup associated

AssociatedOk(scenario, recalled, associated) ==
    /\ scenario.id = "basic-handoff" => ToSet(LinkTargets) \subseteq associated
    /\ scenario.id = "nuanced-decision" =>
         /\ "ccp-caveat" \in recalled \cup associated
         /\ {"ccp-evidence", Decision} \cap associated # {}

(* evaluate_runtime_scenario after its recall.  The first three recalled      *)
(* memories, whichever they are, are the payload of token-economy.            *)
EvaluateRuntime(scenario, ans) ==
    LET memories == RecalledMemories(ans)
        recalled == {FixtureId(id, ans.meta) : id \in ToSet(memories)}
        associated == {FixtureId(id, ans.meta) : id \in AssociatedMemories(ans)}
        ccpTokens == TokensOf(Take(memories, 3))
        selected == scenario.expected \in recalled \cup associated
        recallOk == RecallOk(scenario, recalled, associated)
    IN CASE scenario.id = "namespace-agent-isolation" -> scenario.expected \notin recalled
         [] scenario.id = "token-economy" -> selected /\ recallOk /\ ccpTokens < FullTokens
         [] OTHER -> /\ selected /\ recallOk
                     /\ ClassifyCcp(Reliability(scenario.expected, ans.meta)) = scenario.action
                     /\ AssociatedOk(scenario, recalled, associated)

-----------------------------------------------------------------------------
(***************************************************************************)
(* The engine's answers                                                     *)
(***************************************************************************)

StoredIds == {mem.id : mem \in stored}

Neighbours(ids) ==
    (IF Decision \in ids THEN links ELSE {}) \cup (IF ids \cap links # {} THEN {Decision} ELSE {})

Answers(scenario) ==
    UNION {{[seen |-> Filtered(ranking, ids), associated |-> assoc,
             meta |-> meta, shape |-> shape] :
               assoc \in SUBSET (IF Associated(scenario) THEN Neighbours(ids) ELSE {}),
               meta \in BOOLEAN, shape \in Shapes, ranking \in Rankings} :
           ids \in SUBSET StoredIds}

-----------------------------------------------------------------------------
Init ==
    /\ transcript \in Transcripts
    /\ session = "none" /\ stored = {} /\ links = {}
    /\ pc = "main" /\ n = 1
    /\ sessionProof = FALSE /\ answer = NoAnswer
    /\ allPassed = TRUE /\ raised = FALSE /\ exit = -1
    /\ failed = {}

Goto(label, index) == pc' = label /\ n' = index

Exit(code) == pc' = "exited" /\ exit' = code

(* An exception in the try block: the finally clause comes next *)
Raise ==
    /\ failed' = failed \cup {pc}
    /\ raised' = TRUE
    /\ Goto("end", n)
    /\ UNCHANGED <<sessionProof, allPassed, exit>>

(* --self-test: no request is made *)
SelfTest ==
    /\ pc = "main"
    /\ Exit(IF RunSelfTest THEN 0 ELSE 1)
    /\ UNCHANGED <<transcript, engine, n, sessionProof, answer, allPassed, raised, failed>>

RunRuntimeValidation ==
    /\ pc = "main"
    /\ Goto("health", 1)
    /\ UNCHANGED <<transcript, engine, sessionProof, answer, allPassed, raised, exit, failed>>

Ready ==
    /\ pc = "health"
    /\ Goto("start", 1)
    /\ UNCHANGED <<transcript, engine, sessionProof, answer, allPassed, raised, exit, failed>>

(* Not ready, or any exception at all *)
NotReady ==
    /\ pc = "health"
    /\ \/ n < HealthRetries /\ n' = n + 1 /\ UNCHANGED <<pc, exit>>
       \/ n >= HealthRetries /\ Exit(1) /\ UNCHANGED n
    /\ UNCHANGED <<transcript, engine, sessionProof, answer, allPassed, raised, failed>>

StartSession ==
    /\ pc = "start"
    /\ session' = "open"
    /\ Goto("store", 1)
    /\ UNCHANGED <<transcript, stored, links, sessionProof, answer, allPassed, raised, exit, failed>>

(* Outside the try block *)
StartFails ==
    /\ pc = "start"
    /\ session' \in {session, "open"}
    /\ failed' = {"start"}
    /\ Exit(1)
    /\ UNCHANGED <<transcript, stored, links, n, sessionProof, answer, allPassed, raised>>

(* Agent A's memories in the fixture's order, then the unrelated one *)
StoreOrder == Append(Filtered(FixtureOrder, MemoryIds \ {Unrelated}), Unrelated)

(* Mutant: the control memory goes where the others go *)
StoredForAgentA(id) == [id |-> id, agent |-> "a", inSession |-> TRUE]

StoredMemory(id) ==
    [id |-> id, agent |-> IF id = Unrelated THEN "unrelated" ELSE "a", inSession |-> id # Unrelated]

StoreMemory ==
    /\ pc = "store"
    /\ stored' = stored \cup {StoredMemory(StoreOrder[n])}
    /\ IF n < Len(StoreOrder) THEN Goto("store", n + 1) ELSE Goto("link", 1)
    /\ UNCHANGED <<transcript, session, links, sessionProof, answer, allPassed, raised, exit, failed>>

LinkMemory ==
    /\ pc = "link"
    /\ links' = links \cup {LinkTargets[n]}
    /\ IF n < Len(LinkTargets) THEN Goto("link", n + 1) ELSE Goto("list", 1)
    /\ UNCHANGED <<transcript, session, stored, sessionProof, answer, allPassed, raised, exit, failed>>

(* The engine lists some of the session's memories, with ids, or none *)
SessionMemories ==
    /\ pc = "list"
    /\ sessionProof' \in {FALSE, \E mem \in stored : mem.inSession}
    /\ Goto("recall", 1)
    /\ UNCHANGED <<transcript, engine, answer, allPassed, raised, exit, failed>>

Recall ==
    /\ pc = "recall"
    /\ answer' \in Answers(Scenarios[n])
    /\ Goto("judge", n)
    /\ UNCHANGED <<transcript, engine, sessionProof, allPassed, raised, exit, failed>>

(* Mutant: one too many *)
HasMoreScenariosOrEqual == n <= Len(Scenarios)

HasMoreScenarios == n < Len(Scenarios)

(* No request: the verdict, and the next scenario *)
Judge ==
    /\ pc = "judge"
    /\ allPassed' = (allPassed /\ EvaluateRuntime(Scenarios[n], answer))
    /\ answer' = NoAnswer
    /\ IF HasMoreScenarios THEN Goto("recall", n + 1) ELSE Goto("end", n)
    /\ UNCHANGED <<transcript, engine, sessionProof, raised, exit, failed>>

(* Any request of the try block that fails, carried out or not; recalls are   *)
(* not tried again                                                            *)
RequestFails ==
    /\ \/ /\ pc = "store"
          /\ stored' \in {stored, stored \cup {StoredMemory(StoreOrder[n])}}
          /\ UNCHANGED links
       \/ /\ pc = "link"
          /\ links' \in {links, links \cup {LinkTargets[n]}}
          /\ UNCHANGED stored
       \/ pc \in {"list", "recall"} /\ UNCHANGED <<stored, links>>
    /\ Raise
    /\ UNCHANGED <<transcript, session, answer>>

(* The exit code of main, once the finally clause is over *)
Finish == Exit(IF ~raised /\ allPassed THEN 0 ELSE 1)

(* Mutant: the session is ended only when nothing was raised *)
EndSessionOnSuccess ==
    /\ pc = "end"
    /\ session' = IF raised THEN session ELSE "ended"
    /\ Finish
    /\ UNCHANGED <<transcript, stored, links, n, sessionProof, answer, allPassed, raised, failed>>

EndSession ==
    /\ pc = "end"
    /\ session' = "ended"
    /\ Finish
    /\ UNCHANGED <<transcript, stored, links, n, sessionProof, answer, allPassed, raised, failed>>

(* Swallowed *)
EndFails ==
    /\ pc = "end"
    /\ session' \in {session, "ended"}
    /\ failed' = failed \cup {"end"}
    /\ Finish
    /\ UNCHANGED <<transcript, stored, links, n, sessionProof, answer, allPassed, raised>>

Exited == pc = "exited" /\ UNCHANGED vars

Next ==
    \/ SelfTest \/ RunRuntimeValidation
    \/ Ready \/ NotReady
    \/ StartSession \/ StartFails
    \/ StoreMemory \/ LinkMemory \/ SessionMemories
    \/ Recall \/ Judge \/ RequestFails
    \/ EndSession \/ EndFails
    \/ Exited

Spec == Init /\ [][Next]_vars

-----------------------------------------------------------------------------
(***************************************************************************)
(* Properties                                                               *)
(***************************************************************************)

(* Type invariant; the loop index is within the list its step goes through. *)
CcpTypeOK ==
    /\ transcript \in Transcripts
    /\ session \in {"none", "open", "ended"}
    /\ stored \subseteq [id : MemoryIds, agent : {"a", "unrelated"}, inSession : BOOLEAN]
    /\ links \subseteq ToSet(LinkTargets)
    /\ \/ pc \in {"main", "start", "list", "end", "exited"} /\ n \in Nat
       \/ pc = "health" /\ n \in Nat
       \/ pc = "store" /\ n \in DOMAIN StoreOrder
       \/ pc = "link" /\ n \in DOMAIN LinkTargets
       \/ pc \in {"recall", "judge"} /\ n \in DOMAIN Scenarios
    /\ answer.meta \in BOOLEAN /\ answer.associated \subseteq MemoryIds
    /\ {sessionProof, allPassed, raised} \subseteq BOOLEAN
    /\ exit \in {-1, 0, 1} /\ (exit = -1 <=> pc # "exited")

(* What a verdict rests on (evaluate_runtime_scenario, enrich_recalled,        *)
(* normalize_recall_response).  A scenario that passes was answered with its   *)
(* memory and that memory's metadata; basic-handoff with both linked memories  *)
(* beside it; an isolation scenario that passes the self-test without the      *)
(* other agent's memory, unless the engine left the metadata out, which makes  *)
(* that check pass on anything.  And what the self-test promises is kept:      *)
(* recalled as the fixture has it, the packet passes each scenario it answers  *)
(* that passes the self-test, and no other.                                    *)
VerdictsHold ==
    pc = "judge" =>
        LET scenario == Scenarios[n]
            passed == EvaluateRuntime(scenario, answer)
            seen == ToSet(answer.seen)
            isolation == scenario.id = "namespace-agent-isolation"
        IN /\ (/\ passed /\ isolation /\ EvaluateStatic(scenario)
               /\ answer.meta /\ answer.shape \in {"object", "list"}) =>
                 Unrelated \notin seen
           /\ (passed /\ ~isolation) =>
                 answer.meta /\ scenario.expected \in seen \cup answer.associated
           /\ (passed /\ scenario.id = "basic-handoff") =>
                 ToSet(LinkTargets) \subseteq seen \cup answer.associated
           /\ (/\ answer.shape = "object" /\ answer.meta
               /\ seen = Packet /\ ToSet(LinkTargets) \subseteq answer.associated
               /\ scenario.expected \in Packet) =>
                 (passed <=> EvaluateStatic(scenario))

(* No scenario is judged before all the others depend on is in place: agent    *)
(* A's memories in the open session, both links, and the control memory of the *)
(* isolation scenario with another agent and in no session                     *)
(* (run_runtime_validation).                                                   *)
SeededBeforeJudged ==
    pc = "judge" =>
        /\ session = "open"
        /\ links = ToSet(LinkTargets)
        /\ \A id \in MemoryIds :
              \E mem \in stored : mem.id = id /\ ((mem.agent = "a") <=> (id # Unrelated))
                                               /\ (mem.inSession <=> (id # Unrelated))

(* A session still open when the program is over is one whose start or end got *)
(* no usable answer: any exception between them still ends it (the finally     *)
(* clause of run_runtime_validation).                                          *)
SessionClosed == pc = "exited" /\ session = "open" => failed \cap {"start", "end"} # {}

(* "The runtime validator fails if [...] session memory proof is missing", the *)
(* README says: success would need a session that listed its memories.         *)
SessionProofRequired == exit = 0 /\ session # "none" => sessionProof
=============================================================================
