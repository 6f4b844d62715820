--------------------------- MODULE MCTifReliability ---------------------------
(* phase1_memories.json: its memories and all but one of its scenarios.  topK is *)
(* 3 or 1 and not 8: fewer than there are memories, as a fixture that grows would *)
(* have it.                                                                     *)
EXTENDS TifReliability

Memory(id, importance, t, i, f) ==
    [fixture |-> id, importance |-> importance, meta |-> TRUE,
     rel |-> [t |-> t, i |-> i, f |-> f]]

MCMemories ==
    <<Memory("target", 95, 95, 3, 1), Memory("obsolete", 90, 28, 18, 82),
      Memory("developer-facing", 86, 88, 8, 4),
      Memory("falsity", 88, 12, 16, 91), Memory("indeterminacy", 82, 42, 72, 12)>>

Scenario(action, changed, topK, selfTest) ==
    [expectedAction |-> action, expectedChanged |-> changed, topK |-> topK, selfTest |-> selfTest]

MCScenarios ==
    <<Scenario("surface_contradiction", TRUE, 3, <<"falsity", "target">>),
      Scenario("ask_clarification", TRUE, 1, <<"indeterminacy", "target">>),
      Scenario("reuse_confidently", FALSE, 1, <<"target", "developer-facing">>)>>

MCLeftovers == {{}, {"falsity", "target"}}
MCShapes == {"list", "wrapped list", "memories", "wrapped results"}
=============================================================================
