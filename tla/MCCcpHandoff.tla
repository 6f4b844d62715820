----------------------------- MODULE MCCcpHandoff -----------------------------
(* ccp_handoff_scenarios.json, with the sizes its contents have.  The transcript *)
(* of the fixture is 1170 characters long; the others are around the points where *)
(* a verdict turns: 640 (the packet), 824 and 828 (22.5% saved), 1992 and 1996   *)
(* (its JSON).                                                                   *)
EXTENDS SwarmBenchmark

MCFixtureOrder ==
    <<"ccp-key-decision", "ccp-evidence", "ccp-caveat", "ccp-stale-timestamp-only",
      "ccp-unrelated-agent-memory">>

Of(t, i, f, chars, json) == [t |-> t, i |-> i, f |-> f, chars |-> chars, json |-> json]

MCMemory ==
    ("ccp-key-decision" :> Of(86, 10, 4, 229, 710)) @@
    ("ccp-evidence" :> Of(78, 16, 6, 234, 676)) @@
    ("ccp-caveat" :> Of(52, 58, 10, 175, 602)) @@
    ("ccp-stale-timestamp-only" :> Of(22, 34, 66, 111, 583)) @@
    ("ccp-unrelated-agent-memory" :> Of(20, 20, 60, 115, 533))

MCScenario(id, expected, action) == [id |-> id, expected |-> expected, action |-> action]

MCScenarios ==
    <<MCScenario("basic-handoff", "ccp-key-decision", "continue_from_ccp"),
      MCScenario("nuanced-decision", "ccp-caveat", "ask_clarification"),
      MCScenario("stale-context", "ccp-stale-timestamp-only", "surface_contradiction"),
      MCScenario("contradiction", "ccp-stale-timestamp-only", "surface_contradiction"),
      MCScenario("namespace-agent-isolation", "ccp-unrelated-agent-memory", "isolate_agent_scope"),
      MCScenario("token-economy", "ccp-key-decision", "ccp_payload_smaller")>>

MCRankings == {MCFixtureOrder, Reverse(MCFixtureOrder)}
=============================================================================
