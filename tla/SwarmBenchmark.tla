---------------------------- MODULE SwarmBenchmark ----------------------------
(***************************************************************************)
(* examples/dakera-ccp-handoff/benchmark_swarm_assembly.py: handing over    *)
(* the full transcript (bee) against recalling the packet (ant), on the     *)
(* same fixture and with the same token estimate as the validator.  Scores  *)
(* and ratios are in ten-thousandths.                                       *)
(***************************************************************************)
EXTENDS CcpHandoff

(* round(numerator / denominator, 4): a half goes to the even neighbour, as if the *)
(* quotient were exact; a binary float can miss a half, and go to the other one    *)
Ratio(numerator, denominator) ==
    LET quotient == (10000 * numerator) \div denominator
        twice == 2 * ((10000 * numerator) % denominator)
        up == twice > denominator \/ (twice = denominator /\ quotient % 2 = 1)
    IN  IF denominator = 0 THEN 0 ELSE IF up THEN quotient + 1 ELSE quotient

ScoreWinner(bee, ant) ==
    IF bee > ant THEN "bee" ELSE IF ant > bee THEN "ant" ELSE "tie"

TokenWinner(fullTokens, candidateTokens) ==
    IF fullTokens < candidateTokens THEN "bee"
    ELSE IF candidateTokens < fullTokens THEN "ant" ELSE "tie"

(* The JSON of a list: its items, commas and two brackets *)
MemoryJsonTokens(ids) ==
    TokenEstimate(2 + JoinedChars([k \in DOMAIN ids |-> Memory[ids[k]].json]))

(* Mutant: the savings are held against the packet *)
SavingsAgainstPacket(fullTokens) ==
    Ratio(fullTokens - PacketTokens, PacketTokens)

SavingsRatio(fullTokens) ==
    Ratio(fullTokens - PacketTokens, fullTokens)

(* The scores that are not measured are the author's *)
BenchmarkCases(ratio) ==
    [tiny_single_turn_context      |-> ScoreWinner(9000, 6200),
     multi_agent_long_handoff      |->
        ScoreWinner(10000 - ratio, IF 5500 + ratio > 10000 THEN 10000 ELSE 5500 + ratio),
     uncertainty_and_contradiction |-> ScoreWinner(5500, 8800),
     agent_scope_isolation         |-> ScoreWinner(5800, 8600),
     full_audit_reconstruction     |-> ScoreWinner(9200, 7000)]

Wins(cases, who) == Cardinality({c \in DOMAIN cases : cases[c] = who})

(* build_benchmark, for a transcript of fullTokens *)
BuildBenchmark(fullTokens) ==
    LET antJson == MemoryJsonTokens(PacketOrder)
        ratio == SavingsRatio(fullTokens)
        cases == BenchmarkCases(ratio)
    IN [savings |-> fullTokens - PacketTokens,
        ratio |-> ratio,
        compact_content_payload |-> TokenWinner(fullTokens, PacketTokens),
        full_json_packet_payload |-> TokenWinner(fullTokens, antJson),
        top_k_overfetch_payload |-> TokenWinner(fullTokens, MemoryJsonTokens(FixtureOrder)),
        break_even |-> antJson + 1,
        cases |-> cases,
        viability |-> IF Wins(cases, "ant") >= Wins(cases, "bee") THEN "hybrid" ELSE "bee"]

-----------------------------------------------------------------------------
(* The benchmark agrees with the validator it imports and with itself          *)
(* (build_benchmark): the self-test's token-economy passes exactly when the    *)
(* compact payload wins, if the memory it expects is one of the fixture's; the *)
(* hybrid is advised exactly when the rounded saving is 22.5% or more, so      *)
(* never when the packet saves nothing; full JSON wins exactly from the        *)
(* break-even size up; and the longer the transcript, the better for the ants. *)
BenchmarkFollowsSavings ==
    LET result == BuildBenchmark(FullTokens)
        economy == {k \in DOMAIN Scenarios : Scenarios[k].id = "token-economy"}
    IN /\ \A k \in economy :
            EvaluateStatic(Scenarios[k]) <=> /\ result.compact_content_payload = "ant"
                                             /\ Scenarios[k].expected \in MemoryIds
       /\ (result.viability = "hybrid") <=> (10000 * result.savings >= 2249 * FullTokens
                                              /\ result.ratio >= 2250)
       /\ (result.full_json_packet_payload = "ant") <=> FullTokens >= result.break_even
       /\ result.top_k_overfetch_payload = "ant" => result.full_json_packet_payload = "ant"
       /\ \A other \in Transcripts :
            other >= transcript /\ result.viability = "hybrid" =>
                BuildBenchmark(TokenEstimate(other)).viability = "hybrid"
=============================================================================
