-------------------------- MODULE MCAgentNamespace --------------------------
(* An instance of AgentNamespace for TLC. *)
EXTENDS AgentNamespace

MCAgentIds ==
    {<<>>, <<"playground-demo">>, <<"pg", "session", "agent", "a">>,
     <<"pg", "session", "agent", "b">>, <<"pg", "session", "llm", "x">>,
     <<"pg", "session", "llm", "agent", "a">>,
     <<"pg", "session", "graphex">>, <<"pg", "session", "x">>, <<"pg", "a", "x">>}

MCWordLen ==
    [w \in {"pg", "session", "agent", "a", "b", "llm", "x", "graphex", "playground-demo"} |->
        CASE w = "pg" -> 2 [] w = "session" -> 7 [] w = "agent" -> 5 [] w = "llm" -> 3
          [] w = "graphex" -> 7 [] w = "playground-demo" -> 15 [] OTHER -> 1]

MCBatches ==
    {<<>>, <<Absent>>, <<Name(<<"pg", "session", "x">>)>>,
     <<Absent, Name(<<"pg", "session", "llm", "x">>)>>}
=============================================================================
