----------------------------- MODULE LlmCompare -----------------------------
(***************************************************************************)
(* POST /v1/playground/llm-compare, answered by the proxy itself           *)
(* (docker/playground/proxy/llm-compare.js), among the requests of         *)
(* SandboxProxy.                                                           *)
(*                                                                         *)
(* A comparison spends a slot of each limiter, seeds the namespace of its  *)
(* session once, recalls from it, and asks the models of a cascade twice   *)
(* in parallel, with and without what it recalled.  The models are         *)
(* external.  A seed is a batch in the engine's namespace like a store,    *)
(* under the name of the comparison that sent it.                          *)
(***************************************************************************)
EXTENDS SandboxProxy

CONSTANTS
    Models,             \* length of MODEL_CASCADE
    DefaultScenario,    \* the scenario of sessionNamespace(id)
    LlmConfigured       \* OPENROUTER_API_KEY is set

ASSUME LlmAssumption ==
    /\ Models \in Nat \ {0}
    /\ DefaultScenario \in Scenarios
    /\ LlmConfigured \in BOOLEAN

VARIABLE cmp            \* what handleLlmCompare keeps for each comparison

llmVars == <<now, sessions, heap, deletes, req, wire, engine, mode, restarts,
             purgeArmed, history, cmp>>

Sides == {"without", "with"}

\* Bodies: a question, no (or an empty) question, not JSON, the JSON null.
Bodies == {"question", "empty", "not_json", "null"}

\* seed is what became of the seed request, wait how the race with the seed
\* timeout ended, tried[side] the model that cascade is at.
Comparison ==
    [seed : {"none", "out", "stored", "failed"},
     wait : {"none", "answered", "failed"},
     memories : SUBSET Requests, warned : BOOLEAN,
     tried : [Sides -> 1 .. Models + 1], answered : [Sides -> BOOLEAN]]

NotStarted ==
    [seed |-> "none", wait |-> "none", memories |-> {}, warned |-> FALSE,
     tried |-> [s \in Sides |-> 1], answered |-> [s \in Sides |-> FALSE]]

LlmInit ==
    /\ ProxyInit
    /\ cmp = [r \in Requests |-> NotStarted]

\* The reply that ends a comparison before it begins, 0 for none.  JSON.parse
\* accepts null, whose question then throws.
Verdict(s, body) ==
    CASE ~LlmConfigured -> 503
      [] LlmConfigured /\ ~LlmRateOk(s) -> 429
      [] LlmConfigured /\ LlmRateOk(s) /\ body = "null" -> 500
      [] LlmConfigured /\ LlmRateOk(s) /\ body \in {"empty", "not_json"} -> 400
      [] OTHER -> 0

\* Mutant: the flag waits for the seed.
SeededLater(s) == s

\* The flag is set before the seed is awaited.
Seeded(s) == [s EXCEPT !.llmSeeded = TRUE]

\* The body has come: limiter, validation, and up to the next await.
CompareStarts(r, body) ==
    LET o == req[r].obj
        s == IF LlmConfigured THEN CheckLlmRate(heap[o]) ELSE heap[o]
        verdict == Verdict(heap[o], body)
        seeds == verdict = 0 /\ ~s.llmSeeded
    IN  /\ req[r].pc = "body" /\ req[r].route = "compare"
        /\ heap' = [heap EXCEPT ![o] = IF seeds THEN Seeded(s) ELSE s]
        /\ req' = [req EXCEPT ![r] =
                     IF verdict # 0 THEN Replied(@, verdict)
                     ELSE [@ EXCEPT !.ns = <<heap[o].key, DefaultScenario>>,
                                    !.pc = IF seeds THEN "seeding" ELSE "recalling"]]
        /\ cmp' = [cmp EXCEPT ![r].seed = IF seeds THEN "out" ELSE @]
        /\ wire' = [wire EXCEPT ![r] = IF verdict = 0 /\ ~seeds THEN "out" ELSE @]
        /\ UNCHANGED <<now, sessions, deletes, engine, mode, restarts,
                       purgeArmed, history>>

\* The engine gets the seed batch, perhaps after the proxy stopped waiting for it.
EngineSeed(r) ==
    /\ cmp[r].seed = "out"
    /\ cmp' = [cmp EXCEPT ![r].seed = "stored"]
    /\ engine' = [engine EXCEPT ![req[r].ns] = @ \cup {r}]
    /\ history' = [history EXCEPT
                     !.stranded = @ \cup {x \in {r} : ~Held(req[r].obj)}]
    /\ UNCHANGED <<now, sessions, heap, deletes, req, wire, mode, restarts, purgeArmed>>

EngineSeedRefused(r) ==
    /\ cmp[r].seed = "out"
    /\ cmp' = [cmp EXCEPT ![r].seed = "failed"]
    /\ UNCHANGED <<now, sessions, heap, deletes, req, wire, engine, mode,
                   restarts, purgeArmed, history>>

\* Mutant: the seed is sent and not awaited.
SeedNotAwaited(r) ==
    /\ req[r].pc = "seeding"
    /\ cmp' = [cmp EXCEPT ![r].wait = "answered"]
    /\ req' = [req EXCEPT ![r].pc = "recalling"]
    /\ wire' = [wire EXCEPT ![r] = "out"]
    /\ UNCHANGED <<now, sessions, heap, deletes, engine, mode, restarts,
                   purgeArmed, history>>

\* Promise.race: the engine's answer, whatever its status, or an error, or
\* the seed timeout.  The recall follows in any case.
SeedEnds(r) ==
    /\ req[r].pc = "seeding"
    /\ \E wait \in {"answered", "failed"} :
          /\ wait = "answered" => cmp[r].seed # "out"
          /\ cmp' = [cmp EXCEPT ![r].wait = wait]
    /\ req' = [req EXCEPT ![r].pc = "recalling"]
    /\ wire' = [wire EXCEPT ![r] = "out"]
    /\ UNCHANGED <<now, sessions, heap, deletes, engine, mode, restarts,
                   purgeArmed, history>>

\* The recall: 200 gives memories, another status none, an error a warning.
RecallEnds(r) ==
    /\ req[r].pc = "recalling"
    /\ \E outcome \in {"answer", "error"} :
          /\ outcome = "answer" => wire[r] # "out"
          /\ cmp' = [cmp EXCEPT
                       ![r].memories = IF outcome = "answer" /\ wire[r] = "ok"
                                       THEN req[r].found ELSE {},
                       ![r].warned = outcome = "error"]
    /\ req' = [req EXCEPT ![r].pc = "asking"]
    /\ UNCHANGED <<now, sessions, heap, deletes, wire, engine, mode, restarts,
                   purgeArmed, history>>

\* Mutant: a cascade does not end with its last model.
AnsweredOnly(r, side) == cmp[r].answered[side]

\* A cascade is over: a model answered, or there is none left.
Finished(r, side) == cmp[r].answered[side] \/ cmp[r].tried[side] > Models

\* The model a cascade is at answers, or fails: 4xx, 5xx, an error body, an
\* empty text or its timeout all move on to the next model.
ModelAnswers(r, side) ==
    /\ req[r].pc = "asking"
    /\ ~Finished(r, side)
    /\ \/ cmp' = [cmp EXCEPT ![r].answered[side] = TRUE]
       \/ cmp' = [cmp EXCEPT ![r].tried[side] = @ + 1]
    /\ UNCHANGED proxyVars

\* Promise.all: both cascades have ended, in an answer or in all_models_failed.
CompareReplies(r) ==
    /\ req[r].pc = "asking"
    /\ \A side \in Sides : Finished(r, side)
    /\ req' = [req EXCEPT ![r] = Replied(@, 200)]
    /\ UNCHANGED <<now, sessions, heap, deletes, wire, engine, mode, restarts,
                   purgeArmed, history, cmp>>

CompareStep(r) ==
    \/ \E body \in Bodies : CompareStarts(r, body)
    \/ SeedEnds(r)
    \/ RecallEnds(r)
    \/ \E side \in Sides : ModelAnswers(r, side)
    \/ CompareReplies(r)

LlmNext ==
    \/ ProxyNext /\ UNCHANGED cmp
    \/ \E r \in Requests : CompareStep(r) \/ EngineSeed(r) \/ EngineSeedRefused(r)

LlmSpec == LlmInit /\ [][LlmNext]_llmVars

-----------------------------------------------------------------------------
(* Properties *)

\* Every variable has its type.
LlmTypeOK ==
    /\ ProxyTypeOK
    /\ cmp \in [Requests -> Comparison]

\* However many first comparisons of a session overlap, one of them seeds.
SeedOnce ==
    \A o \in Objs :
        Cardinality({r \in Requests : req[r].obj = o /\ cmp[r].seed # "none"}) <= 1

\* The seed goes past trackNamespace, and so past what onExpire deletes: it may
\* stay behind.  Nothing else does that NoUnexplainedLeak rules out, and a seed
\* only in the default namespace of the session that it was sent for.
OnlySeedsLeak ==
    \A ns \in Namespaces : \A r \in engine[ns] \ history.stranded :
        \/ \E k \in Keys : sessions[k] # None /\ ns \in heap[sessions[k]].namespaces
        \/ \E d \in deletes : d[2] = ns
        \/ purgeArmed \/ mode = "down"
        \/ cmp[r].seed = "stored" /\ ns = <<heap[req[r].obj].key, DefaultScenario>>

\* A recall finds the seed of its session, unless the comparison that seeds is
\* still waiting for it, was refused it or gave it up: no later comparison, and
\* not the one that seeds, goes without memories for any other reason, while
\* the session lives and nothing older deletes the namespace.
SeedFoundByRecalls ==
    [][\A r, s \in Requests :
          LET o == req[r].obj
          IN  (/\ req[r].route = "compare" /\ wire[r] = "out" /\ wire'[r] \in {"ok", "missing"}
               /\ req[s].obj = o /\ cmp[s].seed # "none"
               /\ req[r].ns \notin history.purged
               /\ Held(o) /\ \A p \in 1 .. o - 1 : heap[p].key # heap[o].key)
              => \/ s \in req'[r].found
                 \/ req[s].pc = "seeding" \/ cmp[s].seed = "failed" \/ cmp[s].wait = "failed"
      ]_llmVars
=============================================================================
