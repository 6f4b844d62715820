--------------------------- MODULE AgentNamespace ---------------------------
(***************************************************************************)
(* Namespace isolation of the playground proxy: what becomes of the agent  *)
(* ids of one request on its way to the engine and back                    *)
(* (docker/playground/proxy/namespace.js and the rewriting in server.js).  *)
(*                                                                         *)
(* An agent id is the sequence of its words, the parts between the         *)
(* underscores; ids of 64 characters and more, which scenarioKey cuts, and *)
(* ids with an empty word are left out.  A namespace is a session id and a *)
(* scenario key: its digest is taken to be injective.                      *)
(***************************************************************************)
EXTENDS Integers, Sequences, FiniteSetsExt

CONSTANTS
    SessionIds,     \* session ids
    AgentIds,       \* agent ids clients send: sequences of words
    WordLen,        \* WordLen[w]: the characters of word w
    Batches,        \* item lists of a body: sequences of optional agent ids
    Client,         \* owner of a name that a client sent
    Nobody          \* owner of no name

VARIABLES
    request,        \* what the client sends
    forwarded,      \* what the engine gets
    response        \* the names in the response the client gets

nsVars == <<request, forwarded, response>>

-----------------------------------------------------------------------------
(* Names *)

\* One kind of value for an agent id, a namespace, and neither.
Name(words) == [owner |-> Client, words |-> words]
Absent == [owner |-> Nobody, words |-> <<>>]

Default == <<"default">>
Demo == <<"playground-demo">>

\* Of the words and the underscores between them.
Chars(words) == MapThenSumSet(LAMBDA i : WordLen[words[i]] + 1, DOMAIN words) - 1

\* Mutant: the _llm_ ids are not put together.
ScenarioKeyPerVariant(words) ==
    LET n == Len(words)
    IN  IF words \in {<<>>, Demo} THEN Default
        ELSE IF n >= 3 /\ words[n - 1] = "agent" /\ words[n] \in {"a", "b", "c"}
             THEN <<"multiagent">>
        ELSE IF n >= 3 /\ words[1] = "pg" /\ Chars(SubSeq(words, 2, n - 1)) >= 6
             THEN <<words[n]>>
        ELSE words

\* scenarioKey: the groups, then the last word after pg_ and six characters
\* (the expression is greedy), then the id itself.
ScenarioKey(words) ==
    LET n == Len(words)
    IN  IF words \in {<<>>, Demo} THEN Default
        ELSE IF n >= 3 /\ words[n - 1] = "agent" /\ words[n] \in {"a", "b", "c"}
             THEN <<"multiagent">>
        ELSE IF \E i \in 2 .. n - 1 : words[i] = "llm" THEN <<"llm">>
        ELSE IF n >= 2 /\ words[n] = "graphex" THEN <<"graphex">>
        ELSE IF n >= 3 /\ words[1] = "pg" /\ Chars(SubSeq(words, 2, n - 1)) >= 6
             THEN <<words[n]>>
        ELSE words

\* sessionNamespace, of an agent id or of none.
SessionNamespace(sid, name) ==
    [owner |-> sid,
     words |-> IF name = Absent THEN Default ELSE ScenarioKey(name.words)]

-----------------------------------------------------------------------------
(* Request bodies *)

\* A JSON body is a list of roots (one, unless it is an array), each with an
\* optional agent id of its own and items (memories, items, queries) that may
\* have theirs.  Text is a body that is not JSON.
OptionalNames == {Name(words) : words \in AgentIds} \cup {Absent}

ASSUME NsAssumption ==
    /\ WordLen \in [DOMAIN WordLen -> Nat \ {0}]
    /\ {"agent", "llm"} \subseteq DOMAIN WordLen
    /\ WordLen["agent"] = 5 /\ WordLen["llm"] = 3
    /\ AgentIds \subseteq Seq(DOMAIN WordLen)
    /\ Batches \subseteq Seq(OptionalNames)
    /\ {Client, Nobody} \cap SessionIds = {} /\ Client # Nobody

Roots == [agent : OptionalNames, items : Batches]
Json(array, roots) == [kind |-> "json", array |-> array, roots |-> roots]
NoBody == [kind |-> "none", array |-> FALSE, roots |-> <<>>]
Text == [kind |-> "text", array |-> FALSE, roots |-> <<>>]

\* Where an id may stand: <<i, 0>> is root i itself, <<i, j>> its item j.
Places(roots) == UNION {{i} \X (0 .. Len(roots[i].items)) : i \in DOMAIN roots}
NameAt(roots, p) == IF p[2] = 0 THEN roots[p[1]].agent ELSE roots[p[1]].items[p[2]]

Given(roots) == {p \in Places(roots) : NameAt(roots, p) # Absent}
Mentioned(roots) == {NameAt(roots, p) : p \in Given(roots)}

\* findFirst looks at a root before its items, at its items before the next root.
Before(p, q) == p[1] < q[1] \/ (p[1] = q[1] /\ p[2] < q[2])

FirstAgent(roots) ==
    IF Given(roots) = {} THEN Absent
    ELSE NameAt(roots, CHOOSE p \in Given(roots) : \A q \in Given(roots) \ {p} : Before(p, q))

\* Mutant: the items keep the ids they came with.
RewrittenRootsOnly(roots, ns) ==
    [i \in 1 .. Len(roots) |-> [roots[i] EXCEPT !.agent = ns]]

\* Mutant: a root with an id of its own gets the namespace of that id.
RewrittenRootsApart(roots, ns) ==
    [i \in 1 .. Len(roots) |->
        [agent |-> IF roots[i].agent = Absent THEN ns
                   ELSE SessionNamespace(ns.owner, roots[i].agent),
         items |-> [j \in 1 .. Len(roots[i].items) |->
                       IF roots[i].items[j] = Absent THEN Absent ELSE ns]]]

\* Every root gets the namespace, an item only in place of an id of its own.
RewrittenRoots(roots, ns) ==
    [i \in 1 .. Len(roots) |->
        [agent |-> ns,
         items |-> [j \in 1 .. Len(roots[i].items) |->
                       IF roots[i].items[j] = Absent THEN Absent ELSE ns]]]

\* rewriteRequestAgentId: the rewritten body, the namespace, and the id to
\* restore (Absent when the body is not JSON).
RewriteBody(body, sid) ==
    LET first == FirstAgent(body.roots)
        ns == SessionNamespace(sid, first)
    IN  IF body.kind # "json"
        THEN [body |-> body, ns |-> Absent, restoreTo |-> Absent]
        ELSE [body |-> [body EXCEPT !.roots = RewrittenRoots(@, ns)],
              ns |-> ns,
              restoreTo |-> IF first = Absent THEN Name(Demo) ELSE first]

-----------------------------------------------------------------------------
(* The request as a whole *)

\* path: /v1/agents/{segment}/..., /v1/memory/hybrid, POST /v1/knowledge/query
\* or any other, told apart after decoding; query is ?agent_id=.
Paths == {"agents", "hybrid", "kg_query", "other"}

\* Mutant: only what the body named is restored.
RestoringBodyOnly(first, sid, name) == first

\* The first of body, segment and query that has a namespace is restored.
Restoring(first, sid, name) ==
    IF first.ns = Absent /\ name # Absent
    THEN [ns |-> SessionNamespace(sid, name), restoreTo |-> name]
    ELSE first

\* The segment is looked for in the path as it was sent: with a percent-encoded
\* letter in "/v1/agents/" (encoded) there is no match, and it is left alone.
Matched(q) == IF q.encoded THEN Absent ELSE q.segment

\* server.js from the body rewrite to forward().
Forward(q) ==
    LET rw == RewriteBody(q.body, q.sid)
        bodyFirst == [ns |-> rw.ns, restoreTo |-> rw.restoreTo]
        restore == Restoring(Restoring(bodyFirst, q.sid, Matched(q)), q.sid, q.query)
        scoped(name) == IF name = Absent THEN Absent ELSE SessionNamespace(q.sid, name)
        asQuery == q.path = "kg_query" /\ q.body.kind = "json"
    IN  [segment |-> IF q.path = "hybrid"
                     THEN IF restore.ns = Absent THEN SessionNamespace(q.sid, Absent)
                                                 ELSE restore.ns
                     ELSE IF q.encoded THEN q.segment
                     ELSE scoped(q.segment),
         \* POST to GET: the entries of an object become the query, an array's do not.
         query |-> IF asQuery THEN (IF q.body.array THEN Absent ELSE rw.body.roots[1].agent)
                   ELSE IF q.path = "hybrid" THEN Absent
                   ELSE scoped(q.query),
         body |-> IF asQuery THEN NoBody ELSE rw.body,
         tracked |-> rw.ns,
         restore |-> restore]

\* The names the engine is given.
NamesOf(f) ==
    ({f.segment, f.query} \ {Absent}) \cup Mentioned(f.body.roots)

\* restoreResponseAgentId: the one namespace, wherever it stands.
Restored(names, restore) ==
    {IF n = restore.ns THEN restore.restoreTo ELSE n : n \in names}

-----------------------------------------------------------------------------
(* One request and its response *)

ShortRoots == {r \in Roots : Len(r.items) <= 1}

Bodies ==
    {NoBody, Text} \cup {Json(FALSE, <<r>>) : r \in Roots}
        \cup {Json(TRUE, pair) : pair \in ShortRoots \X ShortRoots}

HttpRequests ==
    {q \in [sid : SessionIds, path : Paths, encoded : BOOLEAN,
            segment : OptionalNames, query : OptionalNames, body : Bodies] :
        /\ (q.path = "agents") = (q.segment # Absent)
        /\ q.encoded => q.path = "agents"
        /\ q.segment # Name(<<>>)
        /\ q.path = "agents" => q.body = NoBody
        /\ q.path = "kg_query" => q.body # NoBody}

NotYet == [segment |-> Absent, query |-> Absent, body |-> NoBody,
           tracked |-> Absent, restore |-> [ns |-> Absent, restoreTo |-> Absent]]

NsInit ==
    /\ request \in HttpRequests
    /\ forwarded = NotYet
    /\ response = {}

Handle ==
    /\ forwarded = NotYet
    /\ forwarded' = Forward(request)
    /\ UNCHANGED <<request, response>>

\* The engine's response mentions what it was asked about.
Respond ==
    /\ forwarded # NotYet
    /\ response' = Restored(NamesOf(forwarded), forwarded.restore)
    /\ UNCHANGED <<request, forwarded>>

NsNext == Handle \/ Respond

NsSpec == NsInit /\ [][NsNext]_nsVars

-----------------------------------------------------------------------------
(* Properties *)

\* No agent id reaches the engine as the client wrote it: the body's ids at
\* every place findFirst and applyTo know, the path's and the query's are all
\* namespaces of the session (namespace.js, server.js).  The one exception is the
\* segment of an encoded path.
Isolated ==
    \A n \in NamesOf(forwarded) :
        n.owner = request.sid \/ (request.encoded /\ n = request.segment)

\* Whatever a store puts into the engine lies in the namespace that was tracked
\* for deletion: a body is never split over several namespaces.
StoresAreTracked ==
    \A n \in Mentioned(forwarded.body.roots) : n = forwarded.tracked

\* What the client is shown: when all it names is one scenario (a JSON body
\* without an id names the default one) no namespace is left in the response,
\* and when it sent one id, only that id.
SentNames ==
    ({request.segment, request.query} \ {Absent}) \cup Mentioned(request.body.roots)

NamelessBody == request.body.kind = "json" /\ Given(request.body.roots) = {}

SentKeys ==
    {ScenarioKey(n.words) : n \in SentNames} \cup {k \in {Default} : NamelessBody}

RoundTrip ==
    /\ (\E key \in SentKeys : SentKeys = {key}) => \A n \in response : n.owner = Client
    /\ \A m \in SentNames :
          (SentNames = {m} /\ ~NamelessBody) => response \subseteq {m}

\* The scenario of an id pg_<session>_<suffix> is its suffix, _agent_a to
\* _agent_c and _llm_... being one scenario each: namespace.js says so for
\* session parts of six characters and one-word suffixes.  The endings of the
\* multi-agent demo are asked for first, after _llm_ too.
Suffix(words) == SubSeq(words, 3, Len(words))

KeyIsSuffix ==
    \A n \in SentNames :
        (Len(n.words) >= 3 /\ n.words[1] = "pg" /\ WordLen[n.words[2]] >= 6) =>
            LET suffix == Suffix(n.words)
            IN  /\ (suffix[1] = "llm" /\ Len(suffix) > 1 /\ suffix[Len(suffix) - 1] # "agent")
                      => ScenarioKey(n.words) = <<"llm">>
                /\ suffix \in {<<"agent", v>> : v \in {"a", "b", "c"}}
                      => ScenarioKey(n.words) = <<"multiagent">>
                /\ Len(suffix) = 1 => ScenarioKey(n.words) = suffix
=============================================================================
