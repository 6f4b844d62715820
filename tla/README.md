# Verification of the Dakera playground deployment

TLA+ models, model-checking runs and proofs for the program logic of this
repository. The repository deploys the Dakera memory engine; the engine itself is
another program. What runs from here is the *playground sandbox proxy* (Node,
`docker/playground/proxy`), which lets anonymous visitors use one shared engine;
the *validators* (Python, `examples/`), which drive an engine through its REST API
and pass judgement on it; and a set of shell watchdogs, cleanup scripts and CI
workflows. The proxy and the validators are modelled.

## Inventory

### Session store (`sessions.js`)

*State.* `sessions`, a Map from `pg_...` ids to session objects: creation time, the
times of admitted calls, the times of admitted comparisons, the memory count,
whether it was seeded, and the namespaces it has used.
*Operations.* `resolve` (find, or drop the expired entry and mint or refuse),
`checkRate`, `checkLlmRate`, `checkMemoryCap`, `commitMemory`, `trackNamespace`,
`sweep`.
*Hard part.* A request keeps the session *object* across awaits, so objects outlive
their place in the Map. Limiters forget old calls. Two paths, `resolve` and `sweep`,
find expired entries.
*Correct when* no window holds more calls than the limit, an address never has more
live sessions than its ceiling, and a session leaves the Map only expired and with all
its namespaces handed to `onExpire`.

### Request handler (`server.js`, `allowlist.js`)

*State.* None of its own; each request is a little program with two awaits: the body
and the engine. *Interactions.* Calls the store before, between and after the
awaits; forwards to the engine; wraps `writeHead` so that the reply commits the count.
*Hard part.* Check-then-act around an await; an upstream timeout that does not undo
the store; the session expiring meanwhile.
*Correct when* a session is charged for exactly the stores it was told succeeded, the
cap and the budget header are true, and every request is answered.

### Process (`index.js`)

*State.* The sweep timer, the two-second purge timer, SIGTERM draining.
*Interactions.* `onExpire` sends fire-and-forget DELETEs; the purge lists the engine's
playground namespaces once and deletes them all.
*Hard part.* DELETEs race stores, may get lost and are not retried; all sessions are
lost in a restart.
*Correct when* no memory stays in the engine with nobody to delete it, and no session
loses memories while it lives.

### Namespace isolation (`namespace.js`, rewriting in `server.js`)

Pure: which namespace a request's agent ids become, in body, items, path and query,
and what is put back into the response.
*Hard part.* One request has several ids in several places; some are looked for in the
path as it was sent, some in the decoded one.
*Correct when* no client id reaches the engine, a store lands where it is tracked, and
the client sees its own id again.

### LLM comparison (`llm-compare.js`)

A handler of its own with four awaits: seed race, recall, two parallel cascades of
models. *Hard part.* The first comparison of a session seeds; firsts may overlap;
the seed's timer does not cancel the seed.
*Correct when* a session is seeded once, every recall finds the seed once it was waited
for, and the ten-minute limiter holds.

### Operations (shell and workflows)

`docker/scripts/dakera-watchdog.sh` (engine watchdog),
`scripts/playground/playground-monitor.sh`, `scripts/runner/runner-health-monitor.sh`,
`scripts/runner/wedged-runner-watchdog.sh` and `runner-wedged-watchdog.yml`,
`scripts/namespace-cleanup/namespace-cleanup.sh`, `deploy-production.yml`,
`hetzner-health-check.yml`, `reboot-arm-server.yml`. Each keeps counters or stamps in
files between runs and acts on thresholds and cooldowns; they interact only through
the containers and hosts they watch. *Correct when* an outage is reported (once, and
its end too), nothing healthy is restarted or rebooted, and counters are reset.

### Validators (`examples/`)

Four Python programs. Three talk to the engine, each through one sequence of requests:

- *T-I-F reliability*, phase one (`tif-reliability/validate_tif_reliability.py`): store
  memories with a reliability (t, i, f), recall them for each scenario, compare what
  importance alone would do with what the reliability asks for.
- *T-I-F provenance*, phase two (`tif-provenance/validate_tif_provenance.py`): for each
  scenario start a session, store memories, send feedback, read it back, recall, decide,
  store a decision trace, link it to its evidence, ask for trace, links and session
  again; end the session.
- *CCP handoff* (`dakera-ccp-handoff/validate_dakera_ccp_handoff.py`): agent A's packet
  of memories in a session, one memory of another agent, links, six scenarios.
- *Swarm benchmark* (`dakera-ccp-handoff/benchmark_swarm_assembly.py`): pure; compares
  the size of the packet with that of the transcript, with the handoff's fixture and its
  token estimate.

*State.* In the program, the loop it is in, what it stored, the verdicts so far and the
exit code. In the engine, sessions, memories, feedback and links that outlive it.
*Hard part.* Writes are not idempotent and their answers may be lost, while recalls are
retried; the session is ended in a `finally` clause, but started before the `try`; the
engine answers in several shapes, orders and degrees of completeness, and each program
reads them in a way of its own; runs with the same agent id see each other's memories.
*Correct when* a run that passes rests on what it stored itself and on what came back,
nothing is written twice, sessions do not stay open, the run ends, and verdicts taken on
the engine's answers agree with the self-test's and with those of the other phase.

`PROJECT.json` lists every component with its status, and every hazard with the
line where it bites and the properties that watch it.

## Modules

| Module | Models | State and code |
|---|---|---|
| `SlidingWindow` | abstract rate limiter: remembers every admitted call | `log[client]`; no code, what `checkRate` promises |
| `SlidingWindowProofs` | proofs about it | |
| `SessionStore` | `sessions.js`, `onExpire` | `now`, `sessions` (the Map), `heap` (objects), `deletes` (handed to `onExpire`) |
| `SessionStoreProofs` | proofs about it | |
| `SandboxProxy` | `server.js`, `index.js`, the engine as the proxy sees it | `req[r]` (one handler: `pc` is the await it is at), `wire[r]` (the forwarded request), `engine[ns]`, `mode`, `purgeArmed` |
| `SandboxProxyProofs` | proofs about it, on top of those about the store | |
| `LlmCompare` | `llm-compare.js` | `cmp[r]` beside the proxy's variables |
| `LlmCompareProofs` | proofs about it, on top of those about the proxy | |
| `AgentNamespace` | `namespace.js`, the rewriting in `server.js` | one request: `request`, `forwarded`, `response` |
| `AgentNamespaceProofs` | proofs about it | |
| `TifDecision` | the rules shared by both phases, as `tif-provenance` writes them | pure operators: deriving, classifying, choosing, reading an answer |
| `TifReliability` | phase one | `recallable` (the engine), `pc`, `n` (where the loops are), `allPassed`, `exit`; `last` keeps the last answer and verdict for the properties |
| `TifReliabilityProofs` | proofs about it | |
| `TifProvenance` | phase two, several runs at once | the engine: `session`, `stored`, `history`, `linked`; each run: `pc`, `at`, `m`, `k`, `retried`, `fetched`, `choice`, `raised`, `allPassed`, `exit`; `faults` for the properties |
| `TifProvenanceProofs` | proofs about it | |
| `CcpHandoff` | the handoff | the engine: `session`, `stored`, `links`; the program: `pc`, `n`, `sessionProof`, `answer`, `allPassed`, `raised`, `exit`; `failed` for the properties |
| `CcpHandoffProofs` | proofs about it and about the benchmark | |
| `SwarmBenchmark` | the benchmark, on top of `CcpHandoff` | pure operators |
| `MC*` | instances for TLC | |

`SandboxProxy` EXTENDS `SessionStore` and builds its handlers from the store's
operations; `LlmCompare` EXTENDS `SandboxProxy`. In the stand-alone specification of
`SessionStore` any caller may apply any operation to any object, in or out of the
Map. What is shown there of limiters and ceiling is proved again under `ProxySpec` and
`LlmSpec`, where the handlers call the store and restarts empty it, and what is shown of
the proxy again under `LlmSpec`. `EvictionComplete` stays with the store alone, since a
restart drops sessions before their time; what is left behind then is the subject of
`NoUnexplainedLeak`.

One step of a model is what JavaScript runs without yielding. `Arrive` is a handler up
to `await readBody`: `resolve`, allow-list, `checkRate`. `BodyArrives` goes on to
`forward()`: cap check, rewriting, `trackNamespace`. `Deliver` and `UpstreamFails` are
the two ends, each with the wrapped `writeHead`. Between them anything else happens:
other requests, `SweepTimer`, `Clock`, `PurgeStale`, `DeleteApplied`, `Shutdown`,
`Crash`, `Start`, and the engine's own progress (`EngineStore` may come after the proxy
has given up on the answer).

In the validators a step is one request: what the engine does with it and what the
program does with the answer, up to the next request. A request that fails may have been
carried out all the same; it ends in the `finally` clause (`Raise`, then `EndSession` or
`EndFails`), or, at `start`, outside of it (`StartFails`). In `TifProvenance` a recall
that times out for the first time is `RecallAgain` and counts as no fault; `MaxFaults`
bounds the others. Scores are integers in hundredths; the fixtures and the deltas have
two decimals, so rounding to four never rounds one of them.

The engine is external: it answers a recall with *any* memories it holds (of the agent,
in phases one and two; of any agent, in the handoff, which is there to find that out),
ranked in any of the given ways, with or without metadata, in any of the given shapes.

Some state of the proxy exists for the properties only and no action reads it: `admitted` and
`llmAdmitted` of a session (all calls ever let through) and `history` of the proxy
(`raced`: sessions with overlapping stores; `stranded`: stores completed after their
session had left the Map, or whose DELETE or purge was lost; `purged`: namespaces a
startup purge listed).

Definitions called `Mutant` are plausible bugs. Nothing uses them; putting one in the
place of the definition that follows makes the property paired with it in
`PROJECT.json` fail, which shows that the property says something.

## Runs

All passing runs are exhaustive within their bounds.

| Run | Question | Bounds and why they suffice |
|---|---|---|
| `store_rate` | Do the pruning limiters implement the abstract one? Is `Retry-After` ever too early? | one session, limits 2 and 1, windows of different length, a clock that passes both windows, two ticks a second so that rounding matters |
| `store_map` | Does the Map stay sound while ids rotate? | four addresses, the empty one and "unknown" among them, three ids, ceiling below the number of ids, expiry within the clock |
| `proxy_cap` | Do count, cap and header follow the replies? | three requests of one session: two overlap and a third checks; batches of 1 and 2 against a cap of 2; a limit of 2 refuses one of three |
| `proxy_life` | What survives expiry, re-minting, lost DELETEs, failed purges, restarts? | two requests, two lives of one id, one restart, time to expire between any two steps |
| `proxy_live` | Is everything answered, evicted and forgotten in the end? | two stores, two lives, one restart, fairness as below |
| `llm` | Is a session seeded once, does the seed reach the recalls of both comparisons, and what may it leave behind? | two requests of one session, comparisons or stores, a limit of one each window, one model, expiry |
| `namespace` | Are all ids rewritten, tracked and restored? | every combination of path, segment, query and body over eight ids of all kinds of scenario, objects with up to two items, arrays of two; paths with the agent segment as they are and percent-encoded |
| `tif` | Does a verdict follow from the answer, and a pass from a round trip? Do the phases agree? | five memories, three scenarios, `top_k` 3 and 1, so fewer than there are memories; every set and order of them, with and without metadata; four shapes; an agent id used before, or not; health check of two attempts |
| `provenance` | What does a run leave behind, what does exit code 0 rest on, does it end? | two scenarios of the fixture; two runs that share the agent id and the second scenario, so each recalls, decides on and may link the other's memories; `TopK` 2, so a recall may miss; one request that fails for good beside any number of recalls that time out once |
| `ccp` | What does a verdict rest on? Is the session ended? Does the benchmark agree with the self-test? | the fixture's memories and six scenarios; every set of recalled and associated memories, two rankings, four shapes, with and without metadata; transcripts of eight sizes around the points where a verdict turns |

Three requests are enough for races on one session, since an overlap takes two and what it
does to a later one takes a third; two lives of one id are enough for what an old life
does to a new one. One restart shows both what is lost and what the purge deletes.
`MaxTime`, `MaxObjs`, `LastMint`, `MaxCount` and `MaxRestarts` are bounds of the model
and no part of the code: they only disable steps, and no liveness property depends on
the steps they disable. So are `MaxFaults`, `TopK`
and `HealthRetries` (8 and 120 in the code, where they are constants of the same kind).
One failure that is not retried shows what a failure can leave half done, since the
program sends nothing after it but the end of the session; a failure followed by a
failing end takes two, and is covered by the proofs, which hold for any number. Two
rankings suffice for the handoff, which looks at the order only to take the first three
memories. The runs that use symmetry check no liveness. Only `namespace` turns the
deadlock check off: a request there is handled once, and then nothing is left to do;
the validators end in a step that repeats itself.

Three properties of the proxy have an exception that the code makes (see *Noticed* below),
and say that there is no other:
- `IpCeiling` is about `CountedIps`, the addresses that are counted by the name they are
  stored under: all but the empty one, and but "unknown" where the empty one may come in.
- `Isolated` excepts the path segment of a request that is percent-encoded.
- `FirstLifeKeepsItsMemories` excepts a 200 that was made of the engine's 404.

What the properties of the validators add to the self-tests and to a trial against an
engine:
- `NothingSentTwice`: a store or a signal is never sent again, whatever was retried.
- `PassedOnOwnEvidence`: exit code 0 although another run with the same agent id was
  recalled from means that every memory of the run is stored with all its feedback, in
  order, and that each trace is linked to memories of its own session. This holds for any
  fixture and is proved.
- `PassedAsSelfTest`: those memories are the very ones the static evaluation names. The
  runtime check does not compare the memory it acted on with the expected one, and it
  reads feedback in the engine's order. Both are harmless on a fixture in which the memory
  to act on outranks the others of its scenario in either order; for those the property is
  proved, and the repository's three scenarios are of that kind.
- `OpenSessionsExplained`, `SessionClosed`: only a failed start or end leaves a session
  open.
- `ColdStartTolerated`: the retry of recalls does what its comment says.
- `VerdictReadsTheAnswer`, `PassMeansRoundTrip`, `VerdictsHold`: a verdict is about the
  memories in the answer, not about defaults, except where they say so: a bare list of
  wrapped items in phase one, isolation on an answer without metadata in the handoff.
- `PhasesAgree`: phase one has no tier for confident reuse, phase two has; on the same
  memories they act alike on contradictions and on what is unresolved, and phase two
  reuses confidently whatever phase one does.
- `SeededBeforeJudged`: what a scenario depends on is in the engine before it is judged.
- `BenchmarkFollowsSavings`: the self-test's token economy passes exactly when the compact
  payload wins, the hybrid is advised exactly when the packet's rounded saving is 22.5% or more, full
  JSON wins exactly from the break-even size up, and a longer transcript only helps the
  packet. Ratios are rounded to even, as Python does, of the exact quotient; Python rounds
  a binary float next to it.

The `violation` runs show where the code does not do what its documentation says:

| Run | Documentation | Code |
|---|---|---|
| `proxy_over_cap` | "pre-check before forwarding so we never store past it" (`server.js:372`) | two overlapping stores both pass the check; the session ends above its cap |
| `ccp_session` | "The runtime validator fails if [...] session memory proof is missing" (`dakera-ccp-handoff/README.md:167-168`) | `session_memory_proof` is reported and part of no verdict: exit code 0 although the session lists nothing |

Noticed while modelling and in no run; of the proxy:
- Every request without a header gets a session, and budgets, of its own, up to the
  ceiling of its address; `proxy/README.md:44-45` says "fall back to an IP-keyed bucket,
  so the caps always apply". Nothing is ever stored under the `ip:` key.
- An expired id is minted again at once, in the same namespace, while its DELETE is on
  the way, and recalls what the former life stored (`sessions.js:66`, "start fresh").
- The purge two seconds after startup deletes the namespaces of sessions already at work
  (`proxy/README.md:59`, "a session always recalls its own stores").
- The seed of a comparison goes to a namespace that nothing tracks (`llm-compare.js:256`):
  when the session expires it stays until the next startup purge. `OnlySeedsLeak` says
  that nothing else is left behind for that reason.
- With a rate limit of 0, which `intEnv` accepts, there is no oldest call and
  `Retry-After` is `NaN` (`sessions.js:116-117`, `150-151`).
- After a 504 the batch may be stored although `server.js:418-419` says "nothing was
  stored"; the properties of `proxy_cap` exclude that case by name.
- A store that reaches the engine after its session was evicted stays there until the
  next startup purge (`history.stranded`).
- A comparison that finds `llmSeeded` set recalls while the seed of another is still
  under way, and the seeds do not count against the cap.
- `llm-compare.js:6-7` speaks of one model called twice; the two cascades run
  independently and may end with different models.
- The stores of the LLM scenario (`_llm_` ids) go to scenario `llm`; the comparison
  recalls from the default scenario.
- `scenarioKey` keeps only the last word of a suffix (`namespace.js:60`): two suffixes
  with the same last word are one scenario.
- `server.js:440` drops the query string when it names no `agent_id`.
- A session is stored under `ip || 'unknown'` (`sessions.js:89`), while `sessions.js:76` and
  `102` count by the address as given. `clientIp` (`server.js:43-47`) gives the empty address
  for a header `X-Forwarded-For` whose first entry is empty. The ceiling does not apply to
  that address, and its sessions count against "unknown".
- The allow-list and the forwarded path are the decoded path (`server.js:226`, `323`, `440`);
  the agent segment is looked for in the path as it was sent (`442-446`). When a letter of
  `/v1/agents/` is percent-encoded the segment is not rewritten.
- A 404 "namespace not found" of the engine becomes a 200 with no memories
  (`server.js:163-186`), for stores too: such a store is charged and nothing is stored.
  In the model `EngineMissing` answers so for a namespace that holds nothing.

Of the validators:
- `tif-provenance/README.md:101-102` says the script fails "if feedback history [...] is
  missing". No verdict looks at the history; a missing one changes the derived
  reliability and fails a scenario only if that changes the decision.
- The default agent id is unique to the second (`int(time.time())`), and `--agent-id` may
  be given twice: runs then share memories. What the handoff recalls from an *earlier* run
  is not modelled.
- Without metadata a recalled memory of the handoff takes the engine's id for its fixture
  id (`memory_fixture_id`), so the fallback to `runtime_to_fixture` in `enrich_recalled`
  never runs. Most scenarios then fail; isolation passes whatever was recalled.
- An answer that is a bare list counts as recalled and as associated memories:
  `basic-handoff` then passes without any associated recall.
- At run time, token economy counts the first three memories recalled, whichever they are.
- `benchmark_swarm_assembly.py:156` says full JSON becomes cheaper "only when the
  transcript is longer than this threshold"; at the threshold itself it already is.

## Fairness

Safety runs assume none. `FairProxySpec` (run `proxy_live`) assumes, weakly:
- a body ends (Node's `requestTimeout` closes a connection whose body does not come);
- a wait for the engine ends (`upstreamTimeoutMs`; the engine may be silent for ever:
  `EngineStep` is not fair);
- the interval and purge timers fire and the clock moves;
- a draining process exits (five-second timer) and a stopped one is started again
  (`restart: unless-stopped` in `docker-compose.playground.yml`);
- a DELETE that was sent is carried out. This is the one assumption the code does not
  secure; `proxy_life` is run without it (`LoseDeletes = TRUE`).

`FairSpec` of `TifProvenance` assumes `WF_vars(Next)`: every request ends, with an answer or
with an exception (`--request-timeout`), so as long as some run is not over the runs
together go on. No fairness between runs is needed: each has a bounded number of steps.
The loop that ends them is `AllExited`, which changes nothing.

## Proofs

Checked by TLAPS, for every value of the constants that satisfies the named assumptions
of the modules. These are type facts and say nothing about the bounds:
- `StoreAssumption`: finite disjoint sets of ids and addresses, an empty address that is
  not "unknown" and may be among them or not, positive windows, limits that may be 0; `ProxyAssumption`: finitely many requests; `LlmAssumption`: at least
  one model, and the default scenario is one.
- `NsAssumption`: words have a positive length, "agent" and "llm" the one they have; ids
  are sequences of words; the namespaces of sessions are told apart from names of
  clients.
- `TifAssumption`, `ProvenanceAssumption`, `CcpAssumption`: the fixture is as the
  programs need it: not empty, with scores and known signals; the handoff's memories are
  listed once each, the engine's rankings list none twice, and no scenario expects the
  id that stands for "an id of the engine".

Two theorems have a hypothesis besides. `Retry-After` is right if the rate limit is not 0
(`RetryAfterHolds` and its kin). `PassesAsSelfTest` is about fixtures that decide
(`FixtureDecides`), which TLC checks of the run's fixture and of each scenario of the
repository's (`MCFixtureDecides`).

### `SlidingWindowProofs`

No window of the abstract limiter ever holds more than `Limit` calls (`NeverOverHolds`).
`NeverOver` alone is not inductive: `Admit` looks at the window that ends now, so the
invariant adds that logs are finite and hold nothing from the future (`LogsSound`). An
admission then adds only to the window that ends now, and when the clock moves the new
window is a part of the one before.

### `SessionStoreProofs`

- `StoreTypeCorrect`: every reachable state is well typed.
- `RateImplements`, `LlmImplements`: the store implements `SlidingWindow` under the
  mapping `log[o] = heap[o].admitted`. A step of `checkRate` that admits maps to
  `Admit`, a tick to `Advance`, everything else to a stutter. The mapping needs an
  invariant (`StoreInv`): each session's pruned `calls` holds *every* admitted call of
  the current window. Without it the code's count over `calls` says nothing of the count
  over `admitted`, which is what the abstract guard looks at.
- `RateHolds`, `LlmHolds`: hence no window of the past holds more than the limit, by
  `NeverOverHolds` of the abstract module. `LlmNeverOver` is in no run: the run checks
  the refinement it follows from.
- `RetryAfterHolds`: `Retry-After` is never too early. By `RateHolds` a refused session
  keeps exactly as many calls as the limit, and at the time the header names the oldest
  of them has left the window. The property excepts a limit of 0, where no time would
  do.
- `CeilingHolds`: an address in `CountedIps` never has more than `MaxPerIp` live sessions.
  All its sessions are stored under the name `resolve` counts by. Counting and
  minting are one step, `LiveForIp` only shrinks by expiry and sweeping, and a mint adds
  one key to a set that was below the ceiling.
- These arguments do not depend on who calls the store, only on what one step may do to
  it: change the Map by a `resolve` or a `sweep`, change one object without losing a call
  of the current window, or let time pass and sessions go (`StoreMoves`).
  `MovesImplementWindows` and `MovesKeepCeiling` are stated for such moves, so the proxy
  and the comparisons inherit them by showing that their steps are moves too.
- `EvictionCompletes`, an action property: a session leaves the Map only when its time
  is up and with every namespace it tracked handed to `onExpire`.

### `SandboxProxyProofs`

For any number of requests, sessions and lives of the process, with lost DELETEs or
without. `StepEffect` turns each step into one of a few effects on a request and its
session object; the invariant, `ProxyInv`, has five layers:
- types (`TypeInv`, hence `ProxyTypeCorrect`);
- what handler, engine and session object agree on about a request (`RequestInv`: a
  store that is under way has its namespace tracked; a 200 means that the engine said
  yes, or that it knew no such namespace);
- what the Map says of its objects (`MapInv`: an object in the Map stands under its own
  key and is the newest that has it);
- DELETEs under way are for namespaces of sessions that have left the Map, or that a
  purge listed (`DeletesInv`);
- the engine holds only what it said yes to (`EngineInv`).

The first four are `BaseInv`, which is inductive without the last.

From it, each with one invariant more:
- `NoLeak`: a memory in the engine with nobody to delete it is one whose store came
  after its session had left, or whose DELETE was lost. `history.stranded` names them.
- `FirstLifeKept`: the first session of an id keeps what it was told is stored, unless a
  startup purge listed its namespace or the 200 was made of a 404: every DELETE under way belongs to somebody else.
- `CountRight`: the count of a session is the sum of its stores answered 2xx. A fold
  over sets is needed for that; the section on sums proves that the fold adds up in any
  order.
- `QuietWithinCap`: if the stores of a session never overlap and every answer arrives,
  it never has more than `MemoryCap` in the engine. While a store is under way, what it
  was told is left is what is left (`QuietInv`).
- `HeaderTrue`: the budget in a reply is what the next check would find, unless stores
  of the session overlapped.
- `ProxyRateImplements`, `ProxyRateHolds`, `ProxyRetryAfterHolds`, `ProxyCeilingHolds`:
  what the store promises, as the handlers use it, over restarts too: every step of the
  proxy is one of the store's moves (`StepMovesStore`).

### `LlmCompareProofs`

The whole proxy, comparisons included. The steps of the proxy keep `BaseInv` beside
comparisons, and so do the steps of a comparison; `EngineInv` they do not, since a seed
is no store. `Apart` says what a step of a comparison leaves alone: the Map, the objects'
counts and namespaces, the DELETEs, the requests that store; the engine it only adds to.
With it the promises of the store and of the proxy are proved again under `LlmSpec`:
`LlmCountRight`, `LlmFirstLifeKept`, `LlmQuietWithinCap`, `LlmHeaderTrue`,
`LlmRateImplements`, `LlmLimiterImplements`, `LlmRateHolds`, `ComparisonsNeverOver`,
`LlmRetryAfterHolds`, `LlmCeilingHolds`. The exception is `NoUnexplainedLeak`, which a
seed breaks; what is left of it is `OnlySeedsLeakHolds`.

`CompareInv` adds where a comparison
is, what its seed has come to, and that of the comparisons of a session one seeds. Hence
`LlmTypeCorrect` and `SeededOnce`; with `SeedKept` (a stored seed stays while its
session is in its first life and no purge listed it), `SeedFound`: a recall finds the
seed unless the comparison that seeds still waits, failed, or gave up waiting.

### `AgentNamespaceProofs`

What is forwarded is a function of the request, and what the client sees of what was
forwarded (`NsInv`). The theorems are facts about that function, for bodies with any
number of roots and items: `NamesIsolated` (only namespaces of the own session are
forwarded, and at most the segment of an encoded path beside them), `StoresTracked` (all ids of a body are the one namespace that is tracked,
since the first decides for all), `IdsRestored` (a request that names one scenario gets
no namespace back), `KeysAreSuffixes` (what `scenarioKey` keeps of an id of the
playground's form).

### `TifReliabilityProofs`

The invariant says that the last verdict is the evaluation of an answer that the engine
may give, and how far the run has got. What the verdict means is then a matter of the
program's functions: reading an answer in any shape gives back the memories that were
put into it, except from a bare list of wrapped items, which yields defaults
(`ReadBack`), and Python's `max` finds the first of the greatest
(`FirstMaxIsGreatest`). Hence `VerdictFromMemories`, `PassesOnMetadata`,
`PhasesChooseAlike` and `TifTypeCorrect`.

### `TifProvenanceProofs`

For any number of runs that share the agent id and any number of faults. The invariant
grows in layers:
- `SentInv`: types (`CoreType`); the memory a run is at is one of its scenario
  (`InMemories`); nothing is stored or signalled ahead of the run that sends it
  (`SentInOrder`); the feedback that arrived is a prefix of the fixture's, as long as
  the run has got (`FeedbackInOrder`). `NothingIsSentTwice` follows: at a store the
  memory is still ahead of its run, so it has not been stored.
- `SessionInv` adds that no session is open ahead of its run and that an exception ends
  the scenario (`SessionsInOrder`), beside the two properties themselves, which are then
  inductive: `OpenSessionsAreExplained`, `ColdStartIsTolerated`.
- `EvidenceInv` adds that a run has linked its trace to the evidence it is through with
  (`LinksInOrder`), that every scenario it is through with has all its memories stored
  with all their feedback (`Delivered`), and that every scenario passed so far rests on
  the run's own session (`PassedSoFar`, `ExitMeansPassed`). `PassesOnOwnEvidence`
  follows. The argument needs what `Passes` compares with the session's list: evidence
  may come from another run's session until then.
- `DecisionInv` adds that the feedback of every memory the run is through with has been
  read back (`FetchedSoFar`), so that looking it up for a decision finds it, and that
  evidence is among the recalled memories (`EvidenceTyped`): `ProvenanceTypeCorrect`.
- `SelfTestInv` adds that what was read back of a memory is its whole feedback in one
  order or the other (`FetchedWhole`), that a decision with both memories of the scenario
  at hand is on the one to act on (`ChosenAsExpected`), and that the traces of the
  scenarios that passed are linked to those two (`LinkedSoFar`). `PassesAsSelfTest`
  follows. The middle part is about the decision rule: among the recalled memories,
  in any order and with copies, the rule picks one of the best of the first class that
  has any, so a memory that outranks each other one (`Outranks`) is picked wherever it
  stands (`PositionOutranks`); the other evidence is looked up by its fixture id.

Per-step lemmas say once what a step may do to the parts (`StepMoves`, `StepSends`,
`StepGuards`, `StepLinks`, `StepDelivers`, `StepFetches`, `StepChooses`, `StepDecides`),
and the invariants are proved from those.

### `CcpHandoffProofs`

For every fixture and every answer of the engine.
- `SessionIsClosed`, from an invariant that says where a session can be open.
- `HandoffInv` says how far stores and links have got (`SeedInv`) and that an answer
  holds memories of the fixture, none twice (`AnswerOK`). Hence `CcpTypeCorrect`,
  `JudgedAfterSeeding` and `VerdictsRestOnAnswers`, which says what a pass means for
  each kind of scenario and that the packet as the fixture has it passes what passes the
  self-test.
- `BenchmarkIsConsistent`, about the benchmark's numbers: the size of the packet does
  not depend on the order of its memories, the token estimate grows with the size, and
  so the winners turn once.

### Recursive functions and folds

What a recursive function computes is proved here without an induction theorem: of the
arguments at which the claim fails there would be a least one (`LeastIndex`,
`LeastSubset`, from the well-foundedness of `<` on the naturals and of the sizes of
finite sets), and the step shows that it cannot fail there. That a recursive function
exists at all is proved in the same way (`RecursionExists`, `AddsUpToExists`).

### Only model-checked

- Liveness under fairness, out of the prover's reach: `RequestsAnswered`,
  `StoresAreForgotten` and `SessionsAreEvicted` of `proxy_live`, `Exits` of
  `provenance`.
- The two `violation` runs.

## What is not modelled

Wording of replies, CORS, `/health`, headers that are only copied, prompts and model
texts. Status codes 400, 413 of a body that could not be read are one status, and so are
502 and 504. A request that arrives on a kept-alive connection while the process drains
is not modelled. The digest of `sessionNamespace` is taken to be injective (48 bits of
SHA-256). The legacy `ip:` keys are looked up but, as in the code, never written.
Parsing of the environment appears only as the values the constants may have. A response
that trickles in for ever defeats the idle timeout of the upstream socket; the model's
waits end.

Of the validators: arguments, reading the fixture, reports and the Markdown output; the
wording of reasons; merged scores of recalled items, which nothing reads; ids under other
keys than `id`. Contents are their sizes. The self-test of phase two makes no request and
is the operator `EvaluateStatic`. An unsupported signal in a fixture, or a store answer
without an `id`, raises an exception like a request that fails and is not a case of its
own. Feedback histories are read in the engine's order or reversed. JSON of the benchmark
is its size, with separators.

Provisioning, compose, Kubernetes and monitoring files are declarative; the
restart policy is used as a fairness assumption.

The watchdogs, monitors, cleanup scripts and workflows are not modelled. Each is one
sequential script or workflow that decides on what `docker`, `systemd`, `ssh` and cloud or
GitHub APIs say, whose behaviour the repository does not state; what they keep between
runs are counts and the stamps of cooldowns. `PROJECT.json` has the reason for each.

## Plan

Done: all of the proxy and of the validators, with a theorem for every safety and action
property of a passing run.

Left: the alarms of the operations scripts (an outage is reported once, and its end once),
if their probes are given a specification: `dakera-watchdog.sh`, `playground-monitor.sh`
and `runner-health-monitor.sh` have thresholds and cooldowns that one abstract module could
state.
