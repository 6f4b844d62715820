---------------------------- MODULE SandboxProxy ----------------------------
(***************************************************************************)
(* The playground sandbox proxy at work: the request handler of            *)
(* docker/playground/proxy/server.js, the process around it (index.js),    *)
(* and the Dakera engine behind it.                                        *)
(*                                                                         *)
(* A request runs to its first await (the body), from there to its second  *)
(* (the engine's answer), and from there to its reply.  Other requests,    *)
(* the sweep timer, expiry, a restart and the engine's own progress come   *)
(* in between.  The engine is external: it is modelled as the set of       *)
(* stores each namespace holds.                                            *)
(***************************************************************************)
EXTENDS SessionStore, FiniteSetsExt

CONSTANTS
    Requests,       \* the requests clients send
    Routes,         \* the kinds of route they use, a subset of AllRoutes
    LoseDeletes,    \* whether a fire-and-forget DELETE may get lost
    MaxRestarts     \* bound: how often the proxy stops and starts again

\* store and recall are the allow-listed POSTs that do and do not create
\* memories, get the allow-listed GETs, compare the LLM comparison (module
\* LlmCompare says what follows its body), denied everything else.
AllRoutes == {"store", "recall", "get", "compare", "denied"}

ASSUME ProxyAssumption ==
    /\ IsFiniteSet(Requests)
    /\ Routes \subseteq AllRoutes
    /\ LoseDeletes \in BOOLEAN
    /\ MaxRestarts \in Nat

VARIABLES
    req,            \* what the proxy knows of each request
    wire,           \* what became of the request it forwarded
    engine,         \* engine[ns]: the stores that namespace ns holds
    mode,           \* the process: up, draining (after SIGTERM) or down
    restarts,       \* how often it was started again
    purgeArmed,     \* the purge timer of server.listen has not fired yet
    history         \* what the properties need to remember; no code reads it

proxyVars == <<now, sessions, heap, deletes, req, wire, engine, mode,
               restarts, purgeArmed, history>>

-----------------------------------------------------------------------------
(* Requests *)

\* The body was not a JSON object: forwarded as it came, in no namespace.
Untouched == <<>>

\* status is the reply's HTTP code: 200; 403 cap reached or not allowed; 413
\* for any body that could not be read; 422 for whatever the engine refused;
\* 429; 504 for every upstream failure; 400, 500 and 503 from the comparison.
\* left is what checkMemoryCap answered, shown the X-Sandbox-Memory-Remaining
\* header, found the engine's answer.
Request ==
    [pc : {"idle", "body", "sent", "seeding", "recalling", "asking", "done", "gone"},
     route : AllRoutes, obj : Nat, ns : Namespaces \cup {Untouched},
     count : Nat, left : Int,
     status : {0, 200, 400, 403, 413, 422, 429, 500, 503, 504},
     shown : Nat \cup {NaN}, found : SUBSET Requests]

Idle ==
    [pc |-> "idle", route |-> "denied", obj |-> None, ns |-> Untouched,
     count |-> 0, left |-> 0, status |-> 0, shown |-> NaN, found |-> {}]

Replied(q, status) == [q EXCEPT !.pc = "done", !.status = status]

NamespacesOf(o) == {heap[o].key} \X Scenarios

\* Stores of the session object o, in whatever state.
StoresOf(o) == {r \in Requests : req[r].route = "store" /\ req[r].obj = o}
InFlight(o) == {r \in StoresOf(o) : req[r].pc = "sent"}

Stored == UNION {engine[ns] : ns \in Namespaces}
Weight(S) == MapThenSumSet(LAMBDA r : req[r].count, S)

\* Mutant: without Math.max.
BudgetUnbounded(left) == left

Budget(left) == Max({0, left})

-----------------------------------------------------------------------------
(* The handler *)

ProxyInit ==
    /\ StoreInit
    /\ req = [r \in Requests |-> Idle]
    /\ wire = [r \in Requests |-> "none"]
    /\ engine = [ns \in Namespaces |-> {}]
    /\ mode = "up"
    /\ restarts = 0
    /\ purgeArmed = TRUE
    /\ history = [raced |-> {}, stranded |-> {}, purged |-> {}]

\* The session after the allow-list and checkRate; a denied route is not charged.
Charged(s, route) == IF route = "denied" THEN s ELSE CheckRate(s)

\* The request after them: refused, forwarded (a GET has no body) or waiting
\* for its body.
Entered(s, o, route, scenario) ==
    LET q == [Idle EXCEPT !.route = route, !.obj = o]
    IN  IF route = "denied" THEN Replied(q, 403)
        ELSE IF ~RateOk(s) THEN Replied(q, 429)
        ELSE IF route = "get"
             THEN [q EXCEPT !.pc = "sent", !.ns = <<s.key, scenario>>]
             ELSE [q EXCEPT !.pc = "body"]

\* A request up to its first await.
Arrive(r, hdr, ip, route, scenario) ==
    /\ mode = "up"
    /\ req[r].pc = "idle"
    /\ \/ \E o \in Objs :
             /\ ResolveFound(hdr, ip, o)
             /\ heap' = [heap EXCEPT ![o] = Charged(@, route)]
             /\ req' = [req EXCEPT ![r] = Entered(heap[o], o, route, scenario)]
       \/ \E id \in MintedIds(hdr) :
             LET s == NewSession(id, ip, hdr \notin Ids)
             IN  /\ ResolveMint(hdr, ip, id, Charged(s, route))
                 /\ req' = [req EXCEPT
                              ![r] = Entered(s, Len(heap'), route, scenario)]
       \/ /\ ResolveRefused(hdr, ip)
          /\ req' = [req EXCEPT ![r] = Replied([@ EXCEPT !.route = route], 429)]
          /\ UNCHANGED heap
    /\ wire' = [wire EXCEPT ![r] = IF req'[r].pc = "sent" THEN "out" ELSE @]
    /\ UNCHANGED <<now, engine, mode, restarts, purgeArmed, history>>

\* readBody rejects: too large, or the connection broke.  The rate slot is spent.
BodyFails(r) ==
    /\ req[r].pc = "body"
    /\ req' = [req EXCEPT ![r] = Replied(@, 413)]
    /\ UNCHANGED <<now, sessions, heap, deletes, wire, engine, mode, restarts,
                   purgeArmed, history>>

\* The cap check says no.
CapRefuses(r, count) ==
    LET left == MemoryLeft(heap[req[r].obj])
    IN  /\ req[r].pc = "body" /\ req[r].route = "store"
        /\ ~CapOk(heap[req[r].obj], count)
        /\ req' = [req EXCEPT ![r] =
                     Replied([@ EXCEPT !.count = count, !.left = left,
                                       !.shown = Budget(left)], 403)]
        /\ UNCHANGED <<now, sessions, heap, deletes, wire, engine, mode,
                       restarts, purgeArmed, history>>

\* The cap check says yes: the namespace is tracked and the request forwarded.
\* A store that is not JSON counts as one memory; other routes count none.
BodyArrives(r, count, ns) ==
    LET o == req[r].obj
        store == req[r].route = "store"
    IN  /\ req[r].pc = "body" /\ req[r].route # "compare"
        /\ ns \in NamespacesOf(o) \cup {Untouched}
        /\ IF store THEN CapOk(heap[o], count) /\ (ns = Untouched => count = 1)
                    ELSE count = 0
        /\ heap' = IF ns = Untouched THEN heap
                   ELSE [heap EXCEPT ![o] = TrackNamespace(@, ns)]
        /\ req' = [req EXCEPT
                     ![r].pc = "sent", ![r].ns = ns, ![r].count = count,
                     ![r].left = IF store THEN MemoryLeft(heap[o]) ELSE 0]
        /\ wire' = [wire EXCEPT ![r] = "out"]
        /\ history' = [history EXCEPT
                         !.raced = @ \cup {x \in {o} : store /\ InFlight(o) # {}}]
        /\ UNCHANGED <<now, sessions, deletes, engine, mode, restarts, purgeArmed>>

\* Mutant: the header keeps the value of before the store.
StoreRepliedStale(q, status) ==
    IF q.route = "store" /\ q.count > 0
    THEN [Replied(q, status) EXCEPT !.shown = Budget(q.left)]
    ELSE Replied(q, status)

\* The reply of a store that counts: writeHead is wrapped, a 2xx commits, and
\* the header is computed from what was left before the store.
StoreReplied(q, status) ==
    IF q.route = "store" /\ q.count > 0
    THEN [Replied(q, status) EXCEPT
            !.shown = Budget(IF status = 200 THEN q.left - q.count ELSE q.left)]
    ELSE Replied(q, status)

\* Mutant: commits whatever the status.
CommittedAnyway(q, status) ==
    IF q.route = "store" /\ q.count > 0
    THEN [heap EXCEPT ![q.obj] = CommitMemory(@, q.count)]
    ELSE heap

Committed(q, status) ==
    IF q.route = "store" /\ q.count > 0 /\ status = 200
    THEN [heap EXCEPT ![q.obj] = CommitMemory(@, q.count)]
    ELSE heap

\* The engine's answer comes back.  A "namespace not found" becomes an empty 200,
\* whatever was asked: a store is charged then, too.
Deliver(r) ==
    LET status == IF wire[r] = "refused" THEN 422 ELSE 200
    IN  /\ req[r].pc = "sent"
        /\ wire[r] \in {"ok", "refused", "missing"}
        /\ heap' = Committed(req[r], status)
        /\ req' = [req EXCEPT ![r] = StoreReplied(@, status)]
        /\ UNCHANGED <<now, sessions, deletes, wire, engine, mode, restarts,
                       purgeArmed, history>>

\* Mutant: no upstream timeout.
UpstreamNeverTimesOut(r) ==
    /\ req[r].pc = "sent" /\ wire[r] # "out"
    /\ req' = [req EXCEPT ![r] = StoreReplied(@, 504)]
    /\ UNCHANGED <<now, sessions, heap, deletes, wire, engine, mode, restarts,
                   purgeArmed, history>>

\* The upstream socket times out or breaks, whatever the engine did or still does.
UpstreamFails(r) ==
    /\ req[r].pc = "sent"
    /\ req' = [req EXCEPT ![r] = StoreReplied(@, 504)]
    /\ UNCHANGED <<now, sessions, heap, deletes, wire, engine, mode, restarts,
                   purgeArmed, history>>

-----------------------------------------------------------------------------
(* The engine (external) *)

\* It stores the batch, even when nobody waits for the answer any more.
EngineStore(r) ==
    /\ wire[r] = "out" /\ req[r].route = "store" /\ req[r].ns # Untouched
    /\ engine' = [engine EXCEPT ![req[r].ns] = @ \cup {r}]
    /\ wire' = [wire EXCEPT ![r] = "ok"]
    /\ history' = [history EXCEPT
                     !.stranded = @ \cup {x \in {r} : ~Held(req[r].obj)}]
    /\ UNCHANGED <<now, sessions, heap, deletes, req, mode, restarts, purgeArmed>>

\* It answers a read from the namespace.
EngineRead(r) ==
    /\ wire[r] = "out" /\ req[r].route # "store"
    /\ wire' = [wire EXCEPT ![r] = "ok"]
    /\ req' = [req EXCEPT ![r].found =
                 IF req[r].ns = Untouched THEN {} ELSE engine[req[r].ns]]
    /\ UNCHANGED <<now, sessions, heap, deletes, engine, mode, restarts,
                   purgeArmed, history>>

\* A namespace that holds nothing may be unknown to it, for a read or a store.
EngineMissing(r) ==
    /\ wire[r] = "out"
    /\ req[r].ns # Untouched => engine[req[r].ns] = {}
    /\ wire' = [wire EXCEPT ![r] = "missing"]
    /\ UNCHANGED <<now, sessions, heap, deletes, req, engine, mode, restarts,
                   purgeArmed, history>>

\* It validates the request and says no, with nothing stored.
EngineRefuse(r) ==
    /\ wire[r] = "out"
    /\ wire' = [wire EXCEPT ![r] = "refused"]
    /\ UNCHANGED <<now, sessions, heap, deletes, req, engine, mode, restarts,
                   purgeArmed, history>>

\* A DELETE sent by onExpire or by the purge arrives.
DeleteApplied(d) ==
    /\ d \in deletes
    /\ deletes' = deletes \ {d}
    /\ engine' = [engine EXCEPT ![d[2]] = {}]
    /\ UNCHANGED <<now, sessions, heap, req, wire, mode, restarts, purgeArmed,
                   history>>

\* Or it does not: deleteNamespace ignores errors and never retries.
DeleteLost(d) ==
    /\ LoseDeletes
    /\ d \in deletes
    /\ deletes' = deletes \ {d}
    /\ history' = [history EXCEPT !.stranded = @ \cup engine[d[2]]]
    /\ UNCHANGED <<now, sessions, heap, req, wire, engine, mode, restarts,
                   purgeArmed>>

-----------------------------------------------------------------------------
(* The process *)

\* setInterval: until shutdown clears it.
SweepTimer ==
    /\ mode = "up"
    /\ Sweep
    /\ UNCHANGED <<req, wire, engine, mode, restarts, purgeArmed, history>>

\* purgeStaleNamespaces: the engine lists the playground namespaces and the
\* proxy sends a DELETE for each.
PurgeStale ==
    LET listed == {ns \in Namespaces : engine[ns] # {}}
    IN  /\ mode # "down"
        /\ purgeArmed
        /\ purgeArmed' = FALSE
        /\ deletes' = deletes \cup ({None} \X listed)
        /\ history' = [history EXCEPT !.purged = @ \cup listed]
        /\ UNCHANGED <<now, sessions, heap, req, wire, engine, mode, restarts>>

\* The listing fails; it is not tried again.
PurgeFails ==
    /\ LoseDeletes
    /\ mode # "down"
    /\ purgeArmed
    /\ purgeArmed' = FALSE
    /\ history' = [history EXCEPT !.stranded = @ \cup Stored]
    /\ UNCHANGED <<now, sessions, heap, deletes, req, wire, engine, mode, restarts>>

\* SIGTERM: no new connections, no more sweeps, five seconds for the others.
Shutdown ==
    /\ mode = "up" /\ restarts < MaxRestarts
    /\ mode' = "draining"
    /\ UNCHANGED <<now, sessions, heap, deletes, req, wire, engine, restarts,
                   purgeArmed, history>>

\* The process is gone, and the sessions and open requests with it.
Stopped ==
    /\ mode' = "down"
    /\ sessions' = [k \in Keys |-> None]
    /\ req' = [r \in Requests |->
                 IF req[r].pc \in {"idle", "done"}
                 THEN req[r] ELSE [req[r] EXCEPT !.pc = "gone"]]
    /\ purgeArmed' = FALSE
    /\ UNCHANGED <<now, heap, deletes, wire, engine, restarts, history>>

Exit == mode = "draining" /\ Stopped
Crash == mode = "up" /\ restarts < MaxRestarts /\ Stopped

\* Mutant: no purge at startup.
StartWithoutPurge ==
    /\ mode = "down"
    /\ mode' = "up"
    /\ restarts' = restarts + 1
    /\ UNCHANGED <<now, sessions, heap, deletes, req, wire, engine, purgeArmed,
                   history>>

\* The container is started again and main() runs.
Start ==
    /\ mode = "down"
    /\ mode' = "up"
    /\ restarts' = restarts + 1
    /\ purgeArmed' = TRUE
    /\ UNCHANGED <<now, sessions, heap, deletes, req, wire, engine, history>>

Clock == Tick /\ UNCHANGED <<req, wire, engine, mode, restarts, purgeArmed, history>>

BodyEnds(r) ==
    \/ BodyFails(r)
    \/ \E count \in BatchSizes : CapRefuses(r, count)
    \/ \E count \in BatchSizes \cup {0}, ns \in Namespaces \cup {Untouched} :
          (req[r].route = "store" => count \in BatchSizes) /\ BodyArrives(r, count, ns)

Answer(r) == Deliver(r) \/ UpstreamFails(r)

EngineStep(r) ==
    \/ EngineStore(r)
    \/ EngineRead(r)
    \/ EngineMissing(r)
    \/ EngineRefuse(r)

ProxyNext ==
    \/ \E r \in Requests :
          \/ \E hdr \in Ids \cup {NoHeader}, ip \in ClientIps, route \in Routes,
                scenario \in Scenarios : Arrive(r, hdr, ip, route, scenario)
          \/ BodyEnds(r)
          \/ Answer(r)
          \/ EngineStep(r)
    \/ \E d \in deletes : DeleteApplied(d) \/ DeleteLost(d)
    \/ SweepTimer
    \/ PurgeStale \/ PurgeFails
    \/ Shutdown \/ Exit \/ Crash \/ Start
    \/ Clock

ProxySpec == ProxyInit /\ [][ProxyNext]_proxyVars

\* Node closes a connection whose body does not come (requestTimeout), the
\* upstream timeout ends every wait for the engine, timers fire, the container
\* is restarted, and the engine gets to the requests and DELETEs it is sent.
FairProxySpec ==
    /\ ProxySpec
    /\ \A r \in Requests :
          /\ WF_proxyVars(BodyEnds(r))
          /\ WF_proxyVars(Answer(r))
    /\ WF_proxyVars(\E d \in deletes : DeleteApplied(d))
    /\ WF_proxyVars(SweepTimer)
    /\ WF_proxyVars(PurgeStale)
    /\ WF_proxyVars(Exit)
    /\ WF_proxyVars(Start)
    /\ WF_proxyVars(Clock)

-----------------------------------------------------------------------------
(* Properties *)

\* Every variable has its type, and a request under way has its session object.
ProxyTypeOK ==
    /\ StoreTypeOK
    /\ req \in [Requests -> Request]
    /\ \A r \in Requests : req[r].pc \notin {"idle", "done"} => req[r].obj \in Objs
    /\ wire \in [Requests -> {"none", "out", "ok", "refused", "missing"}]
    /\ engine \in [Namespaces -> SUBSET Requests]
    /\ mode \in {"up", "draining", "down"}
    /\ restarts \in 0 .. MaxRestarts
    /\ purgeArmed \in BOOLEAN
    /\ history \in [raced : SUBSET Nat, stranded : SUBSET Requests,
                    purged : SUBSET Namespaces]

\* A session is charged for exactly the stores that were answered 2xx, each
\* once, whatever expires or restarts between the forward and the answer.
CountMatchesReplies ==
    \A o \in Objs :
        heap[o].memoryCount = Weight({r \in StoresOf(o) : req[r].status = 200})

\* The cap holds for a session whose stores never overlap and whose answers
\* all arrive: only a store between another's check and its commit, or one the
\* engine finished after the proxy gave up on it, gets past checkMemoryCap.
QuietStoresStayWithinCap ==
    \A o \in Objs \ history.raced :
        (\A r \in StoresOf(o) : req[r].status # 504 /\ req[r].pc # "gone") =>
            Weight(Stored \cap StoresOf(o)) <= MemoryCap

\* X-Sandbox-Memory-Remaining is what checkMemoryCap would answer next, unless
\* stores of the session overlapped (the wrapper of writeHead reuses the value
\* read before the await).
HeaderTrueWhenQuiet ==
    [][\A r \in Requests :
          (/\ req[r].pc = "sent" /\ req'[r].pc = "done"
           /\ req[r].route = "store" /\ req[r].count > 0
           /\ req[r].obj \notin history.raced)
          => req'[r].shown = Budget(MemoryLeft(heap'[req[r].obj]))]_proxyVars

\* A memory in the engine is tracked by a live session, or about to be
\* deleted, or will be seen by a purge: what stays behind unseen is only what
\* the engine stored after its session had left the Map, and what a lost
\* DELETE or a failed purge left there.
NoUnexplainedLeak ==
    \A ns \in Namespaces : \A r \in engine[ns] \ history.stranded :
        \/ \E k \in Keys : sessions[k] # None /\ ns \in heap[sessions[k]].namespaces
        \/ \E d \in deletes : d[2] = ns
        \/ purgeArmed \/ mode = "down"

\* While a session lives, what it was told is stored stays stored, as long as
\* no earlier session had its id and no startup purge listed its namespace, and
\* the 200 was not made of a "namespace not found".
FirstLifeKeepsItsMemories ==
    \A r \in Requests :
        LET o == req[r].obj
        IN  (/\ req[r].route = "store" /\ req[r].status = 200
             /\ wire[r] # "missing" /\ req[r].ns \notin history.purged
             /\ Held(o) /\ \A p \in 1 .. o - 1 : heap[p].key # heap[o].key)
            => r \in engine[req[r].ns]

\* What readBody and forward wait for ends, so every request is answered or
\* dies with the process.
RequestsAnswered ==
    \A r \in Requests : req[r].pc \in {"body", "sent"} ~> req[r].pc \in {"done", "gone"}

\* Every stored memory leaves the engine in the end, without anyone coming back
\* for it, unless it was stranded: by expiry and sweep, or by restart and purge.
StoresAreForgotten ==
    \A r \in Requests : r \in Stored ~> (r \notin Stored \/ r \in history.stranded)

-----------------------------------------------------------------------------
(* What the documentation says, and the code does not keep *)

\* server.js: "pre-check before forwarding so we never store past it".
CapNeverExceeded ==
    \A o \in Objs : Weight(Stored \cap StoresOf(o)) <= MemoryCap
=============================================================================
