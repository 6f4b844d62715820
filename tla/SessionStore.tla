---------------------------- MODULE SessionStore ----------------------------
(***************************************************************************)
(* The session store of the playground sandbox proxy,                      *)
(* docker/playground/proxy/sessions.js.                                    *)
(*                                                                         *)
(* The store is a Map from keys to session objects.  A request handler     *)
(* keeps a reference to the object resolve() gave it while it awaits the   *)
(* request body and the engine, so an object outlives its place in the     *)
(* Map.  Objects therefore have an identity of their own here: `heap' is   *)
(* the objects ever created, `sessions' the Map.                           *)
(*                                                                         *)
(* A step of JavaScript between two awaits is atomic, and one step may     *)
(* call several operations of the store.  The operations are given as      *)
(* functions on session objects and as actions on the Map, and the module  *)
(* SandboxProxy builds its handlers from them.  The specification below    *)
(* lets any caller use any object it may still hold.                       *)
(***************************************************************************)
EXTENDS Integers, Sequences, FiniteSets

CONSTANTS
    Ids,            \* session ids that SESSION_RE accepts
    ClientIps,      \* what clientIp() returns: addresses, perhaps the empty one
    NoIp,           \* the empty address, of "X-Forwarded-For: ,"
    Unknown,        \* the address "unknown"
    NoHeader,       \* no X-Playground-Session header, or an invalid one
    Scenarios,      \* scenario keys of the client's agent ids
    RateLimit,      \* rateLimitPerMin
    RateWindow,     \* 60 000 ms, in clock ticks
    LlmLimit,       \* llmRateLimit
    LlmWindow,      \* 10 minutes, in clock ticks
    MemoryCap,      \* memoryCap
    Ttl,            \* ttlMs, in clock ticks
    MaxPerIp,       \* maxSessionsPerIp, 0 for no ceiling
    TicksPerSec,    \* clock ticks in a second, the unit of Retry-After
    NaN,            \* JavaScript's not-a-number
    BatchSizes,     \* how many memories one store request may carry
    MaxObjs,        \* bound: session objects created in a run
    MaxTime,        \* bound: the clock
    LastMint,       \* bound: no session is minted after this time
    MaxCount        \* bound: memories counted against one session

\* ip || 'unknown'
StoredIp(ip) == IF ip = NoIp THEN Unknown ELSE ip

\* The addresses sessions are kept under; "ip:<addr>" is a key of the Map.
Ips == {StoredIp(ip) : ip \in ClientIps}
Keys == Ids \cup Ips

ASSUME StoreAssumption ==
    /\ IsFiniteSet(Ids) /\ IsFiniteSet(ClientIps)
    /\ Ids \cap Ips = {}
    /\ NoIp # Unknown
    /\ NoHeader \notin Ids
    /\ RateLimit \in Nat /\ LlmLimit \in Nat
    /\ RateWindow \in Nat \ {0} /\ LlmWindow \in Nat \ {0}
    /\ MemoryCap \in Nat /\ Ttl \in Nat /\ MaxPerIp \in Nat
    /\ TicksPerSec \in Nat \ {0}
    /\ BatchSizes \subseteq Nat
    /\ MaxObjs \in Nat /\ MaxTime \in Nat /\ LastMint \in Int /\ MaxCount \in Nat

VARIABLES
    now,            \* the injected clock, this.now()
    sessions,       \* this.sessions: key -> object, None when absent
    heap,           \* the session objects, in the order they were created
    deletes         \* <<object, namespace>> handed to onExpire for deletion

storeVars == <<now, sessions, heap, deletes>>

-----------------------------------------------------------------------------
(* Session objects *)

Objs == 1 .. Len(heap)
None == 0

\* namespace.js derives a namespace from the session id and the scenario of
\* the agent id; the digest is taken to be injective.
Namespaces == Keys \X Scenarios

\* One admitted call.  The code keeps the bare time; nth tells apart the calls
\* of one tick, which the array keeps as separate elements.
Call == [at : Nat, nth : Nat]

\* calls, llmCalls, memoryCount, llmSeeded and namespaces are what the code
\* stores; key is where the object was put.  admitted and llmAdmitted are
\* history: every call ever let through, which the code forgets.
Session ==
    [key : Keys, ip : Ips, generated : BOOLEAN, createdAt : Nat,
     calls : SUBSET Call, llmCalls : SUBSET Call, memoryCount : Nat,
     llmSeeded : BOOLEAN, namespaces : SUBSET Namespaces,
     admitted : SUBSET Call, llmAdmitted : SUBSET Call]

NewSession(key, ip, generated) ==
    [key |-> key, ip |-> StoredIp(ip), generated |-> generated, createdAt |-> now,
     calls |-> {}, llmCalls |-> {}, memoryCount |-> 0,
     llmSeeded |-> FALSE, namespaces |-> {},
     admitted |-> {}, llmAdmitted |-> {}]

Expired(s) == now - s.createdAt > Ttl

\* The calls that filter() keeps.
Recent(calls, window) == {c \in calls : c.at > now - window}

\* Mutant: pushes windowStart instead of now.
NextCallAtWindowStart(admitted) ==
    [at |-> now - RateWindow, nth |-> Cardinality(admitted) + 1]

NextCall(admitted) == [at |-> now, nth |-> Cardinality(admitted) + 1]

\* Mutant: > for >=.
RateOkOneMore(s) == Cardinality(Recent(s.calls, RateWindow)) <= RateLimit

\* checkRate: prune, then admit and record, or refuse.
RateOk(s) == Cardinality(Recent(s.calls, RateWindow)) < RateLimit

\* Mutant: forgets to push the call.
CheckRateNoPush(s) ==
    [s EXCEPT !.calls = Recent(@, RateWindow),
              !.admitted = @ \cup {NextCall(s.admitted)}]

CheckRate(s) ==
    IF RateOk(s)
    THEN [s EXCEPT !.calls = Recent(@, RateWindow) \cup {NextCall(s.admitted)},
                   !.admitted = @ \cup {NextCall(s.admitted)}]
    ELSE [s EXCEPT !.calls = Recent(@, RateWindow)]

\* checkLlmRate: the same over the longer window.
LlmRateOk(s) == Cardinality(Recent(s.llmCalls, LlmWindow)) < LlmLimit

\* Mutant: prunes with the window of checkRate.
CheckLlmRateWrongWindow(s) ==
    IF LlmRateOk(s)
    THEN [s EXCEPT !.llmCalls = Recent(@, RateWindow) \cup {NextCall(s.llmAdmitted)},
                   !.llmAdmitted = @ \cup {NextCall(s.llmAdmitted)}]
    ELSE [s EXCEPT !.llmCalls = Recent(@, RateWindow)]

CheckLlmRate(s) ==
    IF LlmRateOk(s)
    THEN [s EXCEPT !.llmCalls = Recent(@, LlmWindow) \cup {NextCall(s.llmAdmitted)},
                   !.llmAdmitted = @ \cup {NextCall(s.llmAdmitted)}]
    ELSE [s EXCEPT !.llmCalls = Recent(@, LlmWindow)]

\* Mutant: rounds down.
RetryAfterRoundedDown(calls, window) ==
    LET kept == Recent(calls, window)
        oldest == CHOOSE t \in {c.at : c \in kept} : \A c \in kept : t <= c.at
    IN  (oldest + window - now) \div TicksPerSec

\* Retry-After of a refused call: seconds, rounded up, until the oldest call
\* leaves the window; NaN when there is no oldest call.
RetryAfter(calls, window) ==
    LET kept == Recent(calls, window)
        oldest == CHOOSE t \in {c.at : c \in kept} : \A c \in kept : t <= c.at
        wait == (oldest + window - now + TicksPerSec - 1) \div TicksPerSec
    IN  IF kept = {} THEN NaN ELSE IF wait < 1 THEN 1 ELSE wait

\* checkMemoryCap: what is left may be negative.
MemoryLeft(s) == MemoryCap - s.memoryCount

\* Mutant: a batch counts as one memory.
CapOkForOne(s, count) == 1 <= MemoryLeft(s)

CapOk(s, count) == count <= MemoryLeft(s)

CommitMemory(s, count) == [s EXCEPT !.memoryCount = @ + count]

\* Mutant: the namespace is not remembered.
TrackNothing(s, ns) == s

TrackNamespace(s, ns) == [s EXCEPT !.namespaces = @ \cup {ns}]

-----------------------------------------------------------------------------
(* The Map *)

Held(o) == \E k \in Keys : sessions[k] = o

ExpiredKeys == {k \in Keys : sessions[k] # None /\ Expired(heap[sessions[k]])}

\* The Map without the keys of K, and what onExpire is told about them.
Without(K) == [k \in Keys |-> IF k \in K THEN None ELSE sessions[k]]

\* Mutant: onExpire is called for every session, expired or not.
HandedOverAll(K) ==
    UNION {{sessions[k]} \X heap[sessions[k]].namespaces :
              k \in {x \in Keys : sessions[x] # None}}

HandedOver(K) ==
    UNION {{sessions[k]} \X heap[sessions[k]].namespaces : k \in K}

\* resolve looks up the header, or the legacy "ip:" key without one.
LookupKey(hdr, ip) == IF hdr \in Ids THEN hdr ELSE StoredIp(ip)
StaleKeys(hdr, ip) == ExpiredKeys \cap {LookupKey(hdr, ip)}

\* ip is compared as the request has it, so nothing is live for the empty one.
LiveForIp(ip) ==
    {k \in Keys : /\ sessions[k] # None
                  /\ heap[sessions[k]].ip = ip
                  /\ ~Expired(heap[sessions[k]])}

\* Mutant: > for >=.
CeilingPassed(ip) == MaxPerIp > 0 /\ Cardinality(LiveForIp(ip)) > MaxPerIp

CeilingReached(ip) == MaxPerIp > 0 /\ Cardinality(LiveForIp(ip)) >= MaxPerIp

\* newSessionId() draws 18 random bytes: an id nobody has used.
MintedIds(hdr) ==
    IF hdr \in Ids THEN {hdr}
    ELSE Ids \ {heap[o].key : o \in Objs}

\* resolve, first outcome: a session that has not expired.
ResolveFound(hdr, ip, o) ==
    /\ o = sessions[LookupKey(hdr, ip)]
    /\ o # None
    /\ ~Expired(heap[o])
    /\ UNCHANGED <<sessions, deletes>>

\* Absent or expired: an expired entry is dropped whatever happens next.
NothingLive(hdr, ip) ==
    sessions[LookupKey(hdr, ip)] = None \/ StaleKeys(hdr, ip) # {}

DropStale(hdr, ip) == deletes' = deletes \cup HandedOver(StaleKeys(hdr, ip))

\* Second outcome: a fresh session under id, whose object becomes s.
ResolveMint(hdr, ip, id, s) ==
    /\ NothingLive(hdr, ip)
    /\ ~CeilingReached(ip)
    /\ id \in MintedIds(hdr)
    /\ Len(heap) < MaxObjs /\ now <= LastMint
    /\ heap' = Append(heap, s)
    /\ sessions' = [Without(StaleKeys(hdr, ip)) EXCEPT ![id] = Len(heap')]
    /\ DropStale(hdr, ip)

\* Third outcome: 429, too many live sessions for this address.
ResolveRefused(hdr, ip) ==
    /\ NothingLive(hdr, ip)
    /\ CeilingReached(ip)
    /\ sessions' = Without(StaleKeys(hdr, ip))
    /\ DropStale(hdr, ip)

\* Mutant: evicts without calling onExpire.
SweepSilently ==
    /\ sessions' = Without(ExpiredKeys)
    /\ UNCHANGED <<now, heap, deletes>>

\* Mutant: evicts only the sessions that have something to delete.
SweepOnlyTracked ==
    LET K == {k \in ExpiredKeys : heap[sessions[k]].namespaces # {}}
    IN  /\ sessions' = Without(K)
        /\ deletes' = deletes \cup HandedOver(K)
        /\ UNCHANGED <<now, heap>>

\* sweep: one callback evicts every expired entry.
Sweep ==
    /\ sessions' = Without(ExpiredKeys)
    /\ deletes' = deletes \cup HandedOver(ExpiredKeys)
    /\ UNCHANGED <<now, heap>>

Tick ==
    /\ now < MaxTime
    /\ now' = now + 1
    /\ UNCHANGED <<sessions, heap, deletes>>

-----------------------------------------------------------------------------
(* The store on its own: any caller, any object it may hold *)

StoreInit ==
    /\ now = 0
    /\ sessions = [k \in Keys |-> None]
    /\ heap = <<>>
    /\ deletes = {}

Resolve(hdr, ip) ==
    /\ \/ \E o \in Objs : ResolveFound(hdr, ip, o) /\ UNCHANGED heap
       \/ \E id \in MintedIds(hdr) :
             ResolveMint(hdr, ip, id, NewSession(id, ip, hdr \notin Ids))
       \/ ResolveRefused(hdr, ip) /\ UNCHANGED heap
    /\ UNCHANGED now

\* A caller applies one operation of the store to an object it holds.
Update(o, s) ==
    /\ heap' = [heap EXCEPT ![o] = s]
    /\ UNCHANGED <<now, sessions, deletes>>

RateCheck(o) == Update(o, CheckRate(heap[o]))

LlmRateCheck(o) == Update(o, CheckLlmRate(heap[o]))

Commit(o, count) ==
    /\ heap[o].memoryCount + count <= MaxCount
    /\ Update(o, CommitMemory(heap[o], count))

Track(o, scenario) ==
    Update(o, TrackNamespace(heap[o], <<heap[o].key, scenario>>))

StoreNext ==
    \/ \E hdr \in Ids \cup {NoHeader}, ip \in ClientIps : Resolve(hdr, ip)
    \/ \E o \in Objs : \/ RateCheck(o)
                       \/ LlmRateCheck(o)
                       \/ \E count \in BatchSizes : Commit(o, count)
                       \/ \E scenario \in Scenarios : Track(o, scenario)
    \/ Sweep
    \/ Tick

StoreSpec == StoreInit /\ [][StoreNext]_storeVars

-----------------------------------------------------------------------------
(* Properties *)

\* Every variable has its type, and the Map refers to objects that exist.
StoreTypeOK ==
    /\ now \in Nat
    /\ sessions \in [Keys -> Nat]
    /\ \A k \in Keys : sessions[k] <= Len(heap)
    /\ heap \in Seq(Session)
    /\ deletes \subseteq (Nat \X Namespaces)

\* Sessions of the empty address are kept under "unknown" and counted under
\* neither: where it may come in, resolve does not bound the sessions of "unknown".
CountedIps == IF NoIp \in ClientIps THEN Ips \ {Unknown} ELSE Ips

\* No header rotation gives one address that is counted more than MaxPerIp live
\* sessions: resolve counts and mints in one step, and the sessions of nobody
\* else are taken for its own (sessions.js, resolve).
IpCeiling ==
    MaxPerIp > 0 => \A ip \in CountedIps : Cardinality(LiveForIp(ip)) <= MaxPerIp

\* Although checkRate forgets calls, no window of the past, however it is laid,
\* holds more than rateLimitPerMin admitted calls of a session, and the same
\* for checkLlmRate: each implements the limiter that remembers everything.
AdmittedLog == [o \in 1 .. MaxObjs |-> IF o \in Objs THEN heap[o].admitted ELSE {}]
LlmAdmittedLog == [o \in 1 .. MaxObjs |-> IF o \in Objs THEN heap[o].llmAdmitted ELSE {}]

Rate == INSTANCE SlidingWindow
          WITH Clients <- 1 .. MaxObjs, Limit <- RateLimit, Window <- RateWindow,
               log <- AdmittedLog
Llm == INSTANCE SlidingWindow
          WITH Clients <- 1 .. MaxObjs, Limit <- LlmLimit, Window <- LlmWindow,
               log <- LlmAdmittedLog

RateImplementsWindow == Rate!SlidingSpec
LlmImplementsWindow == Llm!SlidingSpec
RateNeverOver == Rate!NeverOver
LlmNeverOver == Llm!NeverOver

\* Retry-After is never too early: a client that waits as long as checkRate
\* told it finds room in the window, unless it called again meanwhile.
RetryAfterSuffices ==
    \A o \in Objs :
        ~RateOk(heap[o]) =>
            LET then == now + RetryAfter(heap[o].calls, RateWindow) * TicksPerSec
            IN  Cardinality({c \in heap[o].calls : c.at > then - RateWindow}) < RateLimit

\* A session leaves the Map only when its time is up, and onExpire is then told
\* every namespace it has tracked (resolve and sweep).
EvictionComplete ==
    [][\A o \in Objs :
          Held(o) /\ ~Held(o)' =>
              /\ Expired(heap[o])
              /\ {o} \X heap[o].namespaces \subseteq deletes']_storeVars

\* No session stays in the Map for ever, whether or not anybody asks for it
\* again (sweep).
SessionsAreEvicted ==
    \A o \in 1 .. MaxObjs : (o \in Objs /\ Held(o)) ~> ~Held(o)
=============================================================================
