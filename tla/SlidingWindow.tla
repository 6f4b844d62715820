--------------------------- MODULE SlidingWindow ---------------------------
(***************************************************************************)
(* What a sliding-window rate limiter promises, independently of how the   *)
(* sandbox proxy keeps its books (docker/playground/proxy/sessions.js).    *)
(* The log of a client keeps every admission for ever; an admission is     *)
(* allowed when fewer than Limit entries of the log are younger than       *)
(* Window.  The proxy forgets old entries and must still behave like this. *)
(***************************************************************************)
EXTENDS Integers, FiniteSets

CONSTANTS
    Clients,    \* whoever is limited: one log each
    Limit,      \* admissions allowed in a window
    Window      \* length of the window, in clock ticks

\* What the theorems about this module ask of its constants.
WindowParams == Limit \in Nat /\ Window \in Nat \ {0}

VARIABLES
    now,        \* the clock
    log         \* log[c]: every admission of c, never pruned

slidingVars == <<now, log>>

\* nth tells apart the admissions of one clock tick.
Stamp == [at : Nat, nth : Nat]

\* The admissions among S that lie in the window that ends at time t.
InWindow(S, t) == {x \in S : t - Window < x.at /\ x.at <= t}

SlidingTypeOK ==
    /\ now \in Nat
    /\ log \in [Clients -> SUBSET Stamp]

SlidingInit ==
    /\ now = 0
    /\ log = [c \in Clients |-> {}]

Advance ==
    /\ now' = now + 1
    /\ UNCHANGED log

Admit(c) ==
    /\ Cardinality(InWindow(log[c], now)) < Limit
    /\ log' = [log EXCEPT
                 ![c] = @ \cup {[at |-> now, nth |-> Cardinality(@) + 1]}]
    /\ UNCHANGED now

SlidingNext == Advance \/ \E c \in Clients : Admit(c)

SlidingSpec == SlidingInit /\ [][SlidingNext]_slidingVars

\* The promise: wherever a window is laid over the past, it holds at most
\* Limit admissions of a client.
NeverOver ==
    \A c \in Clients : \A t \in 0 .. now : Cardinality(InWindow(log[c], t)) <= Limit
============================================================================
