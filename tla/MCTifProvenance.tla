---------------------------- MODULE MCTifProvenance ----------------------------
(* Two scenarios of phase2_scenarios.json.  One run takes both, the other one   *)
(* takes the second of them at the same time with the same agent id.  The upvote *)
(* of source-backed is left out, for a memory without feedback.                 *)
EXTENDS TifProvenance

CONSTANTS r1, r2

Memory(id, importance, t, i, f, feedback) ==
    [fixture |-> id, importance |-> importance, meta |-> TRUE,
     rel |-> [t |-> t, i |-> i, f |-> f], feedback |-> feedback]

Research ==
    [memories |-> <<Memory("source-backed", 80, 68, 16, 8, <<>>),
                    Memory("uncertain-source", 92, 44, 18, 18, <<"flag", "flag">>)>>,
     action |-> "ask_clarification", changed |-> TRUE,
     direct |-> "uncertain-source", safe |-> "source-backed"]

Coding ==
    [memories |-> <<Memory("current-endpoint", 84, 66, 14, 10, <<"upvote">>),
                    Memory("obsolete-endpoint", 93, 38, 20, 34, <<"downvote", "downvote">>)>>,
     action |-> "surface_contradiction", changed |-> TRUE,
     direct |-> "obsolete-endpoint", safe |-> "current-endpoint"]

Support ==
    [memories |-> <<Memory("current-policy", 83, 67, 12, 7, <<"upvote">>),
                    Memory("outdated-policy", 91, 42, 18, 30, <<"downvote", "flag">>)>>,
     action |-> "surface_contradiction", changed |-> TRUE,
     direct |-> "outdated-policy", safe |-> "current-policy"]

MCFixture == (r1 :> <<Research, Coding>>) @@ (r2 :> <<Coding>>)

(* What PassesAsSelfTest of TifProvenanceProofs needs holds of this fixture, and *)
(* of the scenarios of the repository's as they are.                            *)
ASSUME MCFixtureDecides ==
    /\ FixtureDecides
    /\ \A scenario \in
          {Coding, Support, [Research EXCEPT !.memories[1].feedback = <<"upvote">>]} :
          Decisive(scenario)
=============================================================================
