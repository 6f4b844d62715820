----------------------------- MODULE TifDecision -----------------------------
(***************************************************************************)
(* The decision rules of examples/tif-provenance/validate_tif_provenance.py: *)
(* how feedback turns a memory's (t, i, f) into derived reliability, how a  *)
(* reliability is classified, and which of several recalled memories the    *)
(* agent acts on.  Scores are integers, in hundredths: the fixtures and the *)
(* deltas have two decimals, so round(x, 4) never rounds one of them.       *)
(*                                                                          *)
(* A memory is a record: fixture (its fixture id), importance, meta         *)
(* (whether metadata came with it), rel (metadata.reliability) and, in the  *)
(* second phase, feedback (a sequence of signals).  A list of memories is a *)
(* sequence, and a choice among them is a position in it, 0 for None.       *)
(***************************************************************************)
EXTENDS Integers, Sequences, SequencesExt

Scores == 0..100
Signals == {"upvote", "downvote", "flag"}
Reliabilities == [t : Scores, i : Scores, f : Scores]
Zero == [t |-> 0, i |-> 0, f |-> 0]

Reuse == {"reuse_confidently", "reuse_with_caveat"}
Actions == {"surface_contradiction", "ask_clarification"} \cup Reuse

-----------------------------------------------------------------------------
(***************************************************************************)
(* Deriving reliability                                                     *)
(***************************************************************************)

FeedbackDeltas ==
    [upvote   |-> [t |->  10, i |-> -3, f |-> -5],
     downvote |-> [t |-> -10, i |->  5, f |-> 15],
     flag     |-> [t |->  -5, i |-> 20, f |-> 10]]

Clamp(v) == IF v < 0 THEN 0 ELSE IF v > 100 THEN 100 ELSE v

ApplySignal(rel, signal) ==
    [k \in {"t", "i", "f"} |-> Clamp(rel[k] + FeedbackDeltas[signal][k])]

InitialReliability(m) == IF m.meta THEN m.rel ELSE Zero

(* An unsupported signal raises ValueError.  No caller reaches that: fixture  *)
(* signals are checked before they are sent, and ExtractFeedbackSignals       *)
(* drops what it does not know.                                               *)
Derived(initial, feedback) ==
    LET derived[n \in 0 .. Len(feedback)] ==
          IF n = 0 THEN initial ELSE ApplySignal(derived[n - 1], feedback[n])
    IN derived[Len(feedback)]

DeriveReliability(m) == Derived(InitialReliability(m), m.feedback)

(* [x for x in seq if x in S] *)
Those(seq, S) ==
    LET kept[n \in 0 .. Len(seq)] ==
          IF n = 0 THEN <<>>
          ELSE IF seq[n] \in S THEN Append(kept[n - 1], seq[n]) ELSE kept[n - 1]
    IN kept[Len(seq)]

(* Only the entries of a history whose signal is known count *)
ExtractFeedbackSignals(entries) == Those(entries, Signals)

-----------------------------------------------------------------------------
(***************************************************************************)
(* Classifying and choosing                                                 *)
(***************************************************************************)

Classify(rel) ==
    CASE rel.f >= 50 -> "surface_contradiction"
      [] rel.f < 50 /\ rel.i >= 50 -> "ask_clarification"
      [] rel.t >= 70 /\ rel.i <= 35 /\ rel.f <= 35 -> "reuse_confidently"
      [] OTHER -> "reuse_with_caveat"

(* Python's max over a list: the first of the greatest *)
FirstMax(D, score) ==
    CHOOSE n \in D : \A k \in D : score[k] < score[n] \/ (score[k] = score[n] /\ n <= k)

ChooseBaseline(ms) ==
    IF ms = <<>> THEN 0
    ELSE FirstMax(DOMAIN ms, [n \in DOMAIN ms |-> ms[n].importance])

ClassOf(rels, action) == {n \in DOMAIN rels : Classify(rels[n]) = action}
Component(rels, k) == [n \in DOMAIN rels |-> rels[n][k]]

(* Mutant: what is unresolved is asked about before contradictions are surfaced *)
UnresolvedPositionFirst(ms, rels) ==
    LET contradictions == ClassOf(rels, "surface_contradiction")
        unresolved == ClassOf(rels, "ask_clarification")
    IN IF unresolved # {} THEN FirstMax(unresolved, Component(rels, "i"))
       ELSE IF contradictions # {} THEN FirstMax(contradictions, Component(rels, "f"))
       ELSE ChooseBaseline(ms)

(* The memory to act on, given what each is worth: the falsest contradiction, *)
(* else the least resolved, else the truest that may be reused confidently,   *)
(* else the most important.                                                   *)
FeedbackAwarePosition(ms, rels) ==
    LET contradictions == ClassOf(rels, "surface_contradiction")
        unresolved == ClassOf(rels, "ask_clarification")
        confident == ClassOf(rels, "reuse_confidently")
    IN IF contradictions # {} THEN FirstMax(contradictions, Component(rels, "f"))
       ELSE IF unresolved # {} THEN FirstMax(unresolved, Component(rels, "i"))
       ELSE IF confident # {} THEN FirstMax(confident, Component(rels, "t"))
       ELSE ChooseBaseline(ms)

ChooseFeedbackAware(ms) ==
    LET rels == [n \in DOMAIN ms |-> DeriveReliability(ms[n])]
        pos == FeedbackAwarePosition(ms, rels)
    IN IF ms = <<>> THEN [pos |-> 0, action |-> "no_memory"]
       ELSE [pos |-> pos, action |-> Classify(rels[pos])]

-----------------------------------------------------------------------------
(***************************************************************************)
(* Reading an answer of the engine.  A response is a JSON list (kind        *)
(* "list"), an object (kind "dict": the lists it holds by key, and whether  *)
(* it has "content", that is, is itself a memory) or anything else.  A list *)
(* item that is an object is a memory or wraps one under "memory".          *)
(***************************************************************************)

RecallKeys == <<"memories", "results", "items", "data">>
AssociatedKeys == <<"associated_memories", "associated", "linked_memories">>

(* self is the item read as a memory, memory what it wraps *)
NormalizeMemoryItem(item) == IF item.wrapped THEN item.memory ELSE item.self

(* [item for item in items if isinstance(item, dict)] *)
Objects(items) ==
    LET kept[n \in 0 .. Len(items)] ==
          IF n = 0 THEN <<>>
          ELSE IF items[n].dict THEN Append(kept[n - 1], items[n]) ELSE kept[n - 1]
    IN kept[Len(items)]

MemoriesOf(items) == [n \in DOMAIN Objects(items) |-> NormalizeMemoryItem(Objects(items)[n])]

(* The first key that holds a list wins, even if that list is empty *)
NormalizeMemoryList(response, keys) ==
    LET held == {n \in DOMAIN keys : keys[n] \in DOMAIN response.lists}
        first == CHOOSE n \in held : \A o \in held : n <= o
    IN CASE response.kind = "list" -> MemoriesOf(response.items)
         [] response.kind = "dict" /\ held # {} -> MemoriesOf(response.lists[keys[first]])
         [] response.kind = "dict" /\ held = {} /\ response.content -> <<response.self>>
         [] OTHER -> <<>>

NormalizeRecallResponse(response) ==
    [memories   |-> NormalizeMemoryList(response, RecallKeys),
     associated |-> NormalizeMemoryList(response, AssociatedKeys)]
=============================================================================
