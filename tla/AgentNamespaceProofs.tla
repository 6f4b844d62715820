------------------------ MODULE AgentNamespaceProofs ------------------------
(***************************************************************************)
(* What the playground proxy does to agent ids, for any session ids, ids   *)
(* and lists of items.                                                     *)
(*                                                                         *)
(* What is forwarded is a function of the request alone, and so is what    *)
(* the client is shown: NsInv says so, and each theorem is a fact about    *)
(* that function.  The lemmas are about bodies: where the first id stands, *)
(* and what is left in a rewritten one.                                    *)
(***************************************************************************)
EXTENDS AgentNamespace, FiniteSetTheorems, SequenceTheorems, WellFoundedInduction, TLAPS

NsInv ==
    /\ request \in HttpRequests
    /\ forwarded = NotYet \/ forwarded = Forward(request)
    /\ response = {} \/ response = Restored(NamesOf(Forward(request)), Forward(request).restore)

-----------------------------------------------------------------------------
(* Names *)

\* A client's id is no namespace of a session, and both are names.
LEMMA OwnersDiffer ==
    ASSUME NEW sid \in SessionIds, NEW name \in OptionalNames
    PROVE  /\ SessionNamespace(sid, name) # Absent
           /\ SessionNamespace(sid, name).owner = sid
           /\ name # Absent => name.owner = Client
BY NsAssumption DEF SessionNamespace, Absent, OptionalNames, Name

\* The namespace of an id is the one of its scenario.
LEMMA NamespaceOfKey ==
    ASSUME NEW sid, NEW name, name # Absent
    PROVE  SessionNamespace(sid, name) = [owner |-> sid, words |-> ScenarioKey(name.words)]
BY DEF SessionNamespace

-----------------------------------------------------------------------------
(* Bodies *)

\* A body is JSON with at least one root, or has no roots.
LEMMA BodyShape ==
    ASSUME NEW q \in HttpRequests
    PROVE  /\ q.sid \in SessionIds /\ q.path \in Paths
           /\ q.segment \in OptionalNames /\ q.query \in OptionalNames
           /\ Matched(q) \in OptionalNames
           /\ q.body.roots \in Seq(Roots)
           /\ q.body.kind = "json" \/ q.body.roots = <<>>
           /\ q.body.kind = "json" => 1 \in DOMAIN q.body.roots
           /\ q.body = [kind |-> q.body.kind, array |-> q.body.array, roots |-> q.body.roots]
<1>1. /\ q.sid \in SessionIds /\ q.path \in Paths
      /\ q.segment \in OptionalNames /\ q.query \in OptionalNames
      /\ q.body \in Bodies
      /\ Matched(q) \in OptionalNames
  BY DEF HttpRequests, Matched, OptionalNames
<1>2. CASE q.body \in {NoBody, Text}
  <2>2. \E kind \in {"none", "text"} : q.body = [kind |-> kind, array |-> FALSE, roots |-> <<>>]
    BY <1>2 DEF NoBody, Text
  <2>3. <<>> \in Seq(Roots)
    OBVIOUS
  <2>4. QED
    BY <1>1, <2>2, <2>3
<1>3. ASSUME NEW r \in Roots, q.body = Json(FALSE, <<r>>)
      PROVE  /\ q.body.roots \in Seq(Roots) /\ q.body.kind = "json" /\ 1 \in DOMAIN q.body.roots
             /\ q.body = [kind |-> q.body.kind, array |-> q.body.array, roots |-> q.body.roots]
  BY <1>3 DEF Json
<1>4. ASSUME NEW pair \in ShortRoots \X ShortRoots, q.body = Json(TRUE, pair)
      PROVE  /\ q.body.roots \in Seq(Roots) /\ q.body.kind = "json" /\ 1 \in DOMAIN q.body.roots
             /\ q.body = [kind |-> q.body.kind, array |-> q.body.array, roots |-> q.body.roots]
  <2>1. PICK r \in Roots, s \in Roots : pair = <<r, s>>
    BY DEF ShortRoots
  <2>2. q.body = Json(TRUE, <<r, s>>)
    BY <1>4, <2>1
  <2>3. QED
    BY <2>2 DEF Json
<1>5. QED
  BY <1>1, <1>2, <1>3, <1>4 DEF Bodies

LEMMA RootShape ==
    ASSUME NEW roots \in Seq(Roots), NEW i \in DOMAIN roots
    PROVE  /\ roots[i].agent \in OptionalNames
           /\ roots[i].items \in Seq(OptionalNames)
           /\ Len(roots[i].items) \in Nat
<1>1. roots[i] \in Roots
  OBVIOUS
<1>2. roots[i].items \in Batches /\ roots[i].agent \in OptionalNames
  BY <1>1 DEF Roots
<1>3. QED
  BY <1>2, NsAssumption

\* What a body mentions are ids.
LEMMA MentionedAreNames ==
    ASSUME NEW roots \in Seq(Roots)
    PROVE  Mentioned(roots) \subseteq OptionalNames \ {Absent}
<1> SUFFICES ASSUME NEW p \in Given(roots) PROVE NameAt(roots, p) \in OptionalNames \ {Absent}
  BY DEF Mentioned
<1>1. PICK i \in DOMAIN roots : p \in {i} \X (0 .. Len(roots[i].items))
  BY DEF Given, Places
<1>2. p[1] = i /\ p[2] \in 0 .. Len(roots[i].items) /\ NameAt(roots, p) # Absent
  BY <1>1 DEF Given
<1>3. QED
  BY <1>1, <1>2, RootShape DEF NameAt

\* A set of natural numbers that is not empty has a least one.
LEMMA LeastPosition ==
    ASSUME NEW S \in SUBSET Nat, S # {}
    PROVE  \E i \in S : \A k \in S : i <= k
<1>1. PICK i \in S : \A k \in S : ~(<<k, i>> \in OpToRel(<, Nat))
  BY NatLessThanWellFounded, WFMin, Zenon
<1>2. \A k \in S : ~(k < i)
  BY <1>1 DEF OpToRel
<1>3. QED
  BY <1>2

\* A set of places that is not empty has a first one, in findFirst's order.
LEMMA FirstPlace ==
    ASSUME NEW roots \in Seq(Roots), Given(roots) # {}
    PROVE  \E p \in Given(roots) : \A q \in Given(roots) \ {p} : Before(p, q)
<1>1. \A p \in Given(roots) : p \in Nat \X Nat
  <2> SUFFICES ASSUME NEW p \in Given(roots) PROVE p \in Nat \X Nat
    OBVIOUS
  <2>1. PICK i \in DOMAIN roots : p \in {i} \X (0 .. Len(roots[i].items))
    BY DEF Given, Places
  <2>2. i \in Nat /\ Len(roots[i].items) \in Nat
    BY RootShape
  <2>3. QED
    BY <2>1, <2>2
<1> DEFINE firsts == {p[1] : p \in Given(roots)}
<1>2. PICK i \in firsts : \A k \in firsts : i <= k
  <2>1. firsts \in SUBSET Nat /\ firsts # {}
    BY <1>1
  <2>2. QED
    BY <2>1, LeastPosition
<1> DEFINE seconds == {p[2] : p \in {x \in Given(roots) : x[1] = i}}
<1>3. PICK j \in seconds : \A k \in seconds : j <= k
  <2>1. seconds \in SUBSET Nat /\ seconds # {}
    BY <1>1, <1>2
  <2>2. QED
    BY <2>1, LeastPosition
<1>4. PICK p \in Given(roots) : p[1] = i /\ p[2] = j
  BY <1>3
<1>5. ASSUME NEW q \in Given(roots), q # p PROVE Before(p, q)
  <2>1. i <= q[1] /\ p \in Nat \X Nat /\ q \in Nat \X Nat
    BY <1>1, <1>2
  <2>2. CASE q[1] = i
    <3>1. q[2] \in seconds
      BY <2>2
    <3>2. j <= q[2] /\ q[2] # j
      BY <1>3, <1>4, <1>5, <2>1, <2>2, <3>1
    <3>3. QED
      BY <1>4, <2>1, <2>2, <3>2 DEF Before
  <2>3. QED
    BY <1>4, <2>1, <2>2 DEF Before
<1>6. QED
  BY <1>4, <1>5

\* findFirst finds an id of the body if there is one.
LEMMA FirstIsMentioned ==
    ASSUME NEW roots \in Seq(Roots)
    PROVE  /\ FirstAgent(roots) \in OptionalNames
           /\ Given(roots) # {} => FirstAgent(roots) \in Mentioned(roots)
           /\ Given(roots) = {} => FirstAgent(roots) = Absent /\ Mentioned(roots) = {}
<1>1. CASE Given(roots) = {}
  BY <1>1 DEF FirstAgent, Mentioned, OptionalNames
<1>2. CASE Given(roots) # {}
  <2> DEFINE First(p) == p \in Given(roots) /\ \A q \in Given(roots) \ {p} : Before(p, q)
             p == CHOOSE p \in Given(roots) : \A q \in Given(roots) \ {p} : Before(p, q)
  <2>1. p \in Given(roots)
    BY <1>2, FirstPlace
  <2>2. FirstAgent(roots) = NameAt(roots, p)
    BY <1>2 DEF FirstAgent
  <2>3. QED
    BY <1>2, <2>1, <2>2, MentionedAreNames DEF Mentioned
<1>3. QED
  BY <1>1, <1>2

\* A rewritten body mentions the namespace and nothing else.
LEMMA RewrittenMentions ==
    ASSUME NEW roots \in Seq(Roots), NEW ns
    PROVE  /\ Mentioned(RewrittenRoots(roots, ns)) \subseteq {ns}
           /\ \A i \in DOMAIN roots : RewrittenRoots(roots, ns)[i].agent = ns
<1> DEFINE new == RewrittenRoots(roots, ns)
<1>1. /\ DOMAIN new = DOMAIN roots
      /\ \A i \in DOMAIN roots :
            /\ new[i].agent = ns
            /\ new[i].items = [j \in 1 .. Len(roots[i].items) |->
                                  IF roots[i].items[j] = Absent THEN Absent ELSE ns]
  BY DEF RewrittenRoots
<1> HIDE DEF new
<1>2. ASSUME NEW p \in Given(new) PROVE NameAt(new, p) = ns
  <2>1. PICK i \in DOMAIN new : p \in {i} \X (0 .. Len(new[i].items))
    BY DEF Given, Places
  <2>2. /\ p[1] = i /\ p[2] \in 0 .. Len(new[i].items) /\ NameAt(new, p) # Absent
        /\ i \in DOMAIN roots
    BY <1>1, <2>1 DEF Given
  <2>3. Len(new[i].items) = Len(roots[i].items) /\ Len(roots[i].items) \in Nat
    <3>1. Len(roots[i].items) \in Nat
      BY <2>2, RootShape
    <3>2. new[i].items = [j \in 1 .. Len(roots[i].items) |->
                             IF roots[i].items[j] = Absent THEN Absent ELSE ns]
      BY <1>1, <2>2
    <3> DEFINE m == Len(roots[i].items)
    <3> HIDE DEF m
    <3>3. ASSUME NEW f, f = [j \in 1 .. m |-> IF roots[i].items[j] = Absent THEN Absent ELSE ns]
          PROVE  Len(f) = m
      BY <3>1, <3>3 DEF m
    <3>4. QED
      BY <3>1, <3>2, <3>3 DEF m
  <2>4. CASE p[2] = 0
    BY <1>1, <2>1, <2>2, <2>4 DEF NameAt
  <2>5. CASE p[2] # 0
    <3>1. p[2] \in 1 .. Len(roots[i].items)
      BY <2>2, <2>3, <2>5
    <3>2. new[i].items[p[2]] \in {Absent, ns}
      BY <1>1, <2>2, <3>1
    <3>3. QED
      BY <2>2, <2>5, <3>2 DEF NameAt
  <2>6. QED
    BY <2>4, <2>5
<1>3. QED
  BY <1>1, <1>2 DEF Mentioned, new

-----------------------------------------------------------------------------
(* What is forwarded *)

\* The body that goes to the engine mentions the tracked namespace only.
LEMMA ForwardedBody ==
    ASSUME NEW q \in HttpRequests
    PROVE  LET first == FirstAgent(q.body.roots)
               ns == SessionNamespace(q.sid, first)
               rw == RewriteBody(q.body, q.sid)
           IN  /\ q.body.kind # "json" =>
                     rw.ns = Absent /\ rw.restoreTo = Absent /\ Mentioned(rw.body.roots) = {}
               /\ q.body.kind = "json" =>
                     /\ rw.ns = ns
                     /\ rw.restoreTo = IF first = Absent THEN Name(Demo) ELSE first
                     /\ Mentioned(rw.body.roots) \subseteq {ns}
                     /\ rw.body.roots[1].agent = ns
<1> DEFINE first == FirstAgent(q.body.roots)
           ns == SessionNamespace(q.sid, first)
           rw == RewriteBody(q.body, q.sid)
<1>1. CASE q.body.kind # "json"
  <2>1. rw = [body |-> q.body, ns |-> Absent, restoreTo |-> Absent]
    BY <1>1 DEF RewriteBody
  <2>2. Mentioned(<<>>) = {}
    BY DEF Mentioned, Given, Places
  <2>3. q.body.roots = <<>>
    BY <1>1, BodyShape
  <2> HIDE DEF rw
  <2>4. rw.body.roots = <<>> /\ rw.ns = Absent /\ rw.restoreTo = Absent
    BY <2>1, <2>3
  <2>5. QED
    BY <1>1, <2>2, <2>4 DEF rw
<1>2. CASE q.body.kind = "json"
  <2> DEFINE roots == RewrittenRoots(q.body.roots, ns)
             back == IF first = Absent THEN Name(Demo) ELSE first
  <2>1. rw = [body |-> [q.body EXCEPT !.roots = roots], ns |-> ns, restoreTo |-> back]
    BY <1>2 DEF RewriteBody
  <2>2. /\ q.body = [kind |-> q.body.kind, array |-> q.body.array, roots |-> q.body.roots]
        /\ q.body.roots \in Seq(Roots) /\ 1 \in DOMAIN q.body.roots
    BY <1>2, BodyShape
  <2>3. Mentioned(roots) \subseteq {ns} /\ roots[1].agent = ns
    BY <2>2, RewrittenMentions
  <2> HIDE DEF roots, back, rw, ns
  <2>4. rw.body = [q.body EXCEPT !.roots = roots] /\ rw.ns = ns /\ rw.restoreTo = back
    BY <2>1
  <2>5. rw.body.roots = roots
    BY <2>2, <2>4
  <2>6. /\ rw.ns = ns /\ rw.restoreTo = back
        /\ Mentioned(rw.body.roots) \subseteq {ns} /\ rw.body.roots[1].agent = ns
    BY <2>3, <2>4, <2>5
  <2>7. QED
    BY <1>2, <2>6 DEF rw, back, ns
<1>3. QED
  BY <1>1, <1>2
\* The namespace that is restored: the body's, the path's or the query's.
LEMMA RestoreChoice ==
    ASSUME NEW q \in HttpRequests
    PROVE  LET first == FirstAgent(q.body.roots)
               restore == Forward(q).restore
           IN  /\ q.body.kind = "json" =>
                     /\ restore.ns = SessionNamespace(q.sid, first)
                     /\ restore.restoreTo = IF first = Absent THEN Name(Demo) ELSE first
               /\ (q.body.kind # "json" /\ Matched(q) # Absent) =>
                     restore.ns = SessionNamespace(q.sid, Matched(q)) /\ restore.restoreTo = Matched(q)
               /\ (q.body.kind # "json" /\ Matched(q) = Absent /\ q.query # Absent) =>
                     restore.ns = SessionNamespace(q.sid, q.query) /\ restore.restoreTo = q.query
               /\ (q.body.kind # "json" /\ Matched(q) = Absent /\ q.query = Absent) =>
                     restore.ns = Absent
<1> DEFINE first == FirstAgent(q.body.roots)
           rw == RewriteBody(q.body, q.sid)
           bodyFirst == [ns |-> rw.ns, restoreTo |-> rw.restoreTo]
           segment == Matched(q)
           restore == Restoring(Restoring(bodyFirst, q.sid, segment), q.sid, q.query)
<1>1. Forward(q).restore = restore
  BY DEF Forward
<1>2. /\ first \in OptionalNames /\ q.sid \in SessionIds
      /\ segment \in OptionalNames /\ q.query \in OptionalNames
  BY BodyShape, FirstIsMentioned
<1>3. \A name \in OptionalNames : SessionNamespace(q.sid, name) # Absent
  BY <1>2, OwnersDiffer
<1>4. CASE q.body.kind = "json"
  <2>1. /\ rw.ns = SessionNamespace(q.sid, first)
        /\ rw.restoreTo = IF first = Absent THEN Name(Demo) ELSE first
    BY <1>4, ForwardedBody
  <2> HIDE DEF rw, first
  <2>2. restore = bodyFirst
    BY <1>2, <1>3, <2>1 DEF Restoring
  <2> HIDE DEF restore
  <2>3. QED
    BY <1>1, <1>4, <2>1, <2>2 DEF first
<1>5. CASE q.body.kind # "json"
  <2>1. rw.ns = Absent /\ rw.restoreTo = Absent
    BY <1>5, ForwardedBody
  <2> HIDE DEF rw
  <2>2. CASE segment # Absent
    <3>1. Restoring(bodyFirst, q.sid, segment) =
             [ns |-> SessionNamespace(q.sid, segment), restoreTo |-> segment]
      BY <2>1, <2>2 DEF Restoring
    <3>2. restore = [ns |-> SessionNamespace(q.sid, segment), restoreTo |-> segment]
      BY <1>2, <1>3, <3>1 DEF Restoring
    <3> HIDE DEF restore
    <3>3. QED
      BY <1>1, <1>5, <2>2, <3>2
  <2>3. CASE segment = Absent
    <3>1. Restoring(bodyFirst, q.sid, segment) = bodyFirst
      BY <2>3 DEF Restoring
    <3>2. restore = IF q.query # Absent
                    THEN [ns |-> SessionNamespace(q.sid, q.query), restoreTo |-> q.query]
                    ELSE bodyFirst
      BY <2>1, <3>1 DEF Restoring
    <3> HIDE DEF restore
    <3>3. QED
      BY <1>1, <1>5, <2>1, <2>3, <3>2
  <2>4. QED
    BY <2>2, <2>3
<1>6. QED
  BY <1>4, <1>5

\* Where the names that reach the engine come from.
LEMMA ForwardedNames ==
    ASSUME NEW q \in HttpRequests, NEW n \in NamesOf(Forward(q))
    PROVE  \/ n = Forward(q).restore.ns /\ n # Absent
           \/ q.encoded /\ n = q.segment /\ n # Absent
           \/ Matched(q) # Absent /\ n = SessionNamespace(q.sid, Matched(q))
           \/ q.query # Absent /\ n = SessionNamespace(q.sid, q.query)
           \/ /\ Forward(q).restore.ns = Absent /\ q.segment = Absent
              /\ n = SessionNamespace(q.sid, Absent)
<1> DEFINE rw == RewriteBody(q.body, q.sid)
           f == Forward(q)
           asQuery == q.path = "kg_query" /\ q.body.kind = "json"
           scoped(name) == IF name = Absent THEN Absent ELSE SessionNamespace(q.sid, name)
<1>1. /\ f.segment = IF q.path = "hybrid"
                     THEN IF f.restore.ns = Absent THEN SessionNamespace(q.sid, Absent)
                                                   ELSE f.restore.ns
                     ELSE IF q.encoded THEN q.segment
                     ELSE scoped(q.segment)
      /\ f.query = IF asQuery THEN (IF q.body.array THEN Absent ELSE rw.body.roots[1].agent)
                   ELSE IF q.path = "hybrid" THEN Absent
                   ELSE scoped(q.query)
      /\ f.body = IF asQuery THEN NoBody ELSE rw.body
  BY DEF Forward
<1>2. n # Absent /\ (n = f.segment \/ n = f.query \/ n \in Mentioned(f.body.roots))
  <2>1. n \in ({f.segment, f.query} \ {Absent}) \cup Mentioned(f.body.roots)
    BY DEF NamesOf
  <2>2. Absent \notin Mentioned(f.body.roots)
    BY DEF Mentioned, Given
  <2>3. QED
    BY <2>1, <2>2
<1>3. q.body.kind = "json" => /\ f.restore.ns = rw.ns
                              /\ Mentioned(rw.body.roots) \subseteq {rw.ns}
                              /\ rw.body.roots[1].agent = rw.ns
  BY RestoreChoice, ForwardedBody
<1>4. q.body.kind # "json" => Mentioned(rw.body.roots) = {}
  BY ForwardedBody
<1>5. Mentioned(NoBody.roots) = {}
  <2>1. NoBody.roots = <<>>
    BY DEF NoBody
  <2>2. Mentioned(<<>>) = {}
    BY DEF Mentioned, Given, Places
  <2>3. QED
    BY <2>1, <2>2
<1> HIDE DEF rw, f
<1>6. CASE n = f.segment
  <2>1. q.path = "hybrid" => q.segment = Absent
    BY DEF HttpRequests
  <2>2. QED
    BY <1>1, <1>2, <1>6, <2>1 DEF f, Matched
<1>7. CASE n = f.query
  BY <1>1, <1>2, <1>3, <1>7 DEF f
<1>8. CASE n \in Mentioned(f.body.roots)
  BY <1>1, <1>2, <1>3, <1>4, <1>5, <1>8 DEF f
<1>9. QED
  BY <1>2, <1>6, <1>7, <1>8

\* The restored name is a namespace of the session, if there is one at all.
LEMMA RestoreOwner ==
    ASSUME NEW q \in HttpRequests, Forward(q).restore.ns # Absent
    PROVE  Forward(q).restore.ns.owner = q.sid
<1>1. /\ FirstAgent(q.body.roots) \in OptionalNames /\ q.sid \in SessionIds
      /\ Matched(q) \in OptionalNames /\ q.query \in OptionalNames
  BY BodyShape, FirstIsMentioned
<1>2. \A name \in OptionalNames : SessionNamespace(q.sid, name).owner = q.sid
  BY <1>1, OwnersDiffer
<1>3. \E name \in OptionalNames : Forward(q).restore.ns = SessionNamespace(q.sid, name)
  BY <1>1, RestoreChoice, Zenon
<1>4. QED
  BY <1>2, <1>3

-----------------------------------------------------------------------------
(* The theorems *)

LEMMA NsInvHolds == NsSpec => []NsInv
<1>1. NsInit => NsInv
  BY DEF NsInit, NsInv
<1>2. NsInv /\ [NsNext]_nsVars => NsInv'
  <2> SUFFICES ASSUME NsInv, [NsNext]_nsVars PROVE NsInv'
    OBVIOUS
  <2>1. CASE Handle
    BY <2>1 DEF Handle, NsInv
  <2>2. CASE Respond
    BY <2>2 DEF Respond, NsInv
  <2>3. CASE UNCHANGED nsVars
    BY <2>3 DEF nsVars, NsInv
  <2>4. QED
    BY <2>1, <2>2, <2>3 DEF NsNext
<1>3. QED
  BY <1>1, <1>2, PTL DEF NsSpec

\* Nothing is forwarded of a request that has not been handled.
LEMMA NothingYet == NamesOf(NotYet) = {} /\ Mentioned(NotYet.body.roots) = {}
<1>1. NotYet.body.roots = <<>> /\ NotYet.segment = Absent /\ NotYet.query = Absent
  BY DEF NotYet, NoBody
<1>2. Mentioned(<<>>) = {}
  BY DEF Mentioned, Given, Places
<1>3. QED
  BY <1>1, <1>2 DEF NamesOf

\* No id a client wrote reaches the engine, unless in a path segment that was not
\* matched because the path was encoded: all other names in what is forwarded are
\* namespaces of the request's session (namespace.js, server.js).
THEOREM NamesIsolated == NsSpec => []Isolated
<1>1. NsInv => Isolated
  <2> SUFFICES ASSUME NsInv, NEW n \in NamesOf(forwarded)
               PROVE  n.owner = request.sid \/ (request.encoded /\ n = request.segment)
    BY DEF Isolated
  <2>1. request \in HttpRequests /\ forwarded = Forward(request)
    BY NothingYet DEF NsInv
  <2>2. /\ request.sid \in SessionIds /\ Absent \in OptionalNames
        /\ Matched(request) \in OptionalNames /\ request.query \in OptionalNames
    BY <2>1, BodyShape DEF OptionalNames
  <2>3. \A name \in OptionalNames : SessionNamespace(request.sid, name).owner = request.sid
    BY <2>2, OwnersDiffer
  <2>4. n = Forward(request).restore.ns /\ n # Absent => n.owner = request.sid
    BY <2>1, RestoreOwner
  <2>5. \/ n = Forward(request).restore.ns /\ n # Absent
        \/ request.encoded /\ n = request.segment
        \/ \E name \in OptionalNames : n = SessionNamespace(request.sid, name)
    BY <2>1, <2>2, ForwardedNames, Zenon
  <2>6. QED
    BY <2>3, <2>4, <2>5
<1>2. QED
  BY <1>1, NsInvHolds, PTL

\* Every name in a body that the engine stores is the namespace the proxy
\* tracked, so the DELETE of the session reaches it (server.js, trackNamespace).
THEOREM StoresTracked == NsSpec => []StoresAreTracked
<1>1. NsInv => StoresAreTracked
  <2> SUFFICES ASSUME NsInv, NEW n \in Mentioned(forwarded.body.roots)
               PROVE  n = forwarded.tracked
    BY DEF StoresAreTracked
  <2>1. request \in HttpRequests /\ forwarded = Forward(request)
    BY NothingYet DEF NsInv
  <2> DEFINE rw == RewriteBody(request.body, request.sid)
  <2>2. /\ forwarded.tracked = rw.ns
        /\ forwarded.body \in {NoBody, rw.body}
    BY <2>1 DEF Forward
  <2>3. Mentioned(NoBody.roots) = {}
    BY NothingYet DEF NotYet
  <2>4. Mentioned(rw.body.roots) \subseteq {rw.ns}
    BY <2>1, ForwardedBody
  <2> HIDE DEF rw
  <2>5. QED
    BY <2>2, <2>3, <2>4
<1>2. QED
  BY <1>1, NsInvHolds, PTL
\* When all that a request names is one scenario, one namespace is forwarded:
\* the one that is restored, to an id of the client.
LEMMA OneScenario ==
    ASSUME request \in HttpRequests, NEW key \in SentKeys, SentKeys = {key},
           NEW n \in NamesOf(Forward(request))
    PROVE  \/ /\ n = Forward(request).restore.ns
              /\ Forward(request).restore.restoreTo.owner = Client
              /\ ~NamelessBody => Forward(request).restore.restoreTo \in SentNames
           \/ n \in SentNames /\ n.owner = Client /\ n # Forward(request).restore.ns
<1> DEFINE q == request
           sid == request.sid
           restore == Forward(request).restore
           first == FirstAgent(request.body.roots)
           ns == [owner |-> sid, words |-> key]
<1>1. /\ sid \in SessionIds /\ q.segment \in OptionalNames /\ q.query \in OptionalNames
      /\ q.body.roots \in Seq(Roots)
      /\ q.body.kind = "json" \/ q.body.roots = <<>>
  BY BodyShape
<1>2. \A name \in SentNames : name # Absent /\ name.owner = Client /\ SessionNamespace(sid, name) = ns
  <2> SUFFICES ASSUME NEW name \in SentNames
               PROVE  name # Absent /\ name.owner = Client /\ SessionNamespace(sid, name) = ns
    OBVIOUS
  <2>1. name \in OptionalNames /\ name # Absent
    BY <1>1, MentionedAreNames DEF SentNames
  <2>2. ScenarioKey(name.words) = key
    BY DEF SentKeys
  <2>3. QED
    BY <1>1, <2>1, <2>2, NamespaceOfKey, OwnersDiffer
<1>3. q.segment # Absent => q.segment \in SentNames
  BY DEF SentNames
<1>4. q.query # Absent => q.query \in SentNames
  BY DEF SentNames
<1>5. first # Absent => first \in SentNames
  BY <1>1, FirstIsMentioned DEF SentNames
<1>6. q.body.kind = "json" /\ first = Absent =>
         NamelessBody /\ SessionNamespace(sid, first) = ns
  <2> SUFFICES ASSUME q.body.kind = "json", first = Absent
               PROVE  NamelessBody /\ SessionNamespace(sid, first) = ns
    OBVIOUS
  <2>1. Given(q.body.roots) = {}
    BY <1>1, FirstIsMentioned, MentionedAreNames
  <2>2. NamelessBody
    BY <2>1 DEF NamelessBody
  <2>3. key = Default
    BY <2>2 DEF SentKeys
  <2>4. QED
    BY <2>2, <2>3 DEF SessionNamespace
<1>7. ns # Absent /\ Name(Demo).owner = Client
  BY <1>1, NsAssumption DEF Absent, Name
<1>8. q.body.kind # "json" => Mentioned(q.body.roots) = {} /\ ~NamelessBody
  BY <1>1, FirstIsMentioned, NothingYet DEF NamelessBody, NotYet, NoBody
<1>9. \/ /\ restore.ns = ns /\ restore.restoreTo.owner = Client
         /\ ~NamelessBody => restore.restoreTo \in SentNames
      \/ restore.ns = Absent /\ q.encoded /\ q.query = Absent
  <2>1. CASE q.body.kind = "json"
    <3>1. /\ restore.ns = SessionNamespace(sid, first)
          /\ restore.restoreTo = IF first = Absent THEN Name(Demo) ELSE first
      BY <2>1, RestoreChoice
    <3> HIDE DEF restore, first, ns
    <3>2. QED
      BY <1>2, <1>5, <1>6, <1>7, <2>1, <3>1
  <2>2. CASE q.body.kind # "json"
    <3>1. q.segment # Absent \/ q.query # Absent
      <4>1. SentNames # {}
        BY <1>8, <2>2 DEF SentKeys
      <4>2. QED
        BY <1>8, <2>2, <4>1 DEF SentNames
    <3>4. Matched(q) = IF q.encoded THEN Absent ELSE q.segment
      BY DEF Matched
    <3>2. \/ restore.ns = SessionNamespace(sid, q.segment) /\ restore.restoreTo = q.segment
             /\ q.segment # Absent
          \/ restore.ns = SessionNamespace(sid, q.query) /\ restore.restoreTo = q.query
             /\ q.query # Absent
          \/ restore.ns = Absent /\ q.encoded /\ q.query = Absent
      BY <2>2, <3>1, <3>4, RestoreChoice
    <3> HIDE DEF restore, first, ns
    <3>3. QED
      BY <1>2, <1>3, <1>4, <3>2
  <2>3. QED
    BY <2>1, <2>2
<1>10. /\ Matched(q) = IF q.encoded THEN Absent ELSE q.segment
       /\ q.encoded => q.segment # Absent
  BY DEF Matched, HttpRequests
<1>11. (n = ns /\ restore.ns = ns) \/ (q.encoded /\ n = q.segment /\ n # Absent)
  <2>1. \/ n = restore.ns /\ n # Absent
        \/ q.encoded /\ n = q.segment /\ n # Absent
        \/ Matched(q) # Absent /\ n = SessionNamespace(sid, Matched(q))
        \/ q.query # Absent /\ n = SessionNamespace(sid, q.query)
        \/ restore.ns = Absent /\ q.segment = Absent
    BY ForwardedNames
  <2> HIDE DEF restore, ns
  <2>2. QED
    BY <1>2, <1>3, <1>4, <1>7, <1>9, <1>10, <2>1
<1>12. CASE q.encoded /\ n = q.segment /\ n # Absent
  <2>1. n \in SentNames /\ n.owner = Client
    BY <1>2, <1>3, <1>12
  <2>2. ns.owner # Client
    BY <1>1, NsAssumption
  <2>3. QED
    BY <1>9, <1>12, <2>1, <2>2
<1>13. QED
  BY <1>7, <1>9, <1>11, <1>12
\* The client gets its own ids back: no namespace is left in the response when
\* the request names one scenario, and only the id sent when it sends one
\* (server.js, restoreResponseAgentId).
THEOREM IdsRestored == NsSpec => []RoundTrip
<1>1. NsInv => RoundTrip
  <2> SUFFICES ASSUME NsInv PROVE RoundTrip
    OBVIOUS
  <2> DEFINE f == Forward(request)
  <2>1. request \in HttpRequests /\ (response = {} \/ response = Restored(NamesOf(f), f.restore))
    BY DEF NsInv
  <2>2. ASSUME NEW key \in SentKeys, SentKeys = {key}
        PROVE  \A n \in response : /\ n.owner = Client
                                   /\ ~NamelessBody => n \in SentNames
    <3>1. \A n \in NamesOf(f) :
             \/ /\ n = f.restore.ns /\ f.restore.restoreTo.owner = Client
                /\ ~NamelessBody => f.restore.restoreTo \in SentNames
             \/ n \in SentNames /\ n.owner = Client /\ n # f.restore.ns
      BY <2>1, <2>2, OneScenario
    <3> HIDE DEF f
    <3>2. QED
      BY <2>1, <3>1 DEF Restored
  <2> HIDE DEF f
  <2>3. ASSUME NEW m \in SentNames, SentNames = {m}, ~NamelessBody
        PROVE  response \subseteq {m}
    <3>1. SentKeys = {ScenarioKey(m.words)}
      BY <2>3 DEF SentKeys
    <3>2. QED
      BY <2>2, <2>3, <3>1
  <2>4. QED
    BY <2>2, <2>3 DEF RoundTrip
<1>2. QED
  BY <1>1, NsInvHolds, PTL
LEMMA OneElement ==
    ASSUME NEW S, NEW s \in Seq(S), Len(s) = 1
    PROVE  s = <<s[1]>>
<1>1. s \in Seq(S) /\ <<s[1]>> \in Seq(S) /\ Len(<<s[1]>>) = 1
  OBVIOUS
<1>2. QED
  BY <1>1

\* A word by itself is as long as it is.
LEMMA CharsOfOne ==
    ASSUME NEW w \in DOMAIN WordLen
    PROVE  Chars(<<w>>) = WordLen[w]
<1> DEFINE D == DOMAIN <<w>>
           Sum(f, s) == IF s = {} THEN 0
                        ELSE WordLen[<<w>>[CHOOSE i \in s : TRUE]] + 1
                                + f[s \ {CHOOSE i \in s : TRUE}]
           One(f) == f = [s \in SUBSET D |-> Sum(f, s)]
           g == [s \in SUBSET D |-> IF s = {} THEN 0 ELSE WordLen[w] + 1]
           f == CHOOSE h : One(h)
<1>1. D = {1} /\ SUBSET D = {{}, {1}} /\ <<w>>[1] = w /\ WordLen[w] \in Nat
  BY NsAssumption
<1>2. (CHOOSE i \in {1} : TRUE) = 1
  OBVIOUS
<1>3. Chars(<<w>>) = f[D] - 1
  BY DEF Chars, MapThenSumSet, MapThenFoldSet
<1> HIDE DEF D
<1>4. ASSUME NEW h PROVE Sum(h, {}) = 0 /\ Sum(h, {1}) = WordLen[w] + 1 + h[{}]
  <2>1. {1} # {} /\ {1} \ {1} = {}
    OBVIOUS
  <2>2. QED
    BY <1>1, <1>2, <2>1
<1> HIDE DEF Sum
<1>5. g[{}] = 0 /\ g[{1}] = WordLen[w] + 1
  BY <1>1
<1>6. One(g)
  <2>1. Sum(g, {}) = g[{}] /\ Sum(g, {1}) = g[{1}]
    <3> HIDE DEF g
    <3>1. QED
      BY <1>1, <1>4, <1>5
  <2>2. \A s \in SUBSET D : Sum(g, s) = g[s]
    <3> HIDE DEF g
    <3>1. QED
      BY <1>1, <2>1
  <2>3. g = [s \in SUBSET D |-> g[s]]
    OBVIOUS
  <2> HIDE DEF g
  <2>4. QED
    BY <2>2, <2>3
<1>7. f = [s \in SUBSET D |-> Sum(f, s)]
  BY <1>6
<1> HIDE DEF f, g
<1>8. f[{}] = Sum(f, {}) /\ f[{1}] = Sum(f, {1})
  BY <1>1, <1>7
<1>9. f[D] = WordLen[w] + 1
  BY <1>1, <1>4, <1>8
<1>10. QED
  BY <1>1, <1>3, <1>9

\* The scenario of an id of the frontend is its suffix, and the groups are one
\* scenario each (namespace.js, scenarioKey).
THEOREM KeysAreSuffixes == NsSpec => []KeyIsSuffix
<1>1. NsInv => KeyIsSuffix
  <2> SUFFICES ASSUME NsInv, NEW n \in SentNames,
                      Len(n.words) >= 3, n.words[1] = "pg", WordLen[n.words[2]] >= 6
               PROVE  LET suffix == Suffix(n.words)
                      IN  /\ (suffix[1] = "llm" /\ Len(suffix) > 1 /\ suffix[Len(suffix) - 1] # "agent")
                                => ScenarioKey(n.words) = <<"llm">>
                          /\ suffix \in {<<"agent", v>> : v \in {"a", "b", "c"}}
                                => ScenarioKey(n.words) = <<"multiagent">>
                          /\ Len(suffix) = 1 => ScenarioKey(n.words) = suffix
    BY DEF KeyIsSuffix
  <2> DEFINE words == n.words
             len == Len(n.words)
             suffix == Suffix(n.words)
  <2>1. words \in Seq(DOMAIN WordLen)
    <3>1. /\ request.body.roots \in Seq(Roots)
          /\ request.segment \in OptionalNames /\ request.query \in OptionalNames
      BY BodyShape DEF NsInv
    <3>2. n \in OptionalNames \ {Absent}
      BY <3>1, MentionedAreNames DEF SentNames
    <3>3. QED
      BY <3>2, NsAssumption DEF OptionalNames, Name
  <2>2. /\ len \in Nat /\ len >= 3
        /\ words \notin {<<>>, Demo} /\ words[1] = "pg" /\ WordLen[words[2]] >= 6
        /\ words[2] \in DOMAIN WordLen
    BY <2>1 DEF Demo
  <2>3. /\ Len(suffix) = len - 2
        /\ \A i \in 1 .. len - 2 : suffix[i] = words[i + 2]
    BY <2>1, <2>2 DEF Suffix
  <2> HIDE DEF words, len, suffix
  <2>4. ScenarioKey(words) =
           IF words[len - 1] = "agent" /\ words[len] \in {"a", "b", "c"} THEN <<"multiagent">>
           ELSE IF \E i \in 2 .. len - 1 : words[i] = "llm" THEN <<"llm">>
           ELSE IF words[len] = "graphex" THEN <<"graphex">>
           ELSE IF Chars(SubSeq(words, 2, len - 1)) >= 6 THEN <<words[len]>>
           ELSE words
    BY <2>2 DEF ScenarioKey, words, len
  <2>5. ASSUME suffix[1] = "llm", Len(suffix) > 1, suffix[Len(suffix) - 1] # "agent"
        PROVE  ScenarioKey(words) = <<"llm">>
    <3>1. len >= 4 /\ words[3] = "llm" /\ words[len - 1] # "agent"
      BY <2>2, <2>3, <2>5
    <3>2. QED
      BY <2>2, <2>4, <3>1
  <2>6. ASSUME NEW v \in {"a", "b", "c"}, suffix = <<"agent", v>>
        PROVE  ScenarioKey(words) = <<"multiagent">>
    <3>1. len = 4 /\ words[3] = "agent" /\ words[4] = v
      BY <2>2, <2>3, <2>6
    <3>2. QED
      BY <2>4, <3>1
  <2>7. ASSUME Len(suffix) = 1 PROVE ScenarioKey(words) = suffix
    <3>1. len = 3 /\ suffix = <<words[3]>>
      <4>1. len = 3 /\ suffix[1] = words[3]
        <5>1. len = 3
          <6>1. 1 = len - 2 /\ len \in Nat
            BY <2>2, <2>3, <2>7, Zenon
          <6>2. QED
            BY <6>1
        <5>2. 1 \in 1 .. len - 2 /\ 1 + 2 = 3
          BY <5>1
        <5>3. QED
          BY <2>3, <5>1, <5>2
      <4>2. suffix \in Seq(DOMAIN WordLen)
        BY <2>1, <2>2 DEF Suffix, words, len, suffix
      <4>3. QED
        BY <2>7, <4>1, <4>2, OneElement
    <3>2. words[2] # "agent" /\ words[2] # "llm"
      BY <2>2, NsAssumption
    <3>3. Chars(SubSeq(words, 2, 2)) >= 6
      <4>1. SubSeq(words, 2, 2) = <<words[2]>>
        <5> DEFINE middle == SubSeq(words, 2, 2)
        <5>1. \A i \in 2 .. 2 : words[i] \in DOMAIN WordLen
          BY <2>2
        <5>2. middle \in Seq(DOMAIN WordLen) /\ Len(middle) = 1 /\ middle[1] = words[2]
          BY <5>1, SubSeqProperties
        <5> HIDE DEF middle
        <5>3. middle = <<middle[1]>>
          BY <5>2, OneElement
        <5>4. QED
          BY <5>2, <5>3 DEF middle
      <4>2. QED
        BY <2>2, <4>1, CharsOfOne
    <3>4. QED
      BY <2>4, <3>1, <3>2, <3>3
  <2>8. QED
    BY <2>5, <2>6, <2>7 DEF words, suffix
<1>2. QED
  BY <1>1, NsInvHolds, PTL
=============================================================================
