--------------------------- MODULE HistoryProofs ---------------------------
(***************************************************************************)
(* What all the proofs about histories rest on: searches through parent    *)
(* pointers, what merge and reduce do to any part of a history, the tips,  *)
(* the order and the cone hashes of a finite one, and how the hashes are   *)
(* repaired after a change.                                                *)
(*                                                                         *)
(* A search is used through the three facts that say it finds the least    *)
(* closed set (ThroughStarts, ThroughClosed, ThroughLeast).  Where a proof *)
(* inducts, it takes a least counterexample (LeastNumber, SmallestSet).    *)
(***************************************************************************)
EXTENDS Merge, ConeHasher, FiniteSetTheorems, WellFoundedInduction, TLAPS

----------------------------------------------------------------------------
\* Among some numbers one is the least.
LEMMA LeastNumber ==
    ASSUME NEW T \in SUBSET Nat, T # {}
    PROVE  \E x \in T : \A y \in T : x <= y
  <1> DEFINE R == {ss \in Nat \X Nat : ss[1] < ss[2]}
  <1>1. IsWellFoundedOn(R, Nat)
    BY NatLessThanWellFounded DEF OpToRel
  <1>2. PICK x \in T : \A y \in T : <<y, x>> \notin R
    <2> HIDE DEF R
    <2>1. QED
      BY <1>1, WFMin
  <1>3. \A y \in T : ~(y < x)
    BY <1>2
  <1>4. QED
    BY <1>3

\* Among some subsets of a finite set one has no other inside it.
LEMMA SmallestSet ==
    ASSUME NEW S, IsFiniteSet(S), NEW F, F \subseteq SUBSET S, F # {}
    PROVE  \E X \in F : \A Y \in F : Y \subseteq X => Y = X
  <1>1. IsWellFoundedOn(StrictSubsetOrdering(S), SUBSET S)
    BY FS_StrictSubsetOrderingWellFounded, FS_FiniteSubsetsOfFinite
  <1>2. PICK X \in F : \A Y \in F : <<Y, X>> \notin StrictSubsetOrdering(S)
    BY <1>1, WFMin
  <1>3. QED
    BY <1>2 DEF StrictSubsetOrdering

----------------------------------------------------------------------------
\* A search contains where it starts.
LEMMA ThroughStarts ==
    ASSUME NEW d, NEW T, NEW S
    PROVE  S \subseteq Through(d, T, S)
  BY DEF Through, Universe

\* A search that reaches a member of T reaches its parents.
LEMMA ThroughClosed ==
    ASSUME NEW d, NEW T, NEW S
    PROVE  UpClosed(d, T, Through(d, T, S))
  <1> DEFINE U == Universe(d, T, S)
  <1>1. SUFFICES ASSUME NEW i \in Through(d, T, S) \intersect T,
                        NEW p \in d.events[i].parents
                 PROVE  p \in Through(d, T, S)
    BY DEF UpClosed
  <1>2. p \in U
    BY DEF Universe
  <1>3. ASSUME NEW X \in SUBSET U, S \subseteq X, UpClosed(d, T, X)
        PROVE  p \in X
    <2>1. i \in X
      BY <1>3 DEF Through
    <2>2. QED
      BY <1>3, <2>1 DEF UpClosed
  <1>4. QED
    BY <1>2, <1>3 DEF Through

\* It reaches nothing outside a set that holds its start and is closed.
LEMMA ThroughLeast ==
    ASSUME NEW d, NEW T, NEW S, NEW X,
           S \subseteq X, UpClosed(d, T, X)
    PROVE  Through(d, T, S) \subseteq X
  <1> DEFINE U == Universe(d, T, S)
             Y == X \intersect U
  <1>1. S \subseteq Y
    BY DEF Universe
  <1>2. UpClosed(d, T, Y)
    BY DEF UpClosed, Universe
  <1>3. QED
    BY <1>1, <1>2 DEF Through

\* A search that starts outside T stays where it is.
LEMMA ThroughOutside ==
    ASSUME NEW d, NEW T, NEW S, S \intersect T = {}
    PROVE  Through(d, T, S) = S
  <1>1. UpClosed(d, T, S)
    BY DEF UpClosed
  <1>2. QED
    BY <1>1, ThroughStarts, ThroughLeast

\* A search that may go further and starts inside another finds no less.
LEMMA SearchWithin ==
    ASSUME NEW d, NEW T, NEW U, NEW R, NEW S,
           T \subseteq U, R \subseteq Through(d, U, S)
    PROVE  Through(d, T, R) \subseteq Through(d, U, S)
  <1>1. UpClosed(d, T, Through(d, U, S))
    BY ThroughClosed DEF UpClosed
  <1>2. QED
    BY <1>1, ThroughLeast

\* The ancestors of an ancestor are ancestors.
LEMMA AncestorsTransitive ==
    ASSUME NEW d, NEW i, NEW p \in Ancestors(d, i)
    PROVE  Ancestors(d, p) \subseteq Ancestors(d, i)
  <1>1. i \in Keys(d) /\ p \in Through(d, Keys(d), d.events[i].parents)
    BY DEF Ancestors
  <1>2. CASE p \in Keys(d)
    <2>1. d.events[p].parents \subseteq Through(d, Keys(d), d.events[i].parents)
      BY <1>1, <1>2, ThroughClosed DEF UpClosed
    <2>2. QED
      BY <1>1, <1>2, <2>1, SearchWithin DEF Ancestors
  <1>3. CASE p \notin Keys(d)
    BY <1>3 DEF Ancestors
  <1>4. QED
    BY <1>2, <1>3
----------------------------------------------------------------------------
\* A world is the map of every event there is, each under its own id.
IsWorld(W) ==
    /\ KeysMatchIds(W)
    /\ \A i \in Keys(W) : W.events[i] = WithParents(W.events[i], W.events[i].parents)

\* d is a record as EmptyDag is one, and its map of events is a function.
Shaped(d) ==
    /\ \E events, children, cache :
          d = [events |-> events, children |-> children, ancestry_cache |-> cache]
    /\ d.events = [i \in Keys(d) |-> d.events[i]]

\* A part of the world is a closed history over some of its events, each of them
\* as it was created or, if it is not a noop, as noop elimination leaves it.
Part(d, W) ==
    /\ Shaped(d)
    /\ Keys(d) \subseteq Keys(W)
    /\ \A i \in Keys(d) : \/ d.events[i] = W.events[i]
                          \/ i \notin Noops(W) /\ d.events[i] = Bare(W, i)
    /\ ChildrenExact(d)
    /\ IsCausallyClosed(d)

\* What a closed part of a world stores, spelled out for the lemmas below.
LEMMA PartFields ==
    ASSUME NEW d, NEW W, IsWorld(W), Part(d, W)
    PROVE  /\ \A i \in Keys(d) : /\ d.events[i].id = i
                                 /\ d.events[i].payload = W.events[i].payload
                                 /\ d.events[i].parents \subseteq Keys(d)
           /\ Noops(d) = Noops(W) \intersect Keys(d)
           /\ \A i \in Noops(d) : d.events[i].parents = W.events[i].parents
  <1>1. \A i \in Keys(d) : /\ d.events[i].id = i
                           /\ d.events[i].payload = W.events[i].payload
    <2>1. SUFFICES ASSUME NEW i \in Keys(d)
                   PROVE  /\ d.events[i].id = i
                          /\ d.events[i].payload = W.events[i].payload
      OBVIOUS
    <2>2. W.events[i].id = i
      BY DEF Part, IsWorld, KeysMatchIds
    <2>3. d.events[i] = W.events[i] \/ d.events[i] = Bare(W, i)
      BY DEF Part
    <2>4. QED
      BY <2>2, <2>3 DEF Bare, WithParents
  <1>2. \A i \in Keys(d) : d.events[i].parents \subseteq Keys(d)
    BY DEF Part, IsCausallyClosed, MissingAncestors, AllParents
  <1>3. Noops(d) = Noops(W) \intersect Keys(d)
    BY <1>1 DEF Noops, IsNoop, Part
  <1>4. QED
    BY <1>1, <1>2, <1>3 DEF Part, Noops

\* Looking for noops in a part finds what looking in the whole world finds.
LEMMA PartSearch ==
    ASSUME NEW d, NEW W, IsWorld(W), Part(d, W),
           NEW S, S \subseteq Keys(d)
    PROVE  /\ Through(d, Noops(d), S) = Through(W, Noops(W), S)
           /\ Through(d, Noops(d), S) \subseteq Keys(d)
  <1> DEFINE A == Through(d, Noops(d), S)
             B == Through(W, Noops(W), S)
  <1>1. A \subseteq Keys(d)
    <2>1. UpClosed(d, Noops(d), Keys(d))
      BY PartFields DEF UpClosed
    <2>2. QED
      BY <2>1, ThroughLeast
  <1>2. A \subseteq B
    <2>1. UpClosed(d, Noops(d), B)
      BY ThroughClosed, PartFields DEF UpClosed
    <2>2. QED
      BY <2>1, ThroughStarts, ThroughLeast
  <1>3. B \subseteq A
    <2>1. UpClosed(W, Noops(W), A)
      BY <1>1, ThroughClosed, PartFields DEF UpClosed
    <2>2. QED
      BY <2>1, ThroughStarts, ThroughLeast
  <1>4. QED
    BY <1>1, <1>2, <1>3

\* What is left of an event's past does not depend on which part it is seen in,
\* nor on whether noop elimination has been there before.
LEMMA PartResolve ==
    ASSUME NEW d, NEW W, IsWorld(W), Part(d, W),
           NEW i \in Keys(d) \ Noops(d)
    PROVE  /\ Resolve(d, Noops(d), d.events[i].parents) = Bare(W, i).parents
           /\ Bare(W, i).parents \subseteq Keys(d) \ Noops(d)
  <1> DEFINE T == Noops(d)
             V == Noops(W)
  <1>1. T = V \intersect Keys(d)
    BY PartFields
  <1>2. CASE d.events[i] = W.events[i]
    <2>1. /\ Through(d, T, d.events[i].parents) = Through(W, V, W.events[i].parents)
          /\ Through(d, T, d.events[i].parents) \subseteq Keys(d)
      BY <1>2, PartFields, PartSearch
    <2>2. QED
      BY <1>1, <2>1 DEF Resolve, Bare, WithParents
  <1>3. CASE d.events[i] = Bare(W, i)
    <2>1. d.events[i].parents \subseteq Keys(d) \ V
      BY <1>3, PartFields DEF Bare, WithParents, Resolve
    <2>2. Through(d, T, d.events[i].parents) = d.events[i].parents
      BY <1>1, <2>1, ThroughOutside
    <2>3. QED
      BY <1>1, <1>3, <2>1, <2>2 DEF Resolve
  <1>4. QED
    BY <1>2, <1>3 DEF Part

----------------------------------------------------------------------------
\* The edges of an event map are its parent pointers.
LEMMA EdgeIsPointer ==
    ASSUME NEW events, NEW p, NEW i
    PROVE  <<p, i>> \in EdgesOf(events) <=> i \in DOMAIN events /\ p \in events[i].parents
  <1>1. ASSUME i \in DOMAIN events, p \in events[i].parents
        PROVE  <<p, i>> \in EdgesOf(events)
    <2>1. <<p, i>> \in {<<q, i>> : q \in events[i].parents}
      BY <1>1
    <2>2. QED
      BY <1>1, <2>1 DEF EdgesOf
  <1>2. ASSUME <<p, i>> \in EdgesOf(events)
        PROVE  i \in DOMAIN events /\ p \in events[i].parents
    BY <1>2 DEF EdgesOf
  <1>3. QED
    BY <1>1, <1>2

\* Edges of a map made from two are the edges of both.
LEMMA EdgesOfUnion ==
    ASSUME NEW f, NEW g, NEW h,
           DOMAIN h = DOMAIN f \union DOMAIN g,
           \A i \in DOMAIN f : h[i] = f[i],
           \A i \in DOMAIN g : h[i] = g[i]
    PROVE  EdgesOf(h) = EdgesOf(f) \union EdgesOf(g)
  <1> DEFINE Into(m, i) == {<<p, i>> : p \in m[i].parents}
  <1>1. \A i \in DOMAIN f : Into(h, i) = Into(f, i)
    OBVIOUS
  <1>2. \A i \in DOMAIN g : Into(h, i) = Into(g, i)
    OBVIOUS
  <1> HIDE DEF Into
  <1>3. UNION {Into(h, i) : i \in DOMAIN h}
          = (UNION {Into(f, i) : i \in DOMAIN f}) \union (UNION {Into(g, i) : i \in DOMAIN g})
    BY <1>1, <1>2
  <1>4. QED
    BY <1>3 DEF EdgesOf, Into

\* Reducing a part leaves the view of the events that are not noops.
LEMMA ReduceIsView ==
    ASSUME NEW d, NEW W, IsWorld(W), Part(d, W)
    PROVE  Same(Reduce(d), View(W, Keys(d) \ Noops(d)))
  <1> DEFINE T == Noops(d)
             K == Keys(d) \ T
             V == [i \in K |-> Bare(W, i)]
             affected == {x[2] : x \in {y \in d.children : y[1] \in T}} \ T
             rewritten == [i \in K |->
                             IF i \in affected
                             THEN WithParents(d.events[i], Resolve(d, T, d.events[i].parents))
                             ELSE d.events[i]]
  <1>1. T \intersect Keys(d) = T
    BY DEF Noops
  <1>2. ASSUME NEW i \in K
        PROVE  WithParents(d.events[i], Resolve(d, T, d.events[i].parents)) = V[i]
    <2>1. W.events[i].id = d.events[i].id /\ W.events[i].payload = d.events[i].payload
      BY PartFields DEF Part, IsWorld, KeysMatchIds
    <2>2. Resolve(d, T, d.events[i].parents) = Bare(W, i).parents
      BY PartResolve
    <2>3. QED
      BY <2>1, <2>2 DEF Bare, WithParents
  <1>3. ASSUME NEW i \in K, d.events[i].parents \intersect T = {}
        PROVE  d.events[i] = V[i]
    <2>1. Resolve(d, T, d.events[i].parents) = d.events[i].parents
      BY <1>3, ThroughOutside DEF Resolve
    <2>2. WithParents(d.events[i], d.events[i].parents) = d.events[i]
      <3>1. CASE d.events[i] = W.events[i]
        BY <3>1 DEF Part, IsWorld
      <3>2. CASE d.events[i] = Bare(W, i)
        BY <3>2 DEF Bare, WithParents
      <3>3. QED
        BY <3>1, <3>2 DEF Part
    <2>3. QED
      BY <1>2, <2>1, <2>2
  <1>4. CASE T = {}
    <2>1. Reduce(d) = d
      BY <1>1, <1>4 DEF Reduce, PhaseC3, CompactTombstones
    <2>2. d.events = V
      BY <1>3, <1>4 DEF Part, Shaped
    <2>3. QED
      BY <1>4, <2>1, <2>2 DEF Same, View, Part, ChildrenExact
  <1>5. CASE T # {}
    <2>1. Reduce(d) = [events |-> rewritten, children |-> EdgesOf(rewritten),
                       ancestry_cache |-> <<>>]
      BY <1>1, <1>5 DEF Reduce, PhaseC3, CompactTombstones
    <2>2. ASSUME NEW i \in K, i \notin affected
          PROVE  d.events[i].parents \intersect T = {}
      <3>1. SUFFICES ASSUME NEW p \in d.events[i].parents \intersect T
                     PROVE  FALSE
        OBVIOUS
      <3>2. <<p, i>> \in d.children
        BY EdgeIsPointer DEF Part, ChildrenExact, Keys
      <3>3. QED
        BY <2>2, <3>2
    <2>3. rewritten = V
      BY <1>2, <1>3, <2>2
    <2>4. QED
      BY <2>1, <2>3 DEF Same, View
  <1>6. QED
    BY <1>4, <1>5

\* A view of events whose remaining past is among them is a part again.
LEMMA ViewIsPart ==
    ASSUME NEW W, IsWorld(W),
           NEW K, K \subseteq Keys(W) \ Noops(W),
           \A i \in K : Bare(W, i).parents \subseteq K
    PROVE  Part(View(W, K), W) /\ Keys(View(W, K)) = K /\ Noops(View(W, K)) = {}
  <1> DEFINE V == View(W, K)
  <1>1. /\ V.events = [i \in K |-> Bare(W, i)]
        /\ V.children = EdgesOf(V.events)
        /\ Shaped(V)
    BY DEF View, Shaped, Keys
  <1>2. Keys(V) = K
    BY <1>1 DEF Keys
  <1>3. IsCausallyClosed(V)
    BY <1>1, <1>2 DEF IsCausallyClosed, MissingAncestors, AllParents
  <1>4. Part(V, W)
    BY <1>1, <1>2, <1>3 DEF Part, ChildrenExact
  <1>5. QED
    BY <1>2, <1>4, PartFields

\* Reducing keeps every event that is not a noop, and makes a part without noops.
LEMMA ReduceKeepsPart ==
    ASSUME NEW d, NEW W, IsWorld(W), Part(d, W)
    PROVE  /\ Part(View(W, Keys(d) \ Noops(d)), W)
           /\ Keys(Reduce(d)) = Keys(d) \ Noops(W)
           /\ Keys(View(W, Keys(d) \ Noops(d))) = Keys(d) \ Noops(W)
           /\ Noops(View(W, Keys(d) \ Noops(d))) = {}
  <1> DEFINE K == Keys(d) \ Noops(d)
  <1>1. K = Keys(d) \ Noops(W) /\ K \subseteq Keys(W) \ Noops(W)
    BY PartFields DEF Part
  <1>2. \A i \in K : Bare(W, i).parents \subseteq K
    BY PartResolve
  <1>3. Part(View(W, K), W) /\ Keys(View(W, K)) = K /\ Noops(View(W, K)) = {}
    BY <1>1, <1>2, ViewIsPart
  <1>4. Keys(Reduce(d)) = Keys(View(W, K))
    BY ReduceIsView DEF Same, Keys
  <1>5. QED
    BY <1>1, <1>3, <1>4

\* The events that a set of events brings are those of the world, each at most once,
\* and their parents come along or are there.
Brings(S, d, W) ==
    /\ \A e \in S : /\ e.id \in Keys(W)
                    /\ \/ e = W.events[e.id]
                       \/ e.id \notin Noops(W) /\ e = Bare(W, e.id)
                    /\ e.parents \subseteq Keys(d) \union {f.id : f \in S}
    /\ \A e, f \in S : e.id = f.id => e = f

\* A loop of inserts of such events leaves a part with their ids among its keys.
LEMMA InsertAllKeepsPart ==
    ASSUME NEW d, NEW W, IsWorld(W), Part(d, W), NEW S, Brings(S, d, W)
    PROVE  /\ Part(InsertAll(d, S), W)
           /\ Keys(InsertAll(d, S)) = Keys(d) \union {e.id : e \in S}
           /\ InsertAll(d, S).ancestry_cache = d.ancestry_cache
  <1> DEFINE D     == InsertAll(d, S)
             fresh == {e.id : e \in S} \ Keys(d)
             new   == [i \in fresh |-> CHOOSE e \in S : e.id = i]
             all   == [i \in Keys(d) \union fresh |->
                         IF i \in fresh THEN new[i] ELSE d.events[i]]
  <1>1. /\ D.events = all
        /\ D.children = d.children \union EdgesOf(new)
        /\ D.ancestry_cache = d.ancestry_cache
        /\ Shaped(D)
        /\ Keys(D) = Keys(d) \union {e.id : e \in S}
    <2>1. D = [events         |-> all,
               children       |-> d.children \union EdgesOf(new),
               ancestry_cache |-> d.ancestry_cache]
      BY DEF InsertAll
    <2>2. /\ D.events = all
          /\ D.children = d.children \union EdgesOf(new)
          /\ D.ancestry_cache = d.ancestry_cache
      BY <2>1
    <2>3. Keys(D) = Keys(d) \union {e.id : e \in S}
      BY <2>2 DEF Keys
    <2>4. D.events = [i \in Keys(D) |-> D.events[i]]
      BY <2>2 DEF Keys
    <2>5. Shaped(D)
      BY <2>1, <2>4, Zenon DEF Shaped
    <2>6. QED
      BY <2>2, <2>3, <2>5
  <1>2. ASSUME NEW i \in fresh
        PROVE  new[i] \in S /\ new[i].id = i /\ all[i] = new[i]
    OBVIOUS
  <1>3. ASSUME NEW i \in Keys(d)
        PROVE  all[i] = d.events[i]
    OBVIOUS
  <1>4. \A i \in Keys(D) : \/ D.events[i] = W.events[i]
                           \/ i \notin Noops(W) /\ D.events[i] = Bare(W, i)
    BY <1>1, <1>2, <1>3 DEF Brings, Part
  <1>5. Keys(D) \subseteq Keys(W)
    BY <1>1 DEF Brings, Part
  <1>6. ChildrenExact(D)
    <2>1. /\ DOMAIN all = DOMAIN d.events \union DOMAIN new
          /\ \A i \in DOMAIN d.events : all[i] = d.events[i]
          /\ \A i \in DOMAIN new : all[i] = new[i]
      BY DEF Keys
    <2>2. EdgesOf(all) = EdgesOf(d.events) \union EdgesOf(new)
      BY <2>1, EdgesOfUnion
    <2>3. QED
      BY <1>1, <2>2 DEF Part, ChildrenExact
  <1>7. IsCausallyClosed(D)
    <2>1. ASSUME NEW i \in Keys(D)
          PROVE  D.events[i].parents \subseteq Keys(D)
      BY <1>1, <1>2, <1>3, PartFields DEF Brings
    <2>2. QED
      BY <2>1 DEF IsCausallyClosed, MissingAncestors, AllParents
  <1>8. QED
    BY <1>1, <1>4, <1>5, <1>6, <1>7 DEF Part

----------------------------------------------------------------------------
\* Reducing a part gives a part.
LEMMA ReduceIsPart ==
    ASSUME NEW d, NEW W, IsWorld(W), Part(d, W)
    PROVE  Part(Reduce(d), W) /\ Keys(Reduce(d)) = Keys(d) \ Noops(W)
  <1> DEFINE R == Reduce(d)
             V == View(W, Keys(d) \ Noops(d))
  <1>1. Part(V, W) /\ R.events = V.events /\ R.children = V.children
    BY ReduceKeepsPart, ReduceIsView DEF Same
  <1>2. Shaped(R)
    <2>1. \E events, children, cache :
            R = [events |-> events, children |-> children, ancestry_cache |-> cache]
      <3>1. CASE R = d
        BY <3>1 DEF Part, Shaped
      <3>2. CASE R # d
        BY <3>2, Zenon DEF Reduce, PhaseC3, CompactTombstones
      <3>3. QED
        BY <3>1, <3>2
    <2>2. R.events = [i \in Keys(R) |-> R.events[i]]
      BY <1>1 DEF Part, Shaped, Keys
    <2>3. QED
      BY <2>1, <2>2 DEF Shaped
  <1>3. Part(R, W)
    BY <1>1, <1>2 DEF Part, Keys, ChildrenExact, IsCausallyClosed, MissingAncestors,
                      AllParents
  <1>4. QED
    BY <1>3, ReduceKeepsPart

\* With an empty memo, reducing gives the view itself.
LEMMA ReduceIsExactlyView ==
    ASSUME NEW d, NEW W, IsWorld(W), Part(d, W), d.ancestry_cache = <<>>
    PROVE  /\ Reduce(d) = View(W, Keys(Reduce(d)))
           /\ Keys(Reduce(d)) = Keys(d) \ Noops(W)
           /\ Part(Reduce(d), W)
  <1> DEFINE R == Reduce(d)
             V == View(W, Keys(R))
  <1>1. Part(R, W) /\ Keys(R) = Keys(d) \ Noops(W)
    BY ReduceIsPart
  <1>2. R.events = V.events /\ R.children = V.children
    <2>1. Keys(R) = Keys(d) \ Noops(d)
      BY <1>1, PartFields
    <2>2. QED
      BY <2>1, ReduceIsView DEF Same
  <1>3. R.ancestry_cache = <<>>
    <2>1. CASE R = d
      BY <2>1
    <2>2. CASE R # d
      BY <2>2 DEF Reduce, PhaseC3, CompactTombstones
    <2>3. QED
      BY <2>1, <2>2
  <1>4. V = [events |-> V.events, children |-> V.children, ancestry_cache |-> <<>>]
    BY DEF View
  <1>5. PICK events, children, cache :
          R = [events |-> events, children |-> children, ancestry_cache |-> cache]
    BY <1>1 DEF Part, Shaped
  <1>6. events = V.events /\ children = V.children /\ cache = <<>>
    BY <1>2, <1>3, <1>5
  <1>7. QED
    BY <1>1, <1>4, <1>5, <1>6, Zenon

\* The union of two parts is a part.
LEMMA UnionIsPart ==
    ASSUME NEW a, NEW b, NEW W, IsWorld(W), Part(a, W), Part(b, W)
    PROVE  /\ Part(UnionWith(a, b), W)
           /\ Keys(UnionWith(a, b)) = Keys(a) \union Keys(b)
           /\ UnionWith(a, b).ancestry_cache = a.ancestry_cache
  <1>1. Keys(b) = {f.id : f \in Events(b)}
    BY PartFields DEF Events
  <1>2. Brings(Events(b), a, W)
    <2>1. ASSUME NEW e \in Events(b)
          PROVE  /\ e.id \in Keys(W)
                 /\ \/ e = W.events[e.id]
                    \/ e.id \notin Noops(W) /\ e = Bare(W, e.id)
                 /\ e.parents \subseteq Keys(b)
      BY PartFields DEF Events, Part
    <2>2. \A e, f \in Events(b) : e.id = f.id => e = f
      BY PartFields DEF Events
    <2>3. QED
      BY <1>1, <2>1, <2>2 DEF Brings
  <1>3. QED
    BY <1>1, <1>2, InsertAllKeepsPart DEF UnionWith

\* What a merge of two parts is depends only on the events that either has.
LEMMA MergeIsView ==
    ASSUME NEW a, NEW b, NEW W, IsWorld(W), Part(a, W), Part(b, W)
    PROVE  /\ Same(MergeHistories(a, b), View(W, (Keys(a) \union Keys(b)) \ Noops(W)))
           /\ Part(MergeHistories(a, b), W)
           /\ Keys(MergeHistories(a, b)) = (Keys(a) \union Keys(b)) \ Noops(W)
  <1> DEFINE U == UnionWith(a, b)
  <1>1. Part(U, W) /\ Keys(U) = Keys(a) \union Keys(b)
    BY UnionIsPart
  <1>2. Keys(U) \ Noops(U) = (Keys(a) \union Keys(b)) \ Noops(W)
    BY <1>1, PartFields
  <1>3. Same(Reduce(U), View(W, Keys(U) \ Noops(U)))
    BY <1>1, ReduceIsView
  <1>4. QED
    BY <1>1, <1>2, <1>3, ReduceIsPart DEF MergeHistories

\* Histories that are views of the same events are the same.
LEMMA SameView ==
    ASSUME NEW W, NEW K, NEW L, NEW d, NEW e,
           Same(d, View(W, K)), Same(e, View(W, L)),
           \A i : i \in K <=> i \in L
    PROVE  Same(d, e)
  <1>1. K = L
    OBVIOUS
  <1>2. QED
    BY <1>1 DEF Same

\* The CRDT laws of merge, with nf(nf(A) u B) = nf(A u B), for parts of any world:
\* histories that are closed, agree on shared ids and may be reduced already.
THEOREM MergeLaws ==
    ASSUME NEW W, IsWorld(W),
           NEW a, NEW b, NEW c, Part(a, W), Part(b, W), Part(c, W)
    PROVE  /\ Commutes(a, b)
           /\ Associates(a, b, c)
           /\ IsIdempotent(a)
           /\ Same(Reduce(Reduce(a)), Reduce(a))
           /\ ReduceAbsorbs(a, b)
           /\ ReduceDistributes(a, b)
  <1> DEFINE N == Noops(W)
             A == Keys(a)
             B == Keys(b)
             C == Keys(c)
  <1>1. ASSUME NEW d, Part(d, W)
        PROVE  /\ Same(Reduce(d), View(W, Keys(d) \ N))
               /\ Part(Reduce(d), W)
               /\ Keys(Reduce(d)) = Keys(d) \ N
    <2>1. Keys(d) \ Noops(d) = Keys(d) \ N
      BY <1>1, PartFields
    <2>2. QED
      BY <1>1, <2>1, ReduceIsView, ReduceIsPart
  <1>2. ASSUME NEW d, NEW e, Part(d, W), Part(e, W)
        PROVE  /\ Same(MergeHistories(d, e), View(W, (Keys(d) \union Keys(e)) \ N))
               /\ Part(MergeHistories(d, e), W)
               /\ Keys(MergeHistories(d, e)) = (Keys(d) \union Keys(e)) \ N
    BY <1>2, MergeIsView
  <1>3. Commutes(a, b)
    <2>1. /\ Same(MergeHistories(a, b), View(W, (A \union B) \ N))
          /\ Same(MergeHistories(b, a), View(W, (B \union A) \ N))
      BY <1>2
    <2>2. Same(MergeHistories(a, b), MergeHistories(b, a))
      BY <2>1, SameView
    <2>3. QED
      BY <2>2 DEF Commutes
  <1>4. Associates(a, b, c)
    <2> DEFINE AB == MergeHistories(a, b)
               BC == MergeHistories(b, c)
    <2>1. /\ Part(AB, W) /\ Keys(AB) = (A \union B) \ N
          /\ Part(BC, W) /\ Keys(BC) = (B \union C) \ N
      BY <1>2
    <2> HIDE DEF AB, BC
    <2>2. /\ Same(MergeHistories(AB, c), View(W, (Keys(AB) \union C) \ N))
          /\ Same(MergeHistories(a, BC), View(W, (A \union Keys(BC)) \ N))
      BY <1>2, <2>1
    <2>3. Same(MergeHistories(AB, c), MergeHistories(a, BC))
      BY <2>1, <2>2, SameView
    <2>4. QED
      BY <2>3 DEF Associates, AB, BC
  <1>5. IsIdempotent(a)
    <2>1. /\ Same(MergeHistories(a, a), View(W, (A \union A) \ N))
          /\ Same(Reduce(a), View(W, A \ N))
      BY <1>1, <1>2
    <2>2. Same(MergeHistories(a, a), Reduce(a))
      BY <2>1, SameView
    <2>3. QED
      BY <2>2 DEF IsIdempotent
  <1>6. Same(Reduce(Reduce(a)), Reduce(a))
    BY <1>1, SameView
  <1>7. ReduceAbsorbs(a, b)
    <2> DEFINE R == Reduce(a)
    <2>1. Part(R, W) /\ Keys(R) = A \ N
      BY <1>1
    <2> HIDE DEF R
    <2>2. /\ Same(MergeHistories(R, b), View(W, (Keys(R) \union B) \ N))
          /\ Same(MergeHistories(a, b), View(W, (A \union B) \ N))
      BY <1>2, <2>1
    <2>3. Same(MergeHistories(R, b), MergeHistories(a, b))
      BY <2>1, <2>2, SameView
    <2>4. QED
      BY <2>3 DEF ReduceAbsorbs, R
  <1>8. ReduceDistributes(a, b)
    <2> DEFINE R == Reduce(a)
               S == Reduce(b)
               D == UnionWith(R, S)
               U == UnionWith(a, b)
    <2>1. /\ Part(R, W) /\ Keys(R) = A \ N
          /\ Part(S, W) /\ Keys(S) = B \ N
      BY <1>1
    <2> HIDE DEF R, S
    <2>2. /\ Part(D, W) /\ Keys(D) = Keys(R) \union Keys(S)
          /\ Part(U, W) /\ Keys(U) = A \union B
      BY <2>1, UnionIsPart
    <2> HIDE DEF D, U
    <2>3. Reduce(D) = D
      <3>1. Noops(D) = {}
        BY <2>1, <2>2, PartFields
      <3>2. QED
        BY <3>1 DEF Reduce, PhaseC3, CompactTombstones
    <2>4. /\ Same(D, View(W, Keys(D) \ N))
          /\ Same(Reduce(U), View(W, Keys(U) \ N))
      BY <1>1, <2>2, <2>3
    <2>5. Same(D, Reduce(U))
      BY <2>1, <2>2, <2>4, SameView
    <2>6. QED
      BY <2>5 DEF ReduceDistributes, R, S, D, U
  <1>9. QED
    BY <1>3, <1>4, <1>5, <1>6, <1>7, <1>8

----------------------------------------------------------------------------
\* The empty history is a part of every world.
LEMMA EmptyIsPart ==
    ASSUME NEW W
    PROVE  Part(EmptyDag, W) /\ Keys(EmptyDag) = {} /\ EmptyDag.ancestry_cache = <<>>
  <1>1. /\ EmptyDag.events = <<>> /\ EmptyDag.children = {}
        /\ EmptyDag.ancestry_cache = <<>> /\ Keys(EmptyDag) = {}
    BY DEF EmptyDag, Keys
  <1>2. Shaped(EmptyDag)
    <2>1. \E events, children, cache :
            EmptyDag = [events |-> events, children |-> children, ancestry_cache |-> cache]
      BY Zenon DEF EmptyDag
    <2>2. <<>> = [i \in {} |-> <<>>[i]]
      OBVIOUS
    <2>3. QED
      BY <1>1, <2>1, <2>2 DEF Shaped
  <1>3. EdgesOf(<<>>) = {}
    BY DEF EdgesOf
  <1>4. QED
    BY <1>1, <1>2, <1>3 DEF Part, ChildrenExact, IsCausallyClosed, MissingAncestors,
                            AllParents

\* Pairs are equal when both of their members are.
LEMMA PairsEqual ==
    ASSUME NEW p, NEW q, NEW r, NEW s, <<p, q>> = <<r, s>>
    PROVE  p = r /\ q = s
  OBVIOUS

\* A catalog of events under the ids of their content is a world.
LEMMA CatalogIsWorld ==
    ASSUME NEW Catalog,
           \A e \in Catalog : e = NewEvent(e.payload, e.parents)
    PROVE  LET W == InsertAll(EmptyDag, Catalog)
           IN  /\ IsWorld(W)
               /\ Keys(W) = {e.id : e \in Catalog}
               /\ \A e \in Catalog : W.events[e.id] = e
               /\ \A e, f \in Catalog : e.id = f.id => e = f
  <1> DEFINE W   == InsertAll(EmptyDag, Catalog)
             ids == {e.id : e \in Catalog}
             new == [i \in ids |-> CHOOSE e \in Catalog : e.id = i]
  <1>1. ASSUME NEW e \in Catalog, NEW f \in Catalog, e.id = f.id
        PROVE  e = f
    <2>1. e = NewEvent(e.payload, e.parents) /\ f = NewEvent(f.payload, f.parents)
      OBVIOUS
    <2>2. e.id = <<e.payload, e.parents>> /\ f.id = <<f.payload, f.parents>>
      BY <2>1 DEF NewEvent, compute_id
    <2>3. <<e.payload, e.parents>> = <<f.payload, f.parents>>
      BY <1>1, <2>2, Zenon
    <2>4. e.payload = f.payload /\ e.parents = f.parents
      BY <2>3, PairsEqual
    <2>5. QED
      BY <2>1, <2>4, Zenon
  <1>2. Keys(W) = ids /\ \A i \in ids : W.events[i] = new[i]
    BY EmptyIsPart DEF InsertAll, Keys
  <1>3. ASSUME NEW e \in Catalog
        PROVE  W.events[e.id] = e
    BY <1>1, <1>2
  <1>4. ASSUME NEW e \in Catalog
        PROVE  e = WithParents(e, e.parents)
    <2>1. e = NewEvent(e.payload, e.parents) /\ e.id = compute_id(e.payload, e.parents)
      BY DEF NewEvent
    <2>2. QED
      BY <2>1, Zenon DEF NewEvent, WithParents
  <1>5. IsWorld(W)
    BY <1>2, <1>3, <1>4 DEF IsWorld, KeysMatchIds
  <1>6. QED
    BY <1>1, <1>2, <1>3, <1>5

\* A single insert is the insertion of a singleton.
LEMMA InsertIsInsertAll ==
    ASSUME NEW d, NEW e, e.id \notin Keys(d)
    PROVE  Insert(d, e) = InsertAll(d, {e})
  <1> DEFINE fresh == {f.id : f \in {e}} \ Keys(d)
             new   == [i \in fresh |-> CHOOSE f \in {e} : f.id = i]
  <1>1. fresh = {e.id} /\ new[e.id] = e
    OBVIOUS
  <1>2. EdgesOf(new) = {<<p, e.id>> : p \in e.parents}
    BY <1>1 DEF EdgesOf
  <1>3. [i \in Keys(d) \union {e.id} |-> IF i = e.id THEN e ELSE d.events[i]]
          = [i \in Keys(d) \union fresh |-> IF i \in fresh THEN new[i] ELSE d.events[i]]
    BY <1>1
  <1>4. QED
    BY <1>2, <1>3 DEF Insert, InsertAll

\* What insertion does to a DAG, whatever is in it.
LEMMA InsertFields ==
    ASSUME NEW d, NEW e, e.id \notin Keys(d)
    PROVE  LET D == Insert(d, e)
           IN  /\ Keys(D) = Keys(d) \union {e.id}
               /\ \A i \in Keys(d) : D.events[i] = d.events[i]
               /\ D.events[e.id] = e
               /\ D.children = d.children \union {<<p, e.id>> : p \in e.parents}
               /\ D.ancestry_cache = d.ancestry_cache
               /\ ChildrenExact(d) => ChildrenExact(D)
  <1> DEFINE D   == Insert(d, e)
             all == [i \in Keys(d) \union {e.id} |-> IF i = e.id THEN e ELSE d.events[i]]
             new == [i \in {e.id} |-> e]
  <1>1. D = [events         |-> all,
             children       |-> d.children \union {<<p, e.id>> : p \in e.parents},
             ancestry_cache |-> d.ancestry_cache]
    BY DEF Insert
  <1>2. /\ D.events = all
        /\ D.children = d.children \union {<<p, e.id>> : p \in e.parents}
        /\ D.ancestry_cache = d.ancestry_cache
    BY <1>1
  <1>3. /\ Keys(D) = Keys(d) \union {e.id}
        /\ \A i \in Keys(d) : D.events[i] = d.events[i]
        /\ D.events[e.id] = e
    BY <1>2 DEF Keys
  <1>4. ASSUME ChildrenExact(d) PROVE ChildrenExact(D)
    <2>1. EdgesOf(new) = {<<p, e.id>> : p \in e.parents}
      BY DEF EdgesOf
    <2>2. EdgesOf(all) = EdgesOf(d.events) \union EdgesOf(new)
      <3>1. DOMAIN all = DOMAIN d.events \union DOMAIN new
        BY DEF Keys
      <3>2. \A i \in DOMAIN d.events : all[i] = d.events[i]
        BY DEF Keys
      <3>3. \A i \in DOMAIN new : all[i] = new[i]
        OBVIOUS
      <3> HIDE DEF all, new
      <3>4. QED
        BY <3>1, <3>2, <3>3, EdgesOfUnion
    <2>3. QED
      BY <1>2, <1>4, <2>1, <2>2 DEF ChildrenExact
  <1>5. QED
    BY <1>2, <1>3, <1>4

\* One insert into a typed history: what it adds, and what it leaves.
LEMMA InsertEffect ==
    ASSUME NEW d, NEW e, e.id \notin Keys(d), Shaped(d), ChildrenExact(d)
    PROVE  LET D == Insert(d, e)
           IN  /\ Keys(D) = Keys(d) \union {e.id}
               /\ \A i \in Keys(d) : D.events[i] = d.events[i]
               /\ D.events[e.id] = e
               /\ D.ancestry_cache = d.ancestry_cache
               /\ ChildrenExact(D)
               /\ Shaped(D)
  <1> DEFINE D == Insert(d, e)
  <1>1. /\ Keys(D) = Keys(d) \union {e.id}
        /\ \A i \in Keys(d) : D.events[i] = d.events[i]
        /\ D.events[e.id] = e
        /\ D.ancestry_cache = d.ancestry_cache
        /\ ChildrenExact(D)
    BY InsertFields
  <1>2. Shaped(D)
    <2>1. D.events = [i \in Keys(D) |-> D.events[i]]
      BY DEF Insert, Keys
    <2>2. D = [events         |-> [i \in Keys(d) \union {e.id} |-> IF i = e.id THEN e ELSE d.events[i]],
               children       |-> d.children \union {<<p, e.id>> : p \in e.parents},
               ancestry_cache |-> d.ancestry_cache]
      BY DEF Insert
    <2>3. QED
      BY <2>1, <2>2, Zenon DEF Shaped
  <1>3. QED
    BY <1>1, <1>2

\* A closed history that grows, without touching the parents it has, leaves the
\* ancestors of its events alone.
LEMMA GrowthKeepsAncestors ==
    ASSUME NEW d, NEW e, Keys(d) \subseteq Keys(e), IsCausallyClosed(d),
           \A i \in Keys(d) : d.events[i].parents = e.events[i].parents,
           NEW j \in Keys(d)
    PROVE  Ancestors(d, j) = Ancestors(e, j)
  <1> DEFINE P == d.events[j].parents
             A == Through(d, Keys(d), P)
             B == Through(e, Keys(e), P)
  <1>1. \A i \in Keys(d) : d.events[i].parents \subseteq Keys(d)
    BY DEF IsCausallyClosed, MissingAncestors, AllParents
  <1>2. A \subseteq Keys(d)
    <2>1. UpClosed(d, Keys(d), Keys(d)) /\ P \subseteq Keys(d)
      BY <1>1 DEF UpClosed
    <2>2. QED
      BY <2>1, ThroughLeast
  <1>3. A \subseteq B
    <2>1. UpClosed(d, Keys(d), B)
      BY ThroughClosed DEF UpClosed
    <2>2. QED
      BY <2>1, ThroughStarts, ThroughLeast
  <1>4. B \subseteq A
    <2>1. UpClosed(e, Keys(e), A)
      BY <1>2, ThroughClosed DEF UpClosed
    <2>2. QED
      BY <2>1, ThroughStarts, ThroughLeast
  <1>5. A = B
    BY <1>3, <1>4
  <1> HIDE DEF A, B
  <1>6. Ancestors(d, j) = A /\ Ancestors(e, j) = B
    BY DEF Ancestors, A, B
  <1>7. QED
    BY <1>5, <1>6
----------------------------------------------------------------------------
\* Finitely many events with finitely many parents, as any calls build.
Finite(d) ==
    /\ IsFiniteSet(Keys(d))
    /\ \A i \in Keys(d) : IsFiniteSet(d.events[i].parents)
\* An event with nothing of the DAG behind it is found by going forward from any event,
\* as long as there is no cycle.
LEMMA ForwardEnds ==
    ASSUME NEW d, Finite(d), ChildrenExact(d),
           \A k \in Keys(d) : k \notin Ancestors(d, k)
    PROVE  FrontierCovers(d)
  <1> SUFFICES ASSUME NEW i \in Keys(d)
               PROVE  \E f \in Frontier(d) : i = f \/ i \in Ancestors(d, f)
    BY DEF FrontierCovers, Precedes
  <1> DEFINE From(j) == {k \in Keys(d) : j = k \/ j \in Ancestors(d, k)}
  <1>1. PICK f \in From(i) : \A j \in From(i) : From(j) \subseteq From(f) => From(j) = From(f)
    <2> DEFINE F == {From(j) : j \in From(i)}
    <2>1. F \subseteq SUBSET Keys(d) /\ F # {}
      <3>1. i \in From(i) /\ \A j : From(j) \subseteq Keys(d)
        OBVIOUS
      <3> HIDE DEF From
      <3>2. From(i) \in F
        BY <3>1
      <3>3. QED
        BY <3>1, <3>2
    <2>2. PICK X \in F : \A Y \in F : Y \subseteq X => Y = X
      <3> HIDE DEF F
      <3>1. QED
        BY <2>1, SmallestSet DEF Finite
    <2>3. PICK f \in From(i) : X = From(f)
      OBVIOUS
    <2>4. \A j \in From(i) : From(j) \in F
      OBVIOUS
    <2> HIDE DEF F, From
    <2>5. QED
      BY <2>2, <2>3, <2>4
  <1>2. ASSUME NEW x \in d.children, x[1] = f PROVE FALSE
    <2>1. PICK c \in Keys(d) : f \in d.events[c].parents
      BY <1>2 DEF ChildrenExact, EdgesOf, Keys
    <2>2. f \in Ancestors(d, c)
      BY <2>1, ThroughStarts DEF Ancestors
    <2>3. c \in From(i)
      BY <2>2, AncestorsTransitive
    <2>4. From(c) \subseteq From(f)
      <3>1. SUFFICES ASSUME NEW k \in From(c) PROVE f \in Ancestors(d, k)
        OBVIOUS
      <3>2. QED
        BY <2>2, <3>1, AncestorsTransitive
    <2>5. f \in From(c)
      BY <1>1, <2>3, <2>4
    <2>6. f \in Ancestors(d, f)
      BY <2>2, <2>5, AncestorsTransitive
    <2>7. QED
      BY <2>6
  <1>3. QED
    BY <1>2 DEF Frontier
----------------------------------------------------------------------------
\* What the turns of Kahn's loop are asked to be.
AreTurns(children, start, last, f) ==
    f = [n \in 0 .. last |->
            IF n = 0 THEN start
            ELSE CHOOSE next \in {Turn(children, t) : t \in {f[n - 1]}} : TRUE]

\* The recursion of Kahn's loop has a solution.
LEMMA TurnsExist ==
    ASSUME NEW children, NEW start, NEW last \in Nat
    PROVE  \E f : AreTurns(children, start, last, f)
  <1> DEFINE After(t)     == CHOOSE next \in {Turn(children, u) : u \in {t}} : TRUE
             Solves(f, m) == f = [n \in 0 .. m |-> IF n = 0 THEN start ELSE After(f[n - 1])]
             Unsolved     == {m \in Nat : ~\E f : Solves(f, m)}
  <1>1. SUFFICES Unsolved = {}
    BY DEF AreTurns
  <1>2. SUFFICES ASSUME NEW m \in Unsolved, \A k \in Unsolved : m <= k
                 PROVE  FALSE
    <2>1. Unsolved \in SUBSET Nat
      OBVIOUS
    <2> HIDE DEF Unsolved
    <2>2. QED
      BY <2>1, LeastNumber
  <1> HIDE DEF After
  <1>3. CASE m = 0
    <2>1. Solves([n \in 0 .. 0 |-> start], 0)
      OBVIOUS
    <2>2. QED
      BY <1>3, <2>1
  <1>4. CASE m > 0
    <2>1. m - 1 \in Nat /\ m - 1 \notin Unsolved
      BY <1>2, <1>4
    <2>2. PICK g : Solves(g, m - 1)
      BY <2>1
    <2> DEFINE f == [n \in 0 .. m |-> IF n = m THEN After(g[m - 1]) ELSE g[n]]
    <2>3. ASSUME NEW n \in 0 .. m
          PROVE  f[n] = IF n = 0 THEN start ELSE After(f[n - 1])
      <3>1. CASE n = m
        <4>1. n - 1 \in 0 .. m /\ n - 1 # m /\ n # 0
          BY <1>4, <3>1
        <4>2. QED
          BY <3>1, <4>1
      <3>2. CASE n # m
        <4>1. n \in 0 .. m - 1 /\ (n # 0 => n - 1 \in 0 .. m /\ n - 1 # m)
          BY <3>2
        <4>2. f[n] = g[n] /\ (n # 0 => f[n - 1] = g[n - 1])
          BY <3>2, <4>1
        <4>3. g[n] = IF n = 0 THEN start ELSE After(g[n - 1])
          BY <2>2, <4>1
        <4>4. QED
          BY <4>2, <4>3
      <3>3. QED
        BY <3>1, <3>2
    <2>4. f = [n \in 0 .. m |-> f[n]]
      OBVIOUS
    <2> HIDE DEF f
    <2>5. Solves(f, m)
      BY <2>3, <2>4
    <2>6. QED
      BY <2>5
  <1>5. QED
    BY <1>3, <1>4

\* The turns of Kahn's loop, one after the other.
IsRun(children, start, last, f) ==
    /\ f[0] = start
    /\ \A n \in 1 .. last : f[n] = Turn(children, f[n - 1])
    /\ Kahn(children, start) = [n \in 0 .. last |-> f[n].level]

\* The levels of Kahn's loop are those of its turns.
LEMMA KahnTurns ==
    ASSUME NEW children, NEW start, NEW last \in Nat, last = Cardinality(DOMAIN start.degree)
    PROVE  \E f : IsRun(children, start, last, f)
  <1> DEFINE turn == CHOOSE f : AreTurns(children, start, last, f)
  <1>1. AreTurns(children, start, last, turn)
    BY TurnsExist
  <1>2. Kahn(children, start) = [n \in 0 .. last |-> turn[n].level]
    BY DEF Kahn, AreTurns
  <1> HIDE DEF turn
  <1>3. turn[0] = start
    BY <1>1 DEF AreTurns
  <1>4. ASSUME NEW n \in 1 .. last PROVE turn[n] = Turn(children, turn[n - 1])
    <2>1. turn[n] = CHOOSE next \in {Turn(children, t) : t \in {turn[n - 1]}} : TRUE
      BY <1>1 DEF AreTurns
    <2>2. {Turn(children, t) : t \in {turn[n - 1]}} = {Turn(children, turn[n - 1])}
      OBVIOUS
    <2>3. QED
      BY <2>1, <2>2
  <1>5. QED
    BY <1>2, <1>3, <1>4 DEF IsRun

----------------------------------------------------------------------------
\* Of the nodes N, each with what it waits for, those that wait for nothing outside D.
Ready(N, Q, D) == {i \in N : Q[i] \subseteq D}

\* The loop when it has listed D before this level.
TurnState(N, Q, D) ==
    [degree |-> [i \in N |-> Cardinality(Q[i] \ D)],
     level  |-> [i \in Ready(N, Q, D) \ D |-> 1]]

\* A turn lists every node that has become ready.
LEMMA TurnGoesOn ==
    ASSUME NEW N, NEW Q, \A i \in N : IsFiniteSet(Q[i]),
           NEW children, \A p, c \in N : <<p, c>> \in children <=> p \in Q[c],
           NEW D, D \subseteq Ready(N, Q, D),
           NEW E, E = Ready(N, Q, D)
    PROVE  Turn(children, TurnState(N, Q, D)) = TurnState(N, Q, E)
  <1> DEFINE t        == TurnState(N, Q, D)
             R        == E \ D
             minus    == [c \in N |-> Cardinality({x \in Listings(t.level) : <<x[1], c>> \in children})]
             pushes   == [c \in N |-> Pushes(t.degree[c], minus[c])]
  <1>1. /\ t.degree = [i \in N |-> Cardinality(Q[i] \ D)]
        /\ t.level = [i \in R |-> 1]
        /\ D \subseteq E /\ E \subseteq N
    BY DEF TurnState, Ready
  <1>2. Listings(t.level) = {<<p, 1>> : p \in R}
    BY <1>1 DEF Listings
  <1>3. ASSUME NEW c \in N
        PROVE  /\ minus[c] = Cardinality(Q[c] \intersect R)
               /\ Cardinality(Q[c] \ D) = Cardinality(Q[c] \intersect R) + Cardinality(Q[c] \ E)
               /\ Cardinality(Q[c] \intersect R) \in Nat /\ Cardinality(Q[c] \ E) \in Nat
               /\ Cardinality(Q[c] \ D) = 0 <=> Q[c] \subseteq D
               /\ Cardinality(Q[c] \ E) = 0 <=> Q[c] \subseteq E
    <2> DEFINE M == Q[c] \intersect R
               S == {x \in Listings(t.level) : <<x[1], c>> \in children}
    <2>1. S = {<<p, 1>> : p \in M}
      BY <1>1, <1>2
    <2>2. IsFiniteSet(M) /\ IsFiniteSet(Q[c] \ D) /\ IsFiniteSet(Q[c] \ E)
      BY FS_Subset
    <2>3. Cardinality(S) = Cardinality(M)
      <3> DEFINE f == [p \in M |-> <<p, 1>>]
      <3>1. f \in Bijection(M, S)
        BY <2>1 DEF Bijection, Injection, Surjection, IsInjective
      <3> HIDE DEF f, S, M
      <3>2. QED
        BY <2>2, <3>1, FS_Bijection DEF ExistsBijection
    <2>4. Cardinality(Q[c] \ D) = Cardinality(M) + Cardinality(Q[c] \ E)
      <3>1. /\ (Q[c] \ D) \intersect R = M
            /\ (Q[c] \ D) \ R = Q[c] \ E
        BY <1>1
      <3>2. Cardinality((Q[c] \ D) \ R) = Cardinality(Q[c] \ D) - Cardinality((Q[c] \ D) \intersect R)
        BY <2>2, FS_Difference
      <3>3. Cardinality(Q[c] \ D) \in Nat /\ Cardinality(M) \in Nat
        BY <2>2, FS_CardinalityType
      <3>4. Cardinality(Q[c] \ E) = Cardinality(Q[c] \ D) - Cardinality(M)
        BY <3>1, <3>2
      <3> HIDE DEF M
      <3>5. QED
        BY <3>3, <3>4
    <2>5. /\ Cardinality(M) \in Nat /\ Cardinality(Q[c] \ E) \in Nat
          /\ Cardinality(Q[c] \ D) = 0 <=> Q[c] \ D = {}
          /\ Cardinality(Q[c] \ E) = 0 <=> Q[c] \ E = {}
      BY <2>2, FS_CardinalityType, FS_EmptySet
    <2>6. QED
      BY <2>3, <2>4, <2>5
  <1>4. ASSUME NEW c \in N
        PROVE  /\ Less(t.degree[c], minus[c]) = Cardinality(Q[c] \ E)
               /\ pushes[c] > 0 <=> c \in Ready(N, Q, E) \ E
               /\ pushes[c] > 0 => pushes[c] = 1
    <2> DEFINE m == Cardinality(Q[c] \intersect R)
               g == Cardinality(Q[c] \ D)
               h == Cardinality(Q[c] \ E)
    <2>1. /\ minus[c] = m /\ t.degree[c] = g /\ pushes[c] = Pushes(g, m)
          /\ m \in Nat /\ h \in Nat /\ g = m + h
          /\ g = 0 <=> c \in E
          /\ h = 0 <=> c \in Ready(N, Q, E)
      BY <1>1, <1>3 DEF Ready
    <2> HIDE DEF m, g, h, minus, pushes
    <2>2. Less(g, m) = h
      BY <2>1 DEF Less
    <2>3. /\ Pushes(g, m) > 0 <=> g # 0 /\ h = 0
          /\ Pushes(g, m) > 0 => Pushes(g, m) = 1
      BY <2>1 DEF Pushes, Less
    <2>4. QED
      BY <2>1, <2>2, <2>3 DEF h
  <1>5. Turn(children, t) = [degree |-> [c \in N |-> Less(t.degree[c], minus[c])],
                             level  |-> [c \in {x \in N : pushes[x] > 0} |-> pushes[c]]]
    BY <1>1 DEF Turn
  <1>6. [c \in N |-> Less(t.degree[c], minus[c])] = [c \in N |-> Cardinality(Q[c] \ E)]
    BY <1>4
  <1>7. [c \in {x \in N : pushes[x] > 0} |-> pushes[c]] = [c \in Ready(N, Q, E) \ E |-> 1]
    <2>1. {x \in N : pushes[x] > 0} = Ready(N, Q, E) \ E
      BY <1>4 DEF Ready
    <2>2. \A c \in Ready(N, Q, E) \ E : pushes[c] = 1
      BY <1>4 DEF Ready
    <2> HIDE DEF pushes
    <2>3. QED
      BY <2>1, <2>2
  <1> HIDE DEF t, minus, pushes
  <1>8. QED
    BY <1>5, <1>6, <1>7 DEF t, TurnState

\* What the levels before n list.
Before(levels, n) == UNION {DOMAIN levels[m] : m \in 0 .. n - 1}

\* Level n lists, once each, what is ready after the levels before it.
ByReadiness(N, Q, levels) ==
    /\ DOMAIN levels = 0 .. Cardinality(N)
    /\ \A n \in DOMAIN levels :
          levels[n] = [i \in Ready(N, Q, Before(levels, n)) \ Before(levels, n) |-> 1]

\* Every level lists, once, the nodes that became ready in the level before.
LEMMA KahnLevels ==
    ASSUME NEW N, IsFiniteSet(N), NEW Q, \A i \in N : IsFiniteSet(Q[i]),
           NEW children, \A p, c \in N : <<p, c>> \in children <=> p \in Q[c],
           NEW levels, levels = Kahn(children, TurnState(N, Q, {}))
    PROVE  ByReadiness(N, Q, levels)
  <1> DEFINE last == Cardinality(N)
             start == TurnState(N, Q, {})
  <1>1. last \in Nat
    BY FS_CardinalityType
  <1>2. DOMAIN start.degree = N
    BY DEF TurnState
  <1>3. PICK f : IsRun(children, start, last, f)
    <2>1. last = Cardinality(DOMAIN start.degree)
      BY <1>2
    <2> HIDE DEF start, last
    <2>2. QED
      BY <1>1, <2>1, KahnTurns
  <1>4. levels = [n \in 0 .. last |-> f[n].level]
    BY <1>3 DEF IsRun
  <1> DEFINE Done(n) == Before(levels, n)
             Right(n) == Done(n) \subseteq Ready(N, Q, Done(n)) /\ f[n] = TurnState(N, Q, Done(n))
             Wrong == {n \in 0 .. last : ~Right(n)}
  <1>5. Right(0)
    <2>1. Done(0) = {}
      BY DEF Before
    <2>2. QED
      BY <1>3, <2>1 DEF IsRun
  <1>6. ASSUME NEW n \in 0 .. last, n # 0, Right(n - 1) PROVE Right(n)
    <2> DEFINE D == Done(n - 1)
               E == Ready(N, Q, D)
    <2>1. n - 1 \in 0 .. last /\ n \in 1 .. last /\ (n - 1) + 1 = n
      BY <1>1, <1>6
    <2>2. levels[n - 1] = f[n - 1].level
      BY <1>4, <2>1
    <2>3. DOMAIN levels[n - 1] = E \ D
      <3> HIDE DEF Done
      <3>1. f[n - 1].level = [i \in Ready(N, Q, Done(n - 1)) \ Done(n - 1) |-> 1]
        BY <1>6 DEF TurnState
      <3>2. QED
        BY <2>2, <3>1
    <2>4. Done(n) = D \union DOMAIN levels[n - 1]
      <3>1. 0 .. n - 1 = (0 .. (n - 1) - 1) \union {n - 1}
        BY <1>1, <1>6
      <3>2. QED
        BY <3>1 DEF Before
    <2>5. Done(n) = E
      BY <1>6, <2>3, <2>4
    <2>6. E \subseteq Ready(N, Q, E)
      BY <1>6 DEF Ready
    <2>7. f[n] = TurnState(N, Q, E)
      <3>1. f[n] = Turn(children, TurnState(N, Q, D))
        BY <1>3, <1>6, <2>1 DEF IsRun
      <3> HIDE DEF D
      <3>2. Turn(children, TurnState(N, Q, D)) = TurnState(N, Q, E)
        BY <1>6, TurnGoesOn DEF D
      <3>3. QED
        BY <3>1, <3>2
    <2>8. QED
      BY <2>5, <2>6, <2>7
  <1>7. Wrong = {}
    <2>1. SUFFICES ASSUME NEW n \in Wrong, \A k \in Wrong : n <= k
                   PROVE  FALSE
      <3>1. Wrong \in SUBSET Nat
        BY <1>1
      <3> HIDE DEF Wrong
      <3>2. QED
        BY <3>1, LeastNumber
    <2> HIDE DEF Right
    <2>2. n # 0 /\ n \in 0 .. last
      BY <1>5
    <2>3. n - 1 \in 0 .. last /\ n - 1 \notin Wrong
      BY <1>1, <2>1, <2>2
    <2>4. QED
      BY <1>6, <2>1, <2>2, <2>3
  <1>8. ASSUME NEW n \in 0 .. last
        PROVE  levels[n] = [i \in Ready(N, Q, Done(n)) \ Done(n) |-> 1]
    <2>1. f[n] = TurnState(N, Q, Done(n))
      BY <1>7
    <2>2. levels[n] = f[n].level
      BY <1>4
    <2> HIDE DEF Done
    <2>3. QED
      BY <2>1, <2>2 DEF TurnState
  <1>9. QED
    BY <1>4, <1>8 DEF ByReadiness

\* The loop is as long as it needs to be: a node that waits for nothing outside what is
\* listed is listed.
LEMMA KahnEnds ==
    ASSUME NEW N, IsFiniteSet(N), NEW Q, NEW levels, ByReadiness(N, Q, levels)
    PROVE  Ready(N, Q, ListedIn(levels)) = ListedIn(levels)
  <1> DEFINE last == Cardinality(N)
             Done(n) == Before(levels, n)
  <1>1. last \in Nat /\ DOMAIN levels = 0 .. last
    BY FS_CardinalityType DEF ByReadiness
  <1>2. \A n \in 0 .. last : DOMAIN levels[n] = Ready(N, Q, Done(n)) \ Done(n)
    BY <1>1 DEF ByReadiness
  <1>3. PICK n \in 0 .. last : DOMAIN levels[n] = {}
    <2>1. SUFFICES ASSUME \A n \in 0 .. last : DOMAIN levels[n] # {}
                   PROVE  FALSE
      OBVIOUS
    <2> DEFINE f == [n \in 0 .. last |-> CHOOSE i \in N : i \in DOMAIN levels[n]]
    <2>2. \A n \in 0 .. last : f[n] \in N /\ f[n] \in DOMAIN levels[n]
      BY <1>2, <2>1 DEF Ready
    <2>3. f \in [0 .. last -> N]
      BY <2>2
    <2>4. IsFiniteSet(0 .. last) /\ Cardinality(0 .. last) = last + 1
      BY <1>1, FS_Interval
    <2>5. \E m, n \in 0 .. last : m # n /\ f[m] = f[n]
      <3>1. Cardinality(N) < Cardinality(0 .. last)
        BY <1>1, <2>4
      <3> DEFINE S == 0 .. last
      <3>2. IsFiniteSet(S) /\ Cardinality(N) < Cardinality(S) /\ f \in [S -> N]
        BY <2>3, <2>4, <3>1
      <3> HIDE DEF f, S
      <3>3. \E m, n \in S : m # n /\ f[m] = f[n]
        BY <3>2, FS_PigeonHole
      <3>4. QED
        BY <3>3 DEF S
    <2>6. ASSUME NEW j \in 0 .. last, NEW k \in 0 .. last, j < k, f[j] = f[k] PROVE FALSE
      <3> HIDE DEF f
      <3>1. j \in 0 .. k - 1
        BY <1>1, <2>6
      <3>2. f[k] \in Done(k)
        BY <2>2, <2>6, <3>1 DEF Before
      <3>3. QED
        BY <1>2, <2>2, <3>2
    <2> HIDE DEF f
    <2>7. QED
      BY <1>1, <2>5, <2>6
  <1> DEFINE Later == {m \in n .. last : DOMAIN levels[m] # {}}
  <1>4. Ready(N, Q, Done(n)) \subseteq Done(n)
    BY <1>2, <1>3
  <1>5. Later = {}
    <2>1. SUFFICES ASSUME NEW m \in Later, \A k \in Later : m <= k
                   PROVE  FALSE
      <3>1. Later \in SUBSET Nat
        BY <1>1
      <3> HIDE DEF Later
      <3>2. QED
        BY <3>1, LeastNumber
    <2>2. \A k \in n .. m - 1 : DOMAIN levels[k] = {}
      BY <1>1, <2>1
    <2>3. Done(m) = Done(n)
      <3>1. 0 .. m - 1 = (0 .. n - 1) \union (n .. m - 1)
        BY <1>1, <2>1
      <3>2. QED
        BY <2>2, <3>1 DEF Before
    <2>4. QED
      BY <1>2, <1>4, <2>1, <2>3
  <1>6. ListedIn(levels) = Done(n)
    <2>1. 0 .. last = (0 .. n - 1) \union (n .. last)
      BY <1>1
    <2>2. QED
      BY <1>1, <1>5, <2>1 DEF ListedIn, Before
  <1>7. Done(n) \subseteq Ready(N, Q, Done(n))
    <2>1. SUFFICES ASSUME NEW m \in 0 .. n - 1 PROVE DOMAIN levels[m] \subseteq Ready(N, Q, Done(n))
      BY DEF Before
    <2>2. DOMAIN levels[m] \subseteq Ready(N, Q, Done(m))
      BY <1>1, <1>2
    <2>3. Done(m) \subseteq Done(n)
      BY <1>1 DEF Before
    <2>4. QED
      BY <2>2, <2>3 DEF Ready
  <1> HIDE DEF Done
  <1>8. Ready(N, Q, Done(n)) = Done(n)
    BY <1>4, <1>7
  <1>9. QED
    BY <1>6, <1>8

\* A finite DAG that stores events under their ids starts the loop with every event
\* waiting for all its parents.
LEMMA LevelsStart ==
    ASSUME NEW d, Finite(d), ChildrenExact(d), KeysMatchIds(d),
           NEW Q, Q = [i \in Keys(d) |-> d.events[i].parents]
    PROVE  Levels(d) = Kahn(d.children, TurnState(Keys(d), Q, {}))
  <1> DEFINE N == Keys(d)
             Edges(i) == {x \in N \X AllParents(d) : /\ d.events[x[1]].id = i
                                                     /\ x[2] \in d.events[x[1]].parents}
  <1>1. Ids(d) = N /\ Entered(d) = N
    <2>1. {e.id : e \in Events(d)} \subseteq N
      BY DEF Events, KeysMatchIds
    <2>2. {x[2] : x \in d.children} \subseteq N
      <3>1. \A x \in d.children : \E i \in N : \E p \in d.events[i].parents : x = <<p, i>>
        BY DEF ChildrenExact, EdgesOf, Keys
      <3>2. QED
        BY <3>1
    <2>3. QED
      BY <2>1, <2>2 DEF Ids, Entered
  <1>2. ASSUME NEW i \in N PROVE Cardinality(Edges(i)) = Cardinality(Q[i])
    <2>1. Edges(i) = {<<i, p>> : p \in Q[i]}
      <3>1. Edges(i) \subseteq {<<i, p>> : p \in Q[i]}
        BY DEF KeysMatchIds
      <3>2. ASSUME NEW p \in Q[i] PROVE <<i, p>> \in Edges(i)
        <4>1. p \in AllParents(d) /\ d.events[i].id = i
          BY DEF AllParents, KeysMatchIds
        <4>2. QED
          BY <4>1
      <3>3. QED
        BY <3>1, <3>2
    <2> DEFINE f == [p \in Q[i] |-> <<i, p>>]
               S == Edges(i)
    <2>2. f \in Bijection(Q[i], S)
      <3> HIDE DEF S
      <3>1. S = {<<i, p>> : p \in Q[i]}
        BY <2>1 DEF S
      <3>2. QED
        BY <3>1 DEF Bijection, Injection, Surjection, IsInjective
    <2>3. IsFiniteSet(Q[i])
      BY DEF Finite
    <2> HIDE DEF f, S
    <2>4. Cardinality(S) = Cardinality(Q[i])
      BY <2>2, <2>3, FS_Bijection DEF ExistsBijection
    <2>5. QED
      BY <2>4 DEF S
  <1>3. InDegree(d) = [i \in N |-> Cardinality(Q[i] \ {})]
    <2>1. InDegree(d) = [i \in N |-> Cardinality(Edges(i))]
      BY <1>1 DEF InDegree
    <2>2. \A i \in N : Q[i] \ {} = Q[i]
      OBVIOUS
    <2> HIDE DEF Edges, N
    <2>3. QED
      BY <1>2, <2>1, <2>2
  <1>4. FirstLevel(d) = [i \in Ready(N, Q, {}) \ {} |-> 1]
    <2>1. \A i \in N : Cardinality(Q[i] \ {}) = 0 <=> Q[i] \subseteq {}
      BY FS_EmptySet DEF Finite
    <2>2. {i \in N : InDegree(d)[i] = 0} = Ready(N, Q, {}) \ {}
      BY <1>3, <2>1 DEF Ready
    <2>3. QED
      BY <1>1, <2>2 DEF FirstLevel
  <1>5. QED
    BY <1>3, <1>4 DEF Levels, TurnState

\* What the order lists comes once, after its parents; what it leaves out has a gap in
\* its past.
LEMMA OrderIsExact ==
    ASSUME NEW d, Finite(d), ChildrenExact(d), KeysMatchIds(d),
           \A i \in Keys(d) : i \notin Ancestors(d, i)
    PROVE  CausalOrder(d) /\ ListsWhatIsComplete(d)
  <1> DEFINE N      == Keys(d)
             Q      == [i \in N |-> d.events[i].parents]
             levels == Levels(d)
             L      == ListedIn(levels)
             Done(n) == Before(levels, n)
  <1>1. IsFiniteSet(N) /\ \A i \in N : IsFiniteSet(Q[i])
    BY DEF Finite
  <1>2. \A p, c \in N : <<p, c>> \in d.children <=> p \in Q[c]
    BY EdgeIsPointer DEF ChildrenExact, Keys
  <1>3. levels = Kahn(d.children, TurnState(N, Q, {}))
    BY LevelsStart
  <1>4. ByReadiness(N, Q, levels) /\ Ready(N, Q, L) = L
    <2> HIDE DEF N, Q, levels
    <2>1. ByReadiness(N, Q, levels)
      BY <1>1, <1>2, <1>3, KahnLevels
    <2>2. QED
      BY <1>1, <2>1, KahnEnds
  <1>5. /\ DOMAIN levels = 0 .. Cardinality(N)
        /\ \A n \in DOMAIN levels : levels[n] = [i \in Ready(N, Q, Done(n)) \ Done(n) |-> 1]
    BY <1>4 DEF ByReadiness
  <1>6. Cardinality(N) \in Nat
    BY <1>1, FS_CardinalityType
  <1>7. L \subseteq N /\ \A i \in L : Q[i] \subseteq L
    BY <1>4 DEF Ready
  <1>8. ASSUME NEW n \in DOMAIN levels, NEW i \in DOMAIN levels[n]
        PROVE  /\ \A m \in DOMAIN levels : i \in DOMAIN levels[m] => m = n
               /\ Q[i] \subseteq Done(n)
               /\ levels[n][i] = 1
    <2> HIDE DEF N, Q, levels
    <2>1. \A j, k \in DOMAIN levels : j < k => DOMAIN levels[j] \subseteq Done(k)
      BY <1>5, <1>6 DEF Before
    <2>2. \A k \in DOMAIN levels : DOMAIN levels[k] \intersect Done(k) = {}
      BY <1>5
    <2>3. \A m \in DOMAIN levels : i \in DOMAIN levels[m] => m = n
      <3>1. SUFFICES ASSUME NEW m \in DOMAIN levels, i \in DOMAIN levels[m], m # n PROVE FALSE
        OBVIOUS
      <3>2. m < n \/ n < m
        BY <1>5, <1>6, <3>1
      <3>3. QED
        BY <1>8, <2>1, <2>2, <3>1, <3>2
    <2> HIDE DEF Done
    <2>4. i \in Ready(N, Q, Done(n)) /\ levels[n][i] = 1
      BY <1>5, <1>8
    <2>5. QED
      BY <2>3, <2>4 DEF Ready
  <1>9. CausalOrder(d)
    <2>1. SUFFICES ASSUME NEW i \in L
                   PROVE  /\ i \in N
                          /\ Times(levels, i) = 1
                          /\ \A p \in Q[i] : p \in L /\ ListedAfter(levels, p, i)
      BY <1>7 DEF CausalOrder
    <2>2. PICK n \in DOMAIN levels : i \in DOMAIN levels[n]
      BY DEF ListedIn
    <2>3. Times(levels, i) = 1
      <3> DEFINE S == {x \in UNION {{m} \X Listings(levels[m]) : m \in DOMAIN levels} : x[2][1] = i}
      <3>1. S = {<<n, <<i, 1>>>>}
        <4> HIDE DEF N, Q, levels
        <4>1. <<i, 1>> \in Listings(levels[n])
          BY <1>8, <2>2 DEF Listings
        <4>2. <<n, <<i, 1>>>> \in S
          BY <2>2, <4>1
        <4>3. ASSUME NEW x \in S PROVE x = <<n, <<i, 1>>>>
          <5>1. PICK m \in DOMAIN levels : \E y \in Listings(levels[m]) : x = <<m, y>> /\ y[1] = i
            BY <4>3
          <5>2. PICK p \in DOMAIN levels[m] : \E t \in 1 .. levels[m][p] : x = <<m, <<p, t>>>> /\ p = i
            BY <5>1 DEF Listings
          <5>3. PICK t \in 1 .. levels[m][i] : x = <<m, <<i, t>>>>
            BY <5>2
          <5>4. m = n
            BY <1>8, <2>2, <5>2
          <5>5. t = 1
            BY <1>8, <2>2, <5>3, <5>4
          <5>6. QED
            BY <5>3, <5>4, <5>5
        <4>4. QED
          BY <4>2, <4>3
      <3> HIDE DEF S
      <3>2. Cardinality(S) = 1
        BY <3>1, FS_Singleton
      <3>3. QED
        BY <3>2 DEF Times, S
    <2>4. ASSUME NEW p \in Q[i] PROVE p \in L /\ ListedAfter(levels, p, i)
      <3>1. p \in L
        BY <1>7
      <3> HIDE DEF N, Q, levels
      <3>2. PICK k \in 0 .. n - 1 : p \in DOMAIN levels[k]
        BY <1>8, <2>2 DEF Before
      <3>3. k \in DOMAIN levels /\ k < n
        BY <1>5, <1>6, <3>2
      <3>4. QED
        BY <1>8, <2>2, <3>1, <3>2, <3>3 DEF ListedAfter
    <2>5. QED
      BY <1>7, <2>3, <2>4
  <1>10. ASSUME NEW i \in L PROVE Ancestors(d, i) \subseteq N
    <2>1. UpClosed(d, N, L)
      BY <1>7 DEF UpClosed
    <2>2. i \in N /\ d.events[i].parents \subseteq L
      BY <1>7
    <2> HIDE DEF L
    <2>3. Ancestors(d, i) \subseteq L
      BY <2>1, <2>2, ThroughLeast DEF Ancestors
    <2>4. QED
      BY <1>7, <2>3
  <1>11. ASSUME NEW i \in N, Ancestors(d, i) \subseteq N PROVE i \in L
    <2> DEFINE C == {j \in N : Ancestors(d, j) \subseteq N /\ j \notin L}
               F == {Ancestors(d, j) : j \in C}
    <2>1. SUFFICES C = {}
      BY <1>11
    <2>2. SUFFICES ASSUME C # {} PROVE FALSE
      OBVIOUS
    <2>3. PICK X \in F : \A Y \in F : Y \subseteq X => Y = X
      <3>1. F \subseteq SUBSET N /\ F # {}
        BY <2>2
      <3> HIDE DEF F, N
      <3>2. QED
        BY <1>1, <3>1, SmallestSet
    <2>4. PICK j \in C : X = Ancestors(d, j)
      OBVIOUS
    <2>5. PICK p \in Q[j] : p \notin L
      BY <1>4 DEF Ready
    <2>6. p \in Ancestors(d, j)
      BY ThroughStarts DEF Ancestors
    <2>7. Ancestors(d, p) \subseteq Ancestors(d, j)
      BY <2>6, AncestorsTransitive
    <2>8. p \in C
      BY <2>5, <2>6, <2>7
    <2>9. Ancestors(d, p) = Ancestors(d, j)
      BY <2>3, <2>4, <2>7, <2>8
    <2>10. QED
      BY <2>6, <2>8, <2>9
  <1>12. QED
    BY <1>7, <1>9, <1>10, <1>11 DEF ListsWhatIsComplete, Listed
----------------------------------------------------------------------------
\* A loop state whose degrees are numbers, and whose level lists ids that have a degree.
Counted(N, t) ==
    /\ t.degree \in [N -> Nat]
    /\ DOMAIN t.level \subseteq N
    /\ \A i \in DOMAIN t.level : t.level[i] \in Nat \ {0}

\* A level lists finitely many ids finitely often.
LEMMA ListingsFinite ==
    ASSUME NEW N, IsFiniteSet(N), NEW level, DOMAIN level \subseteq N,
           \A i \in DOMAIN level : level[i] \in Nat
    PROVE  IsFiniteSet(Listings(level))
  <1> DEFINE Of(p) == {<<p, n>> : n \in 1 .. level[p]}
             All   == {Of(p) : p \in DOMAIN level}
  <1>1. IsFiniteSet(DOMAIN level)
    BY FS_Subset
  <1>2. \A p \in DOMAIN level : IsFiniteSet(Of(p))
    <2> SUFFICES ASSUME NEW p \in DOMAIN level PROVE IsFiniteSet(Of(p))
      OBVIOUS
    <2>1. IsFiniteSet(1 .. level[p])
      BY FS_Interval
    <2> DEFINE f == [n \in 1 .. level[p] |-> <<p, n>>]
    <2>2. f \in Surjection(1 .. level[p], Of(p))
      BY DEF Surjection
    <2> HIDE DEF f, Of
    <2>3. QED
      BY <2>1, <2>2, FS_Surjection
  <1>3. IsFiniteSet(All)
    <2> DEFINE f == [p \in DOMAIN level |-> Of(p)]
    <2>1. f \in Surjection(DOMAIN level, All)
      BY DEF Surjection
    <2> HIDE DEF f, All
    <2>2. QED
      BY <1>1, <2>1, FS_Surjection
  <1>4. \A X \in All : IsFiniteSet(X)
    BY <1>2
  <1>5. Listings(level) = UNION All
    BY DEF Listings
  <1> HIDE DEF All
  <1>6. QED
    BY <1>3, <1>4, <1>5, FS_UNION

\* A turn leaves numbers, and after a level that lists nothing it lists nothing.
LEMMA TurnCounts ==
    ASSUME NEW N, IsFiniteSet(N), NEW children, NEW t, Counted(N, t)
    PROVE  /\ Counted(N, Turn(children, t))
           /\ DOMAIN t.level = {} => DOMAIN Turn(children, t).level = {}
  <1> DEFINE minus  == [c \in N |-> Cardinality({x \in Listings(t.level) : <<x[1], c>> \in children})]
             pushes == [c \in N |-> Pushes(t.degree[c], minus[c])]
             u      == Turn(children, t)
  <1>1. t.degree \in [N -> Nat] /\ DOMAIN t.degree = N
    BY DEF Counted
  <1>2. IsFiniteSet(Listings(t.level))
    BY ListingsFinite DEF Counted
  <1>3. \A c \in N : minus[c] \in Nat
    <2> SUFFICES ASSUME NEW c \in N PROVE minus[c] \in Nat
      OBVIOUS
    <2>1. IsFiniteSet({x \in Listings(t.level) : <<x[1], c>> \in children})
      BY <1>2, FS_Subset
    <2>2. QED
      BY <2>1, FS_CardinalityType
  <1>4. /\ u.degree = [c \in N |-> Less(t.degree[c], minus[c])]
        /\ u.level = [c \in {x \in N : pushes[x] > 0} |-> pushes[c]]
    BY <1>1 DEF Turn
  <1>5. DOMAIN t.level = {} => \A c \in N : minus[c] = 0
    <2> SUFFICES ASSUME DOMAIN t.level = {}, NEW c \in N PROVE minus[c] = 0
      OBVIOUS
    <2>1. Listings(t.level) = {}
      BY DEF Listings
    <2>2. {x \in Listings(t.level) : <<x[1], c>> \in children} = {}
      BY <2>1
    <2>3. QED
      BY <2>2, FS_EmptySet
  <1> HIDE DEF minus, u
  <1>6. \A c \in N : /\ Less(t.degree[c], minus[c]) \in Nat
                     /\ pushes[c] \in Nat
                     /\ minus[c] = 0 => pushes[c] = 0
    BY <1>1, <1>3 DEF Less, Pushes
  <1> HIDE DEF pushes
  <1>7. u.degree \in [N -> Nat]
    BY <1>4, <1>6
  <1>8. /\ DOMAIN u.level \subseteq N
        /\ \A c \in DOMAIN u.level : u.level[c] \in Nat \ {0}
    BY <1>4, <1>6
  <1>9. DOMAIN t.level = {} => DOMAIN u.level = {}
    BY <1>4, <1>5, <1>6
  <1>10. QED
    BY <1>7, <1>8, <1>9 DEF u, Counted

\* The levels of a DAG with finitely many pointers and edges, whatever its keys and its
\* index say: as many as ids and one more, each a finite number of times some of them,
\* and none after one that lists nothing.
LevelsShaped(d, levels, last) ==
    /\ last \in Nat
    /\ DOMAIN levels = 0 .. last
    /\ \A n \in 0 .. last : /\ DOMAIN levels[n] \subseteq Ids(d)
                            /\ \A i \in DOMAIN levels[n] : levels[n][i] \in Nat \ {0}
    /\ \A n \in 0 .. last : n > 0 /\ DOMAIN levels[n - 1] = {} => DOMAIN levels[n] = {}

\* The events of a finite DAG name finitely many parents.
LEMMA FinitelyManyParents ==
    ASSUME NEW d, Finite(d)
    PROVE  IsFiniteSet(AllParents(d))
  <1> DEFINE All == {d.events[i].parents : i \in Keys(d)}
             f   == [i \in Keys(d) |-> d.events[i].parents]
  <1>1. f \in Surjection(Keys(d), All)
    BY DEF Surjection
  <1>2. \A X \in All : IsFiniteSet(X)
    BY DEF Finite
  <1> HIDE DEF f
  <1>3. IsFiniteSet(All)
    <2> HIDE DEF All
    <2>1. QED
      BY <1>1, FS_Surjection DEF Finite
  <1>4. AllParents(d) = UNION All
    BY DEF AllParents
  <1> HIDE DEF All
  <1>5. QED
    BY <1>2, <1>3, <1>4, FS_UNION

\* A DAG with finitely many events, pointers and edges has finitely many ids.
LEMMA FinitelyManyIds ==
    ASSUME NEW d, Finite(d), IsFiniteSet(d.children)
    PROVE  IsFiniteSet(Ids(d)) /\ IsFiniteSet(AllParents(d))
  <1>1. IsFiniteSet({e.id : e \in Events(d)})
    <2> DEFINE f == [i \in Keys(d) |-> d.events[i].id]
    <2>1. f \in Surjection(Keys(d), {e.id : e \in Events(d)})
      BY DEF Surjection, Events
    <2> HIDE DEF f
    <2>2. QED
      BY <2>1, FS_Surjection DEF Finite
  <1>2. IsFiniteSet({x[2] : x \in d.children})
    <2> DEFINE f == [x \in d.children |-> x[2]]
    <2>1. f \in Surjection(d.children, {x[2] : x \in d.children})
      BY DEF Surjection
    <2> HIDE DEF f
    <2>2. QED
      BY <2>1, FS_Surjection
  <1>3. IsFiniteSet(AllParents(d))
    BY FinitelyManyParents
  <1>4. IsFiniteSet(Keys(d) \union {e.id : e \in Events(d)})
    BY <1>1, FS_Union DEF Finite
  <1>5. IsFiniteSet((Keys(d) \union {e.id : e \in Events(d)}) \union {x[2] : x \in d.children})
    BY <1>2, <1>4, FS_Union
  <1>6. QED
    BY <1>3, <1>5 DEF Ids

\* The order of such a DAG has levels of this kind.
LEMMA LevelsCount ==
    ASSUME NEW d, Finite(d), IsFiniteSet(d.children)
    PROVE  LevelsShaped(d, Levels(d), Cardinality(Ids(d)))
  <1> DEFINE N     == Ids(d)
             last  == Cardinality(N)
             start == [degree |-> InDegree(d), level |-> FirstLevel(d)]
  <1>1. IsFiniteSet(N) /\ IsFiniteSet(AllParents(d)) /\ last \in Nat
    BY FinitelyManyIds, FS_CardinalityType
  <1>2. InDegree(d) \in [N -> Nat]
    <2> SUFFICES ASSUME NEW i \in N
                 PROVE  Cardinality({x \in Keys(d) \X AllParents(d) :
                            d.events[x[1]].id = i /\ x[2] \in d.events[x[1]].parents}) \in Nat
      BY DEF InDegree
    <2>1. IsFiniteSet(Keys(d) \X AllParents(d))
      BY <1>1, FS_Product DEF Finite
    <2>2. QED
      BY <2>1, FS_Subset, FS_CardinalityType
  <1>3. Counted(N, start)
    <2>1. Entered(d) \subseteq N
      BY DEF Entered, Ids
    <2>2. /\ DOMAIN FirstLevel(d) \subseteq N
          /\ \A i \in DOMAIN FirstLevel(d) : FirstLevel(d)[i] = 1
      BY <2>1 DEF FirstLevel
    <2>3. QED
      BY <1>2, <2>2 DEF Counted
  <1>4. Levels(d) = Kahn(d.children, start) /\ DOMAIN start.degree = N
    BY <1>2 DEF Levels
  <1> HIDE DEF start
  <1>5. PICK f : IsRun(d.children, start, last, f)
    BY <1>1, <1>4, KahnTurns
  <1>6. \A n \in 0 .. last : Counted(N, f[n])
    <2> DEFINE Wrong == {n \in 0 .. last : ~Counted(N, f[n])}
    <2>1. SUFFICES ASSUME Wrong # {} PROVE FALSE
      OBVIOUS
    <2>2. PICK n \in Wrong : \A k \in Wrong : n <= k
      <3>1. Wrong \in SUBSET Nat
        BY <1>1
      <3> HIDE DEF Wrong
      <3>2. QED
        BY <2>1, <3>1, LeastNumber
    <2>3. n # 0
      BY <1>3, <1>5, <2>2 DEF IsRun
    <2>4. n \in 1 .. last /\ n - 1 \in 0 .. last /\ n - 1 < n
      BY <1>1, <2>2, <2>3
    <2>5. n - 1 \notin Wrong
      BY <1>1, <2>2, <2>4
    <2>6. f[n] = Turn(d.children, f[n - 1])
      BY <1>5, <2>4 DEF IsRun
    <2>7. QED
      BY <1>1, <2>2, <2>4, <2>5, <2>6, TurnCounts
  <1>7. DOMAIN Levels(d) = 0 .. last /\ \A n \in 0 .. last : Levels(d)[n] = f[n].level
    BY <1>4, <1>5 DEF IsRun
  <1>8. ASSUME NEW n \in 0 .. last, n > 0, DOMAIN Levels(d)[n - 1] = {}
        PROVE  DOMAIN Levels(d)[n] = {}
    <2>1. n \in 1 .. last /\ n - 1 \in 0 .. last
      BY <1>1, <1>8
    <2>2. f[n] = Turn(d.children, f[n - 1])
      BY <1>5, <2>1 DEF IsRun
    <2>3. DOMAIN f[n - 1].level = {}
      BY <1>7, <1>8, <2>1
    <2>4. DOMAIN f[n].level = {}
      BY <1>1, <1>6, <2>1, <2>2, <2>3, TurnCounts
    <2>5. QED
      BY <1>7, <2>4
  <1>9. ASSUME NEW n \in 0 .. last
        PROVE  /\ DOMAIN Levels(d)[n] \subseteq N
               /\ \A i \in DOMAIN Levels(d)[n] : Levels(d)[n][i] \in Nat \ {0}
    <2>1. Counted(N, f[n]) /\ Levels(d)[n] = f[n].level
      BY <1>6, <1>7
    <2>2. QED
      BY <2>1 DEF Counted
  <1> HIDE DEF last
  <1>10. QED
    BY <1>1, <1>7, <1>8, <1>9 DEF LevelsShaped, last

----------------------------------------------------------------------------
\* What hashing one level makes of the cache.
Hashed(before, level, d) ==
    LET hashed == DOMAIN level \intersect Keys(d)
    IN  [i \in DOMAIN before \union hashed |->
            IF i \in hashed THEN ConeHash(d.events[i], before) ELSE before[i]]

\* What the caches that the levels leave are asked to be.
AreCaches(cache, levels, d, f) ==
    f = [n \in DOMAIN levels |-> Hashed(IF n = 0 THEN cache ELSE f[n - 1], levels[n], d)]

\* The recursion of HashLevels has a solution.
LEMMA CachesExist ==
    ASSUME NEW cache, NEW levels, NEW d, NEW last \in Nat, DOMAIN levels = 0 .. last
    PROVE  \E f : AreCaches(cache, levels, d, f)
  <1> DEFINE After(t, n)  == Hashed(t, levels[n], d)
             Solves(f, m) == f = [n \in 0 .. m |-> After(IF n = 0 THEN cache ELSE f[n - 1], n)]
             Unsolved     == {m \in Nat : ~\E f : Solves(f, m)}
  <1>1. SUFFICES Unsolved = {}
    BY DEF AreCaches
  <1>2. SUFFICES ASSUME NEW m \in Unsolved, \A k \in Unsolved : m <= k
                 PROVE  FALSE
    <2>1. Unsolved \in SUBSET Nat
      OBVIOUS
    <2> HIDE DEF Unsolved
    <2>2. QED
      BY <2>1, LeastNumber
  <1> HIDE DEF After
  <1>3. CASE m = 0
    <2>1. Solves([n \in 0 .. 0 |-> After(cache, n)], 0)
      OBVIOUS
    <2>2. QED
      BY <1>3, <2>1
  <1>4. CASE m > 0
    <2>1. m - 1 \in Nat /\ m - 1 \notin Unsolved
      BY <1>2, <1>4
    <2>2. PICK g : Solves(g, m - 1)
      BY <2>1
    <2> DEFINE f == [n \in 0 .. m |-> IF n = m THEN After(g[m - 1], m) ELSE g[n]]
    <2>3. ASSUME NEW n \in 0 .. m
          PROVE  f[n] = After(IF n = 0 THEN cache ELSE f[n - 1], n)
      <3>1. CASE n = m
        <4>1. n - 1 \in 0 .. m /\ n - 1 # m /\ n # 0
          BY <1>4, <3>1
        <4>2. QED
          BY <3>1, <4>1
      <3>2. CASE n # m
        <4>1. n \in 0 .. m - 1 /\ (n # 0 => n - 1 \in 0 .. m /\ n - 1 # m)
          BY <3>2
        <4>2. f[n] = g[n] /\ (n # 0 => f[n - 1] = g[n - 1])
          BY <3>2, <4>1
        <4>3. g[n] = After(IF n = 0 THEN cache ELSE g[n - 1], n)
          BY <2>2, <4>1
        <4>4. QED
          BY <4>2, <4>3
      <3>3. QED
        BY <3>1, <3>2
    <2>4. f = [n \in 0 .. m |-> f[n]]
      OBVIOUS
    <2> HIDE DEF f
    <2>5. Solves(f, m)
      BY <2>3, <2>4
    <2>6. QED
      BY <2>5
  <1>5. QED
    BY <1>3, <1>4

\* The caches that the levels leave one after the other, and the last of them.
IsHashing(cache, levels, d, last, f) ==
    /\ f[0] = Hashed(cache, levels[0], d)
    /\ \A n \in 1 .. last : f[n] = Hashed(f[n - 1], levels[n], d)
    /\ HashLevels(cache, levels, d) = f[last]

\* Hashing levels is hashing one after the other.
LEMMA LevelsAreHashed ==
    ASSUME NEW cache, NEW levels, NEW d, NEW last \in Nat, DOMAIN levels = 0 .. last
    PROVE  \E f : IsHashing(cache, levels, d, last, f)
  <1> DEFINE after == CHOOSE f : AreCaches(cache, levels, d, f)
  <1>1. AreCaches(cache, levels, d, after)
    BY CachesExist
  <1>2. Cardinality(DOMAIN levels) - 1 = last
    BY FS_Interval
  <1>3. HashLevels(cache, levels, d) = after[Cardinality(DOMAIN levels) - 1]
    BY DEF HashLevels, AreCaches, Hashed
  <1> HIDE DEF after
  <1>4. \A n \in 0 .. last : after[n] = Hashed(IF n = 0 THEN cache ELSE after[n - 1], levels[n], d)
    BY <1>1 DEF AreCaches
  <1>5. after[0] = Hashed(cache, levels[0], d)
    BY <1>4
  <1>6. \A n \in 1 .. last : after[n] = Hashed(after[n - 1], levels[n], d)
    BY <1>4
  <1>7. QED
    BY <1>2, <1>3, <1>5, <1>6 DEF IsHashing

\* Only keys of the DAG are hashed.
LEMMA HashesKeys ==
    ASSUME NEW cache, NEW levels, NEW d, NEW last \in Nat, DOMAIN levels = 0 .. last
    PROVE  DOMAIN HashLevels(cache, levels, d) \subseteq DOMAIN cache \union Keys(d)
  <1>1. PICK f : IsHashing(cache, levels, d, last, f)
    BY LevelsAreHashed
  <1> DEFINE Strays == {n \in 0 .. last : ~(DOMAIN f[n] \subseteq DOMAIN cache \union Keys(d))}
  <1>2. SUFFICES ASSUME Strays # {} PROVE FALSE
    <2>1. last \in 0 .. last
      OBVIOUS
    <2>2. QED
      BY <1>1, <1>2, <2>1 DEF IsHashing
  <1>3. PICK n \in Strays : \A k \in Strays : n <= k
    <2>1. Strays \in SUBSET Nat
      OBVIOUS
    <2> HIDE DEF Strays
    <2>2. QED
      BY <1>2, <2>1, LeastNumber
  <1>4. CASE n = 0
    BY <1>1, <1>3, <1>4 DEF IsHashing, Hashed
  <1>5. CASE n # 0
    <2>1. n - 1 \in 0 .. last /\ n \in 1 .. last /\ n - 1 < n
      BY <1>5
    <2>2. n - 1 \notin Strays
      BY <1>3, <2>1
    <2>3. f[n] = Hashed(f[n - 1], levels[n], d)
      BY <1>1, <2>1 DEF IsHashing
    <2>4. QED
      BY <2>1, <2>2, <2>3 DEF Hashed
  <1>6. QED
    BY <1>4, <1>5

----------------------------------------------------------------------------
\* A cone hash depends on the hashes of the parents only.
LEMMA ConeHashAgrees ==
    ASSUME NEW e, NEW c1, NEW c2,
           e.parents \subseteq DOMAIN c1, e.parents \subseteq DOMAIN c2,
           \A p \in e.parents : c1[p] = c2[p]
    PROVE  ConeHash(e, c1) = ConeHash(e, c2)
  <1>1. e.parents \intersect DOMAIN c1 = e.parents /\ e.parents \intersect DOMAIN c2 = e.parents
    OBVIOUS
  <1>2. {c1[p] : p \in e.parents} = {c2[p] : p \in e.parents}
    OBVIOUS
  <1>3. \A h : {p \in e.parents : c1[p] = h} = {p \in e.parents : c2[p] = h}
    OBVIOUS
  <1> DEFINE count1(h) == Cardinality({p \in e.parents : c1[p] = h})
             count2(h) == Cardinality({p \in e.parents : c2[p] = h})
  <1>4. \A h : count1(h) = count2(h)
    BY <1>3
  <1>5. ConeHash(e, c1) = <<e.payload, {<<h, count1(h)>> : h \in {c1[p] : p \in e.parents}}>>
    BY <1>1 DEF ConeHash
  <1>6. ConeHash(e, c2) = <<e.payload, {<<h, count2(h)>> : h \in {c2[p] : p \in e.parents}}>>
    BY <1>1 DEF ConeHash
  <1> HIDE DEF count1, count2
  <1>7. QED
    BY <1>2, <1>4, <1>5, <1>6

----------------------------------------------------------------------------
\* Whichever events are picked, one of them has no parent among them.
Founded(d) ==
    \A S \in SUBSET Keys(d) : S # {} => \E i \in S : d.events[i].parents \intersect S = {}

\* No event of such a history is among its own ancestors.
LEMMA FoundedIsAcyclic ==
    ASSUME NEW d, Founded(d), NEW i \in Keys(d)
    PROVE  i \notin Ancestors(d, i)
  <1> SUFFICES ASSUME i \in Ancestors(d, i) PROVE FALSE
    OBVIOUS
  <1> DEFINE S == {j \in Keys(d) : i \in Ancestors(d, j)}
             X == {a : a \in {b \in Universe(d, Keys(d), Keys(d)) : b # i /\ b \notin S}}
  <1>1. PICK j \in S : d.events[j].parents \intersect S = {}
    BY DEF Founded
  <1>2. d.events[j].parents \subseteq X
    BY <1>1 DEF Universe
  <1>3. UpClosed(d, Keys(d), X)
    <2> SUFFICES ASSUME NEW a \in X \intersect Keys(d), NEW p \in d.events[a].parents
                 PROVE  p \in X
      BY DEF UpClosed
    <2>1. p \in Ancestors(d, a)
      BY ThroughStarts DEF Ancestors
    <2>2. p # i
      BY <2>1
    <2>3. p \notin S
      BY <2>1, AncestorsTransitive
    <2>4. QED
      BY <2>2, <2>3 DEF Universe
  <1>4. Ancestors(d, j) \subseteq X
    BY <1>2, <1>3, ThroughLeast DEF Ancestors
  <1>5. QED
    BY <1>4

\* A closed history whose reverse index lists, for each event, exactly the parents that it
\* has, and nothing under an id without an event or without a child.  The index may still
\* list events that are gone as children.
Whole(d) ==
    /\ \A i \in Keys(d) : d.events[i].parents \subseteq Keys(d)
    /\ \A i \in Keys(d) : \A p : <<p, i>> \in d.children <=> p \in d.events[i].parents
    /\ \A x \in d.children : \E p \in Keys(d) : \E c : x = <<p, c>>
    /\ \A x \in d.children : \E i \in Keys(d) : x[1] \in d.events[i].parents
    /\ Founded(d)

\* The tips cover such a history.
LEMMA WholeIsCovered ==
    ASSUME NEW d, Finite(d), Whole(d)
    PROVE  IsCausallyClosed(d) /\ FrontierCovers(d)
  <1> DEFINE D == [events |-> d.events, children |-> EdgesOf(d.events), ancestry_cache |-> <<>>]
  <1>1. IsCausallyClosed(d)
    BY DEF Whole, IsCausallyClosed, MissingAncestors, AllParents
  <1>2. D.events = d.events /\ D.children = EdgesOf(d.events)
    OBVIOUS
  <1> HIDE DEF D
  <1>3. Keys(D) = Keys(d) /\ \A i : Ancestors(D, i) = Ancestors(d, i)
    BY <1>2 DEF Keys, Ancestors, Through, Universe, UpClosed
  <1>4. FrontierCovers(D)
    <2>1. Finite(D) /\ ChildrenExact(D)
      BY <1>2, <1>3 DEF Finite, ChildrenExact
    <2>2. \A k \in Keys(D) : k \notin Ancestors(D, k)
      BY <1>3, FoundedIsAcyclic DEF Whole
    <2>3. QED
      BY <2>1, <2>2, ForwardEnds
  <1>5. Frontier(D) \subseteq Frontier(d)
    <2> SUFFICES ASSUME NEW i \in Frontier(D), NEW x \in d.children, x[1] = i PROVE FALSE
      BY <1>3 DEF Frontier
    <2>1. PICK c \in Keys(d) : i \in d.events[c].parents
      BY DEF Whole
    <2>2. <<i, c>> \in D.children
      BY <1>2, <2>1, EdgeIsPointer DEF Keys
    <2>3. QED
      BY <2>2 DEF Frontier
  <1>6. QED
    BY <1>1, <1>3, <1>4, <1>5 DEF FrontierCovers, Precedes

\* A history is as whole as another with the same events and index.
LEMMA WholeAgrees ==
    ASSUME NEW d, NEW D, Keys(D) = Keys(d), D.children = d.children,
           \A i \in Keys(d) : D.events[i].parents = d.events[i].parents, Whole(d)
    PROVE  Whole(D)
  BY DEF Whole, Founded

\* The empty history is whole.
LEMMA EmptyIsWhole == Whole(EmptyDag)
  <1>1. Keys(EmptyDag) = {} /\ EmptyDag.children = {}
    BY DEF Keys, EmptyDag
  <1>2. QED
    BY <1>1 DEF Whole, Founded

\* Inserting an event after its parents keeps a history whole, if its id is not still
\* listed as a child of something.
LEMMA InsertKeepsWhole ==
    ASSUME NEW d, Whole(d), NEW e, e.id \notin Keys(d), e.parents \subseteq Keys(d),
           \A x \in d.children : x[2] # e.id
    PROVE  Whole(Insert(d, e))
  <1> DEFINE D == Insert(d, e)
  <1>1. /\ Keys(D) = Keys(d) \union {e.id}
        /\ \A i \in Keys(d) : D.events[i] = d.events[i]
        /\ D.events[e.id] = e
        /\ D.children = d.children \union {<<p, e.id>> : p \in e.parents}
    BY InsertFields
  <1> HIDE DEF D
  <1>2. \A i \in Keys(D) : D.events[i].parents \subseteq Keys(D)
    BY <1>1 DEF Whole
  <1>3. ASSUME NEW i \in Keys(D), NEW p
        PROVE  <<p, i>> \in D.children <=> p \in D.events[i].parents
    <2>1. CASE i = e.id
      <3>1. <<p, i>> \notin d.children
        BY <2>1
      <3>2. QED
        BY <1>1, <2>1, <3>1
    <2>2. CASE i # e.id
      <3>1. i \in Keys(d) /\ D.events[i] = d.events[i]
        BY <1>1, <2>2
      <3>2. <<p, i>> \in D.children <=> <<p, i>> \in d.children
        BY <1>1, <2>2
      <3>3. QED
        BY <3>1, <3>2 DEF Whole
    <2>3. QED
      BY <2>1, <2>2
  <1>4. ASSUME NEW x \in D.children
        PROVE  (\E p \in Keys(D) : \E c : x = <<p, c>>) /\ \E i \in Keys(D) : x[1] \in D.events[i].parents
    <2>1. CASE x \in d.children
      BY <1>1, <2>1 DEF Whole
    <2>2. CASE x \notin d.children
      <3>1. PICK p \in e.parents : x = <<p, e.id>>
        BY <1>1, <2>2
      <3>2. QED
        BY <1>1, <3>1
    <2>3. QED
      BY <2>1, <2>2
  <1>5. ASSUME NEW S \in SUBSET Keys(D), S # {}
        PROVE  \E i \in S : D.events[i].parents \intersect S = {}
    <2>1. CASE S = {e.id}
      BY <1>1, <2>1
    <2>2. CASE S # {e.id}
      <3>1. S \ {e.id} # {} /\ S \ {e.id} \in SUBSET Keys(d)
        BY <1>1, <1>5, <2>2
      <3>2. PICK i \in S \ {e.id} : d.events[i].parents \intersect (S \ {e.id}) = {}
        BY <3>1 DEF Whole, Founded
      <3>3. d.events[i].parents \subseteq Keys(d)
        BY <3>1 DEF Whole
      <3>4. QED
        BY <1>1, <3>1, <3>2, <3>3
    <2>3. QED
      BY <2>1, <2>2
  <1>6. QED
    BY <1>2, <1>3, <1>4, <1>5 DEF Whole, Founded, D

\* So does noop elimination.
LEMMA PhaseC3KeepsWhole ==
    ASSUME NEW d, Whole(d)
    PROVE  Whole(PhaseC3(d))
  <1> DEFINE D == PhaseC3(d)
             T == Noops(d)
             past(i) == d.events[i].parents
             affected == {x[2] : x \in {y \in d.children : y[1] \in T}} \ T
             rewritten == [i \in Keys(d) \ T |->
                              IF i \in affected
                              THEN WithParents(d.events[i], Resolve(d, T, past(i)))
                              ELSE d.events[i]]
  <1>1. T \subseteq Keys(d) /\ T \intersect Keys(d) = T
    BY DEF Noops
  <1>2. D = IF T = {} THEN d
            ELSE [events |-> rewritten, children |-> EdgesOf(rewritten), ancestry_cache |-> <<>>]
    BY <1>1 DEF PhaseC3, CompactTombstones
  <1>3. CASE T = {}
    BY <1>2, <1>3
  <1>4. CASE T # {}
    <2>1. D.events = rewritten /\ D.children = EdgesOf(rewritten) /\ Keys(D) = Keys(d) \ T
      BY <1>2, <1>4 DEF Keys
    <2>2. ASSUME NEW i \in Keys(d) \ T
          PROVE  D.events[i].parents = Through(d, T, past(i)) \ T
      <3>1. CASE i \in affected
        BY <2>1, <3>1 DEF WithParents, Resolve
      <3>2. CASE i \notin affected
        <4>1. past(i) \intersect T = {}
          <5> SUFFICES ASSUME NEW p \in past(i) \intersect T PROVE FALSE
            OBVIOUS
          <5>1. <<p, i>> \in d.children
            BY DEF Whole
          <5>2. QED
            BY <3>2, <5>1
        <4>2. Through(d, T, past(i)) = past(i)
          BY <4>1, ThroughOutside
        <4>3. QED
          BY <2>1, <3>2, <4>1, <4>2
      <3>3. QED
        BY <3>1, <3>2
    <2>3. D.children = EdgesOf(D.events)
      BY <2>1
    <2> HIDE DEF D, rewritten
    <2>4. \A i \in Keys(D) : \A p : <<p, i>> \in D.children <=> p \in D.events[i].parents
      BY <2>3, EdgeIsPointer DEF Keys
    <2>5. ASSUME NEW i \in Keys(D) PROVE D.events[i].parents \subseteq Keys(D)
      <3>1. UpClosed(d, T, Keys(d)) /\ past(i) \subseteq Keys(d)
        BY <1>1, <2>1 DEF Whole, UpClosed
      <3>2. Through(d, T, past(i)) \subseteq Keys(d)
        BY <3>1, ThroughLeast
      <3>3. QED
        BY <2>1, <2>2, <3>2
    <2>6. ASSUME NEW x \in D.children
          PROVE  (\E p \in Keys(D) : \E c : x = <<p, c>>) /\ \E i \in Keys(D) : x[1] \in D.events[i].parents
      <3>1. PICK i \in Keys(D) : \E p \in D.events[i].parents : x = <<p, i>>
        BY <2>3 DEF EdgesOf, Keys
      <3>2. QED
        BY <2>5, <3>1
    <2>7. ASSUME NEW S \in SUBSET Keys(D), S # {}
          PROVE  \E i \in S : D.events[i].parents \intersect S = {}
      <3> DEFINE Apart(Y) == Y \intersect S = {} /\ \A i \in Y : past(i) \subseteq Y
                 X == UNION {Y \in SUBSET Keys(d) : Apart(Y)}
      <3>1. Apart(X)
        OBVIOUS
      <3>2. Keys(d) \ X # {}
        BY <2>1, <2>7, <3>1
      <3>3. PICK j \in Keys(d) \ X : past(j) \intersect (Keys(d) \ X) = {}
        BY <3>2 DEF Whole, Founded
      <3>4. past(j) \subseteq X
        BY <3>3 DEF Whole
      <3>5. j \in S
        <4>1. SUFFICES ASSUME j \notin S PROVE FALSE
          OBVIOUS
        <4>2. Apart(X \union {j}) /\ X \union {j} \in SUBSET Keys(d)
          BY <3>1, <3>4, <4>1
        <4> HIDE DEF Apart
        <4>3. j \in X
          BY <4>2
        <4>4. QED
          BY <3>3, <4>3
      <3>6. UpClosed(d, T, X)
        BY <3>1 DEF UpClosed
      <3>7. Through(d, T, past(j)) \subseteq X
        BY <3>4, <3>6, ThroughLeast
      <3> HIDE DEF X
      <3>8. D.events[j].parents \subseteq X
        BY <2>1, <2>2, <3>5, <3>7
      <3>9. QED
        BY <3>1, <3>5, <3>8
    <2>8. QED
      BY <2>4, <2>5, <2>6, <2>7 DEF Whole, Founded, D
  <1>5. QED
    BY <1>3, <1>4

----------------------------------------------------------------------------
\* The nodes W of a loop over N wait for one another only, and in the end for nothing.
Awaits(children, N, W, Q) ==
    /\ W \subseteq N
    /\ \A c \in W : IsFiniteSet(Q[c]) /\ Q[c] \subseteq W
    /\ \A x \in N, c \in W : <<x, c>> \in children <=> x \in Q[c]
    /\ \A S \in SUBSET W : S # {} => \E c \in S : Q[c] \intersect S = {}

\* A turn lists a node when it listed one of those that the node waits for and they have
\* all been listed, even if its in-degree was entered too low; and only nodes with
\* something to wait for in the level before.
LEMMA TurnLists ==
    ASSUME NEW children, NEW N, IsFiniteSet(N), NEW W, NEW Q, Awaits(children, N, W, Q),
           NEW t, Counted(N, t), NEW L,
           \A c \in W : t.degree[c] <= Cardinality(Q[c] \ L),
           NEW c \in W
    PROVE  LET D == DOMAIN t.level
               u == Turn(children, t)
           IN  /\ u.degree[c] <= Cardinality(Q[c] \ (L \union D))
               /\ Q[c] \intersect D # {} /\ Q[c] \subseteq L \union D => c \in DOMAIN u.level
               /\ c \in DOMAIN u.level => Q[c] \intersect D # {}
  <1> DEFINE D      == DOMAIN t.level
             u      == Turn(children, t)
             M      == Q[c] \intersect D
             S      == {x \in Listings(t.level) : <<x[1], c>> \in children}
             minus  == [k \in N |-> Cardinality({x \in Listings(t.level) : <<x[1], k>> \in children})]
             pushes == [k \in N |-> Pushes(t.degree[k], minus[k])]
  <1>1. /\ t.degree \in [N -> Nat] /\ DOMAIN t.degree = N /\ c \in N
        /\ D \subseteq N /\ \A i \in D : t.level[i] \in Nat \ {0}
    BY DEF Counted, Awaits
  <1>2. /\ u.degree = [k \in N |-> Less(t.degree[k], minus[k])]
        /\ u.level = [k \in {x \in N : pushes[x] > 0} |-> pushes[k]]
    BY <1>1 DEF Turn
  <1>3. IsFiniteSet(M) /\ IsFiniteSet(S) /\ Cardinality(S) \in Nat /\ Cardinality(M) \in Nat
    <2>1. IsFiniteSet(Listings(t.level))
      BY ListingsFinite DEF Counted
    <2>2. IsFiniteSet(Q[c]) /\ M \in SUBSET Q[c] /\ S \in SUBSET Listings(t.level)
      BY DEF Awaits
    <2> HIDE DEF M, S
    <2>3. IsFiniteSet(M) /\ IsFiniteSet(S)
      BY <2>1, <2>2, FS_Subset
    <2>4. QED
      BY <2>3, FS_CardinalityType
  <1>4. Cardinality(M) <= Cardinality(S)
    <2> DEFINE F == {<<p, 1>> : p \in M}
               f == [p \in M |-> <<p, 1>>]
    <2>1. F \in SUBSET S
      <3> SUFFICES ASSUME NEW p \in M PROVE <<p, 1>> \in S
        OBVIOUS
      <3>1. <<p, c>> \in children
        BY <1>1 DEF Awaits
      <3>2. 1 \in 1 .. t.level[p]
        BY <1>1
      <3>3. <<p, 1>> \in Listings(t.level)
        BY <3>2 DEF Listings
      <3>4. QED
        BY <3>1, <3>3
    <2>2. f \in Bijection(M, F)
      BY DEF Bijection, Injection, Surjection, IsInjective
    <2> HIDE DEF f, F, M, S
    <2>3. Cardinality(F) = Cardinality(M)
      BY <1>3, <2>2, FS_Bijection DEF ExistsBijection
    <2>4. QED
      BY <1>3, <2>1, <2>3, FS_Subset
  <1>5. M = {} => Cardinality(S) = 0
    <2> SUFFICES ASSUME M = {} PROVE S = {}
      BY FS_EmptySet
    <2> SUFFICES ASSUME NEW x \in S PROVE FALSE
      OBVIOUS
    <2>1. x[1] \in D
      BY DEF Listings
    <2>2. x[1] \in Q[c]
      BY <1>1, <2>1 DEF Awaits
    <2>3. QED
      BY <2>1, <2>2
  <1>6. M # {} => Cardinality(M) > 0
    BY <1>3, FS_EmptySet
  <1>7. /\ Cardinality(Q[c] \ L) <= Cardinality(M) + Cardinality(Q[c] \ (L \union D))
        /\ Cardinality(Q[c] \ (L \union D)) \in Nat /\ Cardinality(Q[c] \ L) \in Nat
        /\ Q[c] \subseteq L \union D => Cardinality(Q[c] \ (L \union D)) = 0
    <2>1. IsFiniteSet(Q[c] \ (L \union D)) /\ IsFiniteSet(Q[c] \ L) /\ IsFiniteSet((Q[c] \ L) \intersect D)
      BY FS_Subset DEF Awaits
    <2>2. Cardinality((Q[c] \ L) \ D) = Cardinality(Q[c] \ L) - Cardinality((Q[c] \ L) \intersect D)
      BY <2>1, FS_Difference
    <2>3. (Q[c] \ L) \ D = Q[c] \ (L \union D)
      OBVIOUS
    <2>4. (Q[c] \ L) \intersect D \in SUBSET M
      OBVIOUS
    <2>5. Cardinality((Q[c] \ L) \intersect D) <= Cardinality(M)
      BY <1>3, <2>4, FS_Subset
    <2>6. /\ Cardinality((Q[c] \ L) \intersect D) \in Nat /\ Cardinality(Q[c] \ L) \in Nat
          /\ Cardinality(Q[c] \ (L \union D)) \in Nat
          /\ Q[c] \subseteq L \union D => Cardinality(Q[c] \ (L \union D)) = 0
      BY <2>1, FS_CardinalityType, FS_EmptySet
    <2>7. Cardinality(Q[c] \ (L \union D)) = Cardinality(Q[c] \ L) - Cardinality((Q[c] \ L) \intersect D)
      BY <2>2, <2>3
    <2> HIDE DEF D, M
    <2>8. QED
      BY <1>3, <2>5, <2>6, <2>7
  <1>8. minus[c] = Cardinality(S) /\ pushes[c] = Pushes(t.degree[c], Cardinality(S))
    BY <1>1
  <1>9. /\ u.degree[c] = Less(t.degree[c], Cardinality(S))
        /\ c \in DOMAIN u.level <=> Pushes(t.degree[c], Cardinality(S)) > 0
    <2> HIDE DEF u, S, minus, pushes
    <2>1. QED
      BY <1>1, <1>2, <1>8
  <1> DEFINE g == t.degree[c]
             q == Cardinality(Q[c] \ L)
             r == Cardinality(Q[c] \ (L \union D))
             s == Cardinality(S)
             m == Cardinality(M)
  <1>10. /\ g \in Nat /\ q \in Nat /\ r \in Nat /\ s \in Nat /\ m \in Nat
         /\ g <= q /\ q <= m + r /\ m <= s /\ (M = {} => s = 0) /\ (M # {} => m > 0)
         /\ Q[c] \subseteq L \union D => r = 0
    BY <1>1, <1>3, <1>4, <1>5, <1>6, <1>7
  <1>11. /\ u.degree[c] = Less(g, s)
         /\ c \in DOMAIN u.level <=> Pushes(g, s) > 0
    BY <1>9
  <1> HIDE DEF g, q, r, s, m, u, M, D
  <1>12. Less(g, s) <= r
    BY <1>10 DEF Less
  <1>13. M # {} /\ r = 0 => Pushes(g, s) > 0
    BY <1>10 DEF Less, Pushes
  <1>14. Pushes(g, s) > 0 => M # {}
    BY <1>10 DEF Less, Pushes
  <1>15. QED
    BY <1>10, <1>11, <1>12, <1>13, <1>14 DEF r, u, M, D

\* Among some numbers up to a bound one is the greatest.
LEMMA GreatestNumber ==
    ASSUME NEW last \in Nat, NEW T \in SUBSET (0 .. last), T # {}
    PROVE  \E x \in T : \A y \in T : y <= x
  <1> DEFINE R == {last - x : x \in T}
  <1>1. R \in SUBSET Nat /\ R # {}
    <2>1. \A x \in T : last - x \in Nat
      OBVIOUS
    <2>2. QED
      BY <2>1
  <1>2. PICK z \in R : \A y \in R : z <= y
    <2> HIDE DEF R
    <2>1. QED
      BY <1>1, LeastNumber
  <1>3. PICK x \in T : z = last - x
    OBVIOUS
  <1>4. ASSUME NEW y \in T PROVE y <= x
    <2>1. last - y \in R
      OBVIOUS
    <2>2. last - x <= last - y
      BY <1>2, <1>3, <2>1
    <2>3. QED
      BY <2>2
  <1>5. QED
    BY <1>4

----------------------------------------------------------------------------
\* No in-degree is entered too high, and what waits for nothing is in the first level.
StartsLow(N, W, Q, start) ==
    /\ Counted(N, start)
    /\ \A c \in W : /\ start.degree[c] <= Cardinality(Q[c])
                    /\ Q[c] = {} => c \in DOMAIN start.level

\* The levels list every node of W, in the end after all that it waits for.
ListsAll(levels, N, W, Q) ==
    /\ Cardinality(N) \in Nat
    /\ DOMAIN levels = 0 .. Cardinality(N)
    /\ \A n \in DOMAIN levels : DOMAIN levels[n] \subseteq N
    /\ \A c \in W : \E n \in DOMAIN levels :
          /\ c \in DOMAIN levels[n]
          /\ \A k \in DOMAIN levels : Q[c] \intersect DOMAIN levels[k] # {} => k < n

\* Kahn's loop does so: a node may have been entered with too low an in-degree and listed
\* too early, but then it is listed again.  As many turns as there are nodes are enough.
LEMMA KahnReaches ==
    ASSUME NEW children, NEW N, IsFiniteSet(N), NEW W, NEW Q, Awaits(children, N, W, Q),
           NEW start, StartsLow(N, W, Q, start)
    PROVE  ListsAll(Kahn(children, start), N, W, Q)
  <1> DEFINE levels == Kahn(children, start)
             last == Cardinality(N)
             D(n) == DOMAIN levels[n]
             L(n) == Before(levels, n)
  <1>1. last \in Nat /\ IsFiniteSet(W) /\ Cardinality(W) \in Nat /\ Cardinality(W) <= last
    <2>1. W \in SUBSET N
      BY DEF Awaits
    <2>2. QED
      BY <2>1, FS_Subset, FS_CardinalityType
  <1>2. PICK f : IsRun(children, start, last, f)
    <2>1. DOMAIN start.degree = N
      BY DEF StartsLow, Counted
    <2>2. QED
      BY <1>1, <2>1, KahnTurns
  <1>3. DOMAIN levels = 0 .. last /\ \A n \in 0 .. last : levels[n] = f[n].level
    BY <1>2 DEF IsRun
  <1> HIDE DEF levels
  <1> DEFINE Ok(n) == Counted(N, f[n]) /\ \A c \in W : f[n].degree[c] <= Cardinality(Q[c] \ L(n))
  <1>4. Ok(0)
    <2>1. L(0) = {} /\ \A c \in W : Q[c] \ {} = Q[c]
      BY DEF Before
    <2>2. QED
      BY <1>2, <2>1 DEF IsRun, StartsLow
  <1>5. ASSUME NEW n \in 1 .. last, Ok(n - 1)
        PROVE  /\ Ok(n)
               /\ \A c \in W : /\ Q[c] \intersect D(n - 1) # {} /\ Q[c] \subseteq L(n) => c \in D(n)
                               /\ c \in D(n) => Q[c] \intersect D(n - 1) # {}
    <2>1. n \in 0 .. last /\ n - 1 \in 0 .. last
      BY <1>1
    <2>2. /\ f[n] = Turn(children, f[n - 1])
          /\ D(n - 1) = DOMAIN f[n - 1].level /\ D(n) = DOMAIN f[n].level
      BY <1>2, <1>3, <2>1 DEF IsRun
    <2>3. L(n) = L(n - 1) \union D(n - 1)
      <3>1. 0 .. n - 1 = (0 .. (n - 1) - 1) \union {n - 1}
        BY <1>1
      <3>2. QED
        BY <3>1 DEF Before
    <2>4. Counted(N, f[n])
      BY <1>5, <2>2, TurnCounts
    <2> HIDE DEF L, D
    <2>5. ASSUME NEW c \in W
          PROVE  /\ f[n].degree[c] <= Cardinality(Q[c] \ L(n))
                 /\ Q[c] \intersect D(n - 1) # {} /\ Q[c] \subseteq L(n) => c \in D(n)
                 /\ c \in D(n) => Q[c] \intersect D(n - 1) # {}
      <3> DEFINE t == f[n - 1]
                 u == Turn(children, t)
      <3>1. Counted(N, t) /\ \A k \in W : t.degree[k] <= Cardinality(Q[k] \ L(n - 1))
        BY <1>5
      <3> HIDE DEF t
      <3>2. /\ u.degree[c] <= Cardinality(Q[c] \ (L(n - 1) \union DOMAIN t.level))
            /\ Q[c] \intersect DOMAIN t.level # {} /\ Q[c] \subseteq L(n - 1) \union DOMAIN t.level
                   => c \in DOMAIN u.level
            /\ c \in DOMAIN u.level => Q[c] \intersect DOMAIN t.level # {}
        BY <3>1, TurnLists
      <3>3. QED
        BY <2>2, <2>3, <3>2 DEF t
    <2>6. QED
      BY <2>4, <2>5
  <1> HIDE DEF D, L
  <1>6. \A n \in 0 .. last : Ok(n)
    <2> DEFINE Wrong == {n \in 0 .. last : ~Ok(n)}
    <2>1. SUFFICES ASSUME Wrong # {} PROVE FALSE
      OBVIOUS
    <2>2. PICK n \in Wrong : \A k \in Wrong : n <= k
      <3>1. Wrong \in SUBSET Nat
        BY <1>1
      <3> HIDE DEF Wrong
      <3>2. QED
        BY <2>1, <3>1, LeastNumber
    <2>3. n \in 1 .. last /\ n - 1 \in 0 .. last /\ n - 1 < n
      BY <1>1, <1>4, <2>2
    <2>4. Ok(n - 1)
      BY <1>1, <2>2, <2>3
    <2>5. QED
      BY <1>5, <2>2, <2>3, <2>4
  <1>7. ASSUME NEW n \in 1 .. last, NEW c \in W
        PROVE  /\ Q[c] \intersect D(n - 1) # {} /\ Q[c] \subseteq L(n) => c \in D(n)
               /\ c \in D(n) => Q[c] \intersect D(n - 1) # {}
    <2>1. n - 1 \in 0 .. last
      BY <1>1
    <2>2. QED
      BY <1>5, <1>6, <2>1
  <1>8. \A n \in 0 .. last : D(n) \subseteq N
    BY <1>3, <1>6 DEF Counted, D
  <1> HIDE DEF Ok
  <1> DEFINE R(n) == {c \in W : \E m \in n .. last : c \in D(m)}
  <1>9. ASSUME NEW n \in 0 .. last, n # last, R(n) # {}
        PROVE  R(n + 1) # R(n)
    <2> SUFFICES ASSUME R(n + 1) = R(n) PROVE FALSE
      OBVIOUS
    <2>1. R(n) \in SUBSET W
      OBVIOUS
    <2> HIDE DEF R
    <2>2. PICK c \in R(n) : Q[c] \intersect R(n) = {}
      BY <1>9, <2>1 DEF Awaits
    <2>3. PICK m \in n + 1 .. last : c \in D(m) /\ c \in W
      BY <2>2 DEF R
    <2>4. m \in 1 .. last /\ m - 1 \in n .. last
      BY <1>1, <2>3
    <2>5. PICK p \in Q[c] : p \in D(m - 1)
      BY <1>7, <2>3, <2>4
    <2>6. p \in R(n)
      BY <2>3, <2>4, <2>5 DEF R, Awaits
    <2>7. QED
      BY <2>2, <2>5, <2>6
  <1>10. R(last) = {}
    <2> DEFINE Long == {n \in 0 .. last : R(n) # {} /\ ~(Cardinality(R(n)) + n <= Cardinality(W))}
    <2>1. \A n \in 0 .. last : IsFiniteSet(R(n)) /\ Cardinality(R(n)) \in Nat /\ Cardinality(R(n)) <= Cardinality(W)
      <3> SUFFICES ASSUME NEW n \in 0 .. last
                   PROVE  IsFiniteSet(R(n)) /\ Cardinality(R(n)) \in Nat /\ Cardinality(R(n)) <= Cardinality(W)
        OBVIOUS
      <3>1. R(n) \in SUBSET W
        OBVIOUS
      <3> HIDE DEF R
      <3>2. QED
        BY <1>1, <3>1, FS_Subset, FS_CardinalityType
    <2>2. \A n \in 0 .. last : n # 0 => R(n) \subseteq R(n - 1)
      BY <1>1
    <2> HIDE DEF R
    <2>3. Long = {}
      <3>1. SUFFICES ASSUME Long # {} PROVE FALSE
        OBVIOUS
      <3>2. PICK n \in Long : \A k \in Long : n <= k
        <4>1. Long \in SUBSET Nat
          BY <1>1
        <4> HIDE DEF Long
        <4>2. QED
          BY <3>1, <4>1, LeastNumber
      <3>3. n # 0
        BY <1>1, <2>1, <3>2
      <3>4. n - 1 \in 0 .. last /\ n - 1 # last /\ n - 1 < n /\ (n - 1) + 1 = n
        BY <1>1, <3>2, <3>3
      <3>5. R(n) \in SUBSET R(n - 1) /\ R(n - 1) # {}
        BY <2>2, <3>2, <3>3
      <3>6. R(n) # R(n - 1)
        BY <1>9, <3>4, <3>5
      <3>7. Cardinality(R(n)) <= Cardinality(R(n - 1)) /\ Cardinality(R(n)) # Cardinality(R(n - 1))
        BY <2>1, <3>4, <3>5, <3>6, FS_Subset
      <3>8. Cardinality(R(n - 1)) + (n - 1) <= Cardinality(W)
        BY <1>1, <3>2, <3>4, <3>5
      <3>9. QED
        BY <1>1, <2>1, <3>2, <3>4, <3>7, <3>8
    <2>4. last \in 0 .. last
      BY <1>1
    <2>5. R(last) # {} => Cardinality(R(last)) # 0
      BY <2>1, <2>4, FS_EmptySet
    <2>6. QED
      BY <1>1, <2>1, <2>3, <2>4, <2>5
  <1> DEFINE After(c, n) == /\ c \in D(n)
                            /\ \A k \in 0 .. last : Q[c] \intersect D(k) # {} => k < n
             Bad == {c \in W : ~\E n \in 0 .. last : After(c, n)}
  <1>11. Bad = {}
    <2>1. SUFFICES ASSUME Bad # {} PROVE FALSE
      OBVIOUS
    <2>2. PICK c \in Bad : Q[c] \intersect Bad = {}
      <3>1. Bad \in SUBSET W
        OBVIOUS
      <3> HIDE DEF Bad
      <3>2. QED
        BY <2>1, <3>1 DEF Awaits
    <2>3. CASE Q[c] = {}
      <3>1. 0 \in 0 .. last
        BY <1>1
      <3>2. c \in D(0)
        BY <1>2, <1>3, <2>2, <2>3, <3>1 DEF D, IsRun, StartsLow
      <3>3. QED
        BY <2>2, <2>3, <3>1, <3>2
    <2>4. CASE Q[c] # {}
      <3> DEFINE T == {k \in 0 .. last : Q[c] \intersect D(k) # {}}
      <3>1. \A p \in Q[c] : \E k \in T : p \in D(k)
        BY <2>2 DEF Awaits
      <3>2. PICK k \in T : \A j \in T : j <= k
        <4>1. T \in SUBSET (0 .. last) /\ T # {}
          BY <2>4, <3>1
        <4> HIDE DEF T
        <4>2. QED
          BY <1>1, <4>1, GreatestNumber
      <3>3. k # last
        <4>1. PICK p \in Q[c] : p \in D(k)
          BY <3>2
        <4>2. p \in W
          BY <2>2, <4>1 DEF Awaits
        <4>3. last \in last .. last
          BY <1>1
        <4>4. QED
          BY <1>10, <4>1, <4>2, <4>3
      <3>4. k + 1 \in 1 .. last /\ k + 1 \in 0 .. last /\ (k + 1) - 1 = k
        BY <1>1, <3>2, <3>3
      <3>5. Q[c] \subseteq L(k + 1)
        <4> SUFFICES ASSUME NEW p \in Q[c] PROVE p \in L(k + 1)
          OBVIOUS
        <4>1. PICK j \in T : p \in D(j)
          BY <3>1
        <4>2. j \in 0 .. (k + 1) - 1
          BY <1>1, <3>2, <4>1
        <4>3. QED
          BY <4>1, <4>2 DEF L, Before, D
      <3>6. Q[c] \intersect D((k + 1) - 1) # {}
        BY <3>2, <3>4
      <3>7. c \in D(k + 1)
        BY <1>7, <2>2, <3>4, <3>5, <3>6
      <3>8. \A j \in 0 .. last : Q[c] \intersect D(j) # {} => j < k + 1
        BY <1>1, <3>2
      <3>9. QED
        BY <2>2, <3>4, <3>7, <3>8
    <2>5. QED
      BY <2>3, <2>4
  <1>12. \A c \in W : \E n \in 0 .. last : After(c, n)
    BY <1>11
  <1>13. QED
    BY <1>1, <1>3, <1>8, <1>12 DEF D, ListsAll, levels

----------------------------------------------------------------------------
\* The loop hashes the keys of d among its nodes; the rest of their parents is cached.
Hashable(d, cache, N, W, Q) ==
    /\ W = N \intersect Keys(d)
    /\ \A c \in W : /\ Q[c] = d.events[c].parents \intersect W
                    /\ d.events[c].parents \subseteq W \union DOMAIN cache

\* The cache C has for every key of W the hash that it gives it itself, and otherwise what
\* the earlier cache has.
HashesAll(C, cache, d, W) ==
    /\ W \subseteq DOMAIN C /\ DOMAIN cache \subseteq DOMAIN C
    /\ \A i \in DOMAIN cache \ W : C[i] = cache[i]
    /\ \A c \in W : C[c] = ConeHash(d.events[c], C)

\* That is what the levels of such a loop leave in the cache.
LEMMA LoopHashes ==
    ASSUME NEW d, NEW cache, NEW N, IsFiniteSet(N), NEW W, NEW Q,
           Hashable(d, cache, N, W, Q), Awaits(d.children, N, W, Q),
           NEW start, StartsLow(N, W, Q, start)
    PROVE  HashesAll(HashLevels(cache, Kahn(d.children, start), d), cache, d, W)
  <1> DEFINE levels == Kahn(d.children, start)
             C      == HashLevels(cache, levels, d)
             last   == Cardinality(N)
             H(n)   == DOMAIN levels[n] \intersect Keys(d)
  <1>1. /\ last \in Nat
        /\ DOMAIN levels = 0 .. last
        /\ \A n \in 0 .. last : DOMAIN levels[n] \subseteq N
        /\ \A c \in W : \E n \in 0 .. last :
              /\ c \in DOMAIN levels[n]
              /\ \A k \in 0 .. last : Q[c] \intersect DOMAIN levels[k] # {} => k < n
    <2>1. ListsAll(levels, N, W, Q)
      BY KahnReaches
    <2> HIDE DEF levels
    <2>2. QED
      BY <2>1 DEF ListsAll
  <1> HIDE DEF levels
  <1>2. PICK f : IsHashing(cache, levels, d, last, f)
    BY <1>1, LevelsAreHashed
  <1> DEFINE c(n) == IF n = 0 THEN cache ELSE f[n - 1]
  <1>3. \A n \in 0 .. last : c(n + 1) = Hashed(c(n), levels[n], d)
    <2> SUFFICES ASSUME NEW n \in 0 .. last PROVE c(n + 1) = Hashed(c(n), levels[n], d)
      OBVIOUS
    <2>1. c(n + 1) = f[n]
      BY <1>1
    <2>2. CASE n = 0
      BY <1>2, <2>1, <2>2 DEF IsHashing
    <2>3. CASE n # 0
      <3>1. n \in 1 .. last
        BY <1>1, <2>3
      <3>2. QED
        BY <1>2, <2>1, <2>3, <3>1 DEF IsHashing
    <2>4. QED
      BY <2>2, <2>3
  <1>4. c(0) = cache /\ C = c(last + 1)
    BY <1>1, <1>2 DEF IsHashing
  <1> HIDE DEF c, C
  <1>5. \A n \in 0 .. last : /\ DOMAIN c(n + 1) = DOMAIN c(n) \union H(n)
                             /\ \A i \in H(n) : c(n + 1)[i] = ConeHash(d.events[i], c(n))
                             /\ \A i \in DOMAIN c(n) \ H(n) : c(n + 1)[i] = c(n)[i]
    <2> SUFFICES ASSUME NEW n \in 0 .. last
                 PROVE  /\ DOMAIN c(n + 1) = DOMAIN c(n) \union H(n)
                        /\ \A i \in H(n) : c(n + 1)[i] = ConeHash(d.events[i], c(n))
                        /\ \A i \in DOMAIN c(n) \ H(n) : c(n + 1)[i] = c(n)[i]
      OBVIOUS
    <2>1. c(n + 1) = [i \in DOMAIN c(n) \union H(n) |->
                        IF i \in H(n) THEN ConeHash(d.events[i], c(n)) ELSE c(n)[i]]
      BY <1>3 DEF Hashed
    <2> HIDE DEF H
    <2>2. QED
      BY <2>1
  <1>6. \A n \in 0 .. last : H(n) \subseteq W
    BY <1>1 DEF Hashable
  <1> HIDE DEF H
  <1>7. ASSUME NEW n \in 0 .. last + 1, NEW i \in DOMAIN c(n)
        PROVE  \A m \in n .. last + 1 : /\ i \in DOMAIN c(m)
                                        /\ (\A k \in n .. m - 1 : i \notin H(k)) => c(m)[i] = c(n)[i]
    <2> DEFINE Kept(m) == /\ i \in DOMAIN c(m)
                          /\ (\A k \in n .. m - 1 : i \notin H(k)) => c(m)[i] = c(n)[i]
               Lost    == {m \in n .. last + 1 : ~Kept(m)}
    <2>1. SUFFICES ASSUME Lost # {} PROVE FALSE
      OBVIOUS
    <2>2. PICK m \in Lost : \A k \in Lost : m <= k
      <3>1. Lost \in SUBSET Nat
        BY <1>1
      <3> HIDE DEF Lost
      <3>2. QED
        BY <2>1, <3>1, LeastNumber
    <2>3. m # n
      BY <1>7, <2>2
    <2>4. m - 1 \in n .. last + 1 /\ m - 1 \in 0 .. last /\ m - 1 < m /\ m - 1 + 1 = m
      BY <1>1, <2>2, <2>3
    <2>5. Kept(m - 1)
      BY <1>1, <2>2, <2>4
    <2>6. n .. m - 1 = (n .. (m - 1) - 1) \union {m - 1}
      BY <1>1, <2>4
    <2>7. i \in DOMAIN c(m - 1 + 1) /\ (i \notin H(m - 1) => c(m - 1 + 1)[i] = c(m - 1)[i])
      BY <1>5, <2>4, <2>5
    <2>8. i \in DOMAIN c(m) /\ (i \notin H(m - 1) => c(m)[i] = c(m - 1)[i])
      BY <2>4, <2>7
    <2>9. Kept(m)
      BY <2>5, <2>6, <2>8
    <2>10. QED
      BY <2>2, <2>9
  <1>8. \A n \in 0 .. last + 1 : \A i \in DOMAIN c(n) : i \in DOMAIN C
    BY <1>1, <1>4, <1>7
  <1>9. ASSUME NEW i \in DOMAIN cache \ W, NEW m \in 0 .. last + 1
        PROVE  i \in DOMAIN c(m) /\ c(m)[i] = cache[i]
    BY <1>1, <1>4, <1>6, <1>7
  <1>10. ASSUME NEW w \in W PROVE w \in DOMAIN C /\ C[w] = ConeHash(d.events[w], C)
    <2>1. PICK n0 \in 0 .. last :
             /\ w \in DOMAIN levels[n0]
             /\ \A k \in 0 .. last : Q[w] \intersect DOMAIN levels[k] # {} => k < n0
      BY <1>1
    <2> DEFINE T == {n \in 0 .. last : w \in H(n)}
    <2>2. n0 \in T
      BY <2>1 DEF H, Hashable
    <2>3. PICK n \in T : \A k \in T : k <= n
      <3>1. T \in SUBSET (0 .. last) /\ T # {}
        BY <2>2
      <3> HIDE DEF T
      <3>2. QED
        BY <1>1, <3>1, GreatestNumber
    <2>4. n \in 0 .. last /\ n \in 0 .. last + 1 /\ n + 1 \in 0 .. last + 1
          /\ last + 1 \in n + 1 .. last + 1 /\ last + 1 \in n .. last + 1 /\ (last + 1) - 1 = last
      BY <1>1, <2>3
    <2>5. w \in DOMAIN c(n + 1) /\ c(n + 1)[w] = ConeHash(d.events[w], c(n))
      BY <1>5, <2>3
    <2>6. C[w] = ConeHash(d.events[w], c(n)) /\ w \in DOMAIN C
      <3>1. \A k \in n + 1 .. last : w \notin H(k)
        BY <1>1, <2>3
      <3>2. QED
        BY <1>4, <1>7, <2>4, <2>5, <3>1
    <2>7. ASSUME NEW p \in d.events[w].parents
          PROVE  p \in DOMAIN c(n) /\ p \in DOMAIN C /\ c(n)[p] = C[p]
      <3>1. CASE p \in W
        <4>1. p \in Q[w]
          BY <3>1 DEF Hashable
        <4>2. \A k \in 0 .. last : p \in H(k) => k < n0
          BY <2>1, <4>1 DEF H
        <4>3. PICK j \in 0 .. last : p \in H(j)
          BY <1>1, <3>1 DEF H, Hashable
        <4>4. j + 1 \in 0 .. last + 1 /\ n \in j + 1 .. last + 1
          BY <1>1, <2>2, <2>3, <4>2, <4>3
        <4>5. p \in DOMAIN c(j + 1)
          BY <1>5, <4>3
        <4>6. p \in DOMAIN c(n)
          BY <1>7, <4>4, <4>5
        <4>7. \A k \in n .. last : p \notin H(k)
          BY <1>1, <2>2, <2>3, <4>2
        <4>8. QED
          BY <1>4, <1>7, <1>8, <2>4, <4>6, <4>7
      <3>2. CASE p \notin W
        <4>1. p \in DOMAIN cache \ W
          BY <3>2 DEF Hashable
        <4>2. last + 1 \in 0 .. last + 1
          BY <1>1
        <4>3. QED
          BY <1>4, <1>9, <2>4, <4>1, <4>2
      <3>3. QED
        BY <3>1, <3>2
    <2>8. ConeHash(d.events[w], c(n)) = ConeHash(d.events[w], C)
      BY <2>7, ConeHashAgrees
    <2>9. QED
      BY <2>6, <2>8
  <1>11. DOMAIN cache \subseteq DOMAIN C /\ \A i \in DOMAIN cache \ W : C[i] = cache[i]
    <2>1. last + 1 \in 0 .. last + 1 /\ 0 \in 0 .. last + 1
      BY <1>1
    <2>2. QED
      BY <1>4, <1>8, <1>9, <2>1
  <1>12. QED
    BY <1>10, <1>11 DEF HashesAll, C, levels

----------------------------------------------------------------------------
\* The topological order starts with numbers of parents.
LEMMA OrderCounts ==
    ASSUME NEW d, Finite(d), IsFiniteSet(d.children)
    PROVE  Counted(Ids(d), [degree |-> InDegree(d), level |-> FirstLevel(d)])
  <1> DEFINE N     == Ids(d)
             start == [degree |-> InDegree(d), level |-> FirstLevel(d)]
  <1>1. InDegree(d) \in [N -> Nat]
    <2> SUFFICES ASSUME NEW i \in N
                 PROVE  Cardinality({x \in Keys(d) \X AllParents(d) :
                            d.events[x[1]].id = i /\ x[2] \in d.events[x[1]].parents}) \in Nat
      BY DEF InDegree
    <2>1. IsFiniteSet(Keys(d) \X AllParents(d))
      BY FinitelyManyIds, FS_Product DEF Finite
    <2>2. QED
      BY <2>1, FS_Subset, FS_CardinalityType
  <1>2. Entered(d) \subseteq N
    BY DEF Entered, Ids
  <1>3. /\ DOMAIN FirstLevel(d) \subseteq N
        /\ \A i \in DOMAIN FirstLevel(d) : FirstLevel(d)[i] = 1
    BY <1>2 DEF FirstLevel
  <1>4. QED
    BY <1>1, <1>3 DEF Counted

\* Every event has the hash of its present cone.
Exact(d, cache) ==
    \A i \in Keys(d) : i \in DOMAIN cache /\ cache[i] = ConeHash(d.events[i], cache)

\* No event carries the id that another one is stored under.
IdsAreOwn(d) == \A i, j \in Keys(d) : d.events[i].id = j => i = j

\* Hashing a whole history leaves every event with the hash of its cone, even when some
\* are no longer stored under their ids.
LEMMA ComputeAllIsExact ==
    ASSUME NEW d, Finite(d), IsFiniteSet(d.children), Whole(d), IdsAreOwn(d)
    PROVE  Exact(d, ComputeAll(d))
  <1> DEFINE N     == Ids(d)
             W     == Keys(d)
             Q     == [c \in W |-> d.events[c].parents]
             start == [degree |-> InDegree(d), level |-> FirstLevel(d)]
             C     == ComputeAll(d)
  <1>1. IsFiniteSet(N) /\ W = N \intersect Keys(d)
    BY FinitelyManyIds DEF Ids
  <1>2. Awaits(d.children, N, W, Q)
    BY <1>1 DEF Awaits, Whole, Founded, Finite
  <1>3. StartsLow(N, W, Q, start)
    <2>1. Counted(N, start)
      BY OrderCounts
    <2>2. ASSUME NEW c \in W
          PROVE  start.degree[c] <= Cardinality(Q[c]) /\ (Q[c] = {} => c \in DOMAIN start.level)
      <3> DEFINE S == {x \in Keys(d) \X AllParents(d) : /\ d.events[x[1]].id = c
                                                        /\ x[2] \in d.events[x[1]].parents}
                 F == {<<c, p>> : p \in Q[c]}
                 f == [p \in Q[c] |-> <<c, p>>]
      <3>1. start.degree[c] = Cardinality(S)
        BY <1>1 DEF InDegree
      <3>2. S \in SUBSET F
        BY DEF IdsAreOwn
      <3>3. f \in Bijection(Q[c], F)
        BY DEF Bijection, Injection, Surjection, IsInjective
      <3>4. IsFiniteSet(Q[c])
        BY DEF Finite
      <3>5. c \in Entered(d)
        BY DEF Entered
      <3>6. start.degree[c] = 0 => c \in DOMAIN start.level
        BY <3>5 DEF FirstLevel
      <3>7. Q[c] = {} => F = {}
        OBVIOUS
      <3> HIDE DEF S, F, f, Q, start
      <3>8. IsFiniteSet(F) /\ Cardinality(F) = Cardinality(Q[c])
        BY <3>3, <3>4, FS_Bijection DEF ExistsBijection
      <3>9. Cardinality(S) <= Cardinality(F)
        BY <3>2, <3>8, FS_Subset
      <3>10. Q[c] = {} => Cardinality(S) = 0
        BY <3>2, <3>7, FS_EmptySet
      <3>11. QED
        BY <3>1, <3>6, <3>8, <3>9, <3>10
    <2>3. QED
      BY <2>1, <2>2 DEF StartsLow
  <1>4. Hashable(d, <<>>, N, W, Q)
    BY <1>1 DEF Hashable, Whole
  <1>5. C = HashLevels(<<>>, Kahn(d.children, start), d)
    BY DEF ComputeAll, Levels
  <1> HIDE DEF C, start, Q, W, N
  <1>6. HashesAll(C, <<>>, d, W)
    BY <1>1, <1>2, <1>3, <1>4, <1>5, LoopHashes
  <1>7. QED
    BY <1>6 DEF HashesAll, Exact, W, C

\* Invalidation reaches what changed, and every cached child of what it reaches.
LEMMA InvalidatedCloses ==
    ASSUME NEW cache, NEW changed, NEW d
    PROVE  LET gone == Invalidated(cache, changed, d)
           IN  /\ changed \subseteq gone
               /\ \A x \in d.children : x[1] \in gone /\ x[2] \in DOMAIN cache => x[2] \in gone
  BY DEF Invalidated

\* Hashing again only what changed and what rests on it leaves every event with the hash of
\* its cone.
LEMMA ComputeDirtyIsExact ==
    ASSUME NEW d, Finite(d), Whole(d), NEW cache, NEW changed,
           Keys(d) \subseteq DOMAIN cache,
           \A i \in Keys(d) : i \in changed \/ cache[i] = ConeHash(d.events[i], cache)
    PROVE  Exact(d, ComputeDirty(Invalidate(cache, changed, d), d))
  <1> DEFINE gone   == Invalidated(cache, changed, d)
             kept   == Invalidate(cache, changed, d)
             W      == Keys(d) \ DOMAIN kept
             Q      == [c \in W |-> d.events[c].parents \intersect W]
             degree == [c \in W |-> Cardinality(d.events[c].parents \intersect W)]
             start  == [degree |-> degree, level |-> [c \in {x \in W : degree[x] = 0} |-> 1]]
             C      == ComputeDirty(kept, d)
  <1>1. /\ DOMAIN kept = DOMAIN cache \ gone
        /\ \A i \in DOMAIN kept : kept[i] = cache[i]
    BY DEF Invalidate
  <1>2. /\ changed \subseteq gone
        /\ \A x \in d.children : x[1] \in gone /\ x[2] \in DOMAIN cache => x[2] \in gone
    BY InvalidatedCloses
  <1> HIDE DEF gone, kept
  <1>3. W = Keys(d) \intersect gone /\ W = W \intersect Keys(d)
    BY <1>1
  <1>4. IsFiniteSet(W) /\ \A c \in W : IsFiniteSet(Q[c])
    <2>1. W \in SUBSET Keys(d) /\ \A c \in W : Q[c] \in SUBSET d.events[c].parents
      OBVIOUS
    <2> HIDE DEF W, Q
    <2>2. QED
      BY <2>1, FS_Subset DEF Finite
  <1>5. Awaits(d.children, W, W, Q)
    <2>1. \A S \in SUBSET W : S # {} => \E c \in S : Q[c] \intersect S = {}
      <3> SUFFICES ASSUME NEW S \in SUBSET W, S # {} PROVE \E c \in S : Q[c] \intersect S = {}
        OBVIOUS
      <3>1. PICK c \in S : d.events[c].parents \intersect S = {}
        BY DEF Whole, Founded
      <3>2. QED
        BY <3>1
    <2>2. \A x \in W, c \in W : <<x, c>> \in d.children <=> x \in Q[c]
      BY DEF Whole
    <2>3. \A c \in W : IsFiniteSet(Q[c]) /\ Q[c] \subseteq W
      BY <1>4
    <2> HIDE DEF W, Q
    <2>4. QED
      BY <2>1, <2>2, <2>3 DEF Awaits
  <1>6. StartsLow(W, W, Q, start)
    <2>1. \A c \in W : degree[c] = Cardinality(Q[c]) /\ degree[c] \in Nat /\ (Q[c] = {} => degree[c] = 0)
      <3> SUFFICES ASSUME NEW c \in W
                   PROVE  degree[c] = Cardinality(Q[c]) /\ degree[c] \in Nat /\ (Q[c] = {} => degree[c] = 0)
        OBVIOUS
      <3>1. degree[c] = Cardinality(Q[c])
        OBVIOUS
      <3> HIDE DEF degree, Q
      <3>2. QED
        BY <1>4, <3>1, FS_CardinalityType, FS_EmptySet
    <2>2. degree = [c \in W |-> degree[c]]
      OBVIOUS
    <2> HIDE DEF degree, Q, W
    <2>3. start.degree = degree /\ start.level = [c \in {x \in W : degree[x] = 0} |-> 1]
      OBVIOUS
    <2> HIDE DEF start
    <2>4. degree \in [W -> Nat]
      BY <2>1, <2>2
    <2>5. QED
      BY <2>1, <2>3, <2>4 DEF StartsLow, Counted
  <1>7. Hashable(d, kept, W, W, Q)
    BY <1>3 DEF Hashable, Whole
  <1>8. C = HashLevels(kept, Kahn(d.children, start), d)
    BY DEF ComputeDirty
  <1> HIDE DEF C, start, degree, Q, W
  <1>9. HashesAll(C, kept, d, W)
    BY <1>4, <1>5, <1>6, <1>7, <1>8, LoopHashes
  <1>10. ASSUME NEW i \in Keys(d), i \notin W
         PROVE  i \in DOMAIN C /\ C[i] = ConeHash(d.events[i], C)
    <2>1. i \in DOMAIN kept /\ C[i] = cache[i] /\ i \in DOMAIN C
      BY <1>1, <1>3, <1>9, <1>10 DEF HashesAll
    <2>2. cache[i] = ConeHash(d.events[i], cache)
      BY <1>2, <1>3, <1>10
    <2>3. ASSUME NEW p \in d.events[i].parents
          PROVE  p \in DOMAIN cache /\ p \in DOMAIN C /\ cache[p] = C[p]
      <3>1. p \in Keys(d) /\ <<p, i>> \in d.children
        BY DEF Whole
      <3>2. p \notin gone
        BY <1>2, <1>3, <1>10, <3>1
      <3>3. QED
        BY <1>1, <1>3, <1>9, <3>1, <3>2 DEF HashesAll
    <2>4. ConeHash(d.events[i], cache) = ConeHash(d.events[i], C)
      BY <2>3, ConeHashAgrees
    <2>5. QED
      BY <2>1, <2>2, <2>4
  <1>11. QED
    <2>1. \A i \in W : i \in DOMAIN C /\ C[i] = ConeHash(d.events[i], C)
      BY <1>9 DEF HashesAll
    <2>2. QED
      BY <1>10, <2>1 DEF Exact, C, kept
=============================================================================
