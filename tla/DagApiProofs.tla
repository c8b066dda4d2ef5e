---------------------------- MODULE DagApiProofs ----------------------------
(***************************************************************************)
(* What any sequence of insert, remove, compact_tombstones and ancestors   *)
(* does to one DAG, for every catalog of events.  remove and               *)
(* compact_tombstones are both contractions: a set of events goes, and     *)
(* each survivor gets the nearest survivors that its parents lead to.      *)
(* Then what a finite DAG without cycles shows: its frontier, and the      *)
(* order that Kahn's loop finds.                                           *)
(***************************************************************************)
EXTENDS DagApi, HistoryProofs

----------------------------------------------------------------------------
\* Everything a search finds is where it starts or a parent of something.
LEMMA SearchNamed ==
    ASSUME NEW d, NEW T, NEW S, T \subseteq Keys(d)
    PROVE  Through(d, T, S) \subseteq S \union AllParents(d)
  BY DEF Through, Universe, AllParents

----------------------------------------------------------------------------
\* c is d without the events of T, each survivor behind the nearest survivors.
Contracted(d, c, T) ==
    /\ T \subseteq Keys(d)
    /\ Keys(c) = Keys(d) \ T
    /\ \A i \in Keys(c) : c.events[i].parents = Resolve(d, T, d.events[i].parents)

\* What a search finds after a contraction is what it would have found before, going
\* through the events that are gone as well.
LEMMA ContractedSearch ==
    ASSUME NEW d, NEW c, NEW T, Contracted(d, c, T),
           NEW U, U \subseteq Keys(c), NEW R
    PROVE  Through(c, U, Resolve(d, T, R)) = Through(d, T \union U, R) \ T
  <1> DEFINE P(i) == d.events[i].parents
             M    == Through(d, T, R) \ T
             A    == Through(d, T \union U, R)
             C    == Through(c, U, M)
             Z    == Through(d, T, R) \union UNION {Through(d, T, P(i)) : i \in C \intersect U}
  <1>1. /\ T \subseteq Keys(d) /\ U \intersect T = {} /\ T \subseteq T \union U
        /\ \A i \in U : c.events[i].parents = Through(d, T, P(i)) \ T
    BY DEF Contracted, Resolve
  <1>2. C \subseteq A \ T
    <2>1. M \subseteq A \ T
      BY ThroughStarts, SearchWithin
    <2>2. UpClosed(c, U, A \ T)
      <3>1. SUFFICES ASSUME NEW i \in (A \ T) \intersect U
                     PROVE  c.events[i].parents \subseteq A \ T
        BY DEF UpClosed
      <3>2. P(i) \subseteq A
        BY ThroughClosed DEF UpClosed
      <3>3. Through(d, T, P(i)) \subseteq A
        <4>1. UpClosed(d, T, A)
          BY ThroughClosed DEF UpClosed
        <4> HIDE DEF A
        <4>2. QED
          BY <3>2, <4>1, ThroughLeast
      <3>4. QED
        BY <1>1, <3>3
    <2>3. QED
      BY <2>1, <2>2, ThroughLeast
  <1>3. Z \ T \subseteq C
    <2>1. M \subseteq C
      BY ThroughStarts
    <2>2. ASSUME NEW i \in C \intersect U PROVE Through(d, T, P(i)) \ T \subseteq C
      BY <1>1, ThroughClosed DEF UpClosed
    <2>3. QED
      BY <2>1, <2>2
  <1>4. A \subseteq Z
    <2>1. R \subseteq Z
      BY ThroughStarts
    <2>2. UpClosed(d, T \union U, Z)
      <3>1. SUFFICES ASSUME NEW z \in Z \intersect (T \union U) PROVE P(z) \subseteq Z
        BY DEF UpClosed
      <3>2. CASE z \in T
        <4>1. CASE z \in Through(d, T, R)
          BY <3>2, <4>1, ThroughClosed DEF UpClosed
        <4>2. CASE \E i \in C \intersect U : z \in Through(d, T, P(i))
          <5>1. PICK i \in C \intersect U : z \in Through(d, T, P(i))
            BY <4>2
          <5>2. P(z) \subseteq Through(d, T, P(i))
            BY <3>2, <5>1, ThroughClosed DEF UpClosed
          <5>3. QED
            BY <5>1, <5>2
        <4>3. QED
          BY <4>1, <4>2
      <3>3. CASE z \notin T
        <4>1. z \in C \intersect U
          BY <1>3, <3>3
        <4>2. P(z) \subseteq Through(d, T, P(z))
          BY ThroughStarts
        <4>3. QED
          BY <4>1, <4>2
      <3>4. QED
        BY <3>2, <3>3
    <2>3. QED
      BY <2>1, <2>2, ThroughLeast
  <1>5. C = A \ T
    BY <1>2, <1>3, <1>4
  <1>6. QED
    BY <1>5 DEF Resolve

\* A contraction changes nobody's ancestors but for those that are gone.
LEMMA ContractionKeepsAncestors ==
    ASSUME NEW d, NEW c, NEW T, Contracted(d, c, T), NEW b \in Keys(c)
    PROVE  Ancestors(c, b) = Ancestors(d, b) \ T
  <1>1. T \union Keys(c) = Keys(d) /\ b \in Keys(d)
    BY DEF Contracted
  <1>2. c.events[b].parents = Resolve(d, T, d.events[b].parents)
    BY DEF Contracted
  <1>3. Through(c, Keys(c), c.events[b].parents) = Through(d, Keys(d), d.events[b].parents) \ T
    BY <1>1, <1>2, ContractedSearch
  <1>4. QED
    BY <1>1, <1>3 DEF Ancestors

\* Contracting twice is contracting once.
LEMMA ContractionsCompose ==
    ASSUME NEW d, NEW c, NEW e, NEW T, NEW U, Contracted(d, c, T), Contracted(c, e, U)
    PROVE  Contracted(d, e, T \union U)
  <1>1. /\ T \union U \subseteq Keys(d) /\ U \subseteq Keys(c)
        /\ Keys(e) = Keys(d) \ (T \union U)
    BY DEF Contracted
  <1>2. ASSUME NEW i \in Keys(e)
        PROVE  e.events[i].parents = Resolve(d, T \union U, d.events[i].parents)
    <2> DEFINE R == d.events[i].parents
    <2>1. e.events[i].parents = Through(c, U, Resolve(d, T, R)) \ U
      BY <1>1 DEF Contracted, Resolve
    <2>2. Through(c, U, Resolve(d, T, R)) = Through(d, T \union U, R) \ T
      BY <1>1, ContractedSearch
    <2>3. QED
      BY <2>1, <2>2 DEF Resolve
  <1>3. QED
    BY <1>1, <1>2 DEF Contracted

\* A contraction opens no gap.
LEMMA ContractionOpensNoGap ==
    ASSUME NEW d, NEW c, NEW T, Contracted(d, c, T)
    PROVE  MissingAncestors(c) \subseteq MissingAncestors(d)
  <1>1. ASSUME NEW i \in Keys(c) PROVE c.events[i].parents \subseteq AllParents(d) \ T
    <2>1. i \in Keys(d) /\ c.events[i].parents = Through(d, T, d.events[i].parents) \ T
      BY DEF Contracted, Resolve
    <2>2. d.events[i].parents \subseteq AllParents(d)
      BY <2>1 DEF AllParents
    <2>3. Through(d, T, d.events[i].parents) \subseteq d.events[i].parents \union AllParents(d)
      BY SearchNamed DEF Contracted
    <2>4. QED
      BY <2>1, <2>2, <2>3
  <1>2. AllParents(c) \subseteq AllParents(d) \ T
    BY <1>1 DEF AllParents
  <1>3. QED
    BY <1>2 DEF MissingAncestors, Contracted

----------------------------------------------------------------------------
\* compact_tombstones is the contraction of those tombstones that are there.
LEMMA CompactContracts ==
    ASSUME NEW d, NEW S, ChildrenExact(d), Shaped(d)
    PROVE  LET c == CompactTombstones(d, S)
           IN  /\ Contracted(d, c, S \intersect Keys(d))
               /\ ChildrenExact(c)
               /\ Shaped(c)
               /\ \A i \in Keys(c) : \/ c.events[i] = d.events[i]
                                     \/ c.events[i] = WithParents(d.events[i], c.events[i].parents)
               /\ c = d \/ c.ancestry_cache = <<>>
  <1> DEFINE c        == CompactTombstones(d, S)
             T        == S \intersect Keys(d)
             affected == {x[2] : x \in {y \in d.children : y[1] \in T}} \ S
             rewritten ==
                [i \in Keys(d) \ T |->
                    IF i \in affected
                    THEN WithParents(d.events[i], Resolve(d, T, d.events[i].parents))
                    ELSE d.events[i]]
  <1>1. CASE T = {}
    <2>1. c = d
      BY <1>1 DEF CompactTombstones
    <2>2. \A i \in Keys(d) : Resolve(d, T, d.events[i].parents) = d.events[i].parents
      BY <1>1, ThroughOutside DEF Resolve
    <2>3. Contracted(d, c, T)
      BY <1>1, <2>1, <2>2 DEF Contracted
    <2>4. QED
      BY <2>1, <2>3
  <1>2. CASE T # {}
    <2>1. c = [events |-> rewritten, children |-> EdgesOf(rewritten), ancestry_cache |-> <<>>]
      BY <1>2 DEF CompactTombstones
    <2>2. /\ c.events = rewritten /\ c.children = EdgesOf(c.events)
          /\ c.ancestry_cache = <<>> /\ Keys(c) = Keys(d) \ T
      BY <2>1 DEF Keys
    <2>3. ASSUME NEW i \in Keys(d) \ T, i \notin affected
          PROVE  d.events[i].parents = Resolve(d, T, d.events[i].parents)
      <3>1. ASSUME NEW t \in d.events[i].parents \intersect T PROVE FALSE
        <4>1. <<t, i>> \in d.children
          BY EdgeIsPointer DEF ChildrenExact, Keys
        <4>2. QED
          BY <2>3, <4>1
      <3>2. QED
        BY <3>1, ThroughOutside DEF Resolve
    <2>4. ASSUME NEW i \in Keys(c)
          PROVE  /\ c.events[i].parents = Resolve(d, T, d.events[i].parents)
                 /\ \/ c.events[i] = d.events[i]
                    \/ c.events[i] = WithParents(d.events[i], c.events[i].parents)
      <3>1. CASE i \in affected
        BY <2>2, <3>1 DEF WithParents
      <3>2. CASE i \notin affected
        BY <2>2, <2>3, <3>2
      <3>3. QED
        BY <3>1, <3>2
    <2>5. Contracted(d, c, T)
      BY <2>2, <2>4 DEF Contracted
    <2>6. Shaped(c)
      <3>1. \E events, children, cache :
              c = [events |-> events, children |-> children, ancestry_cache |-> cache]
        BY <2>1, Zenon
      <3>2. QED
        BY <2>2, <3>1 DEF Shaped
    <2>7. QED
      BY <2>2, <2>4, <2>5, <2>6 DEF ChildrenExact
  <1>3. QED
    BY <1>1, <1>2

\* remove is the contraction of one event, unless it is its own parent.
LEMMA RemoveContracts ==
    ASSUME NEW d, NEW id \in Keys(d), id \notin d.events[id].parents,
           ChildrenExact(d), Shaped(d)
    PROVE  LET c == Remove(d, id)
           IN  /\ Contracted(d, c, {id})
               /\ ChildrenExact(c)
               /\ Shaped(c)
               /\ \A i \in Keys(c) :
                     \/ c.events[i] = d.events[i]
                     \/ c.events[i] = RecomputeId(WithParents(d.events[i], c.events[i].parents))
               /\ c.ancestry_cache = <<>>
  <1> DEFINE c    == Remove(d, id)
             ps   == d.events[id].parents
             kids == {k \in Keys(d) \ {id} : <<id, k>> \in d.children}
             P(i) == d.events[i].parents
             evs  == [i \in Keys(d) \ {id} |->
                        IF i \in kids
                        THEN RecomputeId(WithParents(d.events[i], (d.events[i].parents \ {id}) \union ps))
                        ELSE d.events[i]]
             kept == {x \in d.children : x[1] # id /\ ~(x[1] \in ps /\ x[2] = id)}
             behind == {x[2] : x \in {y \in d.children : y[1] = id}}
             new  == {<<p, k>> : p \in ps, k \in behind}
  <1>1. c = [events |-> evs, children |-> kept \union new, ancestry_cache |-> <<>>]
    BY DEF Remove
  <1>2. /\ c.events = evs /\ c.children = kept \union new
        /\ c.ancestry_cache = <<>> /\ Keys(c) = Keys(d) \ {id}
    BY <1>1 DEF Keys
  <1>3. \A p, i : <<p, i>> \in d.children <=> i \in Keys(d) /\ p \in P(i)
    BY EdgeIsPointer DEF ChildrenExact, Keys
  <1>4. ASSUME NEW S
        PROVE  Resolve(d, {id}, S) = IF id \in S THEN (S \ {id}) \union ps ELSE S
    <2>1. CASE id \in S
      <3>1. UpClosed(d, {id}, S \union ps)
        BY DEF UpClosed
      <3>2. Through(d, {id}, S) \subseteq S \union ps
        BY <3>1, ThroughLeast
      <3>3. S \union ps \subseteq Through(d, {id}, S)
        BY <2>1, ThroughStarts, ThroughClosed DEF UpClosed
      <3>4. QED
        BY <2>1, <3>2, <3>3 DEF Resolve
    <2>2. CASE id \notin S
      BY <2>2, ThroughOutside DEF Resolve
    <2>3. QED
      BY <2>1, <2>2
  <1>5. ASSUME NEW i \in Keys(c)
        PROVE  /\ c.events[i].parents = Resolve(d, {id}, P(i))
               /\ \/ c.events[i] = d.events[i]
                  \/ c.events[i] = RecomputeId(WithParents(d.events[i], c.events[i].parents))
    <2>1. i \in kids <=> id \in P(i)
      BY <1>2, <1>3
    <2>2. CASE i \in kids
      <3>1. c.events[i] = RecomputeId(WithParents(d.events[i], (P(i) \ {id}) \union ps))
        BY <1>2, <2>2
      <3>2. c.events[i].parents = (P(i) \ {id}) \union ps
        BY <3>1 DEF RecomputeId, WithParents
      <3>3. QED
        BY <1>4, <2>1, <2>2, <3>1, <3>2
    <2>3. CASE i \notin kids
      BY <1>2, <1>4, <2>1, <2>3
    <2>4. QED
      BY <2>2, <2>3
  <1>6. Contracted(d, c, {id})
    BY <1>2, <1>5 DEF Contracted
  <1>7. ASSUME NEW p, NEW i
        PROVE  <<p, i>> \in c.children <=> i \in Keys(c) /\ p \in c.events[i].parents
    <2>1. <<p, i>> \in kept <=> i \in Keys(d) /\ p \in P(i) /\ p # id /\ ~(p \in ps /\ i = id)
      BY <1>3
    <2>2. <<p, i>> \in new <=> p \in ps /\ i \in Keys(d) /\ id \in P(i)
      <3>1. i \in behind <=> <<id, i>> \in d.children
        <4>1. \A x \in d.children : x = <<x[1], x[2]>>
          BY DEF ChildrenExact, EdgesOf
        <4>2. QED
          BY <4>1
      <3> HIDE DEF behind
      <3>2. <<p, i>> \in new <=> p \in ps /\ i \in behind
        OBVIOUS
      <3>3. QED
        BY <1>3, <3>1, <3>2
    <2>3. <<p, i>> \in c.children <=> <<p, i>> \in kept \/ <<p, i>> \in new
      BY <1>2
    <2>4. i \in Keys(c) => (p \in c.events[i].parents
                               <=> IF id \in P(i) THEN p \in P(i) \ {id} \/ p \in ps ELSE p \in P(i))
      BY <1>4, <1>5
    <2>5. QED
      BY <1>2, <2>1, <2>2, <2>3, <2>4
  <1>8. ChildrenExact(c)
    <2>1. \A x \in c.children : x = <<x[1], x[2]>>
      BY <1>2 DEF ChildrenExact, EdgesOf
    <2>2. \A x \in EdgesOf(c.events) : x = <<x[1], x[2]>>
      BY DEF EdgesOf
    <2>3. \A p, i : <<p, i>> \in c.children <=> <<p, i>> \in EdgesOf(c.events)
      BY <1>7, EdgeIsPointer DEF Keys
    <2>4. QED
      BY <2>1, <2>2, <2>3 DEF ChildrenExact
  <1>9. Shaped(c)
    <2>1. \E events, children, cache :
            c = [events |-> events, children |-> children, ancestry_cache |-> cache]
      <3> HIDE DEF c, evs, kept, new
      <3>1. QED
        BY <1>1, Zenon
    <2>2. QED
      BY <1>2, <2>1 DEF Shaped
  <1>10. QED
    BY <1>2, <1>5, <1>6, <1>8, <1>9

----------------------------------------------------------------------------
\* What each event brings, and what every call keeps of it.
Typed(d) ==
    /\ Shaped(d)
    /\ Keys(d) \subseteq {e.id : e \in Catalog}
    /\ \A i \in Keys(d) :
          /\ d.events[i] = [id      |-> d.events[i].id,
                           payload |-> i[1],
                           parents |-> d.events[i].parents]
          /\ d.events[i].payload \in Payload
          /\ d.events[i].parents \subseteq CatalogIds

\* No event is given a parent that was not an ancestor when it was constructed.
Below(d) == \A i \in Keys(d) : d.events[i].parents \subseteq Ancestors(World, i)

\* What has been memoized is known to be complete.
MemoExact(d) ==
    \A i \in DOMAIN d.ancestry_cache :
        /\ i \in Keys(d)
        /\ d.ancestry_cache[i] = Ancestors(d, i)
        /\ d.ancestry_cache[i] \subseteq Keys(d)

\* The catalog as one DAG.
LEMMA WorldIsCatalog ==
    /\ Keys(World) = {e.id : e \in Catalog}
    /\ \A e \in Catalog : World.events[e.id] = e
    /\ \A i \in Keys(World) : i \notin Ancestors(World, i)
  <1>1. \A e \in Catalog : e = NewEvent(e.payload, e.parents)
    BY CatalogAssumption
  <1>2. /\ Keys(World) = {e.id : e \in Catalog}
        /\ \A e \in Catalog : World.events[e.id] = e
    BY <1>1, CatalogIsWorld DEF World
  <1>3. QED
    BY <1>2, AcyclicAssumption

\* In a DAG below the catalog every ancestor is one in the catalog, so there is no cycle.
LEMMA BelowAncestors ==
    ASSUME NEW d, Below(d), NEW i \in Keys(d)
    PROVE  Ancestors(d, i) \subseteq Ancestors(World, i)
  <1> DEFINE X == Ancestors(World, i)
  <1>1. d.events[i].parents \subseteq X
    BY DEF Below
  <1>2. UpClosed(d, Keys(d), X)
    <2>1. SUFFICES ASSUME NEW j \in X \intersect Keys(d) PROVE d.events[j].parents \subseteq X
      BY DEF UpClosed
    <2>2. d.events[j].parents \subseteq Ancestors(World, j)
      BY DEF Below
    <2>3. QED
      BY <2>2, AncestorsTransitive
  <1>3. QED
    BY <1>1, <1>2, ThroughLeast DEF Ancestors

\* So no event is its own ancestor, as none is in the world.
LEMMA BelowIsAcyclic ==
    ASSUME NEW d, Below(d), Typed(d), NEW i \in Keys(d)
    PROVE  i \notin Ancestors(d, i)
  BY BelowAncestors, WorldIsCatalog DEF Typed

\* A contraction whose survivors keep their payloads keeps types, and stays below the
\* catalog.
LEMMA ContractionKeepsTyped ==
    ASSUME NEW d, NEW c, NEW T, Contracted(d, c, T), Typed(d), Below(d), Shaped(c),
           \A i \in Keys(c) :
              \/ c.events[i] = d.events[i]
              \/ c.events[i] = WithParents(d.events[i], c.events[i].parents)
              \/ c.events[i] = RecomputeId(WithParents(d.events[i], c.events[i].parents))
    PROVE  Typed(c) /\ Below(c)
  <1>1. Keys(c) \subseteq Keys(d)
    BY DEF Contracted
  <1>2. ASSUME NEW i \in Keys(c)
        PROVE  c.events[i].parents \subseteq CatalogIds /\ c.events[i].parents \subseteq Ancestors(World, i)
    <2>1. c.events[i].parents \subseteq Through(d, T, d.events[i].parents)
      BY DEF Contracted, Resolve
    <2>2. Through(d, T, d.events[i].parents) \subseteq Ancestors(d, i)
      BY <1>1, ThroughStarts, SearchWithin DEF Contracted, Ancestors
    <2>3. Ancestors(d, i) \subseteq Ancestors(World, i)
      BY <1>1, BelowAncestors
    <2>4. Through(d, T, d.events[i].parents) \subseteq d.events[i].parents \union AllParents(d)
      BY SearchNamed DEF Contracted
    <2>5. d.events[i].parents \union AllParents(d) \subseteq CatalogIds
      BY <1>1 DEF Typed, AllParents
    <2>6. QED
      BY <2>1, <2>2, <2>3, <2>4, <2>5
  <1>3. ASSUME NEW i \in Keys(c)
        PROVE  /\ c.events[i] = [id      |-> c.events[i].id,
                                payload |-> i[1],
                                parents |-> c.events[i].parents]
               /\ c.events[i].payload \in Payload
    <2>1. d.events[i] = [id |-> d.events[i].id, payload |-> i[1], parents |-> d.events[i].parents]
      BY <1>1 DEF Typed
    <2>2. d.events[i].payload = i[1] /\ i[1] \in Payload
      BY <1>1, <2>1 DEF Typed
    <2>3. CASE c.events[i] = d.events[i]
      BY <2>1, <2>2, <2>3
    <2> DEFINE ps == c.events[i].parents
    <2>4. CASE c.events[i] = WithParents(d.events[i], ps)
      <3>1. c.events[i] = [id |-> d.events[i].id, payload |-> i[1], parents |-> ps]
        BY <2>2, <2>4 DEF WithParents
      <3> HIDE DEF ps
      <3>2. c.events[i].id = d.events[i].id /\ c.events[i].payload = i[1] /\ c.events[i].parents = ps
        BY <3>1
      <3>3. QED
        BY <2>2, <3>1, <3>2
    <2>5. CASE c.events[i] = RecomputeId(WithParents(d.events[i], ps))
      <3>1. c.events[i] = [id |-> compute_id(i[1], ps), payload |-> i[1], parents |-> ps]
        BY <2>2, <2>5 DEF WithParents, RecomputeId
      <3> HIDE DEF ps
      <3>2. /\ c.events[i].id = compute_id(i[1], ps)
            /\ c.events[i].payload = i[1] /\ c.events[i].parents = ps
        BY <3>1
      <3>3. QED
        BY <2>2, <3>1, <3>2
    <2>6. QED
      BY <2>3, <2>4, <2>5
  <1>4. QED
    BY <1>1, <1>2, <1>3 DEF Typed, Below

----------------------------------------------------------------------------
\* A DAG that grows leaves every ancestor an ancestor, and adds none to an event
\* whose whole past was there.
LEMMA GrowthKeepsPast ==
    ASSUME NEW d, NEW c, Keys(d) \subseteq Keys(c),
           \A i \in Keys(d) : c.events[i] = d.events[i],
           NEW b \in Keys(d)
    PROVE  /\ Ancestors(d, b) \subseteq Ancestors(c, b)
           /\ Ancestors(d, b) \subseteq Keys(d) => Ancestors(c, b) = Ancestors(d, b)
  <1> DEFINE P == d.events[b].parents
             A == Through(d, Keys(d), P)
             C == Through(c, Keys(c), P)
  <1>1. Ancestors(d, b) = A /\ Ancestors(c, b) = C
    BY DEF Ancestors
  <1>2. A \subseteq C
    <2>1. UpClosed(d, Keys(d), C)
      BY ThroughClosed DEF UpClosed
    <2>2. QED
      BY <2>1, ThroughStarts, ThroughLeast
  <1>3. ASSUME A \subseteq Keys(d) PROVE C \subseteq A
    <2>1. UpClosed(c, Keys(c), A)
      BY <1>3, ThroughClosed DEF UpClosed
    <2>2. QED
      BY <2>1, ThroughStarts, ThroughLeast
  <1> HIDE DEF A, C
  <1>4. QED
    BY <1>1, <1>2, <1>3

\* What a step must keep for the action properties.
Preserves(d, c) ==
    /\ \A a, b \in Keys(d) \intersect Keys(c) :
          /\ Precedes(d, a, b) => Precedes(c, a, b)
          /\ Keys(c) \subseteq Keys(d) /\ Precedes(c, a, b) => Precedes(d, a, b)
    /\ Keys(c) \subseteq Keys(d) => MissingAncestors(c) \subseteq MissingAncestors(d)

\* The inductive invariant: well typed, an exact index, ancestors only as in the world,
\* and a memo that is sound.
Good(d) == Typed(d) /\ ChildrenExact(d) /\ Below(d) /\ MemoExact(d)

\* Doing nothing preserves what calls must preserve; then insert, remove and
\* compact_tombstones keep the invariant and preserve it too.
LEMMA UnchangedPreserves ==
    ASSUME NEW d
    PROVE  Preserves(d, d)
  BY DEF Preserves

\* A contraction that forgets the memo.
LEMMA ContractionIsGood ==
    ASSUME NEW d, NEW c, NEW T, Good(d), Contracted(d, c, T),
           ChildrenExact(c), Shaped(c), c = d \/ c.ancestry_cache = <<>>,
           \A i \in Keys(c) :
              \/ c.events[i] = d.events[i]
              \/ c.events[i] = WithParents(d.events[i], c.events[i].parents)
              \/ c.events[i] = RecomputeId(WithParents(d.events[i], c.events[i].parents))
    PROVE  Good(c) /\ Preserves(d, c)
  <1>1. Typed(c) /\ Below(c)
    BY ContractionKeepsTyped DEF Good
  <1>2. MemoExact(c)
    <2>1. CASE c = d
      BY <2>1 DEF Good
    <2>2. CASE c.ancestry_cache = <<>>
      BY <2>2 DEF MemoExact
    <2>3. QED
      BY <2>1, <2>2
  <1>3. ASSUME NEW a \in Keys(d) \intersect Keys(c), NEW b \in Keys(d) \intersect Keys(c)
        PROVE  Precedes(d, a, b) <=> Precedes(c, a, b)
    <2>1. Ancestors(c, b) = Ancestors(d, b) \ T
      BY ContractionKeepsAncestors
    <2>2. a \notin T
      BY DEF Contracted
    <2>3. QED
      BY <2>1, <2>2 DEF Precedes
  <1>4. MissingAncestors(c) \subseteq MissingAncestors(d)
    BY ContractionOpensNoGap
  <1>5. QED
    BY <1>1, <1>2, <1>3, <1>4 DEF Good, Preserves

\* An insert adds no order among the events that were there.
LEMMA InsertIsGood ==
    ASSUME NEW d, Good(d), NEW e \in Catalog
    PROVE  Good(Insert(d, e)) /\ Preserves(d, Insert(d, e))
  <1> DEFINE c == Insert(d, e)
  <1>1. CASE e.id \in Keys(d)
    BY <1>1, UnchangedPreserves DEF Insert
  <1>2. CASE e.id \notin Keys(d)
    <2>1. /\ Keys(c) = Keys(d) \union {e.id}
          /\ \A i \in Keys(d) : c.events[i] = d.events[i]
          /\ c.events[e.id] = e
          /\ c.ancestry_cache = d.ancestry_cache
          /\ ChildrenExact(c)
          /\ Shaped(c)
      BY <1>2, InsertEffect DEF Good, Typed
    <2> HIDE DEF c
    <2>2. Typed(c)
      <3>1. e = NewEvent(e.payload, e.parents) /\ e.payload \in Payload
        BY CatalogAssumption
      <3>2. e.id = <<e.payload, e.parents>>
        BY <3>1 DEF NewEvent, compute_id
      <3>3. e.id[1] = e.payload
        BY <3>2
      <3>4. e = [id |-> e.id, payload |-> e.id[1], parents |-> e.parents]
        <4>1. e = [id |-> <<e.payload, e.parents>>, payload |-> e.payload, parents |-> e.parents]
          BY <3>1 DEF NewEvent, compute_id
        <4>2. QED
          BY <3>2, <3>3, <4>1
      <3>5. e.parents \subseteq CatalogIds
        BY DEF CatalogIds
      <3>6. QED
        BY <2>1, <3>1, <3>4, <3>5 DEF Good, Typed
    <2>3. Below(c)
      <3>1. e.parents \subseteq Ancestors(World, e.id)
        BY WorldIsCatalog, ThroughStarts DEF Ancestors
      <3>2. QED
        BY <2>1, <3>1 DEF Good, Below
    <2>4. MemoExact(c)
      BY <2>1, GrowthKeepsPast DEF Good, MemoExact
    <2>5. Preserves(d, c)
      <3>1. ~(Keys(c) \subseteq Keys(d))
        BY <1>2, <2>1
      <3>2. \A a, b \in Keys(d) \intersect Keys(c) : Precedes(d, a, b) => Precedes(c, a, b)
        BY <2>1, GrowthKeepsPast DEF Precedes
      <3>3. QED
        BY <3>1, <3>2 DEF Preserves
    <2>6. QED
      BY <2>1, <2>2, <2>3, <2>4, <2>5 DEF Good, c
  <1>3. QED
    BY <1>1, <1>2

\* remove contracts one event, or finds none and does nothing.
LEMMA RemoveIsGood ==
    ASSUME NEW d, Good(d), NEW id
    PROVE  Good(Remove(d, id)) /\ Preserves(d, Remove(d, id))
  <1>1. CASE id \notin Keys(d)
    BY <1>1, UnchangedPreserves DEF Remove
  <1>2. CASE id \in Keys(d)
    <2>1. id \notin d.events[id].parents
      BY <1>2, BelowIsAcyclic, ThroughStarts DEF Good, Ancestors
    <2>2. Shaped(d) /\ ChildrenExact(d)
      BY DEF Good, Typed
    <2> DEFINE c == Remove(d, id)
    <2>3. /\ Contracted(d, c, {id}) /\ ChildrenExact(c) /\ Shaped(c) /\ c.ancestry_cache = <<>>
          /\ \A i \in Keys(c) :
                \/ c.events[i] = d.events[i]
                \/ c.events[i] = RecomputeId(WithParents(d.events[i], c.events[i].parents))
      BY <1>2, <2>1, <2>2, RemoveContracts
    <2> HIDE DEF c
    <2>4. Good(c) /\ Preserves(d, c)
      BY <2>3, ContractionIsGood
    <2>5. QED
      BY <2>4 DEF c
  <1>3. QED
    BY <1>1, <1>2

\* compact_tombstones contracts the tombstones that are there.
LEMMA CompactIsGood ==
    ASSUME NEW d, Good(d), NEW S
    PROVE  Good(CompactTombstones(d, S)) /\ Preserves(d, CompactTombstones(d, S))
  <1> DEFINE c == CompactTombstones(d, S)
             T == S \intersect Keys(d)
  <1>1. Shaped(d) /\ ChildrenExact(d)
    BY DEF Good, Typed
  <1>2. /\ Contracted(d, c, T) /\ ChildrenExact(c) /\ Shaped(c) /\ (c = d \/ c.ancestry_cache = <<>>)
        /\ \A i \in Keys(c) : \/ c.events[i] = d.events[i]
                              \/ c.events[i] = WithParents(d.events[i], c.events[i].parents)
    BY <1>1, CompactContracts
  <1> HIDE DEF c, T
  <1>3. Good(c) /\ Preserves(d, c)
    BY <1>2, ContractionIsGood
  <1>4. QED
    BY <1>3 DEF c

\* An answer is memoized when it is complete, and nothing else changes.
LEMMA QueryIsGood ==
    ASSUME NEW d, Good(d), NEW id \in Keys(d), Ancestors(d, id) \subseteq Keys(d)
    PROVE  Good(QueryAncestors(d, id)) /\ Preserves(d, QueryAncestors(d, id))
  <1> DEFINE c    == QueryAncestors(d, id)
             memo == [i \in DOMAIN d.ancestry_cache \union {id} |->
                         IF i \in DOMAIN d.ancestry_cache THEN d.ancestry_cache[i]
                                                          ELSE Ancestors(d, i)]
  <1>1. PICK events, children, cache :
            d = [events |-> events, children |-> children, ancestry_cache |-> cache]
    BY DEF Good, Typed, Shaped
  <1>2. c = [events |-> events, children |-> children, ancestry_cache |-> memo]
    BY <1>1 DEF QueryAncestors
  <1>3. c.events = d.events /\ c.children = d.children /\ c.ancestry_cache = memo
    BY <1>1, <1>2
  <1>4. Keys(c) = Keys(d)
    BY <1>3 DEF Keys
  <1>5. \A T, R : Through(c, T, R) = Through(d, T, R)
    BY <1>3 DEF Through, Universe, UpClosed
  <1>6. \A i : Ancestors(c, i) = Ancestors(d, i)
    BY <1>3, <1>4, <1>5 DEF Ancestors
  <1>7. Typed(c)
    <2>1. Shaped(c)
      <3>1. \E ev, ch, ca : c = [events |-> ev, children |-> ch, ancestry_cache |-> ca]
        <4> HIDE DEF c, memo
        <4>1. QED
          BY <1>2, Zenon
      <3>2. QED
        BY <1>3, <1>4, <3>1 DEF Good, Typed, Shaped
    <2>2. QED
      BY <1>3, <1>4, <2>1 DEF Good, Typed
  <1>8. ChildrenExact(c) /\ Below(c)
    BY <1>3, <1>4 DEF Good, ChildrenExact, Below
  <1>9. MemoExact(c)
    <2>1. ASSUME NEW i \in DOMAIN memo
          PROVE  i \in Keys(d) /\ memo[i] = Ancestors(d, i) /\ memo[i] \subseteq Keys(d)
      BY DEF Good, MemoExact
    <2>2. QED
      BY <1>3, <1>4, <1>6, <2>1 DEF MemoExact
  <1>10. Preserves(d, c)
    <2>1. MissingAncestors(c) = MissingAncestors(d)
      BY <1>3, <1>4 DEF MissingAncestors, AllParents
    <2>2. QED
      BY <1>6, <2>1 DEF Preserves, Precedes
  <1>11. QED
    BY <1>7, <1>8, <1>9, <1>10 DEF Good

\* The empty DAG is a part of the world.
LEMMA InitIsGood == Init => Good(dag)
  <1> SUFFICES ASSUME Init PROVE Good(EmptyDag)
    BY DEF Init
  <1>1. Part(EmptyDag, World) /\ Keys(EmptyDag) = {} /\ EmptyDag.ancestry_cache = <<>>
    BY EmptyIsPart
  <1>2. QED
    BY <1>1 DEF Good, Typed, Below, MemoExact, Part

\* Every call keeps the invariant, whatever the order of calls.
LEMMA NextIsGood == Good(dag) /\ [Next]_dag => Good(dag') /\ Preserves(dag, dag')
  <1> SUFFICES ASSUME Good(dag), [Next]_dag PROVE Good(dag') /\ Preserves(dag, dag')
    OBVIOUS
  <1>1. CASE UNCHANGED dag
    BY <1>1, UnchangedPreserves
  <1>2. ASSUME NEW e \in Catalog, InsertEvent(e) PROVE Good(dag') /\ Preserves(dag, dag')
    BY <1>2, InsertIsGood DEF InsertEvent
  <1>3. ASSUME NEW id \in Removable, RemoveEvent(id) PROVE Good(dag') /\ Preserves(dag, dag')
    BY <1>3, RemoveIsGood DEF RemoveEvent
  <1>4. ASSUME NEW S \in SUBSET Tombstones, Compact(S) PROVE Good(dag') /\ Preserves(dag, dag')
    BY <1>4, CompactIsGood DEF Compact
  <1>5. ASSUME NEW id \in Queried, AskAncestors(id) PROVE Good(dag') /\ Preserves(dag, dag')
    BY <1>5, QueryIsGood DEF AskAncestors
  <1>6. QED
    BY <1>1, <1>2, <1>3, <1>4, <1>5 DEF Next

----------------------------------------------------------------------------
\* What the invariant says of types is TypeOK.
LEMMA GoodIsTyped == Good(dag) => TypeOK
  <1> SUFFICES ASSUME Good(dag) PROVE TypeOK
    OBVIOUS
  <1>1. PICK events, children, cache :
            dag = [events |-> events, children |-> children, ancestry_cache |-> cache]
    BY DEF Good, Typed, Shaped
  <1>2. dag = [events |-> dag.events, children |-> dag.children, ancestry_cache |-> dag.ancestry_cache]
    BY <1>1
  <1>3. Keys(dag) \subseteq CatalogIds
    BY DEF Good, Typed, CatalogIds
  <1>4. dag.children \subseteq CatalogIds \X CatalogIds
    <2>1. \A x \in dag.children : \E i \in Keys(dag) : \E p \in dag.events[i].parents : x = <<p, i>>
      BY DEF Good, ChildrenExact, EdgesOf, Keys
    <2>2. \A i \in Keys(dag) : dag.events[i].parents \subseteq CatalogIds
      BY DEF Good, Typed
    <2>3. QED
      BY <1>3, <2>1, <2>2
  <1>5. QED
    BY <1>2, <1>4 DEF TypeOK, Good, Typed, Shaped

\* Good holds after any calls; all the theorems below rest on it.
LEMMA GoodIsInvariant == Spec => []Good(dag)
  <1>1. Good(dag) /\ [Next]_dag => Good(dag)'
    BY NextIsGood
  <1>2. QED
    BY <1>1, InitIsGood, PTL DEF Spec

\* In any order of calls, events come from the catalog and stay of its types.
THEOREM DagTyped == Spec => []TypeOK
  BY GoodIsTyped, GoodIsInvariant, PTL

\* And the reverse index says what the parent sets say.
THEOREM DagIndexExact == Spec => []IndexExact
  <1>1. Good(dag) => IndexExact
    BY DEF Good, IndexExact
  <1>2. QED
    BY <1>1, GoodIsInvariant, PTL

\* No call sequence makes an event its own ancestor: for any catalog without cycles,
\* whatever is removed, compacted or inserted late.
THEOREM DagAcyclic == Spec => [](\A i \in Keys(dag) : ~Precedes(dag, i, i))
  <1>1. Good(dag) => \A i \in Keys(dag) : ~Precedes(dag, i, i)
    BY BelowIsAcyclic DEF Good, Precedes
  <1>2. QED
    BY <1>1, GoodIsInvariant, PTL

\* The memo of ancestors is right as long as callers ask about events whose past is
\* there; insert may keep it, and remove and compaction clear it when they must.
THEOREM DagMemoSound == Spec => []MemoSound
  <1>1. Good(dag) => MemoSound
    BY DEF Good, MemoExact, MemoSound, AncestryCacheSound
  <1>2. QED
    BY <1>1, GoodIsInvariant, PTL

\* No call loses causal order between two events that stay, and none but an insert
\* adds any.
THEOREM DagKeepsCausality == Spec => CausalityPreserved
  <1>1. Good(dag) /\ [Next]_dag
            => [\A a, b \in Staying :
                  /\ Precedes(dag, a, b) => Precedes(dag', a, b)
                  /\ Keys(dag') \subseteq Keys(dag) /\ Precedes(dag', a, b) => Precedes(dag, a, b)]_dag
    <2> SUFFICES ASSUME Good(dag), [Next]_dag, NEW a \in Staying, NEW b \in Staying
                 PROVE  /\ Precedes(dag, a, b) => Precedes(dag', a, b)
                        /\ Keys(dag') \subseteq Keys(dag) /\ Precedes(dag', a, b) => Precedes(dag, a, b)
      OBVIOUS
    <2>1. Preserves(dag, dag')
      BY NextIsGood
    <2>2. Staying = Keys(dag) \intersect Keys(dag')
      BY DEF Staying, Keys
    <2>3. QED
      BY <2>1, <2>2 DEF Preserves
  <1>2. QED
    BY <1>1, GoodIsInvariant, PTL DEF Spec, CausalityPreserved

\* No call but an insert leaves a parent pointer dangling that did not dangle before.
THEOREM DagOpensNoGap == Spec => NoNewGap
  <1>1. Good(dag) /\ [Next]_dag
            => [Keys(dag') \subseteq Keys(dag)
                  => MissingAncestors(dag') \subseteq MissingAncestors(dag)]_dag
    BY NextIsGood DEF Preserves
  <1>2. QED
    BY <1>1, GoodIsInvariant, PTL DEF Spec, NoNewGap

----------------------------------------------------------------------------
\* A contraction leaves fewer events, each behind finitely many.
LEMMA ContractionKeepsFinite ==
    ASSUME NEW d, NEW c, NEW T, Contracted(d, c, T), Finite(d)
    PROVE  Finite(c)
  <1>1. IsFiniteSet(Keys(c)) /\ Keys(c) \subseteq Keys(d)
    BY FS_Subset DEF Contracted, Finite
  <1>2. IsFiniteSet(AllParents(d))
    <2> DEFINE K == Keys(d)
               f == [i \in K |-> d.events[i].parents]
               S == {f[i] : i \in K}
    <2>1. f \in Surjection(K, S)
      BY DEF Surjection
    <2>2. \A R \in S : IsFiniteSet(R)
      BY DEF Finite
    <2>3. AllParents(d) = UNION S
      BY DEF AllParents
    <2>4. IsFiniteSet(K)
      BY DEF Finite
    <2> HIDE DEF K, f, S
    <2>5. QED
      BY <2>1, <2>2, <2>3, <2>4, FS_Surjection, FS_UNION
  <1>3. ASSUME NEW i \in Keys(c) PROVE IsFiniteSet(c.events[i].parents)
    <2>1. c.events[i].parents \subseteq d.events[i].parents \union AllParents(d)
      BY SearchNamed DEF Contracted, Resolve
    <2>2. d.events[i].parents \subseteq AllParents(d)
      BY <1>1 DEF AllParents
    <2>3. QED
      BY <1>2, <2>1, <2>2, FS_Subset
  <1>4. QED
    BY <1>1, <1>3 DEF Finite

\* No call makes the DAG infinite.
LEMMA NextKeepsFinite == Good(dag) /\ Finite(dag) /\ [Next]_dag => Finite(dag)'
  <1> SUFFICES ASSUME Good(dag), Finite(dag), [Next]_dag
               PROVE  Finite(dag')
    BY DEF Finite, Keys
  <1>1. CASE dag'.events = dag.events
    BY <1>1 DEF Finite, Keys
  <1>2. ASSUME NEW e \in Catalog, InsertEvent(e) PROVE Finite(dag')
    <2>1. CASE e.id \in Keys(dag)
      BY <1>2, <2>1 DEF InsertEvent, Insert
    <2>2. CASE e.id \notin Keys(dag)
      <3>1. /\ Keys(dag') = Keys(dag) \union {e.id}
            /\ \A i \in Keys(dag) : dag'.events[i] = dag.events[i]
            /\ dag'.events[e.id] = e
        BY <1>2, <2>2, InsertEffect DEF InsertEvent, Good, Typed
      <3>2. IsFiniteSet(e.parents)
        BY CatalogAssumption
      <3>3. QED
        BY <3>1, <3>2, FS_AddElement DEF Finite
    <2>3. QED
      BY <2>1, <2>2
  <1>3. ASSUME NEW id \in Removable, RemoveEvent(id) PROVE Finite(dag')
    <2>1. CASE id \notin Keys(dag)
      BY <1>3, <2>1 DEF RemoveEvent, Remove
    <2>2. CASE id \in Keys(dag)
      <3>1. id \notin dag.events[id].parents
        BY <2>2, BelowIsAcyclic, ThroughStarts DEF Good, Ancestors
      <3>2. Contracted(dag, Remove(dag, id), {id})
        BY <2>2, <3>1, RemoveContracts DEF Good, Typed
      <3>3. QED
        BY <1>3, <3>2, ContractionKeepsFinite DEF RemoveEvent
    <2>3. QED
      BY <2>1, <2>2
  <1>4. ASSUME NEW S \in SUBSET Tombstones, Compact(S) PROVE Finite(dag')
    <2>1. Contracted(dag, CompactTombstones(dag, S), S \intersect Keys(dag))
      BY CompactContracts DEF Good, Typed
    <2>2. QED
      BY <1>4, <2>1, ContractionKeepsFinite DEF Compact
  <1>5. ASSUME NEW id \in Queried, AskAncestors(id) PROVE dag'.events = dag.events
    <2>1. PICK events, children, cache :
              dag = [events |-> events, children |-> children, ancestry_cache |-> cache]
      BY DEF Good, Typed, Shaped
    <2>2. dag'.events = events
      BY <1>5, <2>1 DEF AskAncestors, QueryAncestors
    <2>3. QED
      BY <2>1, <2>2
  <1>6. QED
    BY <1>1, <1>2, <1>3, <1>4, <1>5 DEF Next

\* Finite is an invariant as well.
LEMMA FiniteIsInvariant == Spec => []Finite(dag)
  <1>1. Init => Finite(dag)
    BY EmptyIsPart, FS_EmptySet DEF Init, Finite
  <1>2. QED
    BY <1>1, NextKeepsFinite, GoodIsInvariant, PTL DEF Spec

\* frontier() covers the history after any sequence of calls: what is created on it has
\* every event in its past.
THEOREM DagFrontierCovers == Spec => []FrontierIsWholePast
  <1>1. Good(dag) /\ Finite(dag) => FrontierIsWholePast
    BY ForwardEnds, BelowIsAcyclic DEF Good, FrontierIsWholePast
  <1>2. QED
    BY <1>1, FiniteIsInvariant, GoodIsInvariant, PTL

----------------------------------------------------------------------------
\* topological_order after any sequence of calls, while keys match ids: each listed event
\* once and after its parents, and all that have their whole past in the DAG are listed.
THEOREM DagOrderExact == Spec => []TopoExact
  <1>1. Good(dag) /\ Finite(dag) => TopoExact
    BY OrderIsExact, BelowIsAcyclic DEF Good, TopoExact
  <1>2. QED
    BY <1>1, FiniteIsInvariant, GoodIsInvariant, PTL

----------------------------------------------------------------------------
\* Two contractions by the same events have the same parents, hence the same index.
LEMMA SameContraction ==
    ASSUME NEW d, NEW c, NEW e, NEW T, Contracted(d, c, T), Contracted(d, e, T),
           ChildrenExact(c), ChildrenExact(e)
    PROVE  /\ Keys(c) = Keys(e)
           /\ \A k \in Keys(c) : c.events[k].parents = e.events[k].parents
           /\ c.children = e.children
  <1>1. /\ Keys(c) = Keys(e)
        /\ \A k \in Keys(c) : c.events[k].parents = e.events[k].parents
    BY DEF Contracted
  <1>2. \A k \in Keys(c) : {<<p, k>> : p \in c.events[k].parents} = {<<p, k>> : p \in e.events[k].parents}
    BY <1>1
  <1>3. c.children = e.children
    BY <1>1, <1>2 DEF ChildrenExact, EdgesOf, Keys
  <1>4. QED
    BY <1>1, <1>3

\* Compaction in two calls.
LEMMA CompactTwice ==
    ASSUME NEW d, Good(d), NEW S, NEW T, T \subseteq S, S \subseteq Keys(d)
    PROVE  CompactTombstones(CompactTombstones(d, T), S).events = CompactTombstones(d, S).events
  <1> DEFINE once  == CompactTombstones(d, S)
             c     == CompactTombstones(d, T)
             twice == CompactTombstones(c, S)
             As(e, ps) == WithParents(e, ps)
  <1>1. /\ Contracted(d, once, S) /\ Shaped(once)
        /\ \A i \in Keys(once) : \/ once.events[i] = d.events[i]
                                \/ once.events[i] = WithParents(d.events[i], once.events[i].parents)
    <2>1. S \intersect Keys(d) = S
      OBVIOUS
    <2>2. Shaped(d) /\ ChildrenExact(d)
      BY DEF Good, Typed
    <2>3. /\ Contracted(d, once, S \intersect Keys(d)) /\ Shaped(once)
          /\ \A i \in Keys(once) : \/ once.events[i] = d.events[i]
                                  \/ once.events[i] = WithParents(d.events[i], once.events[i].parents)
      BY <2>2, CompactContracts
    <2> HIDE DEF once
    <2>4. QED
      BY <2>1, <2>3
  <1>2. /\ Contracted(d, c, T) /\ Good(c)
        /\ \A i \in Keys(c) : \/ c.events[i] = d.events[i]
                              \/ c.events[i] = WithParents(d.events[i], c.events[i].parents)
    <2>1. T \intersect Keys(d) = T
      OBVIOUS
    <2>2. Shaped(d) /\ ChildrenExact(d)
      BY DEF Good, Typed
    <2>3. /\ Contracted(d, c, T \intersect Keys(d))
          /\ \A i \in Keys(c) : \/ c.events[i] = d.events[i]
                               \/ c.events[i] = WithParents(d.events[i], c.events[i].parents)
      BY <2>2, CompactContracts
    <2>4. Good(c)
      BY CompactIsGood
    <2> HIDE DEF c
    <2>5. QED
      BY <2>1, <2>3, <2>4
  <1>3. S \intersect Keys(c) = S \ T
    BY <1>2 DEF Contracted
  <1> HIDE DEF c
  <1>4. /\ Contracted(c, twice, S \ T) /\ Shaped(twice)
        /\ \A i \in Keys(twice) : \/ twice.events[i] = c.events[i]
                                 \/ twice.events[i] = WithParents(c.events[i], twice.events[i].parents)
    <2>1. Shaped(c) /\ ChildrenExact(c)
      BY <1>2 DEF Good, Typed
    <2>2. QED
      BY <1>3, <2>1, CompactContracts
  <1> HIDE DEF once, twice
  <1>5. Contracted(d, twice, S)
    <2>1. T \union (S \ T) = S
      OBVIOUS
    <2>2. QED
      BY <1>2, <1>4, <2>1, ContractionsCompose
  <1>6. Keys(twice) = Keys(once) /\ Keys(twice) \subseteq Keys(c) /\ Keys(twice) \subseteq Keys(d)
    BY <1>1, <1>4, <1>5 DEF Contracted
  <1>7. ASSUME NEW i \in Keys(once) PROVE twice.events[i] = once.events[i]
    <2> DEFINE ps == once.events[i].parents
    <2>1. twice.events[i].parents = ps
      BY <1>1, <1>5, <1>6 DEF Contracted
    <2>2. d.events[i] = As(d.events[i], d.events[i].parents)
      <3>1. d.events[i] = [id |-> d.events[i].id, payload |-> i[1], parents |-> d.events[i].parents]
        BY <1>6 DEF Good, Typed
      <3>2. d.events[i].payload = i[1]
        BY <3>1
      <3>3. QED
        BY <3>1, <3>2 DEF WithParents
    <2>3. once.events[i] = As(d.events[i], ps)
      BY <1>1, <2>2
    <2>4. c.events[i] = As(d.events[i], c.events[i].parents)
      BY <1>2, <1>6, <2>2
    <2>5. As(c.events[i], ps) = As(d.events[i], ps)
      BY <2>4 DEF WithParents
    <2>6. c.events[i] = As(c.events[i], c.events[i].parents)
      BY <2>4 DEF WithParents
    <2>7. twice.events[i] = As(c.events[i], ps)
      BY <1>4, <1>6, <2>1, <2>6
    <2>8. QED
      BY <2>3, <2>5, <2>7
  <1>8. twice.events = once.events
    BY <1>1, <1>4, <1>6, <1>7 DEF Shaped
  <1>9. QED
    BY <1>8 DEF once, twice, c

\* Compaction of all but one, and removal of that one.
LEMMA CompactThenRemove ==
    ASSUME NEW d, Good(d), NEW S, S \subseteq Keys(d), NEW i \in S
    PROVE  LET all == CompactTombstones(d, S)
               one == Remove(CompactTombstones(d, S \ {i}), i)
           IN  /\ Keys(one) = Keys(all)
               /\ \A k \in Keys(all) : one.events[k].parents = all.events[k].parents
               /\ one.children = all.children
  <1> DEFINE all == CompactTombstones(d, S)
             c   == CompactTombstones(d, S \ {i})
             one == Remove(c, i)
  <1>1. S \intersect Keys(d) = S /\ (S \ {i}) \intersect Keys(d) = S \ {i}
    OBVIOUS
  <1>2. Contracted(d, all, S) /\ ChildrenExact(all)
    BY <1>1, CompactContracts DEF Good, Typed
  <1>3. Contracted(d, c, S \ {i}) /\ Good(c)
    BY <1>1, CompactContracts, CompactIsGood DEF Good, Typed
  <1> HIDE DEF c, all
  <1>4. i \in Keys(c)
    BY <1>3 DEF Contracted
  <1>5. i \notin c.events[i].parents
    BY <1>3, <1>4, BelowIsAcyclic, ThroughStarts DEF Good, Ancestors
  <1>6. Contracted(c, one, {i}) /\ ChildrenExact(one)
    BY <1>3, <1>4, <1>5, RemoveContracts DEF Good, Typed
  <1> HIDE DEF one
  <1>7. Contracted(d, one, S)
    <2>1. (S \ {i}) \union {i} = S
      OBVIOUS
    <2>2. QED
      BY <1>3, <1>6, <2>1, ContractionsCompose
  <1>8. QED
    BY <1>2, <1>6, <1>7, SameContraction DEF one, all, c

\* Batches of tombstones may be split over calls at will, down to remove one at a time.
THEOREM DagCompactionComposes == Spec => []CompactionComposes
  <1>1. Good(dag) => CompactionComposes
    <2> SUFFICES ASSUME Good(dag), NEW S \in SUBSET (Tombstones \intersect Keys(dag))
                 PROVE  LET all == CompactTombstones(dag, S)
                        IN  /\ \A T \in SUBSET S :
                                  CompactTombstones(CompactTombstones(dag, T), S).events = all.events
                            /\ \A i \in S :
                                  LET one == Remove(CompactTombstones(dag, S \ {i}), i)
                                  IN  /\ Keys(one) = Keys(all)
                                      /\ \A k \in Keys(all) : one.events[k].parents = all.events[k].parents
                                      /\ one.children = all.children
      BY DEF CompactionComposes
    <2>1. S \subseteq Keys(dag)
      OBVIOUS
    <2>2. QED
      BY <2>1, CompactTwice, CompactThenRemove
  <1>2. QED
    BY <1>1, GoodIsInvariant, PTL
=============================================================================
