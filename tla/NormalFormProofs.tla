-------------------------- MODULE NormalFormProofs --------------------------
(***************************************************************************)
(* What the loop of NormalForm::reduce does to any history, whatever the   *)
(* catalog, the order of ids and the bound on turns: in the default        *)
(* configuration it amounts to one pass of noop elimination; without noop  *)
(* elimination C1 never finds two equal cones; and the statistics account  *)
(* for every event that went.                                              *)
(*                                                                         *)
(* Then C1 beside noop elimination: the loop ends by itself, its first     *)
(* turn never loses an event that others were merged into, and as long as  *)
(* no later turn does, the history stays closed, the incremental cache     *)
(* exact, and one event per shape is left (WholeInv, MergeInv, LoopInv).   *)
(***************************************************************************)
EXTENDS NormalForm, HistoryProofs

\* Every hash that compute_all leaves for a DAG as insertion makes it is the one that
\* the final cache gives, and each id is hashed at a level after all of its parents.
LEMMA ListedHashes ==
    ASSUME NEW d, Finite(d), ChildrenExact(d), KeysMatchIds(d)
    PROVE  LET levels == Levels(d)
               C      == ComputeAll(d)
           IN  /\ DOMAIN levels = 0 .. Cardinality(Keys(d))
               /\ DOMAIN C = UNION {DOMAIN levels[n] : n \in DOMAIN levels}
               /\ \A n \in DOMAIN levels : \A i \in DOMAIN levels[n] :
                      /\ i \in Keys(d)
                      /\ d.events[i].parents \subseteq Before(levels, n)
                      /\ C[i] = ConeHash(d.events[i], C)
  <1> DEFINE levels == Levels(d)
             C      == ComputeAll(d)
  <1> DEFINE N    == Keys(d)
             Q    == [i \in N |-> d.events[i].parents]
             last == Cardinality(N)
             B(n) == Before(levels, n)
  <1>1. last \in Nat
    BY FS_CardinalityType DEF Finite
  <1>2. ByReadiness(N, Q, levels)
    <2>1. levels = Kahn(d.children, TurnState(N, Q, {}))
      BY LevelsStart
    <2>2. IsFiniteSet(N) /\ \A i \in N : IsFiniteSet(Q[i])
      BY DEF Finite
    <2>3. \A p, c \in N : <<p, c>> \in d.children <=> p \in Q[c]
      BY EdgeIsPointer DEF ChildrenExact, Keys
    <2> HIDE DEF N, Q, levels
    <2>4. QED
      BY <2>1, <2>2, <2>3, KahnLevels
  <1> HIDE DEF levels
  <1>3. DOMAIN levels = 0 .. last
    BY <1>2 DEF ByReadiness
  <1>4. ASSUME NEW n \in 0 .. last
        PROVE  /\ DOMAIN levels[n] \subseteq N
               /\ DOMAIN levels[n] \intersect B(n) = {}
               /\ \A i \in DOMAIN levels[n] : d.events[i].parents \subseteq B(n)
               /\ B(n + 1) = B(n) \union DOMAIN levels[n]
    <2>1. DOMAIN levels[n] = Ready(N, Q, B(n)) \ B(n)
      BY <1>2, <1>3 DEF ByReadiness
    <2>2. B(n + 1) = B(n) \union DOMAIN levels[n]
      <3>1. 0 .. (n + 1) - 1 = (0 .. n - 1) \union {n}
        OBVIOUS
      <3>2. QED
        BY <3>1 DEF Before
    <2>3. QED
      BY <2>1, <2>2 DEF Ready
  <1>5. PICK f : IsHashing(<<>>, levels, d, last, f)
    <2> HIDE DEF last
    <2>1. QED
      BY <1>1, <1>3, LevelsAreHashed
  <1> DEFINE c(n) == IF n = 0 THEN <<>> ELSE f[n - 1]
  <1>6. \A n \in 0 .. last : c(n + 1) = Hashed(c(n), levels[n], d)
    <2> SUFFICES ASSUME NEW n \in 0 .. last PROVE c(n + 1) = Hashed(c(n), levels[n], d)
      OBVIOUS
    <2>1. c(n + 1) = f[n]
      BY <1>1
    <2>2. CASE n = 0
      BY <1>5, <2>1, <2>2 DEF IsHashing
    <2>3. CASE n # 0
      <3>1. n \in 1 .. last
        BY <1>1, <2>3
      <3>2. QED
        BY <1>5, <2>1, <2>3, <3>1 DEF IsHashing
    <2>4. QED
      BY <2>2, <2>3
  <1>7. C = c(last + 1)
    BY <1>1, <1>5 DEF IsHashing, ComputeAll, levels
  <1>8. c(0) = <<>>
    OBVIOUS
  <1> HIDE DEF c, B, N, Q, last, C
  <1>9. ASSUME NEW n \in 0 .. last, DOMAIN c(n) = B(n)
        PROVE  /\ DOMAIN c(n + 1) = B(n + 1)
               /\ \A i \in B(n) : c(n + 1)[i] = c(n)[i]
               /\ \A i \in DOMAIN levels[n] : c(n + 1)[i] = ConeHash(d.events[i], c(n))
    <2>1. DOMAIN levels[n] \intersect Keys(d) = DOMAIN levels[n]
      BY <1>4 DEF N
    <2>2. c(n + 1) = [i \in B(n) \union DOMAIN levels[n] |->
                        IF i \in DOMAIN levels[n] THEN ConeHash(d.events[i], c(n)) ELSE c(n)[i]]
      BY <1>6, <1>9, <2>1 DEF Hashed
    <2>3. QED
      BY <1>4, <2>2
  <1>10. \A n \in 0 .. last + 1 : DOMAIN c(n) = B(n)
    <2> DEFINE Wrong == {n \in 0 .. last + 1 : DOMAIN c(n) # B(n)}
    <2>1. SUFFICES ASSUME Wrong # {} PROVE FALSE
      OBVIOUS
    <2>2. PICK n \in Wrong : \A m \in Wrong : n <= m
      <3>1. Wrong \in SUBSET Nat
        BY <1>1
      <3> HIDE DEF Wrong
      <3>2. QED
        BY <2>1, <3>1, LeastNumber
    <2>3. n # 0
      <3>1. DOMAIN <<>> = {}
        OBVIOUS
      <3>2. B(0) = {}
        BY DEF B, Before
      <3>3. QED
        BY <1>8, <2>2, <3>1, <3>2
    <2>4. n - 1 \in 0 .. last /\ n - 1 \in 0 .. last + 1 /\ n - 1 < n /\ n - 1 + 1 = n
      BY <1>1, <2>2, <2>3
    <2>5. n - 1 \notin Wrong
      BY <1>1, <2>2, <2>4
    <2>6. QED
      BY <1>9, <2>2, <2>4, <2>5
  <1>11. ASSUME NEW n \in 0 .. last + 1, NEW i \in B(n)
         PROVE  /\ i \in B(last + 1) /\ C[i] = c(n)[i]
    <2> DEFINE Lost == {m \in n .. last + 1 : ~(i \in B(m) /\ c(m)[i] = c(n)[i])}
    <2>1. Lost = {}
      <3>1. SUFFICES ASSUME Lost # {} PROVE FALSE
        OBVIOUS
      <3>2. PICK m \in Lost : \A k \in Lost : m <= k
        <4>1. Lost \in SUBSET Nat
          BY <1>1
        <4> HIDE DEF Lost
        <4>2. QED
          BY <3>1, <4>1, LeastNumber
      <3>3. m # n
        BY <3>2
      <3>4. m - 1 \in n .. last + 1 /\ m - 1 \in 0 .. last /\ m - 1 < m /\ m - 1 + 1 = m
        BY <1>1, <3>2, <3>3
      <3>5. m - 1 \notin Lost
        BY <1>1, <3>2, <3>4
      <3>6. i \in B(m - 1) /\ c(m - 1)[i] = c(n)[i]
        BY <3>4, <3>5
      <3>7. DOMAIN c(m - 1) = B(m - 1)
        BY <1>1, <1>10, <3>4
      <3>8. i \in B(m - 1 + 1) /\ c(m - 1 + 1)[i] = c(m - 1)[i]
        BY <1>4, <1>9, <3>4, <3>6, <3>7
      <3>9. QED
        BY <3>2, <3>4, <3>6, <3>8
    <2>2. last + 1 \in n .. last + 1
      BY <1>1
    <2>3. i \in B(last + 1) /\ c(last + 1)[i] = c(n)[i]
      BY <2>1, <2>2
    <2>4. QED
      BY <1>7, <2>3
  <1>12. ASSUME NEW n \in 0 .. last, NEW i \in DOMAIN levels[n]
         PROVE  C[i] = ConeHash(d.events[i], C)
    <2>1. n \in 0 .. last + 1 /\ n + 1 \in 0 .. last + 1 /\ last + 1 \in 0 .. last + 1
      BY <1>1
    <2>2. DOMAIN c(n) = B(n) /\ DOMAIN C = B(last + 1)
      BY <1>7, <1>10, <2>1
    <2>3. c(n + 1)[i] = ConeHash(d.events[i], c(n))
      BY <1>9, <2>2
    <2>4. i \in B(n + 1)
      BY <1>4
    <2>5. C[i] = c(n + 1)[i]
      BY <1>11, <2>1, <2>4
    <2>6. d.events[i].parents \subseteq B(n)
      BY <1>4
    <2>7. \A p \in d.events[i].parents : p \in DOMAIN C /\ c(n)[p] = C[p]
      BY <1>11, <2>1, <2>2, <2>6
    <2>8. ConeHash(d.events[i], c(n)) = ConeHash(d.events[i], C)
      BY <2>2, <2>6, <2>7, ConeHashAgrees
    <2>9. QED
      BY <2>3, <2>5, <2>8
  <1>13. DOMAIN C = UNION {DOMAIN levels[n] : n \in DOMAIN levels}
    <2>1. last + 1 \in 0 .. last + 1 /\ (last + 1) - 1 = last
      BY <1>1
    <2>2. DOMAIN C = B(last + 1)
      BY <1>7, <1>10, <2>1
    <2>3. QED
      BY <1>3, <2>1, <2>2 DEF B, Before
  <1>14. QED
    BY <1>3, <1>4, <1>12, <1>13 DEF N, last, B, levels, C

\* When every id is made from the content of its event, no two ids share a cone hash.
LEMMA DistinctCones ==
    ASSUME NEW d, Finite(d), ChildrenExact(d), KeysMatchIds(d),
           \A i \in Keys(d) : ContentAddressed(d.events[i])
    PROVE  IsomorphicGroups(ComputeAll(d)) = {}
  <1> DEFINE levels   == Levels(d)
             C        == ComputeAll(d)
             last     == Cardinality(Keys(d))
             par(i)   == d.events[i].parents
  <1>1. last \in Nat
    BY FS_CardinalityType DEF Finite
  <1>2. /\ DOMAIN levels = 0 .. last
        /\ DOMAIN C = UNION {DOMAIN levels[n] : n \in DOMAIN levels}
        /\ \A n \in DOMAIN levels : \A i \in DOMAIN levels[n] :
               /\ i \in Keys(d)
               /\ par(i) \subseteq Before(levels, n)
               /\ C[i] = ConeHash(d.events[i], C)
    BY ListedHashes
  <1> HIDE DEF levels, C, last
  <1>3. ASSUME NEW n \in 0 .. last
        PROVE  Before(levels, n) \subseteq DOMAIN C
    <2>1. 0 .. n - 1 \subseteq 0 .. last
      BY <1>1
    <2>2. QED
      BY <1>2, <2>1 DEF Before
  <1>4. ASSUME NEW i \in DOMAIN C
        PROVE  /\ i = <<d.events[i].payload, par(i)>>
               /\ par(i) \subseteq DOMAIN C
               /\ \E rest : /\ C[i] = <<d.events[i].payload, rest>>
                           /\ {C[p] : p \in par(i)} = {x[1] : x \in rest}
    <2>1. PICK n \in 0 .. last : i \in DOMAIN levels[n]
      BY <1>2
    <2>2. i \in Keys(d) /\ par(i) \subseteq DOMAIN C /\ C[i] = ConeHash(d.events[i], C)
      BY <1>2, <1>3, <2>1
    <2>3. i = <<d.events[i].payload, par(i)>>
      BY <2>2 DEF ContentAddressed, compute_id, KeysMatchIds
    <2> DEFINE count(h) == Cardinality({p \in par(i) : C[p] = h})
               rest     == {<<h, count(h)>> : h \in {C[p] : p \in par(i)}}
    <2>4. C[i] = <<d.events[i].payload, rest>>
      <3>1. par(i) \intersect DOMAIN C = par(i)
        BY <2>2
      <3>2. QED
        BY <2>2, <3>1 DEF ConeHash
    <2>5. {C[p] : p \in par(i)} = {x[1] : x \in rest}
      <3> HIDE DEF count
      <3>1. \A h : <<h, count(h)>>[1] = h
        OBVIOUS
      <3>2. QED
        BY <3>1
    <2> HIDE DEF rest
    <2>6. QED
      BY <2>2, <2>3, <2>4, <2>5
  <1>5. \A i, j \in DOMAIN C : C[i] = C[j] => i = j
    <2> DEFINE Twins(n) == \E i \in DOMAIN levels[n], j \in DOMAIN C : i # j /\ C[i] = C[j]
               At       == {n \in 0 .. last : Twins(n)}
    <2>1. At = {}
      <3>1. SUFFICES ASSUME At # {} PROVE FALSE
        OBVIOUS
      <3>2. PICK n \in At : \A m \in At : n <= m
        <4>1. At \in SUBSET Nat
          BY <1>1
        <4> HIDE DEF At
        <4>2. QED
          BY <3>1, <4>1, LeastNumber
      <3>3. PICK i \in DOMAIN levels[n], j \in DOMAIN C : i # j /\ C[i] = C[j]
        BY <3>2
      <3>4. n \in 0 .. last /\ i \in DOMAIN C
        BY <1>2, <3>2, <3>3
      <3>5. ASSUME NEW p \in par(i), NEW q \in DOMAIN C, C[p] = C[q] PROVE p = q
        <4>1. p \in Before(levels, n)
          BY <1>2, <3>3, <3>4
        <4>2. PICK m \in 0 .. n - 1 : p \in DOMAIN levels[m]
          BY <4>1 DEF Before
        <4>3. m \in 0 .. last /\ ~(n <= m)
          BY <1>1, <3>4, <4>2
        <4>4. m \notin At
          BY <3>2, <4>3
        <4>5. QED
          BY <3>5, <4>2, <4>3, <4>4
      <3>6. PICK r : /\ C[i] = <<d.events[i].payload, r>>
                     /\ {C[p] : p \in par(i)} = {x[1] : x \in r}
        BY <1>4, <3>4
      <3>7. PICK s : /\ C[j] = <<d.events[j].payload, s>>
                     /\ {C[q] : q \in par(j)} = {x[1] : x \in s}
        BY <1>4
      <3>8. d.events[i].payload = d.events[j].payload /\ r = s
        <4>1. <<d.events[i].payload, r>> = <<d.events[j].payload, s>>
          BY <3>3, <3>6, <3>7
        <4>2. QED
          BY <4>1, PairsEqual
      <3>9. {C[p] : p \in par(i)} = {C[q] : q \in par(j)}
        BY <3>6, <3>7, <3>8
      <3>10. par(j) \subseteq DOMAIN C
        BY <1>4
      <3>11. par(i) \subseteq par(j)
        BY <3>5, <3>9, <3>10
      <3>12. par(j) \subseteq par(i)
        BY <3>5, <3>9, <3>10
      <3>13. par(i) = par(j)
        BY <3>11, <3>12
      <3>14. i = <<d.events[i].payload, par(i)>> /\ j = <<d.events[j].payload, par(j)>>
        BY <1>4, <3>4
      <3>15. QED
        BY <3>3, <3>8, <3>13, <3>14
    <2>2. QED
      BY <1>2, <2>1
  <1>6. ASSUME NEW g \in IsomorphicGroups(C) PROVE FALSE
    <2>1. PICK j \in DOMAIN C : g = {i \in DOMAIN C : C[i] = C[j]} /\ Cardinality(g) > 1
      BY <1>6 DEF IsomorphicGroups
    <2>2. g = {j}
      BY <1>5, <2>1
    <2>3. Cardinality(g) = 1
      BY <2>2, FS_Singleton
    <2>4. QED
      BY <2>1, <2>3
  <1>7. QED
    BY <1>6 DEF C

----------------------------------------------------------------------------
\* The fields of an event.
EventFields == {"id", "payload", "parents"}

\* What phase C3 does to any DAG: the noops go, payloads stay, and an event names what
\* some event named before.
LEMMA PhaseC3Fields ==
    ASSUME NEW d
    PROVE  LET D == PhaseC3(d)
           IN  /\ Keys(D) = Keys(d) \ Noops(d)
               /\ \A i \in Keys(D) : /\ D.events[i].payload = d.events[i].payload
                                     /\ D.events[i].parents \subseteq AllParents(d)
                                     /\ DOMAIN D.events[i] \in {DOMAIN d.events[i], EventFields}
               /\ Noops(D) = {}
               /\ D = d \/ D.children = EdgesOf(D.events)
               /\ Noops(d) = {} => D = d
  <1> DEFINE D == PhaseC3(d)
             T == Noops(d)
             affected == {x[2] : x \in {y \in d.children : y[1] \in T}} \ T
             rewritten == [i \in Keys(d) \ T |->
                              IF i \in affected
                              THEN WithParents(d.events[i], Resolve(d, T, d.events[i].parents))
                              ELSE d.events[i]]
  <1>1. T \subseteq Keys(d) /\ T \intersect Keys(d) = T
    BY DEF Noops
  <1>2. D = IF T = {} THEN d
            ELSE [events |-> rewritten, children |-> EdgesOf(rewritten), ancestry_cache |-> <<>>]
    BY <1>1 DEF PhaseC3, CompactTombstones
  <1>3. CASE T = {}
    <2>1. D = d
      BY <1>2, <1>3
    <2>2. \A i \in Keys(d) : d.events[i].parents \subseteq AllParents(d)
      BY DEF AllParents
    <2> HIDE DEF D
    <2>3. QED
      BY <1>3, <2>1, <2>2 DEF D
  <1>4. CASE T # {}
    <2>1. D.events = rewritten /\ D.children = EdgesOf(rewritten)
      BY <1>2, <1>4
    <2>2. Keys(D) = Keys(d) \ T
      BY <2>1 DEF Keys
    <2>3. ASSUME NEW i \in Keys(D)
          PROVE  /\ D.events[i].payload = d.events[i].payload
                 /\ D.events[i].parents \subseteq AllParents(d)
                 /\ DOMAIN D.events[i] \in {DOMAIN d.events[i], EventFields}
      <3>1. d.events[i].parents \subseteq AllParents(d)
        BY <2>2, <2>3 DEF AllParents
      <3>2. Resolve(d, T, d.events[i].parents) \subseteq AllParents(d)
        BY <1>1, <3>1 DEF Resolve, Through, Universe, AllParents
      <3>3. \/ D.events[i] = d.events[i]
            \/ D.events[i] = WithParents(d.events[i], Resolve(d, T, d.events[i].parents))
        BY <2>1, <2>2, <2>3
      <3>4. QED
        BY <3>1, <3>2, <3>3 DEF WithParents, EventFields
    <2>4. Noops(D) = {}
      <3>1. \A i \in Keys(D) : D.events[i].payload # Noop
        BY <2>2, <2>3 DEF Noops, IsNoop
      <3>2. QED
        BY <3>1 DEF Noops, IsNoop
    <2> HIDE DEF D, rewritten
    <2>5. QED
      BY <1>4, <2>1, <2>2, <2>3, <2>4 DEF D
  <1>5. QED
    BY <1>3, <1>4

\* Edges between finitely many ids are finitely many.
LEMMA EdgesFinite ==
    ASSUME NEW P, NEW Q, IsFiniteSet(P), IsFiniteSet(Q),
           NEW E, \A x \in E : \E p \in P, q \in Q : x = <<p, q>>
    PROVE  IsFiniteSet(E)
  <1>1. IsFiniteSet(P \X Q)
    BY FS_Product
  <1>2. E \in SUBSET (P \X Q)
    OBVIOUS
  <1>3. QED
    BY <1>1, <1>2, FS_Subset

\* C3 keeps a DAG finite.
LEMMA PhaseC3Finite ==
    ASSUME NEW d, Finite(d), IsFiniteSet(d.children)
    PROVE  Finite(PhaseC3(d)) /\ IsFiniteSet(PhaseC3(d).children)
  <1> DEFINE D == PhaseC3(d)
  <1>1. /\ Keys(D) = Keys(d) \ Noops(d)
        /\ \A i \in Keys(D) : D.events[i].parents \subseteq AllParents(d)
        /\ D = d \/ D.children = EdgesOf(D.events)
    BY PhaseC3Fields
  <1>2. IsFiniteSet(AllParents(d))
    BY FinitelyManyParents
  <1> HIDE DEF D
  <1>3. IsFiniteSet(Keys(D))
    <2>1. Keys(D) \in SUBSET Keys(d)
      BY <1>1
    <2>2. QED
      BY <2>1, FS_Subset DEF Finite
  <1>4. \A i \in Keys(D) : IsFiniteSet(D.events[i].parents)
    BY <1>1, <1>2, FS_Subset
  <1>5. IsFiniteSet(D.children)
    <2>1. CASE D = d
      BY <2>1
    <2>2. CASE D.children = EdgesOf(D.events)
      <3>1. \A x \in D.children : \E p \in AllParents(d), q \in Keys(D) : x = <<p, q>>
        BY <1>1, <2>2 DEF EdgesOf, Keys
      <3>2. QED
        BY <1>2, <1>3, <3>1, EdgesFinite
    <2>3. QED
      BY <1>1, <2>1, <2>2
  <1>6. QED
    BY <1>3, <1>4, <1>5 DEF D, Finite

\* Hashing a finite DAG caches keys of it only.
LEMMA ComputeAllKeys ==
    ASSUME NEW d, Finite(d), IsFiniteSet(d.children)
    PROVE  DOMAIN ComputeAll(d) \subseteq Keys(d)
  <1> DEFINE last == Cardinality(Ids(d))
  <1>1. last \in Nat /\ DOMAIN Levels(d) = 0 .. last
    BY LevelsCount DEF LevelsShaped
  <1> HIDE DEF last
  <1>2. DOMAIN HashLevels(<<>>, Levels(d), d) \subseteq DOMAIN <<>> \union Keys(d)
    BY <1>1, HashesKeys
  <1>3. DOMAIN <<>> = {}
    OBVIOUS
  <1>4. QED
    BY <1>2, <1>3 DEF ComputeAll

\* So does hashing what is missing from a cache.
LEMMA ComputeDirtyKeys ==
    ASSUME NEW cache, NEW d, Finite(d)
    PROVE  DOMAIN ComputeDirty(cache, d) \subseteq DOMAIN cache \union Keys(d)
  <1> DEFINE dirty  == Keys(d) \ DOMAIN cache
             degree == [i \in dirty |-> Cardinality(d.events[i].parents \intersect dirty)]
             start  == [degree |-> degree, level |-> [i \in {x \in dirty : degree[x] = 0} |-> 1]]
             levels == Kahn(d.children, start)
             last   == Cardinality(dirty)
  <1>1. last \in Nat
    <2>1. dirty \in SUBSET Keys(d)
      OBVIOUS
    <2>2. IsFiniteSet(dirty)
      BY <2>1, FS_Subset DEF Finite
    <2>3. QED
      BY <2>2, FS_CardinalityType
  <1>2. DOMAIN levels = 0 .. last
    <2>1. DOMAIN start.degree = dirty
      OBVIOUS
    <2> HIDE DEF start, dirty
    <2>2. QED
      BY <2>1 DEF Kahn
  <1>3. ComputeDirty(cache, d) = HashLevels(cache, levels, d)
    BY DEF ComputeDirty
  <1> HIDE DEF levels, last
  <1>4. QED
    BY <1>1, <1>2, <1>3, HashesKeys

----------------------------------------------------------------------------
\* The ids that the owner may insert, and those that an event may name.
InsertedIds == {e.id : e \in Catalog}

NamedIds == InsertedIds \union UNION {e.parents : e \in Catalog}

\* The history is finite, its events keep their payloads and name known ids.
DagOk ==
    /\ DOMAIN dag = DOMAIN EmptyDag
    /\ IsFiniteSet(dag.children)
    /\ Finite(dag)
    /\ Keys(dag) \subseteq InsertedIds
    /\ \A i \in Keys(dag) : /\ DOMAIN dag.events[i] = EventFields
                            /\ dag.events[i].payload = i[1]
                            /\ dag.events[i].parents \subseteq NamedIds

\* The local variables of reduce speak of ids that were inserted.
RunOk ==
    /\ DOMAIN run = DOMAIN NotRun
    /\ IsFiniteSet(Keys(run.before))
    /\ run.iterations \in 0 .. config.max_iterations
    /\ run.duplicates \subseteq InsertedIds
    /\ run.groups \subseteq SUBSET InsertedIds
    /\ {} \notin run.groups
    /\ run.duplicates # {} => run.canonical \in InsertedIds

\* What holds in every configuration.
GInv ==
    /\ config \in Configs
    /\ rank \in Ranks
    /\ pc \in Phases
    /\ DOMAIN cone \subseteq InsertedIds
    /\ DagOk
    /\ RunOk

\* In the default configuration, before and after the C3 of a call.
C3Ahead ==
    /\ dag = run.before
    /\ run.noops_eliminated = 0
    /\ run.has_noops = TRUE => AnyNoop(dag)

C3Behind ==
    /\ dag = PhaseC3(run.before)
    /\ run.noops_eliminated = Cardinality(Noops(run.before))
    /\ run.c3_eliminated = run.noops_eliminated
    /\ run.has_noops = FALSE

\* In the default configuration C3 does everything, C1 never runs, and there is no second
\* turn.
DInv ==
    config.enable_noop_elim /\ config.assume_content_addressed =>
        /\ pc # "merge"
        /\ run.cones_merged = 0
        /\ pc # "idle" => run.iterations = 1 /\ run.size_before = Size(run.before)
        /\ pc = "C3" => C3Ahead
        /\ pc \in {"C1", "check", "done"} => C3Behind
        /\ pc \in {"check", "done"} => run.c1_merged = 0

\* Without noop elimination the history stays as insertion made it, C1 finds no group,
\* and one turn is all there is.
NInv ==
    ~config.enable_noop_elim =>
        /\ ChildrenExact(dag)
        /\ KeysMatchIds(dag)
        /\ \A i \in Keys(dag) : ContentAddressed(dag.events[i])
        /\ run.groups = {}
        /\ run.duplicates = {}
        /\ run.dirty = {}
        /\ run.noops_eliminated = 0
        /\ run.cones_merged = 0
        /\ pc # "idle" => dag = run.before /\ run.size_before = Size(dag) /\ run.iterations = 1
        /\ pc \in {"C3", "C1"} => run.cone_ready = FALSE

\* What was inserted is as Event::new makes it.
LEMMA CatalogEvents ==
    ASSUME NEW e \in Catalog
    PROVE  /\ e = [id |-> <<e.payload, e.parents>>, payload |-> e.payload, parents |-> e.parents]
           /\ e.id = <<e.payload, e.parents>>
           /\ e.id[1] = e.payload
           /\ DOMAIN e = EventFields
           /\ IsFiniteSet(e.parents)
           /\ e.parents \subseteq NamedIds
           /\ e.id \in InsertedIds
  <1>1. /\ e = [id |-> <<e.payload, e.parents>>, payload |-> e.payload, parents |-> e.parents]
        /\ IsFiniteSet(e.parents)
    BY CatalogAssumption DEF NewEvent, compute_id
  <1>2. e.id = <<e.payload, e.parents>> /\ DOMAIN e = EventFields
    <2> DEFINE r == [id |-> <<e.payload, e.parents>>, payload |-> e.payload, parents |-> e.parents]
    <2>1. r.id = <<e.payload, e.parents>> /\ DOMAIN r = EventFields
      BY DEF EventFields
    <2> HIDE DEF r
    <2>2. e = r
      BY <1>1 DEF r
    <2>3. QED
      BY <2>1, <2>2
  <1>3. e.id[1] = e.payload
    BY <1>2
  <1>4. e.parents \subseteq NamedIds /\ e.id \in InsertedIds
    BY DEF NamedIds, InsertedIds
  <1>5. QED
    BY <1>1, <1>2, <1>3, <1>4

\* The canonical member of a group is one of the group.
LEMMA FirstIsMember ==
    ASSUME rank \in Ranks, NEW g, g \subseteq InsertedIds, g # {}
    PROVE  First(g) \in g
  <1> DEFINE R == {rank[i] : i \in g}
  <1>1. R \in SUBSET Nat /\ R # {}
    BY CatalogAssumption DEF InsertedIds
  <1>2. PICK x \in R : \A y \in R : x <= y
    <2> HIDE DEF R
    <2>1. QED
      BY <1>1, LeastNumber
  <1>3. PICK c \in g : rank[c] = x
    OBVIOUS
  <1>4. \A i \in g : rank[c] <= rank[i]
    BY <1>2, <1>3
  <1>5. QED
    BY <1>4 DEF First

\* A merge moves children to the canonical event, which was inserted like the others.
LEMMA MergeKeepsDag ==
    ASSUME GInv, MergeDuplicate
    PROVE  DagOk'
  <1> DEFINE dup     == First(run.duplicates)
             kids    == {x[2] : x \in {y \in dag.children : y[1] = dup}}
             touched == {c \in kids \intersect Keys(dag) : dup \in dag.events[c].parents}
             events  == [i \in Keys(dag) \ {dup} |->
                            IF i \in touched THEN Redirected(i, dup) ELSE dag.events[i]]
             kept    == {x \in dag.children : x[1] # dup}
             moved   == {<<run.canonical, c>> : c \in kids}
  <1>1. /\ dag' = [dag EXCEPT !.events = events, !.children = kept \union moved]
        /\ run.duplicates # {}
    BY DEF MergeDuplicate
  <1>2. run.canonical \in NamedIds
    BY <1>1 DEF GInv, RunOk, NamedIds
  <1> HIDE DEF events, kept, moved
  <1>3. /\ dag'.events = events /\ dag'.children = kept \union moved
        /\ DOMAIN dag' = DOMAIN EmptyDag
    BY <1>1 DEF GInv, DagOk, EmptyDag
  <1>4. Keys(dag') = Keys(dag) \ {dup}
    BY <1>3 DEF Keys, events
  <1>5. IsFiniteSet(Keys(dag'))
    BY <1>4, FS_RemoveElement DEF GInv, DagOk, Finite
  <1>6. ASSUME NEW i \in Keys(dag')
        PROVE  /\ DOMAIN dag'.events[i] = EventFields
               /\ dag'.events[i].payload = i[1]
               /\ dag'.events[i].parents \subseteq NamedIds
               /\ IsFiniteSet(dag'.events[i].parents)
    <2> DEFINE e == dag.events[i]
               P == (e.parents \ {dup}) \union {run.canonical}
    <2>1. /\ DOMAIN e = EventFields
          /\ e.payload = i[1]
          /\ e.parents \subseteq NamedIds
          /\ IsFiniteSet(e.parents)
      BY <1>4 DEF GInv, DagOk, Finite
    <2>2. CASE i \in touched
      <3>1. dag'.events[i] = RecomputeId([e EXCEPT !.parents = P])
        BY <1>3, <1>4, <2>2 DEF events, Redirected
      <3>2. IsFiniteSet(P)
        <4> HIDE DEF e
        <4>1. IsFiniteSet(e.parents \ {dup})
          BY <2>1, FS_RemoveElement
        <4>2. QED
          BY <4>1, FS_AddElement
      <3>3. P \subseteq NamedIds
        BY <1>2, <2>1
      <3> HIDE DEF e, P
      <3>4. /\ DOMAIN dag'.events[i] = EventFields
            /\ dag'.events[i].payload = e.payload
            /\ dag'.events[i].parents = P
        BY <2>1, <3>1 DEF EventFields, RecomputeId
      <3>5. QED
        BY <2>1, <3>2, <3>3, <3>4
    <2>3. CASE i \notin touched
      <3>1. dag'.events[i] = e
        BY <1>3, <1>4, <2>3 DEF events
      <3>2. QED
        BY <2>1, <3>1
    <2>4. QED
      BY <2>2, <2>3
  <1>7. IsFiniteSet(kept) /\ IsFiniteSet(kids)
    <2>1. IsFiniteSet(dag.children)
      BY DEF GInv, DagOk
    <2>2. IsFiniteSet(kept)
      BY <2>1, FS_Subset DEF kept
    <2> DEFINE S == {y \in dag.children : y[1] = dup}
               f == [x \in S |-> x[2]]
    <2>3. IsFiniteSet(S)
      BY <2>1, FS_Subset
    <2>4. f \in Surjection(S, {x[2] : x \in S})
      BY DEF Surjection
    <2> HIDE DEF f, S
    <2>5. IsFiniteSet({x[2] : x \in S})
      BY <2>3, <2>4, FS_Surjection
    <2>6. QED
      BY <2>2, <2>5 DEF S
  <1>8. IsFiniteSet(moved)
    <2> HIDE DEF kids
    <2>1. IsFiniteSet({run.canonical})
      BY FS_Singleton
    <2>2. QED
      BY <1>7, <2>1, EdgesFinite DEF moved
  <1>9. IsFiniteSet(dag'.children)
    BY <1>3, <1>7, <1>8, FS_Union
  <1>10. Keys(dag') \subseteq InsertedIds
    BY <1>4 DEF GInv, DagOk
  <1>11. QED
    BY <1>3, <1>5, <1>6, <1>9, <1>10 DEF DagOk, Finite, Keys

\* No step makes the history infinite or brings ids in that nobody inserted.
LEMMA NextDagOk ==
    ASSUME GInv, [Next]_vars
    PROVE  DagOk'
  <1>1. ASSUME UNCHANGED dag PROVE DagOk'
    BY <1>1 DEF GInv, DagOk, Finite, Keys
  <1>2. ASSUME NEW e \in Catalog, InsertEvent(e) PROVE DagOk'
    <2> DEFINE new == {<<p, e.id>> : p \in e.parents}
    <2>1. e.id \notin Keys(dag) /\ dag' = Insert(dag, e)
      BY <1>2 DEF InsertEvent
    <2>2. /\ Keys(dag') = Keys(dag) \union {e.id}
          /\ \A i \in Keys(dag) : dag'.events[i] = dag.events[i]
          /\ dag'.events[e.id] = e
          /\ dag'.children = dag.children \union new
      <3> DEFINE D == Insert(dag, e)
      <3>1. /\ Keys(D) = Keys(dag) \union {e.id}
            /\ \A i \in Keys(dag) : D.events[i] = dag.events[i]
            /\ D.events[e.id] = e
        BY <2>1, InsertFields
      <3>2. D.children = dag.children \union new
        BY <2>1 DEF Insert
      <3> HIDE DEF D, new
      <3>3. dag' = D
        BY <2>1 DEF D
      <3>4. QED
        BY <3>1, <3>2, <3>3
    <2>3. DOMAIN dag' = DOMAIN EmptyDag
      BY <2>1 DEF Insert, EmptyDag
    <2>4. IsFiniteSet(dag'.children)
      <3>1. IsFiniteSet({e.id}) /\ IsFiniteSet(e.parents)
        BY FS_Singleton, CatalogEvents
      <3>2. IsFiniteSet(new)
        BY <3>1, EdgesFinite
      <3> HIDE DEF new
      <3>3. IsFiniteSet(dag.children)
        BY DEF GInv, DagOk
      <3>4. IsFiniteSet(dag.children \union new)
        BY <3>2, <3>3, FS_Union
      <3>5. QED
        BY <2>2, <3>4
    <2>5. Finite(dag')
      <3>1. IsFiniteSet(Keys(dag'))
        BY <2>2, FS_AddElement DEF GInv, DagOk, Finite
      <3>2. \A i \in Keys(dag') : IsFiniteSet(dag'.events[i].parents)
        BY <2>2, CatalogEvents DEF GInv, DagOk, Finite
      <3>3. QED
        BY <3>1, <3>2 DEF Finite
    <2>6. ASSUME NEW i \in Keys(dag')
          PROVE  /\ i \in InsertedIds
                 /\ DOMAIN dag'.events[i] = EventFields
                 /\ dag'.events[i].payload = i[1]
                 /\ dag'.events[i].parents \subseteq NamedIds
      <3>1. CASE i \in Keys(dag)
        BY <2>2, <3>1 DEF GInv, DagOk
      <3>2. CASE i = e.id
        BY <2>2, <3>2, CatalogEvents
      <3>3. QED
        BY <2>2, <3>1, <3>2
    <2>7. QED
      BY <2>3, <2>4, <2>5, <2>6 DEF DagOk, Finite, Keys
  <1>3. ASSUME RunC3 PROVE DagOk'
    <2>1. CASE dag' = dag
      BY <1>1, <2>1
    <2>2. CASE dag' = PhaseC3(dag)
      <3>1. /\ Keys(dag') = Keys(dag) \ Noops(dag)
            /\ \A i \in Keys(dag') : /\ dag'.events[i].payload = dag.events[i].payload
                                     /\ dag'.events[i].parents \subseteq AllParents(dag)
                                     /\ DOMAIN dag'.events[i] \in {DOMAIN dag.events[i], EventFields}
        BY <2>2, PhaseC3Fields
      <3>2. Finite(dag') /\ IsFiniteSet(dag'.children)
        BY <2>2, PhaseC3Finite DEF GInv, DagOk
      <3>3. AllParents(dag) \subseteq NamedIds
        BY DEF GInv, DagOk, AllParents
      <3>4. DOMAIN dag' = DOMAIN EmptyDag
        BY <2>2 DEF GInv, DagOk, PhaseC3, CompactTombstones, EmptyDag
      <3>5. QED
        BY <3>1, <3>2, <3>3, <3>4 DEF GInv, DagOk, Finite, Keys
    <2>3. QED
      BY <1>3, <2>1, <2>2 DEF RunC3
  <1>4. ASSUME MergeDuplicate PROVE DagOk'
    BY <1>4, MergeKeepsDag
  <1>5. ASSUME \/ StartReduce \/ SkipC1 \/ StartC1 \/ EndC1 \/ EndTurn \/ Return
               \/ \E g \in run.groups : PickGroup(g)
               \/ UNCHANGED vars
        PROVE  UNCHANGED dag
    BY <1>5 DEF StartReduce, SkipC1, StartC1, EndC1, EndTurn, Return, PickGroup, vars
  <1>6. QED
    BY <1>1, <1>2, <1>3, <1>4, <1>5 DEF Next, Reducing

\* Neither do the local variables of reduce ever name an id that nobody inserted, or count
\* a turn too many.
LEMMA NextRunOk ==
    ASSUME GInv, [Next]_vars
    PROVE  RunOk'
  <1>1. ASSUME UNCHANGED <<run, config>> PROVE RunOk'
    BY <1>1 DEF GInv, RunOk, Keys
  <1>2. ASSUME StartReduce PROVE RunOk'
    <2>1. /\ run' = [NotRun EXCEPT !.before = dag,
                                   !.iterations = 1,
                                   !.size_before = Size(dag),
                                   !.has_noops = config.enable_cone_merge /\ AnyNoop(dag)]
          /\ config' = config
      BY <1>2 DEF StartReduce, fixed
    <2>2. /\ DOMAIN run' = DOMAIN NotRun /\ run'.before = dag /\ run'.iterations = 1
          /\ run'.duplicates = {} /\ run'.groups = {}
      BY <2>1 DEF NotRun
    <2>3. config.max_iterations \in Nat \ {0}
      BY ConfigAssumption DEF GInv, NfConfig
    <2>4. 1 \in 0 .. config'.max_iterations
      BY <2>1, <2>3
    <2>5. IsFiniteSet(Keys(run'.before))
      BY <2>2 DEF GInv, DagOk, Finite
    <2>6. QED
      BY <2>2, <2>4, <2>5 DEF RunOk, Keys
  <1>3. ASSUME Return PROVE RunOk'
    <2>1. run' = NotRun /\ config' = config
      BY <1>3 DEF Return, fixed
    <2>2. /\ DOMAIN run' = DOMAIN NotRun /\ run'.before = EmptyDag /\ run'.iterations = 0
          /\ run'.duplicates = {} /\ run'.groups = {}
      BY <2>1 DEF NotRun
    <2>3. IsFiniteSet(Keys(run'.before))
      BY <2>2, FS_EmptySet DEF EmptyDag, Keys
    <2>4. config'.max_iterations \in Nat \ {0}
      BY <2>1, ConfigAssumption DEF GInv, NfConfig
    <2>5. QED
      BY <2>2, <2>3, <2>4 DEF RunOk, Keys
  <1>4. ASSUME DOMAIN run' = DOMAIN run, config' = config,
               run'.before = run.before,
               run'.iterations = run.iterations,
               run'.duplicates \subseteq InsertedIds,
               run'.groups \subseteq SUBSET InsertedIds,
               {} \notin run'.groups,
               run'.duplicates # {} => run'.canonical \in InsertedIds
        PROVE  RunOk'
    BY <1>4 DEF GInv, RunOk, Keys
  <1>5. ASSUME RunC3 PROVE RunOk'
    <2>1. /\ DOMAIN run' = DOMAIN run /\ config' = config
          /\ run'.before = run.before /\ run'.iterations = run.iterations
          /\ run'.duplicates = run.duplicates /\ run'.groups = run.groups
          /\ run'.canonical = run.canonical
      BY <1>5 DEF RunC3, fixed, GInv, RunOk, NotRun
    <2>2. QED
      BY <1>4, <2>1 DEF GInv, RunOk
  <1>6. ASSUME SkipC1 PROVE RunOk'
    <2>1. /\ DOMAIN run' = DOMAIN run /\ config' = config
          /\ run'.before = run.before /\ run'.iterations = run.iterations
          /\ run'.duplicates = run.duplicates /\ run'.groups = run.groups
          /\ run'.canonical = run.canonical
      BY <1>6 DEF SkipC1, fixed, GInv, RunOk, NotRun
    <2>2. QED
      BY <1>4, <2>1 DEF GInv, RunOk
  <1>7. ASSUME StartC1 PROVE RunOk'
    <2>1. /\ DOMAIN run' = DOMAIN run /\ config' = config
          /\ run'.before = run.before /\ run'.iterations = run.iterations
          /\ run'.duplicates = run.duplicates /\ run'.canonical = run.canonical
          /\ run'.groups = IsomorphicGroups(cone')
          /\ cone' = IF run.cone_ready THEN cone ELSE ComputeAll(dag)
      BY <1>7 DEF StartC1, fixed, GInv, RunOk, NotRun
    <2>2. DOMAIN cone' \subseteq InsertedIds
      <3>1. DOMAIN ComputeAll(dag) \subseteq Keys(dag)
        BY ComputeAllKeys DEF GInv, DagOk
      <3>2. QED
        BY <2>1, <3>1 DEF GInv, DagOk
    <2>3. run'.groups \subseteq SUBSET InsertedIds /\ {} \notin run'.groups
      BY <2>1, <2>2, FS_EmptySet DEF IsomorphicGroups
    <2>4. QED
      BY <1>4, <2>1, <2>3 DEF GInv, RunOk
  <1>8. ASSUME NEW g \in run.groups, PickGroup(g) PROVE RunOk'
    <2>1. /\ DOMAIN run' = DOMAIN run /\ config' = config
          /\ run'.before = run.before /\ run'.iterations = run.iterations
          /\ run'.duplicates = g \ {First(g)} /\ run'.canonical = First(g)
          /\ run'.groups = run.groups \ {g}
      BY <1>8 DEF PickGroup, fixed, GInv, RunOk, NotRun
    <2>2. g \subseteq InsertedIds /\ g # {}
      BY DEF GInv, RunOk
    <2>3. First(g) \in InsertedIds
      BY <2>2, FirstIsMember DEF GInv
    <2>4. QED
      BY <1>4, <2>1, <2>2, <2>3 DEF GInv, RunOk
  <1>9. ASSUME MergeDuplicate PROVE RunOk'
    <2>1. /\ DOMAIN run' = DOMAIN run /\ config' = config
          /\ run'.before = run.before /\ run'.iterations = run.iterations
          /\ run'.duplicates \subseteq run.duplicates /\ run.duplicates # {}
          /\ run'.canonical = run.canonical /\ run'.groups = run.groups
      BY <1>9 DEF MergeDuplicate, fixed, GInv, RunOk, NotRun
    <2>2. QED
      BY <1>4, <2>1 DEF GInv, RunOk
  <1>10. ASSUME EndTurn, ~LastTurn PROVE RunOk'
    <2>1. /\ DOMAIN run' = DOMAIN run /\ config' = config
          /\ run'.before = run.before /\ run'.iterations = run.iterations + 1
          /\ run'.duplicates = run.duplicates /\ run'.canonical = run.canonical
          /\ run'.groups = run.groups
      BY <1>10 DEF EndTurn, fixed, GInv, RunOk, NotRun
    <2>2. run.iterations # config.max_iterations
      BY <1>10 DEF LastTurn
    <2>3. config.max_iterations \in Nat
      BY ConfigAssumption DEF GInv, NfConfig
    <2>4. run'.iterations \in 0 .. config'.max_iterations
      BY <2>1, <2>2, <2>3 DEF GInv, RunOk
    <2>5. QED
      BY <2>1, <2>4 DEF GInv, RunOk, Keys
  <1>11. ASSUME \/ \E e \in Catalog : InsertEvent(e)
                \/ EndC1
                \/ EndTurn /\ LastTurn
                \/ UNCHANGED vars
         PROVE  UNCHANGED <<run, config>>
    BY <1>11 DEF InsertEvent, EndC1, EndTurn, vars, fixed
  <1>12. QED
    BY <1>1, <1>2, <1>3, <1>5, <1>6, <1>7, <1>8, <1>9, <1>10, <1>11 DEF Next, Reducing

\* The cache speaks of keys of the history, or of what it spoke of before.
LEMMA NextConeOk ==
    ASSUME GInv, [Next]_vars
    PROVE  DOMAIN cone' \subseteq InsertedIds
  <1>1. DagOk'
    BY NextDagOk
  <1>2. DOMAIN ComputeAll(dag) \subseteq InsertedIds
    BY ComputeAllKeys DEF GInv, DagOk
  <1>3. \A d, changed : DOMAIN Invalidate(cone, changed, d) \subseteq DOMAIN cone
    BY DEF Invalidate
  <1>4. ASSUME NEW d, NEW changed, Finite(d), Keys(d) \subseteq InsertedIds
        PROVE  DOMAIN ComputeDirty(Invalidate(cone, changed, d), d) \subseteq InsertedIds
    BY <1>3, <1>4, ComputeDirtyKeys DEF GInv
  <1>5. Finite(dag) /\ Keys(dag) \subseteq InsertedIds
    BY DEF GInv, DagOk
  <1>6. Finite(dag') /\ Keys(dag') \subseteq InsertedIds
    BY <1>1 DEF DagOk, Finite, Keys
  <1>7. ASSUME RunC3 PROVE DOMAIN cone' \subseteq InsertedIds
    BY <1>4, <1>6, <1>7 DEF RunC3, GInv
  <1>8. ASSUME StartC1 PROVE DOMAIN cone' \subseteq InsertedIds
    BY <1>2, <1>8 DEF StartC1, GInv
  <1>9. ASSUME EndC1 PROVE DOMAIN cone' \subseteq InsertedIds
    BY <1>4, <1>5, <1>9 DEF EndC1, GInv
  <1>10. ASSUME EndTurn PROVE DOMAIN cone' \subseteq InsertedIds
    BY <1>2, <1>10 DEF EndTurn, GInv
  <1>11. ASSUME \/ \E e \in Catalog : InsertEvent(e)
                \/ StartReduce \/ SkipC1 \/ Return \/ MergeDuplicate
                \/ \E g \in run.groups : PickGroup(g)
                \/ UNCHANGED vars
         PROVE  UNCHANGED cone
    BY <1>11 DEF InsertEvent, StartReduce, SkipC1, Return, MergeDuplicate, PickGroup, vars
  <1>12. QED
    BY <1>7, <1>8, <1>9, <1>10, <1>11 DEF Next, Reducing, GInv

\* What holds in every configuration goes on holding.
LEMMA NextGInv == GInv /\ [Next]_vars => GInv'
  <1> SUFFICES ASSUME GInv, [Next]_vars PROVE GInv'
    OBVIOUS
  <1>1. config' = config /\ rank' = rank
    BY DEF Next, Reducing, InsertEvent, StartReduce, RunC3, SkipC1, StartC1, PickGroup,
           MergeDuplicate, EndC1, EndTurn, Return, vars, fixed
  <1>2. pc' \in Phases
    BY DEF GInv, Phases, Next, Reducing, InsertEvent, StartReduce, RunC3, SkipC1, StartC1,
           PickGroup, MergeDuplicate, EndC1, EndTurn, Return, vars
  <1>3. QED
    BY <1>1, <1>2, NextDagOk, NextRunOk, NextConeOk DEF GInv

\* A reducer starts with an empty history.
LEMMA InitGInv == Init => GInv
  <1> SUFFICES ASSUME Init PROVE GInv
    OBVIOUS
  <1>1. /\ dag = EmptyDag /\ cone = <<>> /\ pc = "idle" /\ run = NotRun
        /\ config \in Configs /\ rank \in Ranks
    BY DEF Init
  <1>2. Keys(EmptyDag) = {} /\ EmptyDag.children = {}
    BY DEF EmptyDag, Keys
  <1>3. DagOk
    BY <1>1, <1>2, FS_EmptySet DEF DagOk, Finite
  <1>4. RunOk
    <2>1. /\ run.before = EmptyDag /\ run.iterations = 0
          /\ run.duplicates = {} /\ run.groups = {}
      BY <1>1 DEF NotRun
    <2>2. config.max_iterations \in Nat \ {0}
      BY <1>1, ConfigAssumption DEF NfConfig
    <2>3. IsFiniteSet(Keys(run.before))
      BY <1>2, <2>1, FS_EmptySet
    <2>4. run.iterations \in 0 .. config.max_iterations
      BY <2>1, <2>2
    <2>5. QED
      BY <1>1, <2>1, <2>3, <2>4 DEF RunOk
  <1>5. DOMAIN cone \subseteq InsertedIds
    <2>1. DOMAIN <<>> = {}
      OBVIOUS
    <2>2. QED
      BY <1>1, <2>1
  <1>6. QED
    BY <1>1, <1>3, <1>4, <1>5 DEF GInv, Phases

\* In every configuration and for every order of ids, stored events are catalog payloads
\* over catalog ids, the cone cache speaks of ids that were inserted, and the turns stay
\* within max_iterations.
THEOREM NormalFormTyped == Spec => []TypeOK
  <1>1. GInv => TypeOK
    BY DEF GInv, DagOk, RunOk, TypeOK, InsertedIds, NamedIds
  <1>2. QED
    BY <1>1, InitGInv, NextGInv, PTL DEF Spec

----------------------------------------------------------------------------
\* In the default configuration, no step leads away from the one pass of C3.
LEMMA NextDInv ==
    ASSUME GInv, DInv, [Next]_vars
    PROVE  DInv'
  <1>1. config' = config
    BY DEF Next, Reducing, InsertEvent, StartReduce, RunC3, SkipC1, StartC1, PickGroup,
           MergeDuplicate, EndC1, EndTurn, Return, vars, fixed
  <1> SUFFICES ASSUME config.enable_noop_elim, config.assume_content_addressed
               PROVE  DInv'
    BY <1>1 DEF DInv
  <1> USE DEF DInv, C3Ahead, C3Behind
  <1>2. ASSUME UNCHANGED <<dag, pc, run>> PROVE DInv'
    BY <1>1, <1>2 DEF Size
  <1>3. ASSUME NEW e \in Catalog, InsertEvent(e) PROVE DInv'
    BY <1>3 DEF InsertEvent
  <1>4. ASSUME StartReduce PROVE DInv'
    <2>1. /\ pc' = "C3" /\ dag' = dag
          /\ run' = [NotRun EXCEPT !.before = dag,
                                   !.iterations = 1,
                                   !.size_before = Size(dag),
                                   !.has_noops = config.enable_cone_merge /\ AnyNoop(dag)]
      BY <1>4 DEF StartReduce
    <2>2. /\ run'.before = dag /\ run'.noops_eliminated = 0 /\ run'.cones_merged = 0
          /\ run'.iterations = 1 /\ run'.size_before = Size(dag)
      BY <2>1 DEF NotRun
    <2>3. run'.has_noops = (config.enable_cone_merge /\ AnyNoop(dag))
      BY <2>1 DEF NotRun
    <2>4. run'.has_noops = TRUE => AnyNoop(dag')
      BY <2>1, <2>3 DEF AnyNoop
    <2>5. QED
      BY <2>1, <2>2, <2>4 DEF AnyNoop, Noops, Size
  <1>5. ASSUME RunC3 PROVE DInv'
    <2> DEFINE tombstones == Noops(dag)
    <2>1. /\ pc = "C3" /\ pc' = "C1" /\ dag' = PhaseC3(dag)
          /\ run'.before = run.before
          /\ run'.iterations = run.iterations /\ run'.size_before = run.size_before
          /\ run'.cones_merged = run.cones_merged
          /\ run'.c3_eliminated = Cardinality(tombstones)
          /\ run'.noops_eliminated = run.noops_eliminated + Cardinality(tombstones)
          /\ run'.has_noops = (run.has_noops /\ (tombstones = {} \/ AnyNoop(dag')))
      BY <1>5 DEF RunC3, GInv, RunOk, NotRun
    <2>2. C3Ahead
      BY <2>1
    <2>3. ~AnyNoop(dag')
      BY <2>1, PhaseC3Fields DEF AnyNoop
    <2>4. Cardinality(tombstones) \in Nat
      <3>1. Noops(dag) \in SUBSET Keys(dag) /\ IsFiniteSet(Keys(dag))
        BY DEF Noops, GInv, DagOk, Finite
      <3>2. IsFiniteSet(Noops(dag))
        BY <3>1, FS_Subset
      <3>3. QED
        BY <3>2, FS_CardinalityType
    <2>5. /\ run'.noops_eliminated = Cardinality(Noops(run'.before))
          /\ run'.c3_eliminated = run'.noops_eliminated
      BY <2>1, <2>2, <2>4
    <2>6. run'.has_noops = FALSE
      BY <2>1, <2>2, <2>3 DEF AnyNoop
    <2>7. run'.size_before = Size(run'.before)
      BY <2>1
    <2>8. QED
      BY <2>1, <2>2, <2>5, <2>6, <2>7 DEF Size
  <1>6. ASSUME SkipC1 PROVE DInv'
    <2>1. /\ pc = "C1" /\ pc' = "check" /\ dag' = dag
          /\ run'.before = run.before
          /\ run'.iterations = run.iterations /\ run'.size_before = run.size_before
          /\ run'.cones_merged = run.cones_merged
          /\ run'.c3_eliminated = run.c3_eliminated
          /\ run'.noops_eliminated = run.noops_eliminated
          /\ run'.has_noops = run.has_noops
          /\ run'.c1_merged = 0
      BY <1>6 DEF SkipC1, GInv, RunOk, NotRun
    <2>2. QED
      BY <2>1 DEF Size
  <1>7. ASSUME StartC1 PROVE DInv'
    BY <1>7 DEF StartC1, ShouldRunC1
  <1>8. ASSUME EndTurn PROVE DInv'
    <2> DEFINE T == Noops(run.before)
    <2>1. pc = "check" /\ dag' = dag
      BY <1>8 DEF EndTurn
    <2>2. /\ dag = PhaseC3(run.before) /\ run.c3_eliminated = Cardinality(T)
          /\ run.c1_merged = 0 /\ run.has_noops = FALSE
          /\ run.size_before = Size(run.before)
      BY <2>1
    <2>3. IsFiniteSet(T)
      <3>1. T \in SUBSET Keys(run.before) /\ IsFiniteSet(Keys(run.before))
        BY DEF Noops, GInv, RunOk
      <3>2. QED
        BY <3>1, FS_Subset
    <2>4. LastTurn
      <3>1. CASE T = {}
        <4>1. dag = run.before
          BY <2>2, <3>1, PhaseC3Fields
        <4>2. QED
          BY <2>2, <4>1 DEF LastTurn
      <3>2. CASE T # {}
        <4>1. Cardinality(T) \in Nat /\ Cardinality(T) # 0
          BY <2>3, <3>2, FS_EmptySet, FS_CardinalityType
        <4>2. run.c3_eliminated > 0
          BY <2>2, <4>1
        <4>3. QED
          BY <2>2, <4>2 DEF LastTurn
      <3>3. QED
        BY <3>1, <3>2
    <2>5. pc' = "done" /\ run' = run
      BY <1>8, <2>4 DEF EndTurn
    <2>6. QED
      BY <2>1, <2>5 DEF Size
  <1>9. ASSUME Return PROVE DInv'
    BY <1>9 DEF Return, NotRun
  <1>10. ASSUME EndC1 \/ MergeDuplicate \/ (\E g \in run.groups : PickGroup(g)) PROVE FALSE
    BY <1>10 DEF EndC1, MergeDuplicate, PickGroup
  <1>11. QED
    BY <1>2, <1>3, <1>4, <1>5, <1>6, <1>7, <1>8, <1>9, <1>10 DEF Next, Reducing, vars

\* Without noop elimination, no step changes the history that a call was given.
LEMMA NextNInv ==
    ASSUME GInv, NInv, [Next]_vars
    PROVE  NInv'
  <1>1. config' = config
    BY DEF Next, Reducing, InsertEvent, StartReduce, RunC3, SkipC1, StartC1, PickGroup,
           MergeDuplicate, EndC1, EndTurn, Return, vars, fixed
  <1> SUFFICES ASSUME ~config.enable_noop_elim
               PROVE  NInv'
    BY <1>1 DEF NInv
  <1>2. /\ run.groups = {} /\ run.duplicates = {} /\ run.dirty = {}
        /\ run.noops_eliminated = 0 /\ run.cones_merged = 0
        /\ pc # "idle" => dag = run.before /\ run.size_before = Size(dag) /\ run.iterations = 1
        /\ pc \in {"C3", "C1"} => run.cone_ready = FALSE
    BY DEF NInv
  <1>3. ASSUME dag' = dag,
               run'.groups = {}, run'.duplicates = {}, run'.dirty = {},
               run'.noops_eliminated = 0, run'.cones_merged = 0,
               pc' # "idle" => dag' = run'.before /\ run'.size_before = Size(dag') /\ run'.iterations = 1,
               pc' \in {"C3", "C1"} => run'.cone_ready = FALSE
        PROVE  NInv'
    BY <1>3 DEF NInv, ChildrenExact, KeysMatchIds, ContentAddressed, EdgesOf, Keys, Size
  <1>4. ASSUME NEW e \in Catalog, InsertEvent(e) PROVE NInv'
    <2>1. e.id \notin Keys(dag) /\ dag' = Insert(dag, e) /\ pc = "idle" /\ pc' = pc /\ run' = run
      BY <1>4 DEF InsertEvent
    <2>2. /\ Keys(dag') = Keys(dag) \union {e.id}
          /\ \A i \in Keys(dag) : dag'.events[i] = dag.events[i]
          /\ dag'.events[e.id] = e
          /\ ChildrenExact(dag')
      <3>1. ChildrenExact(dag)
        BY DEF NInv
      <3>2. QED
        BY <2>1, <3>1, InsertFields
    <2>3. e.id = <<e.payload, e.parents>>
      BY CatalogEvents
    <2>4. ASSUME NEW i \in Keys(dag')
          PROVE  dag'.events[i].id = i /\ ContentAddressed(dag'.events[i])
      <3>1. CASE i \in Keys(dag)
        BY <2>2, <3>1 DEF NInv, KeysMatchIds
      <3>2. CASE i = e.id
        BY <2>2, <2>3, <3>2 DEF ContentAddressed, compute_id
      <3>3. QED
        BY <2>2, <3>1, <3>2
    <2>5. ChildrenExact(dag)' /\ KeysMatchIds(dag)' /\ \A i \in Keys(dag)' : ContentAddressed(dag.events[i])'
      BY <2>2, <2>4 DEF ChildrenExact, KeysMatchIds, ContentAddressed, EdgesOf, Keys
    <2>6. QED
      BY <1>2, <2>1, <2>5 DEF NInv
  <1>5. ASSUME StartReduce PROVE NInv'
    <2>1. /\ pc' = "C3" /\ dag' = dag
          /\ run' = [NotRun EXCEPT !.before = dag,
                                   !.iterations = 1,
                                   !.size_before = Size(dag),
                                   !.has_noops = config.enable_cone_merge /\ AnyNoop(dag)]
      BY <1>5 DEF StartReduce
    <2>2. /\ run'.groups = {} /\ run'.duplicates = {} /\ run'.dirty = {}
          /\ run'.noops_eliminated = 0 /\ run'.cones_merged = 0
          /\ run'.before = dag /\ run'.size_before = Size(dag) /\ run'.iterations = 1
          /\ run'.cone_ready = FALSE
      BY <2>1 DEF NotRun
    <2>3. Size(dag') = Size(dag)
      BY <2>1
    <2>4. QED
      BY <1>3, <2>1, <2>2, <2>3
  <1>6. ASSUME RunC3 PROVE NInv'
    <2>1. /\ pc = "C3" /\ pc' = "C1" /\ dag' = dag
          /\ run' = [run EXCEPT !.c3_eliminated = 0]
      BY <1>6 DEF RunC3
    <2>2. /\ run'.groups = run.groups /\ run'.duplicates = run.duplicates /\ run'.dirty = run.dirty
          /\ run'.noops_eliminated = run.noops_eliminated /\ run'.cones_merged = run.cones_merged
          /\ run'.before = run.before /\ run'.size_before = run.size_before
          /\ run'.iterations = run.iterations
          /\ run'.cone_ready = run.cone_ready
      BY <2>1 DEF GInv, RunOk, NotRun
    <2>3. QED
      BY <1>2, <1>3, <2>1, <2>2
  <1>7. ASSUME SkipC1 PROVE NInv'
    <2>1. pc = "C1" /\ pc' = "check" /\ dag' = dag /\ run' = [run EXCEPT !.c1_merged = 0]
      BY <1>7 DEF SkipC1
    <2>2. /\ run'.groups = run.groups /\ run'.duplicates = run.duplicates /\ run'.dirty = run.dirty
          /\ run'.noops_eliminated = run.noops_eliminated /\ run'.cones_merged = run.cones_merged
          /\ run'.before = run.before /\ run'.size_before = run.size_before
          /\ run'.iterations = run.iterations
      BY <2>1 DEF GInv, RunOk, NotRun
    <2>3. QED
      BY <1>2, <1>3, <2>1, <2>2
  <1>8. ASSUME StartC1 PROVE NInv'
    <2>1. /\ pc = "C1" /\ pc' = "merge" /\ dag' = dag
          /\ cone' = IF run.cone_ready THEN cone ELSE ComputeAll(dag)
          /\ run' = [run EXCEPT !.cone_ready = TRUE, !.c1_merged = 0, !.dirty = {},
                                !.groups = IsomorphicGroups(cone')]
      BY <1>8 DEF StartC1
    <2>2. /\ run'.groups = IsomorphicGroups(cone') /\ run'.dirty = {}
          /\ run'.duplicates = run.duplicates
          /\ run'.noops_eliminated = run.noops_eliminated /\ run'.cones_merged = run.cones_merged
          /\ run'.before = run.before /\ run'.size_before = run.size_before
          /\ run'.iterations = run.iterations
      BY <2>1 DEF GInv, RunOk, NotRun
    <2>3. IsomorphicGroups(ComputeAll(dag)) = {}
      <3>1. /\ Finite(dag) /\ ChildrenExact(dag) /\ KeysMatchIds(dag)
            /\ \A i \in Keys(dag) : ContentAddressed(dag.events[i])
        BY DEF GInv, DagOk, NInv
      <3>2. QED
        BY <3>1, DistinctCones
    <2>4. run'.groups = {}
      BY <1>2, <2>1, <2>2, <2>3
    <2>5. QED
      BY <1>2, <1>3, <2>1, <2>2, <2>4
  <1>9. ASSUME EndC1 PROVE NInv'
    BY <1>2, <1>3, <1>9 DEF EndC1
  <1>10. ASSUME EndTurn PROVE NInv'
    <2>1. pc = "check" /\ dag' = dag
      BY <1>10 DEF EndTurn
    <2>2. LastTurn
      BY <1>2, <2>1 DEF LastTurn
    <2>3. pc' = "done" /\ run' = run
      BY <1>10, <2>2 DEF EndTurn
    <2>4. QED
      BY <1>2, <1>3, <2>1, <2>3
  <1>11. ASSUME Return PROVE NInv'
    <2>1. pc' = "idle" /\ dag' = dag /\ run' = NotRun
      BY <1>11 DEF Return
    <2>2. /\ run'.groups = {} /\ run'.duplicates = {} /\ run'.dirty = {}
          /\ run'.noops_eliminated = 0 /\ run'.cones_merged = 0
      BY <2>1 DEF NotRun
    <2>3. QED
      BY <1>3, <2>1, <2>2
  <1>12. ASSUME MergeDuplicate \/ (\E g \in run.groups : PickGroup(g)) PROVE FALSE
    BY <1>2, <1>12 DEF MergeDuplicate
  <1>13. ASSUME UNCHANGED vars PROVE NInv'
    BY <1>2, <1>3, <1>13 DEF vars
  <1>14. QED
    BY <1>4, <1>5, <1>6, <1>7, <1>8, <1>9, <1>10, <1>11, <1>12, <1>13 DEF Next, Reducing

\* A history without events satisfies both.
LEMMA InitDNInv == Init => DInv /\ NInv
  <1> SUFFICES ASSUME Init PROVE DInv /\ NInv
    OBVIOUS
  <1>1. dag = EmptyDag /\ pc = "idle" /\ run = NotRun
    BY DEF Init
  <1>2. /\ run.groups = {} /\ run.duplicates = {} /\ run.dirty = {}
        /\ run.noops_eliminated = 0 /\ run.cones_merged = 0
    BY <1>1 DEF NotRun
  <1>3. Keys(dag) = {} /\ ChildrenExact(dag)
    BY <1>1 DEF EmptyDag, Keys, ChildrenExact, EdgesOf
  <1>4. QED
    BY <1>1, <1>2, <1>3 DEF DInv, NInv, KeysMatchIds

\* The strengthening that the theorems below rest on.
NfInv == GInv /\ DInv /\ NInv

\* It holds in every state.
LEMMA NfInvHolds == Spec => []NfInv
  <1>1. Init => NfInv
    BY InitGInv, InitDNInv DEF NfInv
  <1>2. NfInv /\ [Next]_vars => NfInv'
    BY NextGInv, NextDInv, NextNInv DEF NfInv
  <1>3. QED
    BY <1>1, <1>2, PTL DEF Spec

\* In the default configuration reduce amounts to one pass of noop elimination, for every
\* catalog, after any insertions and earlier calls: the early break of its loop is exact.
THEOREM DefaultIsNoopElimination == Spec => []DefaultIsC3
  <1>1. NfInv => DefaultIsC3
    BY DEF NfInv, DInv, C3Behind, DefaultIsC3, Done, Same, Reduce
  <1>2. QED
    BY <1>1, NfInvHolds, PTL

\* While noop elimination is off, C1 never finds two events with the same cone, even
\* when parents are missing: ids made from contents leave nothing to merge.
THEOREM ContentAddressingMerges == Spec => []NothingToMerge
  <1>1. NfInv => NothingToMerge
    BY DEF NfInv, NInv, NothingToMerge
  <1>2. QED
    BY <1>1, NfInvHolds, PTL

\* When ids are taken to be unique, the counters that reduce returns account for every
\* event that went, for every catalog and any bound on the turns.
THEOREM StatisticsAccount == Spec => []StatsAccount
  <1>1. ASSUME NfInv, Done, config.assume_content_addressed
        PROVE  Size(run.before) - Size(dag) = run.noops_eliminated + run.cones_merged
    <2>1. IsFiniteSet(Keys(run.before)) /\ IsFiniteSet(Keys(dag))
      BY <1>1 DEF NfInv, GInv, DagOk, RunOk, Finite
    <2>2. Size(run.before) \in Nat /\ Size(dag) \in Nat
      BY <2>1, FS_CardinalityType DEF Size
    <2>3. CASE ~config.enable_noop_elim
      BY <1>1, <2>2, <2>3 DEF NfInv, NInv, Done
    <2>4. CASE config.enable_noop_elim
      <3> DEFINE K == Keys(run.before)
                 T == Noops(run.before)
      <3>1. /\ dag = PhaseC3(run.before) /\ run.cones_merged = 0
            /\ run.noops_eliminated = Cardinality(T)
        BY <1>1, <2>4 DEF NfInv, DInv, C3Behind, Done
      <3>2. Keys(dag) = K \ T
        BY <3>1, PhaseC3Fields
      <3>3. K \intersect T = T /\ T \in SUBSET K
        BY DEF Noops
      <3>4. Cardinality(K \ T) = Cardinality(K) - Cardinality(T)
        BY <2>1, <3>3, FS_Difference
      <3>5. Cardinality(T) \in Nat
        BY <2>1, <3>3, FS_Subset, FS_CardinalityType
      <3>6. QED
        BY <2>2, <3>1, <3>2, <3>4, <3>5 DEF Size
    <2>5. QED
      BY <2>3, <2>4
  <1>2. NfInv => StatsAccount
    BY <1>1 DEF StatsAccount
  <1>3. QED
    BY <1>2, NfInvHolds, PTL

\* The first turn of a call is its last, unless C1 runs beside C3.
OneTurn ==
    Done /\ (config.assume_content_addressed \/ ~config.enable_noop_elim) => run.iterations = 1

\* In the default configuration, and whenever noop elimination is off, the loop of reduce
\* ends after one turn, whatever max_iterations is: it never needs its bound.
THEOREM OneTurnIsEnough == Spec => []OneTurn
  <1>1. NfInv => OneTurn
    BY DEF NfInv, DInv, NInv, OneTurn, Done
  <1>2. QED
    BY <1>1, NfInvHolds, PTL

----------------------------------------------------------------------------
\* Every parent is there.
Closed(d) == \A i \in Keys(d) : d.events[i].parents \subseteq Keys(d)

\* The hashes that a cone hash is made from.
Below(h) == {x[1] : x \in h[2]}

\* A cone hash tells the payload and the hashes of the parents.
LEMMA ConeParts ==
    ASSUME NEW e, NEW cache, e.parents \subseteq DOMAIN cache
    PROVE  /\ ConeHash(e, cache)[1] = e.payload
           /\ Below(ConeHash(e, cache)) = {cache[p] : p \in e.parents}
  <1> DEFINE H        == {cache[p] : p \in e.parents}
             count(h) == Cardinality({p \in e.parents : cache[p] = h})
             rest     == {<<h, count(h)>> : h \in H}
  <1>1. ConeHash(e, cache) = <<e.payload, rest>>
    <2>1. e.parents \intersect DOMAIN cache = e.parents
      OBVIOUS
    <2>2. QED
      BY <2>1 DEF ConeHash
  <1>2. H = {x[1] : x \in rest}
    <2> HIDE DEF count, H
    <2>1. \A h : <<h, count(h)>>[1] = h
      OBVIOUS
    <2>2. QED
      BY <2>1
  <1> HIDE DEF rest, H
  <1>3. QED
    BY <1>1, <1>2 DEF Below, H

\* Two events with the same payload and parents have the same cone hash.
LEMMA SameContentSameCone ==
    ASSUME NEW e, NEW f, NEW cache, e.payload = f.payload, e.parents = f.parents
    PROVE  ConeHash(e, cache) = ConeHash(f, cache)
  BY DEF ConeHash

\* A cache that is exact holds the hashes that a full computation gives.
LEMMA ExactIsTrue ==
    ASSUME NEW d, Closed(d), Founded(d), NEW cache, Exact(d, cache)
    PROVE  \A i \in Keys(d) : i \in DOMAIN cache /\ cache[i] = TrueCones(d)[i]
  <1> DEFINE par(i)    == d.events[i].parents
             Given(f, i) == [p \in par(i) \intersect Keys(d) |-> f[p]]
             Solves(f) == f = [i \in Keys(d) |-> ConeHash(d.events[i], Given(f, i))]
             known     == [i \in Keys(d) |-> cache[i]]
             T         == TrueCones(d)
  <1>1. ASSUME NEW i \in Keys(d), NEW f, \A p \in par(i) : f[p] = cache[p]
        PROVE  ConeHash(d.events[i], Given(f, i)) = cache[i]
    <2>1. par(i) \subseteq Keys(d)
      BY DEF Closed
    <2>2. /\ par(i) \subseteq DOMAIN Given(f, i)
          /\ \A p \in par(i) : Given(f, i)[p] = cache[p]
      BY <1>1, <2>1
    <2>3. par(i) \subseteq DOMAIN cache /\ cache[i] = ConeHash(d.events[i], cache)
      BY <2>1 DEF Exact
    <2> HIDE DEF Given
    <2>4. QED
      BY <2>2, <2>3, ConeHashAgrees
  <1>2. Solves(known)
    <2>1. ASSUME NEW i \in Keys(d) PROVE ConeHash(d.events[i], Given(known, i)) = cache[i]
      <3>1. \A p \in par(i) : known[p] = cache[p]
        BY DEF Closed
      <3> HIDE DEF known, Given
      <3>2. QED
        BY <1>1, <3>1
    <2>2. [i \in Keys(d) |-> ConeHash(d.events[i], Given(known, i))] = [i \in Keys(d) |-> cache[i]]
      <3> HIDE DEF known, Given
      <3>1. QED
        BY <2>1
    <2>3. QED
      BY <2>2
  <1>3. T = CHOOSE f : Solves(f)
    BY DEF TrueCones
  <1>4. Solves(T)
    <2> HIDE DEF known, T, Solves
    <2>1. QED
      BY <1>2, <1>3
  <1>5. \A i \in Keys(d) : T[i] = ConeHash(d.events[i], Given(T, i))
    <2> HIDE DEF T, Given
    <2> DEFINE g == [i \in Keys(d) |-> ConeHash(d.events[i], Given(T, i))]
    <2>1. T = g
      BY <1>4
    <2>2. \A i \in Keys(d) : g[i] = ConeHash(d.events[i], Given(T, i))
      OBVIOUS
    <2> HIDE DEF g
    <2>3. QED
      BY <2>1, <2>2
  <1> DEFINE Wrong == {i \in Keys(d) : T[i] # cache[i]}
  <1>6. Wrong = {}
    <2>1. SUFFICES ASSUME Wrong # {} PROVE FALSE
      OBVIOUS
    <2>2. PICK i \in Wrong : par(i) \intersect Wrong = {}
      BY <2>1 DEF Founded
    <2>3. i \in Keys(d) /\ \A p \in par(i) : T[p] = cache[p]
      BY <2>2 DEF Closed
    <2> HIDE DEF T, Given
    <2>4. T[i] = cache[i]
      BY <1>1, <1>5, <2>3
    <2>5. QED
      BY <2>2, <2>4
  <1>7. QED
    BY <1>6 DEF Exact

\* The shape of an event is its payload and the shapes of its parents.
IsShape(g, d) ==
    \A i \in Keys(d) : g[i] = <<d.events[i].payload, {g[p] : p \in d.events[i].parents}>>

\* Every event has a shape.
LEMMA ShapeIs ==
    ASSUME NEW d, IsFiniteSet(Keys(d)), Closed(d), Founded(d)
    PROVE  IsShape(Shape(d), d)
  <1> DEFINE K      == Keys(d)
             par(i) == d.events[i].parents
             Of(f, Z, i)  == <<d.events[i].payload, {f[p] : p \in par(i) \intersect Z}>>
             Solves(f, Z) == f = [i \in Z |-> Of(f, Z, i)]
             Shut(Z)      == Z \in SUBSET K /\ \A i \in Z : par(i) \subseteq Z
             Solvable(Z)  == Shut(Z) /\ \E f : Solves(f, Z)
             Left         == {R \in SUBSET K : Solvable(K \ R)}
             S == Shape(d)
  <1>1. K \in Left
    <2>1. K \ K = {} /\ Shut({})
      OBVIOUS
    <2>2. \E f : Solves(f, {})
      <3> DEFINE e == [i \in {} |-> {}]
      <3>1. e = [i \in {} |-> Of(e, {}, i)]
        OBVIOUS
      <3> HIDE DEF e, Of
      <3>2. QED
        BY <3>1
    <2> HIDE DEF Solves, Shut, K
    <2>3. QED
      BY <2>1, <2>2
  <1>2. PICK R \in Left : \A Y \in Left : Y \subseteq R => Y = R
    <2>1. Left \subseteq SUBSET K /\ Left # {} /\ IsFiniteSet(K)
      BY <1>1
    <2> HIDE DEF Left, K
    <2>2. QED
      BY <2>1, SmallestSet
  <1>3. R = {}
    <2>1. SUFFICES ASSUME R # {} PROVE FALSE
      OBVIOUS
    <2>2. PICK j \in R : par(j) \intersect R = {}
      BY <2>1, <1>2 DEF Founded
    <2> DEFINE Z == K \ R
               Y == Z \union {j}
    <2>3. Shut(Z) /\ j \in K /\ j \notin Z /\ par(j) \subseteq Z
      BY <1>2, <2>2 DEF Closed
    <2>4. PICK f : Solves(f, Z)
      BY <1>2
    <2> DEFINE g == [i \in Y |-> IF i \in Z THEN f[i] ELSE Of(f, Z, j)]
    <2>5. \A p \in Z : g[p] = f[p]
      OBVIOUS
    <2>6. ASSUME NEW i \in Y PROVE g[i] = Of(f, Z, i)
      <3>1. CASE i \in Z
        <4> DEFINE h == [k \in Z |-> Of(f, Z, k)]
        <4>1. f = h
          BY <2>4
        <4>2. h[i] = Of(f, Z, i)
          BY <3>1
        <4> HIDE DEF h, Of
        <4>3. QED
          BY <3>1, <4>1, <4>2
      <3>2. CASE i \notin Z
        <4>1. i = j
          BY <2>6, <3>2
        <4> HIDE DEF Of
        <4>2. QED
          BY <2>6, <3>2, <4>1
      <3>3. QED
        BY <3>1, <3>2
    <2> HIDE DEF g
    <2>7. ASSUME NEW i \in Y PROVE Of(f, Z, i) = Of(g, Y, i)
      <3>1. par(i) \subseteq Z /\ par(i) \intersect Z = par(i) /\ par(i) \intersect Y = par(i)
        BY <2>3, <2>7
      <3>2. {f[p] : p \in par(i)} = {g[p] : p \in par(i)}
        BY <2>5, <3>1
      <3>3. QED
        BY <3>1, <3>2
    <2>8. Solves(g, Y)
      <3>1. \A i \in Y : g[i] = Of(g, Y, i)
        <4> HIDE DEF Of, Y, Z
        <4>1. QED
          BY <2>6, <2>7
      <3>2. g = [i \in Y |-> g[i]]
        BY DEF g
      <3> HIDE DEF Of, Y
      <3>3. QED
        BY <3>1, <3>2
    <2>9. Shut(Y) /\ Y = K \ (R \ {j}) /\ R \ {j} \in SUBSET K
      BY <1>2, <2>2, <2>3
    <2>10. R \ {j} \in Left
      <3> HIDE DEF Solves, Shut, K, Y
      <3>1. QED
        BY <2>8, <2>9
    <2> HIDE DEF Left
    <2>11. QED
      BY <1>2, <2>2, <2>10
  <1>4. \E f : Solves(f, K)
    <2>1. K \ R = K
      BY <1>3
    <2>2. Solvable(K \ R)
      BY <1>2
    <2> HIDE DEF Solves
    <2>3. QED
      BY <2>1, <2>2
  <1>5. S = CHOOSE f : Solves(f, K)
    BY DEF Shape
  <1>6. Solves(S, K)
    <2> HIDE DEF Solves, S, K
    <2>1. QED
      BY <1>4, <1>5
  <1>7. ASSUME NEW i \in K PROVE S[i] = <<d.events[i].payload, {S[p] : p \in par(i)}>>
    <2> DEFINE g == [k \in K |-> Of(S, K, k)]
    <2>1. S = g
      BY <1>6
    <2>2. g[i] = Of(S, K, i)
      OBVIOUS
    <2>3. par(i) \intersect K = par(i)
      BY DEF Closed
    <2>4. Of(S, K, i) = <<d.events[i].payload, {S[p] : p \in par(i)}>>
      <3> HIDE DEF S, K
      <3>1. QED
        BY <2>3
    <2> HIDE DEF g, S, Of
    <2>5. QED
      BY <2>1, <2>2, <2>4
  <1>8. QED
    BY <1>7 DEF IsShape

\* Whatever says of every event what its shape should be is its shape.
LEMMA ShapeIsOnly ==
    ASSUME NEW d, IsFiniteSet(Keys(d)), Closed(d), Founded(d),
           NEW g, IsShape(g, d)
    PROVE  \A i \in Keys(d) : Shape(d)[i] = g[i]
  <1> DEFINE S     == Shape(d)
             Wrong == {i \in Keys(d) : S[i] # g[i]}
  <1>1. \A i \in Keys(d) : S[i] = <<d.events[i].payload, {S[p] : p \in d.events[i].parents}>>
    BY ShapeIs DEF IsShape
  <1> HIDE DEF S
  <1>2. Wrong = {}
    <2>1. SUFFICES ASSUME Wrong # {} PROVE FALSE
      OBVIOUS
    <2>2. PICK i \in Wrong : d.events[i].parents \intersect Wrong = {}
      BY <2>1 DEF Founded
    <2>3. \A p \in d.events[i].parents : S[p] = g[p]
      BY <2>2 DEF Closed
    <2>4. {S[p] : p \in d.events[i].parents} = {g[p] : p \in d.events[i].parents}
      BY <2>3
    <2>5. QED
      BY <1>1, <2>2, <2>4 DEF IsShape
  <1>3. QED
    BY <1>2 DEF S

----------------------------------------------------------------------------
\* Whichever events are picked, the cone of one of them is made from none of theirs.
HashFounded(d, cache) ==
    \A S \in SUBSET Keys(d) : S # {} => \E i \in S : \A j \in S : cache[j] \notin Below(cache[i])

\* While duplicates are merged, the hashes taken before still tell the payload of every
\* event and, but for how many have the same, the hashes of its parents.
Traced(d, cache) ==
    /\ Closed(d)
    /\ \A i \in Keys(d) : \A p : <<p, i>> \in d.children <=> p \in d.events[i].parents
    /\ \A x \in d.children : \E p \in Keys(d) : \E c : x = <<p, c>>
    /\ \A x \in d.children : \E i \in Keys(d) : cache[x[1]] \in Below(cache[i])
    /\ Keys(d) \subseteq DOMAIN cache
    /\ \A i \in Keys(d) : cache[i][1] = d.events[i].payload
    /\ \A i \in Keys(d) : {cache[p] : p \in d.events[i].parents} = Below(cache[i])
    /\ HashFounded(d, cache)

\* No two events have the same hash.
Distinct(d, cache) == \A i, j \in Keys(d) : cache[i] = cache[j] => i = j

\* So it is before the first merge.
LEMMA ExactIsTraced ==
    ASSUME NEW d, Whole(d), NEW cache, Exact(d, cache)
    PROVE  Traced(d, cache)
  <1>1. Closed(d) /\ Keys(d) \subseteq DOMAIN cache
    BY DEF Whole, Closed, Exact
  <1>2. ASSUME NEW i \in Keys(d)
        PROVE  /\ cache[i][1] = d.events[i].payload
               /\ {cache[p] : p \in d.events[i].parents} = Below(cache[i])
    <2>1. cache[i] = ConeHash(d.events[i], cache) /\ d.events[i].parents \subseteq DOMAIN cache
      BY <1>1 DEF Exact, Closed
    <2>2. QED
      BY <2>1, ConeParts
  <1>3. ASSUME NEW x \in d.children PROVE \E i \in Keys(d) : cache[x[1]] \in Below(cache[i])
    <2>1. PICK i \in Keys(d) : x[1] \in d.events[i].parents
      BY DEF Whole
    <2>2. QED
      BY <1>2, <2>1
  <1>4. ASSUME NEW S \in SUBSET Keys(d), S # {}
        PROVE  \E i \in S : \A j \in S : cache[j] \notin Below(cache[i])
    <2> DEFINE All == {j \in Keys(d) : \E k \in S : cache[j] = cache[k]}
    <2>1. All # {} /\ All \in SUBSET Keys(d)
      BY <1>4
    <2>2. PICK j \in All : d.events[j].parents \intersect All = {}
      BY <2>1 DEF Whole, Founded
    <2>3. PICK i \in S : cache[j] = cache[i]
      BY <2>2
    <2>4. ASSUME NEW k \in S, cache[k] \in Below(cache[i]) PROVE FALSE
      <3>1. PICK p \in d.events[j].parents : cache[p] = cache[k]
        BY <1>2, <2>1, <2>3, <2>4
      <3>2. p \in All
        BY <1>1, <2>1, <3>1 DEF Closed
      <3>3. QED
        BY <2>2, <3>1, <3>2
    <2>5. QED
      BY <2>3, <2>4
  <1>5. QED
    BY <1>1, <1>2, <1>3, <1>4 DEF Traced, Whole, HashFounded

\* Such a history has no cycle.
LEMMA TracedIsFounded ==
    ASSUME NEW d, NEW cache, Traced(d, cache)
    PROVE  Founded(d)
  <1> SUFFICES ASSUME NEW S \in SUBSET Keys(d), S # {}
               PROVE  \E i \in S : d.events[i].parents \intersect S = {}
    BY DEF Founded
  <1>1. PICK i \in S : \A j \in S : cache[j] \notin Below(cache[i])
    BY DEF Traced, HashFounded
  <1>2. {cache[p] : p \in d.events[i].parents} = Below(cache[i])
    BY DEF Traced
  <1>3. QED
    BY <1>1, <1>2

\* Events with the same hash have the same shape.
LEMMA TracedShapes ==
    ASSUME NEW d, NEW cache, IsFiniteSet(Keys(d)), Traced(d, cache)
    PROVE  \A i, j \in Keys(d) : cache[i] = cache[j] => Shape(d)[i] = Shape(d)[j]
  <1> DEFINE S   == Shape(d)
             par(i) == d.events[i].parents
             Bad == {i \in Keys(d) : \E j \in Keys(d) : cache[i] = cache[j] /\ S[i] # S[j]}
  <1>1. \A i \in Keys(d) : S[i] = <<d.events[i].payload, {S[p] : p \in par(i)}>>
    BY TracedIsFounded, ShapeIs DEF Traced, IsShape
  <1> HIDE DEF S
  <1>2. ASSUME NEW i \in Keys(d)
        PROVE  /\ cache[i][1] = d.events[i].payload
               /\ {cache[p] : p \in par(i)} = Below(cache[i])
               /\ par(i) \subseteq Keys(d)
    BY DEF Traced, Closed
  <1>3. Bad = {}
    <2>1. SUFFICES ASSUME Bad # {} PROVE FALSE
      OBVIOUS
    <2>2. PICK i \in Bad : \A k \in Bad : cache[k] \notin Below(cache[i])
      BY <2>1 DEF Traced, HashFounded
    <2>3. PICK j \in Keys(d) : cache[i] = cache[j] /\ S[i] # S[j]
      BY <2>2
    <2>4. i \in Keys(d) /\ d.events[i].payload = d.events[j].payload
      BY <1>2, <2>2, <2>3
    <2>5. {cache[p] : p \in par(i)} = {cache[p] : p \in par(j)}
      BY <1>2, <2>3, <2>4
    <2>6. ASSUME NEW p \in par(i) PROVE p \in Keys(d) /\ p \notin Bad
      BY <1>2, <2>2, <2>4
    <2>7. par(j) \subseteq Keys(d)
      BY <1>2
    <2>8. {S[p] : p \in par(i)} \subseteq {S[p] : p \in par(j)}
      <3> SUFFICES ASSUME NEW p \in par(i) PROVE S[p] \in {S[q] : q \in par(j)}
        OBVIOUS
      <3>1. PICK q \in par(j) : cache[q] = cache[p]
        BY <2>5
      <3>2. S[p] = S[q]
        BY <2>6, <2>7, <3>1
      <3>3. QED
        BY <3>2
    <2>9. {S[p] : p \in par(j)} \subseteq {S[p] : p \in par(i)}
      <3> SUFFICES ASSUME NEW q \in par(j) PROVE S[q] \in {S[p] : p \in par(i)}
        OBVIOUS
      <3>1. PICK p \in par(i) : cache[p] = cache[q]
        BY <2>5
      <3>2. S[p] = S[q]
        BY <2>6, <2>7, <3>1
      <3>3. QED
        BY <3>2
    <2>10. {S[p] : p \in par(i)} = {S[p] : p \in par(j)}
      BY <2>8, <2>9
    <2>11. S[i] = S[j]
      BY <1>1, <2>4, <2>10
    <2>12. QED
      BY <2>3, <2>11
  <1>4. QED
    BY <1>3 DEF S

\* When no two events have the same hash, no two have the same shape.
LEMMA DistinctShapes ==
    ASSUME NEW d, Finite(d), Whole(d), NEW cache, Exact(d, cache), Distinct(d, cache)
    PROVE  Size(d) = Cardinality(Shapes(d))
  <1> DEFINE S      == Shape(d)
             par(i) == d.events[i].parents
             Bad    == {i \in Keys(d) : \E j \in Keys(d) : i # j /\ S[i] = S[j]}
             f      == [i \in Keys(d) |-> S[i]]
  <1>1. \A i \in Keys(d) : S[i] = <<d.events[i].payload, {S[p] : p \in par(i)}>>
    BY ShapeIs DEF IsShape, Whole, Closed, Finite
  <1>2. Shapes(d) = {S[i] : i \in Keys(d)}
    BY DEF Shapes
  <1> HIDE DEF S
  <1>3. Bad = {}
    <2>1. SUFFICES ASSUME Bad # {} PROVE FALSE
      OBVIOUS
    <2>2. PICK i \in Bad : par(i) \intersect Bad = {}
      BY <2>1 DEF Whole, Founded
    <2>3. PICK j \in Keys(d) : i # j /\ S[i] = S[j]
      BY <2>2
    <2>4. d.events[i].payload = d.events[j].payload /\ {S[p] : p \in par(i)} = {S[p] : p \in par(j)}
      <3>1. <<d.events[i].payload, {S[p] : p \in par(i)}>> = <<d.events[j].payload, {S[p] : p \in par(j)}>>
        BY <1>1, <2>2, <2>3
      <3>2. QED
        BY <3>1, PairsEqual
    <2>5. par(i) \subseteq Keys(d) /\ par(j) \subseteq Keys(d)
      BY <2>2, <2>3 DEF Whole
    <2>6. ASSUME NEW p \in par(i), NEW q \in par(j), S[p] = S[q] PROVE p = q
      BY <2>2, <2>5, <2>6
    <2>7. par(i) = par(j)
      <3>1. par(i) \subseteq par(j)
        BY <2>4, <2>6
      <3>2. par(j) \subseteq par(i)
        BY <2>4, <2>6
      <3>3. QED
        BY <3>1, <3>2
    <2>8. ConeHash(d.events[i], cache) = ConeHash(d.events[j], cache)
      BY <2>4, <2>7, SameContentSameCone
    <2>9. cache[i] = cache[j] /\ i \in Keys(d)
      BY <2>2, <2>3, <2>8 DEF Exact
    <2>10. QED
      BY <2>3, <2>9 DEF Distinct
  <1>4. f \in Bijection(Keys(d), Shapes(d))
    <2>1. \A i, j \in Keys(d) : f[i] = f[j] => i = j
      BY <1>3
    <2>2. QED
      BY <1>2, <2>1 DEF Bijection, Injection, Surjection, IsInjective
  <1> HIDE DEF f
  <1>5. QED
    BY <1>4, FS_Bijection DEF ExistsBijection, Finite, Size

\* D is d with a duplicate merged into the canonical event, as far as the causes go.
MergedInto(d, D, dup, canon) ==
    /\ Keys(D) = Keys(d) \ {dup}
    /\ D.children = {x \in d.children : x[1] # dup}
                       \union {<<canon, c>> : c \in {x[2] : x \in {y \in d.children : y[1] = dup}}}
    /\ \A i \in Keys(D) :
          /\ D.events[i].payload = d.events[i].payload
          /\ D.events[i].parents = IF dup \in d.events[i].parents
                                   THEN (d.events[i].parents \ {dup}) \union {canon}
                                   ELSE d.events[i].parents

\* Merging an event into one with the same hash leaves the hashes as telling as they were,
\* and the shapes as they were.
LEMMA MergeKeepsTraced ==
    ASSUME NEW d, NEW cache, IsFiniteSet(Keys(d)), Traced(d, cache),
           NEW dup \in Keys(d), NEW canon \in Keys(d), canon # dup, cache[canon] = cache[dup],
           NEW D, MergedInto(d, D, dup, canon)
    PROVE  Traced(D, cache) /\ Shapes(D) = Shapes(d)
  <1>1. /\ Keys(D) = Keys(d) \ {dup} /\ canon \in Keys(D)
        /\ \A i \in Keys(D) :
              /\ D.events[i].payload = d.events[i].payload
              /\ D.events[i].parents = IF dup \in d.events[i].parents
                                       THEN (d.events[i].parents \ {dup}) \union {canon}
                                       ELSE d.events[i].parents
    BY DEF MergedInto
  <1>2. /\ Closed(d)
        /\ \A i \in Keys(d) : \A p : <<p, i>> \in d.children <=> p \in d.events[i].parents
        /\ \A x \in d.children : \E p \in Keys(d) : \E c : x = <<p, c>>
        /\ \A x \in d.children : \E i \in Keys(d) : cache[x[1]] \in Below(cache[i])
        /\ Keys(d) \subseteq DOMAIN cache
        /\ \A i \in Keys(d) : cache[i][1] = d.events[i].payload
        /\ \A i \in Keys(d) : {cache[p] : p \in d.events[i].parents} = Below(cache[i])
    BY DEF Traced
  <1>3. ASSUME NEW p, NEW c
        PROVE  <<p, c>> \in D.children
               <=> \/ p # dup /\ <<p, c>> \in d.children
                   \/ p = canon /\ <<dup, c>> \in d.children
    <2> DEFINE kids == {x[2] : x \in {y \in d.children : y[1] = dup}}
    <2>1. c \in kids <=> <<dup, c>> \in d.children
      <3>1. ASSUME c \in kids PROVE <<dup, c>> \in d.children
        <4>1. PICK x \in d.children : x[1] = dup /\ x[2] = c
          BY <3>1
        <4>2. PICK q, k : x = <<q, k>>
          BY <1>2
        <4>3. QED
          BY <4>1, <4>2
      <3>2. ASSUME <<dup, c>> \in d.children PROVE c \in kids
        BY <3>2
      <3>3. QED
        BY <3>1, <3>2
    <2>2. D.children = {x \in d.children : x[1] # dup} \union {<<canon, k>> : k \in kids}
      BY DEF MergedInto
    <2> HIDE DEF kids
    <2>3. QED
      BY <2>1, <2>2
  <1>4. \A x \in D.children : x \in d.children \/ \E c : x = <<canon, c>> /\ <<dup, c>> \in d.children
    <2> SUFFICES ASSUME NEW x \in D.children, x \notin d.children
                 PROVE  \E c : x = <<canon, c>> /\ <<dup, c>> \in d.children
      OBVIOUS
    <2>1. PICK y \in d.children : y[1] = dup /\ x = <<canon, y[2]>>
      BY DEF MergedInto
    <2>2. PICK q, k : y = <<q, k>>
      BY <1>2
    <2>3. QED
      BY <2>1, <2>2
  <1>5. Closed(D)
    <2> SUFFICES ASSUME NEW i \in Keys(D), NEW p \in D.events[i].parents PROVE p \in Keys(D)
      BY DEF Closed
    <2>1. d.events[i].parents \subseteq Keys(d)
      BY <1>1, <1>2 DEF Closed
    <2>2. p = canon \/ p \in d.events[i].parents \ {dup}
      BY <1>1
    <2>3. QED
      BY <1>1, <2>1, <2>2
  <1>6. \A i \in Keys(D) : \A p : <<p, i>> \in D.children <=> p \in D.events[i].parents
    <2> SUFFICES ASSUME NEW i \in Keys(D), NEW p
                 PROVE  <<p, i>> \in D.children <=> p \in D.events[i].parents
      OBVIOUS
    <2>1. \A q : <<q, i>> \in d.children <=> q \in d.events[i].parents
      BY <1>1, <1>2
    <2>2. <<p, i>> \in D.children <=> \/ p # dup /\ p \in d.events[i].parents
                                      \/ p = canon /\ dup \in d.events[i].parents
      BY <1>3, <2>1
    <2>3. CASE dup \in d.events[i].parents
      <3>1. D.events[i].parents = (d.events[i].parents \ {dup}) \union {canon}
        BY <1>1, <2>3
      <3>2. QED
        BY <2>2, <2>3, <3>1
    <2>4. CASE dup \notin d.events[i].parents
      <3>1. D.events[i].parents = d.events[i].parents
        BY <1>1, <2>4
      <3>2. QED
        BY <2>2, <2>4, <3>1
    <2>5. QED
      BY <2>3, <2>4
  <1>7. \A x \in D.children : \E p \in Keys(D) : \E c : x = <<p, c>>
    <2> SUFFICES ASSUME NEW x \in D.children PROVE \E p \in Keys(D) : \E c : x = <<p, c>>
      OBVIOUS
    <2>1. CASE x \in d.children
      <3>1. PICK p \in Keys(d) : \E c : x = <<p, c>>
        BY <1>2, <2>1
      <3>2. PICK c : x = <<p, c>>
        BY <3>1
      <3>3. p # dup \/ p = canon
        BY <1>3, <3>2
      <3>4. QED
        BY <1>1, <3>2, <3>3
    <2>2. QED
      BY <1>1, <1>4, <2>1
  <1>8. \A x \in D.children : \E i \in Keys(D) : cache[x[1]] \in Below(cache[i])
    <2> SUFFICES ASSUME NEW x \in D.children PROVE \E i \in Keys(D) : cache[x[1]] \in Below(cache[i])
      OBVIOUS
    <2>1. PICK y \in d.children : cache[y[1]] = cache[x[1]]
      <3>1. CASE x \in d.children
        BY <3>1
      <3>2. CASE x \notin d.children
        <4>1. PICK c : x = <<canon, c>> /\ <<dup, c>> \in d.children
          BY <1>4, <3>2
        <4>2. x[1] = canon /\ <<dup, c>>[1] = dup
          BY <4>1
        <4>3. QED
          BY <4>1, <4>2
      <3>3. QED
        BY <3>1, <3>2
    <2>2. PICK i \in Keys(d) : cache[x[1]] \in Below(cache[i])
      BY <1>2, <2>1
    <2>3. QED
      BY <1>1, <2>2
  <1>9. ASSUME NEW i \in Keys(D), NEW f, f[canon] = f[dup]
        PROVE  {f[p] : p \in D.events[i].parents} = {f[p] : p \in d.events[i].parents}
    <2>1. CASE dup \in d.events[i].parents
      <3>1. D.events[i].parents = (d.events[i].parents \ {dup}) \union {canon}
        BY <1>1, <2>1
      <3>2. QED
        BY <1>9, <2>1, <3>1
    <2>2. CASE dup \notin d.events[i].parents
      <3>1. D.events[i].parents = d.events[i].parents
        BY <1>1, <2>2
      <3>2. QED
        BY <3>1
    <2>3. QED
      BY <2>1, <2>2
  <1>10. \A i \in Keys(D) : {cache[p] : p \in D.events[i].parents} = Below(cache[i])
    <2> SUFFICES ASSUME NEW i \in Keys(D)
                 PROVE  {cache[p] : p \in D.events[i].parents} = Below(cache[i])
      OBVIOUS
    <2>1. {cache[p] : p \in D.events[i].parents} = {cache[p] : p \in d.events[i].parents}
      BY <1>9
    <2>2. {cache[p] : p \in d.events[i].parents} = Below(cache[i])
      BY <1>1, <1>2
    <2>3. QED
      BY <2>1, <2>2
  <1>11. HashFounded(D, cache)
    BY <1>1 DEF HashFounded, Traced
  <1>12. Traced(D, cache)
    BY <1>1, <1>2, <1>5, <1>6, <1>7, <1>8, <1>10, <1>11 DEF Traced
  <1> DEFINE S == Shape(d)
  <1>13. /\ S[canon] = S[dup]
         /\ \A i \in Keys(d) : S[i] = <<d.events[i].payload, {S[p] : p \in d.events[i].parents}>>
    <2>1. Founded(d)
      BY TracedIsFounded
    <2> HIDE DEF S
    <2>2. S[canon] = S[dup]
      BY TracedShapes DEF S
    <2>3. \A i \in Keys(d) : S[i] = <<d.events[i].payload, {S[p] : p \in d.events[i].parents}>>
      BY <1>2, <2>1, ShapeIs DEF IsShape, S
    <2>4. QED
      BY <2>2, <2>3
  <1> HIDE DEF S
  <1>14. \A i \in Keys(D) : S[i] = <<D.events[i].payload, {S[p] : p \in D.events[i].parents}>>
    <2> SUFFICES ASSUME NEW i \in Keys(D)
                 PROVE  S[i] = <<D.events[i].payload, {S[p] : p \in D.events[i].parents}>>
      OBVIOUS
    <2>1. {S[p] : p \in D.events[i].parents} = {S[p] : p \in d.events[i].parents}
      BY <1>9, <1>13
    <2>2. i \in Keys(d) /\ D.events[i].payload = d.events[i].payload
      BY <1>1
    <2>3. QED
      BY <1>13, <2>1, <2>2
  <1>15. \A i \in Keys(D) : Shape(D)[i] = S[i]
    <2>1. IsFiniteSet(Keys(D)) /\ Founded(D)
      BY <1>1, <1>12, TracedIsFounded, FS_RemoveElement
    <2>2. IsShape(S, D)
      BY <1>14 DEF IsShape
    <2>3. QED
      BY <1>5, <2>1, <2>2, ShapeIsOnly
  <1>16. Shapes(D) = {S[i] : i \in Keys(D)} /\ Shapes(d) = {S[i] : i \in Keys(d)}
    BY <1>15 DEF Shapes, S
  <1>17. QED
    BY <1>1, <1>12, <1>13, <1>16

\* Merging what is gone changes nothing.
LEMMA MergeOfAbsent ==
    ASSUME NEW d, NEW cache, Traced(d, cache), NEW dup, dup \notin Keys(d), NEW canon,
           NEW D, MergedInto(d, D, dup, canon)
    PROVE  /\ Keys(D) = Keys(d)
           /\ D.children = d.children
           /\ \A i \in Keys(d) : /\ D.events[i].payload = d.events[i].payload
                                 /\ D.events[i].parents = d.events[i].parents
  <1>1. Keys(D) = Keys(d)
    BY DEF MergedInto
  <1>2. \A x \in d.children : x[1] # dup
    BY DEF Traced
  <1>3. \A i \in Keys(d) : dup \notin d.events[i].parents
    BY DEF Traced, Closed
  <1>4. QED
    BY <1>1, <1>2, <1>3 DEF MergedInto

\* Two histories with the same events, causes and index are traced alike and have the same
\* shapes.
LEMMA TracedAgrees ==
    ASSUME NEW d, NEW D, NEW cache, IsFiniteSet(Keys(d)), Traced(d, cache),
           Keys(D) = Keys(d), D.children = d.children,
           \A i \in Keys(d) : /\ D.events[i].payload = d.events[i].payload
                              /\ D.events[i].parents = d.events[i].parents
    PROVE  Traced(D, cache) /\ Shapes(D) = Shapes(d)
  <1>1. Traced(D, cache)
    <2>1. Closed(D) /\ HashFounded(D, cache)
      BY DEF Traced, Closed, HashFounded
    <2>2. \A i \in Keys(D) : {cache[p] : p \in D.events[i].parents} = Below(cache[i])
      BY DEF Traced
    <2>3. QED
      BY <2>1, <2>2 DEF Traced
  <1> DEFINE S == Shape(d)
  <1>2. IsShape(S, d)
    BY TracedIsFounded, ShapeIs DEF Traced
  <1> HIDE DEF S
  <1>3. IsShape(S, D)
    BY <1>2 DEF IsShape
  <1>4. \A i \in Keys(D) : Shape(D)[i] = S[i]
    <2>1. Founded(D) /\ Closed(D) /\ IsFiniteSet(Keys(D))
      BY <1>1, TracedIsFounded DEF Traced
    <2>2. QED
      BY <1>3, <2>1, ShapeIsOnly
  <1>5. QED
    BY <1>1, <1>4 DEF Shapes, S

\* When the hashes are distinct again, the history is whole.
LEMMA TracedEndsWhole ==
    ASSUME NEW d, NEW cache, Traced(d, cache), Distinct(d, cache)
    PROVE  Whole(d)
  <1>1. Founded(d)
    BY TracedIsFounded
  <1>2. ASSUME NEW x \in d.children PROVE \E i \in Keys(d) : x[1] \in d.events[i].parents
    <2>1. PICK p \in Keys(d) : \E c : x = <<p, c>>
      BY DEF Traced
    <2>2. x[1] = p
      BY <2>1
    <2>3. PICK i \in Keys(d) : cache[p] \in Below(cache[i])
      BY <2>2 DEF Traced
    <2>4. PICK q \in d.events[i].parents : cache[q] = cache[p]
      BY <2>3 DEF Traced
    <2>5. q \in Keys(d)
      BY <2>4 DEF Traced, Closed
    <2>6. QED
      BY <2>2, <2>4, <2>5 DEF Distinct
  <1>3. QED
    BY <1>1, <1>2 DEF Whole, Traced, Closed

----------------------------------------------------------------------------
\* What each step does to the local variables of reduce that the proofs below follow, and
\* to the history and the cache.  A call starts with them empty.
LEMMA StartReduceEffect ==
    ASSUME StartReduce
    PROVE  /\ pc = "idle" /\ pc' = "C3" /\ dag' = dag /\ cone' = cone
           /\ run'.before = dag /\ run'.iterations = 1 /\ run'.size_before = Size(dag)
           /\ run'.cone_ready = FALSE /\ run'.groups = {} /\ run'.duplicates = {}
  <1>1. /\ pc = "idle" /\ pc' = "C3" /\ dag' = dag /\ cone' = cone
        /\ run' = [NotRun EXCEPT !.before = dag,
                                 !.iterations = 1,
                                 !.size_before = Size(dag),
                                 !.has_noops = config.enable_cone_merge /\ AnyNoop(dag)]
    BY DEF StartReduce
  <1>2. QED
    BY <1>1 DEF NotRun

\* Noop elimination hashes only after it has changed something.
LEMMA RunC3Effect ==
    ASSUME GInv, RunC3
    PROVE  /\ pc = "C3" /\ pc' = "C1"
           /\ run'.before = run.before /\ run'.iterations = run.iterations
           /\ run'.size_before = run.size_before /\ run'.cone_ready = run.cone_ready
           /\ run'.groups = run.groups /\ run'.duplicates = run.duplicates
           /\ dag' = IF config.enable_noop_elim THEN PhaseC3(dag) ELSE dag
           /\ ~config.enable_noop_elim \/ ~run.cone_ready \/ Noops(dag) = {} => cone' = cone
  <1>1. /\ run'.before = run.before /\ run'.iterations = run.iterations
        /\ run'.size_before = run.size_before /\ run'.cone_ready = run.cone_ready
        /\ run'.groups = run.groups /\ run'.duplicates = run.duplicates
    BY DEF RunC3, GInv, RunOk, NotRun
  <1>2. /\ pc = "C3" /\ pc' = "C1"
        /\ dag' = IF config.enable_noop_elim THEN PhaseC3(dag) ELSE dag
    BY DEF RunC3
  <1>3. ASSUME ~config.enable_noop_elim \/ ~run.cone_ready \/ Noops(dag) = {}
        PROVE  cone' = cone
    BY <1>3 DEF RunC3
  <1>4. QED
    BY <1>1, <1>2, <1>3

\* C1 is passed over only under the test of reduce.
LEMMA SkipC1Effect ==
    ASSUME GInv, SkipC1
    PROVE  /\ pc = "C1" /\ pc' = "check" /\ ~ShouldRunC1 /\ dag' = dag /\ cone' = cone
           /\ run'.before = run.before /\ run'.iterations = run.iterations
           /\ run'.size_before = run.size_before /\ run'.cone_ready = run.cone_ready
           /\ run'.groups = run.groups /\ run'.duplicates = run.duplicates
  BY DEF SkipC1, GInv, RunOk, NotRun

\* C1 forms its groups over the cache, which the first C1 of a call has filled.
LEMMA StartC1Effect ==
    ASSUME GInv, StartC1
    PROVE  /\ pc = "C1" /\ pc' = "merge" /\ ShouldRunC1 /\ dag' = dag
           /\ cone' = IF run.cone_ready THEN cone ELSE ComputeAll(dag)
           /\ run'.before = run.before /\ run'.iterations = run.iterations
           /\ run'.size_before = run.size_before /\ run'.duplicates = run.duplicates
           /\ run'.cone_ready = TRUE /\ run'.c1_merged = 0 /\ run'.dirty = {}
           /\ run'.groups = IsomorphicGroups(cone')
  BY DEF StartC1, GInv, RunOk, NotRun

\* A group is split into the member that stays and the duplicates.
LEMMA PickGroupEffect ==
    ASSUME GInv, NEW g \in run.groups, PickGroup(g)
    PROVE  /\ pc = "merge" /\ pc' = "merge" /\ dag' = dag /\ cone' = cone
           /\ run'.before = run.before /\ run'.iterations = run.iterations
           /\ run'.size_before = run.size_before /\ run'.cone_ready = run.cone_ready
           /\ run'.c1_merged = run.c1_merged /\ run'.dirty = run.dirty
           /\ run.duplicates = {} /\ run'.groups = run.groups \ {g}
           /\ run'.canonical \in g /\ run'.duplicates = g \ {run'.canonical}
  <1>1. g \subseteq InsertedIds /\ g # {}
    BY DEF GInv, RunOk
  <1>2. First(g) \in g
    BY <1>1, FirstIsMember DEF GInv
  <1>3. run'.canonical = First(g)
    BY DEF PickGroup, GInv, RunOk, NotRun
  <1>4. QED
    BY <1>2, <1>3 DEF PickGroup, GInv, RunOk, NotRun

\* C1 ends when all groups are done, and repairs the cache if a merge touched an event.
LEMMA EndC1Effect ==
    ASSUME EndC1
    PROVE  /\ pc = "merge" /\ pc' = "check" /\ dag' = dag /\ run' = run
           /\ run.groups = {} /\ run.duplicates = {}
           /\ cone' = IF run.dirty # {}
                      THEN ComputeDirty(Invalidate(cone, run.dirty, dag), dag)
                      ELSE cone
  BY DEF EndC1

\* A turn ends the call or opens the next turn.
LEMMA EndTurnEffect ==
    ASSUME GInv, EndTurn
    PROVE  /\ pc = "check" /\ dag' = dag
           /\ config.enable_cone_merge => cone' = cone
           /\ cone' \in {cone, ComputeAll(dag)}
           /\ run'.before = run.before /\ run'.cone_ready = run.cone_ready
           /\ run'.groups = run.groups /\ run'.duplicates = run.duplicates
           /\ \/ LastTurn /\ pc' = "done" /\ run' = run
              \/ /\ ~LastTurn /\ pc' = "C3"
                 /\ run'.iterations = run.iterations + 1 /\ run'.size_before = Size(dag)
  BY DEF EndTurn, GInv, RunOk, NotRun

\* The local variables are gone when reduce returns.
LEMMA ReturnEffect ==
    ASSUME Return
    PROVE  /\ pc = "done" /\ pc' = "idle" /\ dag' = dag /\ cone' = cone
           /\ run'.iterations = 0 /\ run'.cone_ready = FALSE
           /\ run'.groups = {} /\ run'.duplicates = {}
  BY DEF Return, NotRun

\* A merge takes away one duplicate and nothing else.
LEMMA MergeEffect ==
    ASSUME GInv, MergeDuplicate
    PROVE  LET dup == First(run.duplicates)
           IN  /\ pc = "merge" /\ pc' = "merge" /\ cone' = cone
               /\ dup \in run.duplicates /\ run'.duplicates = run.duplicates \ {dup}
               /\ run'.before = run.before /\ run'.iterations = run.iterations
               /\ run'.size_before = run.size_before /\ run'.cone_ready = run.cone_ready
               /\ run'.groups = run.groups /\ run'.canonical = run.canonical
               /\ run'.c1_merged = run.c1_merged + 1
               /\ Keys(dag') = Keys(dag) \ {dup}
  <1> DEFINE dup == First(run.duplicates)
  <1>1. dup \in run.duplicates
    BY FirstIsMember DEF MergeDuplicate, GInv, RunOk
  <1>2. /\ run'.before = run.before /\ run'.iterations = run.iterations
        /\ run'.size_before = run.size_before /\ run'.cone_ready = run.cone_ready
        /\ run'.groups = run.groups /\ run'.canonical = run.canonical
        /\ run'.c1_merged = run.c1_merged + 1
        /\ run'.duplicates = run.duplicates \ {dup}
    BY DEF MergeDuplicate, GInv, RunOk, NotRun
  <1>3. /\ pc = "merge" /\ pc' = "merge" /\ cone' = cone
    BY DEF MergeDuplicate
  <1>4. Keys(dag') = Keys(dag) \ {dup}
    BY DEF MergeDuplicate, Keys, GInv, DagOk, EmptyDag
  <1>5. QED
    BY <1>1, <1>2, <1>3, <1>4

\* A merge in a history whose index lists the parents of every event: the children of the
\* duplicate are the events that are redirected, and they are marked for hashing.
LEMMA MergeRedirects ==
    ASSUME GInv, MergeDuplicate,
           \A i \in Keys(dag) : \A p : <<p, i>> \in dag.children <=> p \in dag.events[i].parents
    PROVE  LET dup == First(run.duplicates)
           IN  /\ MergedInto(dag, dag', dup, run.canonical)
               /\ \A i \in Keys(dag') : i \in run'.dirty \/ dag'.events[i] = dag.events[i]
               /\ run.dirty \subseteq run'.dirty
               /\ (\A x \in dag.children : x[1] # dup) => run'.dirty = run.dirty
  <1> DEFINE dup     == First(run.duplicates)
             kids    == {x[2] : x \in {y \in dag.children : y[1] = dup}}
             touched == {c \in kids \intersect Keys(dag) : dup \in dag.events[c].parents}
             events  == [i \in Keys(dag) \ {dup} |->
                            IF i \in touched THEN Redirected(i, dup) ELSE dag.events[i]]
             children == {x \in dag.children : x[1] # dup} \union {<<run.canonical, c>> : c \in kids}
  <1>1. /\ dag' = [dag EXCEPT !.events = events, !.children = children]
        /\ run'.dirty = run.dirty \union touched
    BY DEF MergeDuplicate, GInv, RunOk, NotRun
  <1>2. \A i \in Keys(dag) : i \in touched <=> dup \in dag.events[i].parents
    <2> SUFFICES ASSUME NEW i \in Keys(dag), dup \in dag.events[i].parents PROVE i \in kids
      OBVIOUS
    <2>1. <<dup, i>> \in dag.children /\ <<dup, i>>[1] = dup /\ <<dup, i>>[2] = i
      OBVIOUS
    <2>2. QED
      BY <2>1
  <1>3. (\A x \in dag.children : x[1] # dup) => touched = {}
    OBVIOUS
  <1> HIDE DEF events, children, touched
  <1>4. dag'.events = events /\ dag'.children = children
    BY <1>1 DEF GInv, DagOk, EmptyDag
  <1>5. Keys(dag') = Keys(dag) \ {dup}
    BY <1>4 DEF Keys, events
  <1>6. ASSUME NEW i \in Keys(dag')
        PROVE  /\ dag'.events[i].payload = dag.events[i].payload
               /\ dag'.events[i].parents = IF dup \in dag.events[i].parents
                                           THEN (dag.events[i].parents \ {dup}) \union {run.canonical}
                                           ELSE dag.events[i].parents
               /\ i \in touched \/ dag'.events[i] = dag.events[i]
    <2> DEFINE e == dag.events[i]
               P == (e.parents \ {dup}) \union {run.canonical}
    <2>1. i \in Keys(dag) /\ DOMAIN e = EventFields
      BY <1>5 DEF GInv, DagOk
    <2>2. CASE i \in touched
      <3>1. dag'.events[i] = RecomputeId([e EXCEPT !.parents = P])
        BY <1>4, <1>5, <2>2 DEF events, Redirected
      <3> HIDE DEF e, P
      <3>2. dag'.events[i].payload = e.payload /\ dag'.events[i].parents = P
        BY <2>1, <3>1 DEF EventFields, RecomputeId
      <3>3. QED
        BY <1>2, <2>1, <2>2, <3>2 DEF e, P
    <2>3. CASE i \notin touched
      <3>1. dag'.events[i] = e
        BY <1>4, <1>5, <2>3 DEF events
      <3>2. QED
        BY <1>2, <2>1, <2>3, <3>1
    <2>4. QED
      BY <2>2, <2>3
  <1>7. MergedInto(dag, dag', dup, run.canonical)
    BY <1>4, <1>5, <1>6 DEF MergedInto, children
  <1>8. QED
    BY <1>1, <1>3, <1>6, <1>7

\* In every call the sizes fall: no phase adds an event, and a turn that is followed by
\* another has removed one.
SizeInv ==
    /\ pc = "C3" => run.size_before = Size(dag)
    /\ pc # "idle" => /\ run.iterations >= 1
                      /\ run.size_before \in Nat
                      /\ Size(dag) <= run.size_before
                      /\ run.size_before + run.iterations <= Size(run.before) + 1

\* Sizes and turns are numbers.
LEMMA SizeIsNumber ==
    ASSUME GInv
    PROVE  Size(dag) \in Nat /\ Size(run.before) \in Nat /\ run.iterations \in Nat
  <1>1. IsFiniteSet(Keys(dag)) /\ IsFiniteSet(Keys(run.before))
    BY DEF GInv, DagOk, RunOk, Finite
  <1>2. config.max_iterations \in Nat
    BY ConfigAssumption DEF GInv, NfConfig
  <1>3. QED
    BY <1>1, <1>2, FS_CardinalityType DEF Size, GInv, RunOk

\* Every step keeps the sizes falling: only the end of a turn starts from a new size, and
\* it goes on only from a smaller one.
LEMMA NextSizeInv ==
    ASSUME GInv, SizeInv, [Next]_vars
    PROVE  SizeInv'
  <1>1. /\ Size(dag) \in Nat /\ Size(run.before) \in Nat /\ run.iterations \in Nat
    BY SizeIsNumber
  <1>2. \A d : Keys(d) \subseteq Keys(dag) => Size(d) <= Size(dag) /\ Size(d) \in Nat
    BY FS_Subset, FS_CardinalityType DEF GInv, DagOk, Finite, Size
  <1>3. ASSUME pc # "idle", pc' # "idle", pc' # "C3",
               Keys(dag') \subseteq Keys(dag),
               run'.before = run.before, run'.iterations = run.iterations,
               run'.size_before = run.size_before
        PROVE  SizeInv'
    <2>1. Size(dag') <= Size(dag) /\ Size(dag') \in Nat
      BY <1>2, <1>3
    <2>2. Size(dag') <= run.size_before
      BY <1>1, <1>3, <2>1 DEF SizeInv
    <2>3. QED
      BY <1>3, <2>2 DEF SizeInv
  <1>4. ASSUME NEW e \in Catalog, InsertEvent(e) PROVE SizeInv'
    BY <1>4 DEF InsertEvent, SizeInv
  <1>5. ASSUME StartReduce PROVE SizeInv'
    BY <1>1, <1>5, StartReduceEffect DEF SizeInv
  <1>6. ASSUME RunC3 PROVE SizeInv'
    <2>1. Keys(dag') \subseteq Keys(dag)
      BY <1>6, RunC3Effect, PhaseC3Fields
    <2>2. QED
      BY <1>3, <1>6, <2>1, RunC3Effect
  <1>7. ASSUME SkipC1 PROVE SizeInv'
    BY <1>3, <1>7, SkipC1Effect
  <1>8. ASSUME StartC1 PROVE SizeInv'
    BY <1>3, <1>8, StartC1Effect
  <1>9. ASSUME NEW g \in run.groups, PickGroup(g) PROVE SizeInv'
    BY <1>3, <1>9, PickGroupEffect
  <1>10. ASSUME MergeDuplicate PROVE SizeInv'
    BY <1>3, <1>10, MergeEffect
  <1>11. ASSUME EndC1 PROVE SizeInv'
    BY <1>3, <1>11, EndC1Effect
  <1>12. ASSUME EndTurn PROVE SizeInv'
    <2>1. CASE LastTurn
      BY <1>3, <1>12, <2>1, EndTurnEffect
    <2>2. CASE ~LastTurn
      <3>1. Size(dag) # run.size_before
        BY <2>2 DEF LastTurn
      <3>2. /\ pc' = "C3" /\ dag' = dag /\ run'.before = run.before
            /\ run'.iterations = run.iterations + 1 /\ run'.size_before = Size(dag)
            /\ pc # "idle"
        BY <1>12, <2>2, EndTurnEffect
      <3>3. /\ run.iterations >= 1 /\ run.size_before \in Nat /\ Size(dag) <= run.size_before
            /\ run.size_before + run.iterations <= Size(run.before) + 1
        BY <3>2 DEF SizeInv
      <3>4. Size(dag) + (run.iterations + 1) <= Size(run.before) + 1
        BY <1>1, <3>1, <3>3
      <3>5. QED
        BY <1>1, <3>2, <3>3, <3>4 DEF SizeInv
    <2>3. QED
      BY <2>1, <2>2
  <1>13. ASSUME Return PROVE SizeInv'
    BY <1>13, ReturnEffect DEF SizeInv
  <1>14. ASSUME UNCHANGED vars PROVE SizeInv'
    BY <1>14 DEF SizeInv, vars
  <1>15. QED
    BY <1>4, <1>5, <1>6, <1>7, <1>8, <1>9, <1>10, <1>11, <1>12, <1>13, <1>14 DEF Next, Reducing

----------------------------------------------------------------------------
\* In the first turn the hashes are those of the events that are there, and the groups
\* are disjoint: no merge takes an event away that another one still needs.
FirstInv ==
    /\ pc # "merge" => run.duplicates = {} /\ run.groups = {}
    /\ pc = "idle" => ~run.cone_ready
    /\ pc \in {"C3", "C1"} /\ run.iterations <= 1 => ~run.cone_ready
    /\ pc = "merge" /\ run.iterations <= 1 =>
          /\ run.groups \subseteq IsomorphicGroups(cone)
          /\ \A g \in run.groups : g \subseteq Keys(dag)
          /\ run.duplicates # {} =>
                /\ run.canonical \in Keys(dag) /\ run.canonical \notin run.duplicates
                /\ \A g \in run.groups : run.canonical \notin g /\ g \intersect run.duplicates = {}

\* Groups with a member in common are one.
LEMMA GroupsDisjoint ==
    ASSUME NEW cache, NEW g \in IsomorphicGroups(cache), NEW h \in IsomorphicGroups(cache),
           NEW i \in g, i \in h
    PROVE  g = h
  <1>1. PICK j : g = {k \in DOMAIN cache : cache[k] = cache[j]}
    BY DEF IsomorphicGroups
  <1>2. PICK j2 : h = {k \in DOMAIN cache : cache[k] = cache[j2]}
    BY DEF IsomorphicGroups
  <1>3. cache[j] = cache[j2]
    BY <1>1, <1>2
  <1>4. QED
    BY <1>1, <1>2, <1>3

\* In the first turn, groups are made from hashes of events that are there, and taking one
\* away leaves the others untouched.
LEMMA NextFirstInv ==
    ASSUME GInv, SizeInv, FirstInv, [Next]_vars
    PROVE  FirstInv'
  <1>1. run.iterations \in Nat
    BY SizeIsNumber
  <1>2. ASSUME NEW e \in Catalog, InsertEvent(e) PROVE FirstInv'
    BY <1>2 DEF InsertEvent, FirstInv
  <1>3. ASSUME StartReduce PROVE FirstInv'
    BY <1>3, StartReduceEffect DEF FirstInv
  <1>4. ASSUME RunC3 PROVE FirstInv'
    BY <1>4, RunC3Effect DEF FirstInv
  <1>5. ASSUME SkipC1 PROVE FirstInv'
    BY <1>5, SkipC1Effect DEF FirstInv
  <1>6. ASSUME StartC1 PROVE FirstInv'
    <2>1. /\ pc = "C1" /\ pc' = "merge" /\ dag' = dag /\ run'.duplicates = run.duplicates
          /\ cone' = IF run.cone_ready THEN cone ELSE ComputeAll(dag)
          /\ run'.iterations = run.iterations
          /\ run'.groups = IsomorphicGroups(cone')
      BY <1>6, StartC1Effect
    <2>2. run'.duplicates = {}
      BY <2>1 DEF FirstInv
    <2>3. ASSUME run'.iterations <= 1, NEW g \in run'.groups PROVE g \subseteq Keys(dag')
      <3>1. cone' = ComputeAll(dag)
        BY <2>1, <2>3 DEF FirstInv
      <3>2. DOMAIN ComputeAll(dag) \subseteq Keys(dag)
        BY ComputeAllKeys DEF GInv, DagOk
      <3>3. g \subseteq DOMAIN cone'
        BY <2>1, <2>3 DEF IsomorphicGroups
      <3>4. QED
        BY <2>1, <3>1, <3>2, <3>3
    <2>4. QED
      BY <2>1, <2>2, <2>3 DEF FirstInv
  <1>7. ASSUME NEW g \in run.groups, PickGroup(g) PROVE FirstInv'
    <2>1. /\ pc = "merge" /\ pc' = "merge" /\ dag' = dag /\ cone' = cone
          /\ run'.iterations = run.iterations /\ run'.groups = run.groups \ {g}
          /\ run'.canonical \in g /\ run'.duplicates = g \ {run'.canonical}
      BY <1>7, PickGroupEffect
    <2>2. ASSUME run.iterations <= 1
          PROVE  /\ run'.groups \subseteq IsomorphicGroups(cone')
                 /\ \A h \in run'.groups : h \subseteq Keys(dag') /\ h \intersect g = {}
                 /\ run'.canonical \in Keys(dag')
      BY <2>1, <2>2, GroupsDisjoint DEF FirstInv
    <2>3. QED
      BY <2>1, <2>2 DEF FirstInv
  <1>8. ASSUME MergeDuplicate PROVE FirstInv'
    <2> DEFINE dup == First(run.duplicates)
    <2>1. /\ pc = "merge" /\ pc' = "merge" /\ cone' = cone
          /\ dup \in run.duplicates /\ run'.duplicates = run.duplicates \ {dup}
          /\ run'.iterations = run.iterations
          /\ run'.groups = run.groups /\ run'.canonical = run.canonical
          /\ Keys(dag') = Keys(dag) \ {dup}
      BY <1>8, MergeEffect
    <2> HIDE DEF dup
    <2>2. QED
      BY <2>1 DEF FirstInv
  <1>9. ASSUME EndC1 PROVE FirstInv'
    BY <1>9, EndC1Effect DEF FirstInv
  <1>10. ASSUME EndTurn PROVE FirstInv'
    <2>1. pc = "check" /\ run'.groups = run.groups /\ run'.duplicates = run.duplicates
      BY <1>10, EndTurnEffect
    <2>2. \/ pc' = "done"
          \/ pc' = "C3" /\ run'.iterations = run.iterations + 1
      BY <1>10, EndTurnEffect
    <2>3. run.iterations >= 1
      BY <2>1 DEF SizeInv
    <2>4. QED
      BY <1>1, <2>1, <2>2, <2>3 DEF FirstInv
  <1>11. ASSUME Return PROVE FirstInv'
    BY <1>11, ReturnEffect DEF FirstInv
  <1>12. ASSUME UNCHANGED vars PROVE FirstInv'
    BY <1>12 DEF FirstInv, vars
  <1>13. QED
    BY <1>2, <1>3, <1>4, <1>5, <1>6, <1>7, <1>8, <1>9, <1>10, <1>11, <1>12 DEF Next, Reducing

\* No call has started.
LEMMA InitSizeFirst == Init => SizeInv /\ FirstInv
  BY DEF Init, SizeInv, FirstInv, NotRun

\* They hold in every state.
LEMMA TurnInvHolds == Spec => [](NfInv /\ SizeInv /\ FirstInv)
  <1>1. Init => NfInv /\ SizeInv /\ FirstInv
    BY InitGInv, InitDNInv, InitSizeFirst DEF NfInv
  <1>2. NfInv /\ SizeInv /\ FirstInv /\ [Next]_vars => (NfInv /\ SizeInv /\ FirstInv)'
    BY NextGInv, NextDInv, NextNInv, NextSizeInv, NextFirstInv DEF NfInv
  <1>3. QED
    BY <1>1, <1>2, PTL DEF Spec

----------------------------------------------------------------------------
\* The loop of reduce ends by itself: in every configuration it takes at most one turn more
\* than there are events ("guaranteed by the strictly decreasing measure", nf.rs).
THEOREM MeasureDecreases == Spec => []TurnsBounded
  <1>1. NfInv /\ SizeInv /\ FirstInv => TurnsBounded
    <2> SUFFICES ASSUME NfInv, SizeInv, pc # "idle" PROVE run.iterations <= Size(run.before) + 1
      BY DEF TurnsBounded
    <2>1. run.iterations \in Nat /\ Size(run.before) \in Nat
      BY SizeIsNumber DEF NfInv
    <2>2. run.size_before \in Nat /\ run.size_before + run.iterations <= Size(run.before) + 1
      BY DEF SizeInv
    <2>3. QED
      BY <2>1, <2>2
  <1>2. QED
    BY <1>1, TurnInvHolds, PTL

\* So max_iterations never decides on a history that has two events fewer.
THEOREM BoundIsSlack ==
    Spec => [](Size(run.before) + 1 < config.max_iterations => BoundNeverDecides)
  <1>1. NfInv /\ TurnsBounded => (Size(run.before) + 1 < config.max_iterations => BoundNeverDecides)
    <2> SUFFICES ASSUME NfInv, TurnsBounded, Size(run.before) + 1 < config.max_iterations, Done
                 PROVE  run.iterations < config.max_iterations
      BY DEF BoundNeverDecides
    <2>1. run.iterations \in Nat /\ Size(run.before) \in Nat
      BY SizeIsNumber DEF NfInv
    <2>2. config.max_iterations \in Nat
      BY ConfigAssumption DEF NfInv, GInv, NfConfig
    <2>3. run.iterations <= Size(run.before) + 1
      BY DEF TurnsBounded, Done
    <2>4. QED
      BY <2>1, <2>2, <2>3
  <1>2. QED
    BY <1>1, NfInvHolds, MeasureDecreases, PTL

\* In the first turn of every call C1 keeps one event of each group, whatever was inserted,
\* reduced and cached before.  Later turns may not, as the cache still has merged events.
THEOREM FirstTurnKeepsOne == Spec => [](run.iterations <= 1 => OneIsKept)
  <1>1. NfInv /\ SizeInv /\ FirstInv => (run.iterations <= 1 => OneIsKept)
    BY DEF FirstInv, OneIsKept
  <1>2. QED
    BY <1>1, TurnInvHolds, PTL

----------------------------------------------------------------------------
\* While duplicates are merged, the cache still tells causes from the time before, whatever
\* no longer has its hash is marked, and two events that still share a hash are in a group
\* to come or in the one at hand.
MergeInv ==
    /\ Traced(dag, cone)
    /\ \A i \in Keys(dag) : i \in run.dirty \/ cone[i] = ConeHash(dag.events[i], cone)
    /\ run.groups \subseteq IsomorphicGroups(cone)
    /\ \A i, j \in Keys(dag) : i # j /\ cone[i] = cone[j] =>
          (\E g \in run.groups : i \in g) \/ {i, j} \subseteq run.duplicates \union {run.canonical}
    /\ run.duplicates # {} => run.canonical \notin run.duplicates
    /\ \A i \in run.duplicates : cone[i] = cone[run.canonical]
    /\ run.c1_merged \in Nat
    /\ run.dirty # {} => Size(dag) < run.size_before /\ run.c1_merged > 0

\* The noops are gone, and what is left has the shapes that it had before any merge.
Settled == Noops(dag) = {} /\ Shapes(dag) = Shapes(Reduce(run.before))

\* With C1 after every C3, a turn that ends with equal hashes has removed an event by a
\* merge, which makes it neither the last turn nor one that the early break takes for it.
LoopInv ==
    /\ pc \in {"merge", "check", "done"} => run.cone_ready
    /\ pc = "C3" => IF run.cone_ready THEN Settled ELSE dag = run.before
    /\ pc = "C1" => Settled /\ (run.cone_ready \/ dag = PhaseC3(run.before))
    /\ pc \in {"merge", "check", "done"} => Settled
    /\ pc = "check" => Distinct(dag, cone) \/ (Size(dag) < run.size_before /\ run.c1_merged > 0)
    /\ pc = "done" /\ run.iterations < config.max_iterations => Distinct(dag, cone)

\* The hashes are kept between turns only where C1 runs, and C1 runs where ids need not be
\* unique or no noop is eliminated.
HashingOn ==
    config.enable_cone_merge /\ (config.enable_noop_elim => ~config.assume_content_addressed)

\* What holds as long as every merge keeps one event of its group.
WholeInv ==
    /\ IsFiniteSet(DOMAIN cone)
    /\ run.cone_ready => HashingOn
    /\ pc # "merge" => Whole(dag)
    /\ pc # "merge" /\ run.cone_ready => Exact(dag, cone)
    /\ pc = "merge" => MergeInv
    /\ C1AfterC3 => LoopInv

\* The owner inserts an event after its parents, and only when no event there still lists it
\* as a child: not again after it was removed by a merge.
InsertsAnew ==
    \A e \in Catalog : InsertEvent(e) =>
        e.parents \subseteq Keys(dag) /\ \A x \in dag.children : x[2] # e.id

\* Noop elimination does not touch the ids.
LEMMA PhaseC3KeepsFresh ==
    ASSUME NEW d, IdsAreOwn(d)
    PROVE  IdsAreOwn(PhaseC3(d))
  <1> DEFINE D == PhaseC3(d)
             T == Noops(d)
             affected == {x[2] : x \in {y \in d.children : y[1] \in T}} \ T
             rewritten == [i \in Keys(d) \ T |->
                              IF i \in affected
                              THEN WithParents(d.events[i], Resolve(d, T, d.events[i].parents))
                              ELSE d.events[i]]
  <1>1. T \subseteq Keys(d) /\ T \intersect Keys(d) = T
    BY DEF Noops
  <1>2. D = IF T = {} THEN d
            ELSE [events |-> rewritten, children |-> EdgesOf(rewritten), ancestry_cache |-> <<>>]
    BY <1>1 DEF PhaseC3, CompactTombstones
  <1>3. CASE T = {}
    BY <1>2, <1>3
  <1>4. CASE T # {}
    <2>1. D.events = rewritten /\ Keys(D) = Keys(d) \ T
      BY <1>2, <1>4 DEF Keys
    <2>2. \A i \in Keys(D) : D.events[i].id = d.events[i].id
      BY <2>1 DEF WithParents
    <2>3. QED
      BY <2>1, <2>2 DEF IdsAreOwn
  <1>5. QED
    BY <1>3, <1>4

\* The noops go and do not come back.
LEMMA NoNewNoops ==
    ASSUME NEW d, NEW D, Keys(D) \subseteq Keys(d),
           \A i \in Keys(D) : D.events[i].payload = d.events[i].payload, Noops(d) = {}
    PROVE  Noops(D) = {}
  BY DEF Noops, IsNoop

\* A group holds every id that shares a hash with one of its members.
LEMMA GroupsComplete ==
    ASSUME NEW cache, IsFiniteSet(DOMAIN cache), NEW i \in DOMAIN cache, NEW j \in DOMAIN cache,
           i # j, cache[i] = cache[j]
    PROVE  /\ \E g \in IsomorphicGroups(cache) : i \in g
           /\ \A g \in IsomorphicGroups(cache) : i \in g => j \in g
  <1> DEFINE g == {k \in DOMAIN cache : cache[k] = cache[i]}
  <1>1. Cardinality(g) > 1
    <2>1. IsFiniteSet(g) /\ {i, j} \in SUBSET g
      <3>1. g \in SUBSET DOMAIN cache
        OBVIOUS
      <3>2. IsFiniteSet(g)
        BY <3>1, FS_Subset
      <3>3. QED
        BY <3>2
    <2>2. Cardinality({i, j}) = 2
      <3>1. {i} \union {j} = {i, j}
        OBVIOUS
      <3>2. IsFiniteSet({i}) /\ Cardinality({i}) = 1
        BY FS_Singleton
      <3>3. Cardinality({i} \union {j}) = Cardinality({i}) + 1
        BY <3>2, FS_AddElement
      <3>4. QED
        BY <3>1, <3>2, <3>3
    <2> HIDE DEF g
    <2>3. Cardinality({i, j}) <= Cardinality(g) /\ Cardinality(g) \in Nat
      BY <2>1, FS_Subset, FS_CardinalityType
    <2>4. QED
      BY <2>2, <2>3
  <1>2. g \in IsomorphicGroups(cache)
    BY <1>1 DEF IsomorphicGroups
  <1>3. QED
    BY <1>2 DEF IsomorphicGroups

----------------------------------------------------------------------------
\* What the steps below may assume of the state they start from.
ReduceInv == NfInv /\ SizeInv /\ FirstInv /\ WholeInv

\* C1 fills the cache, or has it from the turn before, and starts on its groups.
LEMMA StartC1KeepsWhole ==
    ASSUME ReduceInv, FreshIds, StartC1
    PROVE  WholeInv'
  <1>1. /\ pc = "C1" /\ pc' = "merge" /\ ShouldRunC1 /\ dag' = dag /\ config' = config
        /\ cone' = IF run.cone_ready THEN cone ELSE ComputeAll(dag)
        /\ run'.before = run.before /\ run'.duplicates = run.duplicates
        /\ run'.cone_ready = TRUE /\ run'.c1_merged = 0 /\ run'.dirty = {}
        /\ run'.groups = IsomorphicGroups(cone')
    BY StartC1Effect DEF ReduceInv, NfInv, StartC1, fixed
  <1>2. Whole(dag) /\ Finite(dag) /\ IsFiniteSet(dag.children) /\ run.duplicates = {}
    BY <1>1 DEF ReduceInv, WholeInv, FirstInv, NfInv, GInv, DagOk
  <1>3. HashingOn
    <2>1. ~(config.enable_noop_elim /\ config.assume_content_addressed)
      BY <1>1 DEF ReduceInv, NfInv, DInv, C3Behind, ShouldRunC1
    <2>2. QED
      BY <1>1, <2>1 DEF HashingOn, ShouldRunC1
  <1>4. ASSUME ~run.cone_ready PROVE IdsAreOwn(dag)
    <2>1. CASE ~config.enable_noop_elim
      BY <2>1 DEF ReduceInv, NfInv, NInv, KeysMatchIds, IdsAreOwn
    <2>2. CASE config.enable_noop_elim
      <3>1. dag = PhaseC3(run.before)
        BY <1>1, <1>3, <1>4, <2>2 DEF ReduceInv, WholeInv, LoopInv, C1AfterC3, HashingOn
      <3>2. IdsAreOwn(run.before)
        BY DEF FreshIds, IdsAreOwn
      <3>3. QED
        BY <3>1, <3>2, PhaseC3KeepsFresh
    <2>3. QED
      BY <2>1, <2>2
  <1>5. Exact(dag, cone') /\ IsFiniteSet(DOMAIN cone')
    <2>1. CASE run.cone_ready
      BY <1>1, <2>1 DEF ReduceInv, WholeInv
    <2>2. CASE ~run.cone_ready
      <3>1. cone' = ComputeAll(dag) /\ IdsAreOwn(dag)
        BY <1>1, <1>4, <2>2
      <3>2. Exact(dag, ComputeAll(dag))
        BY <1>2, <3>1, ComputeAllIsExact
      <3>3. DOMAIN ComputeAll(dag) \in SUBSET Keys(dag)
        BY <1>2, ComputeAllKeys
      <3>4. IsFiniteSet(DOMAIN ComputeAll(dag))
        BY <1>2, <3>3, FS_Subset DEF Finite
      <3>5. QED
        BY <3>1, <3>2, <3>4
    <2>3. QED
      BY <2>1, <2>2
  <1>6. Traced(dag, cone')
    BY <1>2, <1>5, ExactIsTraced
  <1>7. ASSUME NEW i \in Keys(dag), NEW j \in Keys(dag), i # j, cone'[i] = cone'[j]
        PROVE  \E g \in run'.groups : i \in g
    BY <1>1, <1>5, <1>7, GroupsComplete DEF Exact
  <1>8. MergeInv'
    BY <1>1, <1>2, <1>5, <1>6, <1>7 DEF MergeInv, Exact
  <1>9. C1AfterC3' => LoopInv'
    BY <1>1 DEF ReduceInv, WholeInv, LoopInv, Settled, C1AfterC3
  <1>10. QED
    BY <1>1, <1>3, <1>5, <1>8, <1>9 DEF WholeInv, HashingOn

\* The next group is taken up.
LEMMA PickGroupKeepsWhole ==
    ASSUME ReduceInv, NEW g \in run.groups, PickGroup(g)
    PROVE  WholeInv'
  <1>1. /\ pc = "merge" /\ pc' = "merge" /\ dag' = dag /\ cone' = cone /\ config' = config
        /\ run'.before = run.before /\ run'.size_before = run.size_before
        /\ run'.cone_ready = run.cone_ready
        /\ run'.c1_merged = run.c1_merged /\ run'.dirty = run.dirty
        /\ run.duplicates = {} /\ run'.groups = run.groups \ {g}
        /\ run'.canonical \in g /\ run'.duplicates = g \ {run'.canonical}
    BY PickGroupEffect DEF ReduceInv, NfInv, PickGroup, fixed
  <1>2. MergeInv /\ IsFiniteSet(DOMAIN cone)
    BY <1>1 DEF ReduceInv, WholeInv
  <1>3. g \in IsomorphicGroups(cone)
    BY <1>2 DEF MergeInv
  <1>4. \A i \in g : cone[i] = cone[run'.canonical]
    BY <1>1, <1>3 DEF IsomorphicGroups
  <1>5. ASSUME NEW i \in Keys(dag), NEW j \in Keys(dag), i # j, cone[i] = cone[j]
        PROVE  \/ \E h \in run'.groups : i \in h
               \/ {i, j} \subseteq run'.duplicates \union {run'.canonical}
    <2>1. PICK h \in run.groups : i \in h
      BY <1>1, <1>2, <1>5 DEF MergeInv
    <2>2. CASE h = g
      <3>1. i \in DOMAIN cone /\ j \in DOMAIN cone
        BY <1>2 DEF MergeInv, Traced
      <3>2. j \in g
        BY <1>2, <1>3, <1>5, <2>1, <2>2, <3>1, GroupsComplete
      <3>3. QED
        BY <1>1, <2>1, <2>2, <3>2
    <2>3. CASE h # g
      BY <1>1, <2>1, <2>3
    <2>4. QED
      BY <2>2, <2>3
  <1>6. MergeInv'
    <2>1. run'.groups \subseteq IsomorphicGroups(cone')
      BY <1>1, <1>2 DEF MergeInv
    <2>2. QED
      BY <1>1, <1>2, <1>4, <1>5, <2>1 DEF MergeInv
  <1>7. C1AfterC3' => LoopInv'
    BY <1>1 DEF ReduceInv, WholeInv, LoopInv, Settled, C1AfterC3
  <1>8. QED
    BY <1>1, <1>2, <1>6, <1>7 DEF ReduceInv, WholeInv, HashingOn

\* A duplicate is merged into an event that is there, or is not there itself.
LEMMA MergeKeepsWhole ==
    ASSUME ReduceInv, OneIsKept, MergeDuplicate
    PROVE  WholeInv'
  <1> DEFINE dup   == First(run.duplicates)
             canon == run.canonical
  <1>1. /\ pc = "merge" /\ pc' = "merge" /\ cone' = cone /\ config' = config
        /\ dup \in run.duplicates /\ run'.duplicates = run.duplicates \ {dup}
        /\ run'.before = run.before /\ run'.size_before = run.size_before
        /\ run'.cone_ready = run.cone_ready
        /\ run'.groups = run.groups /\ run'.canonical = canon
        /\ run'.c1_merged = run.c1_merged + 1
        /\ Keys(dag') = Keys(dag) \ {dup}
    BY MergeEffect DEF ReduceInv, NfInv, MergeDuplicate, fixed
  <1>2. MergeInv /\ IsFiniteSet(DOMAIN cone) /\ IsFiniteSet(Keys(dag))
    BY <1>1 DEF ReduceInv, WholeInv, NfInv, GInv, DagOk, Finite
  <1>3. /\ MergedInto(dag, dag', dup, canon)
        /\ \A i \in Keys(dag') : i \in run'.dirty \/ dag'.events[i] = dag.events[i]
        /\ run.dirty \subseteq run'.dirty
        /\ (\A x \in dag.children : x[1] # dup) => run'.dirty = run.dirty
    BY <1>2, MergeRedirects DEF MergeInv, Traced, ReduceInv, NfInv
  <1>4. canon # dup /\ cone[canon] = cone[dup] /\ (dup \in Keys(dag) => canon \in Keys(dag))
    BY <1>1, <1>2 DEF MergeInv, OneIsKept
  <1> HIDE DEF dup, canon
  <1>5. Traced(dag', cone) /\ Shapes(dag') = Shapes(dag)
    <2>1. CASE dup \in Keys(dag)
      BY <1>2, <1>3, <1>4, <2>1, MergeKeepsTraced DEF MergeInv
    <2>2. CASE dup \notin Keys(dag)
      <3>1. /\ Keys(dag') = Keys(dag)
            /\ dag'.children = dag.children
            /\ \A i \in Keys(dag) : /\ dag'.events[i].payload = dag.events[i].payload
                                    /\ dag'.events[i].parents = dag.events[i].parents
        BY <1>2, <1>3, <2>2, MergeOfAbsent DEF MergeInv
      <3>2. QED
        BY <1>2, <3>1, TracedAgrees DEF MergeInv
    <2>3. QED
      BY <2>1, <2>2
  <1>6. ASSUME run'.dirty # {} PROVE Size(dag') < run'.size_before /\ run'.c1_merged > 0
    <2>1. Size(dag) \in Nat /\ run.size_before \in Nat /\ Size(dag) <= run.size_before
      BY <1>1, SizeIsNumber DEF ReduceInv, NfInv, SizeInv
    <2>2. Size(dag') <= Size(dag) /\ Size(dag') \in Nat
      BY <1>1, <1>2, FS_RemoveElement, FS_Subset, FS_CardinalityType DEF Size
    <2>3. Size(dag') < run.size_before
      <3>1. CASE run.dirty # {}
        BY <1>2, <2>1, <2>2, <3>1 DEF MergeInv
      <3>2. CASE run.dirty = {}
        <4>1. PICK x \in dag.children : x[1] = dup
          BY <1>3, <1>6, <3>2
        <4>2. dup \in Keys(dag)
          BY <1>2, <4>1 DEF MergeInv, Traced
        <4>3. Size(dag') = Size(dag) - 1
          BY <1>1, <1>2, <4>2, FS_RemoveElement DEF Size
        <4>4. QED
          BY <2>1, <4>3
      <3>3. QED
        BY <3>1, <3>2
    <2>4. QED
      BY <1>1, <1>2, <2>3 DEF MergeInv
  <1>7. \A i \in Keys(dag') : i \in run'.dirty \/ cone[i] = ConeHash(dag'.events[i], cone)
    BY <1>1, <1>2, <1>3 DEF MergeInv
  <1>8. MergeInv'
    <2>1. \A i, j \in Keys(dag') : i # j /\ cone[i] = cone[j] =>
              (\E g \in run'.groups : i \in g) \/ {i, j} \subseteq run'.duplicates \union {run'.canonical}
      BY <1>1, <1>2 DEF MergeInv, canon
    <2>2. \A i \in run'.duplicates : cone[i] = cone[run'.canonical]
      BY <1>1, <1>2 DEF MergeInv, canon
    <2>3. run'.duplicates # {} => run'.canonical \notin run'.duplicates
      BY <1>1, <1>2 DEF MergeInv, canon
    <2>4. run'.c1_merged \in Nat /\ run'.groups \subseteq IsomorphicGroups(cone')
      BY <1>1, <1>2 DEF MergeInv
    <2>5. QED
      BY <1>1, <1>5, <1>6, <1>7, <2>1, <2>2, <2>3, <2>4 DEF MergeInv
  <1>9. C1AfterC3' => LoopInv'
    <2> SUFFICES ASSUME C1AfterC3 PROVE LoopInv'
      BY <1>1 DEF C1AfterC3
    <2>1. Settled /\ run.cone_ready
      BY <1>1 DEF ReduceInv, WholeInv, LoopInv
    <2>2. Noops(dag) = {}
      BY <2>1 DEF Settled
    <2>3. /\ Keys(dag') \subseteq Keys(dag)
          /\ \A i \in Keys(dag') : dag'.events[i].payload = dag.events[i].payload
      BY <1>3 DEF MergedInto
    <2>4. Noops(dag') = {}
      BY ONLY <2>2, <2>3, NoNewNoops
    <2>5. QED
      BY <1>1, <1>5, <2>1, <2>4 DEF LoopInv, Settled
  <1>10. QED
    BY <1>1, <1>2, <1>8, <1>9 DEF ReduceInv, WholeInv, HashingOn

\* When no group is left no two events share a hash, and what the merges changed is hashed
\* again.
LEMMA EndC1KeepsWhole ==
    ASSUME ReduceInv, EndC1
    PROVE  WholeInv'
  <1>1. /\ pc = "merge" /\ pc' = "check" /\ dag' = dag /\ run' = run /\ config' = config
        /\ run.groups = {} /\ run.duplicates = {}
        /\ cone' = IF run.dirty # {}
                   THEN ComputeDirty(Invalidate(cone, run.dirty, dag), dag)
                   ELSE cone
    BY EndC1Effect DEF EndC1, fixed
  <1>2. MergeInv /\ IsFiniteSet(DOMAIN cone) /\ Finite(dag)
    BY <1>1 DEF ReduceInv, WholeInv, NfInv, GInv, DagOk
  <1>3. Distinct(dag, cone)
    BY <1>1, <1>2 DEF MergeInv, Distinct
  <1>4. Whole(dag)
    BY <1>2, <1>3, TracedEndsWhole DEF MergeInv
  <1>5. Exact(dag, cone')
    <2>1. /\ Keys(dag) \subseteq DOMAIN cone
          /\ \A i \in Keys(dag) : i \in run.dirty \/ cone[i] = ConeHash(dag.events[i], cone)
      BY <1>2 DEF MergeInv, Traced
    <2>2. CASE run.dirty # {}
      BY <1>1, <1>2, <1>4, <2>1, <2>2, ComputeDirtyIsExact
    <2>3. CASE run.dirty = {}
      BY <1>1, <2>1, <2>3 DEF Exact
    <2>4. QED
      BY <2>2, <2>3
  <1>6. IsFiniteSet(DOMAIN cone')
    <2>1. CASE run.dirty # {}
      <3> DEFINE kept == Invalidate(cone, run.dirty, dag)
      <3>1. DOMAIN kept \in SUBSET DOMAIN cone
        BY DEF Invalidate
      <3>2. IsFiniteSet(DOMAIN kept)
        BY <1>2, <3>1, FS_Subset
      <3>3. IsFiniteSet(DOMAIN kept \union Keys(dag))
        BY <1>2, <3>2, FS_Union DEF Finite
      <3>4. DOMAIN cone' \in SUBSET (DOMAIN kept \union Keys(dag))
        BY <1>1, <1>2, <2>1, ComputeDirtyKeys
      <3>5. QED
        BY <3>3, <3>4, FS_Subset
    <2>2. QED
      BY <1>1, <1>2, <2>1
  <1>7. C1AfterC3' => LoopInv'
    <2> SUFFICES ASSUME C1AfterC3 PROVE LoopInv'
      BY <1>1 DEF C1AfterC3
    <2>1. Settled /\ run.cone_ready
      BY <1>1 DEF ReduceInv, WholeInv, LoopInv
    <2>2. Distinct(dag', cone') \/ (Size(dag') < run'.size_before /\ run'.c1_merged > 0)
      <3>1. CASE run.dirty # {}
        <4>1. Size(dag) < run.size_before /\ run.c1_merged > 0
          BY <1>2, <3>1 DEF MergeInv
        <4>2. QED
          BY <1>1, <4>1
      <3>2. CASE run.dirty = {}
        <4>1. dag' = dag /\ cone' = cone
          BY <1>1, <3>2
        <4>2. QED
          BY <1>3, <4>1
      <3>3. QED
        BY <3>1, <3>2
    <2>3. QED
      BY <1>1, <2>1, <2>2 DEF LoopInv, Settled
  <1>8. QED
    BY <1>1, <1>4, <1>5, <1>6, <1>7 DEF ReduceInv, WholeInv, HashingOn

----------------------------------------------------------------------------
\* Every step keeps the history whole, while merges keep one event of each group.
LEMMA NextWholeInv ==
    ASSUME ReduceInv, FreshIds, OneIsKept, [Next]_vars, [InsertsAnew]_vars
    PROVE  WholeInv'
  <1>1. config' = config
    BY DEF Next, Reducing, InsertEvent, StartReduce, RunC3, SkipC1, StartC1, PickGroup,
           MergeDuplicate, EndC1, EndTurn, Return, vars, fixed
  <1>2. IsFiniteSet(DOMAIN cone) /\ IsFiniteSet(Keys(dag))
    BY DEF ReduceInv, WholeInv, NfInv, GInv, DagOk, Finite
  <1>3. ASSUME NEW e \in Catalog, InsertEvent(e), ~UNCHANGED vars PROVE WholeInv'
    <2>1. /\ pc = "idle" /\ pc' = "idle" /\ cone' = cone /\ run' = run
          /\ e.id \notin Keys(dag) /\ dag' = Insert(dag, e)
      BY <1>3 DEF InsertEvent
    <2>2. e.parents \subseteq Keys(dag) /\ \A x \in dag.children : x[2] # e.id
      BY <1>3 DEF InsertsAnew
    <2>3. Whole(dag) /\ ~run.cone_ready
      BY <2>1 DEF ReduceInv, WholeInv, FirstInv
    <2>4. Whole(Insert(dag, e))
      BY <2>1, <2>2, <2>3, InsertKeepsWhole
    <2>5. QED
      BY <1>2, <2>1, <2>3, <2>4 DEF WholeInv, LoopInv
  <1>4. ASSUME StartReduce PROVE WholeInv'
    <2>1. /\ pc = "idle" /\ pc' = "C3" /\ dag' = dag /\ cone' = cone
          /\ run'.before = dag /\ run'.cone_ready = FALSE
      BY <1>4, StartReduceEffect
    <2>2. Whole(dag)
      BY <2>1 DEF ReduceInv, WholeInv
    <2>3. QED
      BY <1>2, <2>1, <2>2 DEF WholeInv, LoopInv
  <1>5. ASSUME RunC3 PROVE WholeInv'
    <2>1. /\ pc = "C3" /\ pc' = "C1"
          /\ run'.before = run.before /\ run'.cone_ready = run.cone_ready
          /\ dag' = IF config.enable_noop_elim THEN PhaseC3(dag) ELSE dag
          /\ ~config.enable_noop_elim \/ ~run.cone_ready \/ Noops(dag) = {} => cone' = cone
      BY <1>5, RunC3Effect DEF ReduceInv, NfInv
    <2>2. Whole(dag) /\ (run.cone_ready => HashingOn /\ Exact(dag, cone))
      BY <2>1 DEF ReduceInv, WholeInv
    <2>3. Whole(dag')
      BY <2>1, <2>2, PhaseC3KeepsWhole
    <2>4. config.enable_noop_elim /\ run.cone_ready => Settled
      BY <2>1, <2>2 DEF ReduceInv, WholeInv, LoopInv, HashingOn, C1AfterC3
    <2>5. cone' = cone
      BY <2>1, <2>4 DEF Settled
    <2>6. run.cone_ready => dag' = dag
      BY <2>1, <2>4, PhaseC3Fields DEF Settled
    <2>7. C1AfterC3' => LoopInv'
      <3> SUFFICES ASSUME C1AfterC3 PROVE LoopInv'
        BY <1>1 DEF C1AfterC3
      <3>1. CASE run.cone_ready
        BY <2>1, <2>4, <2>6, <3>1 DEF LoopInv, Settled, C1AfterC3
      <3>2. CASE ~run.cone_ready
        <4>1. dag = run.before
          BY <2>1, <3>2 DEF ReduceInv, WholeInv, LoopInv
        <4>2. dag' = PhaseC3(run.before)
          BY <2>1, <4>1 DEF C1AfterC3
        <4>3. Noops(PhaseC3(run.before)) = {}
          BY PhaseC3Fields
        <4>4. QED
          BY <2>1, <4>2, <4>3 DEF LoopInv, Settled, Reduce
      <3>3. QED
        BY <3>1, <3>2
    <2>8. QED
      BY <1>1, <1>2, <2>1, <2>2, <2>3, <2>5, <2>6, <2>7 DEF WholeInv, HashingOn
  <1>6. ASSUME SkipC1 PROVE WholeInv'
    <2>1. /\ pc = "C1" /\ pc' = "check" /\ ~ShouldRunC1 /\ dag' = dag /\ cone' = cone
          /\ run'.before = run.before /\ run'.cone_ready = run.cone_ready
      BY <1>6, SkipC1Effect DEF ReduceInv, NfInv
    <2>2. ~C1AfterC3
      BY <2>1 DEF C1AfterC3, ShouldRunC1
    <2>3. QED
      BY <1>1, <2>1, <2>2 DEF ReduceInv, WholeInv, HashingOn, C1AfterC3
  <1>7. ASSUME EndTurn PROVE WholeInv'
    <2>1. /\ pc = "check" /\ pc' \in {"C3", "done"} /\ dag' = dag
          /\ config.enable_cone_merge => cone' = cone
          /\ cone' \in {cone, ComputeAll(dag)}
          /\ run'.before = run.before /\ run'.cone_ready = run.cone_ready
      BY <1>7, EndTurnEffect DEF ReduceInv, NfInv
    <2>2. /\ Whole(dag)
          /\ run.cone_ready => HashingOn /\ Exact(dag, cone)
      BY <2>1 DEF ReduceInv, WholeInv
    <2>3. run.cone_ready => cone' = cone
      BY <2>1, <2>2 DEF HashingOn
    <2>4. IsFiniteSet(DOMAIN cone')
      <3>1. DOMAIN ComputeAll(dag) \in SUBSET Keys(dag)
        BY ComputeAllKeys DEF ReduceInv, NfInv, GInv, DagOk
      <3>2. IsFiniteSet(DOMAIN ComputeAll(dag))
        BY <1>2, <3>1, FS_Subset
      <3>3. QED
        BY <1>2, <2>1, <3>2
    <2>5. C1AfterC3' => LoopInv'
      <3> SUFFICES ASSUME C1AfterC3 PROVE LoopInv'
        BY <1>1 DEF C1AfterC3
      <3>1. /\ run.cone_ready /\ Settled
            /\ Distinct(dag, cone) \/ (Size(dag) < run.size_before /\ run.c1_merged > 0)
        BY <2>1 DEF ReduceInv, WholeInv, LoopInv
      <3>2. CASE LastTurn
        <4>1. pc' = "done" /\ run' = run
          BY <1>7, <3>2, EndTurnEffect DEF ReduceInv, NfInv
        <4>2. ASSUME run.iterations < config.max_iterations PROVE Distinct(dag, cone)
          <5>1. run.iterations \in Nat /\ Size(dag) \in Nat
            BY SizeIsNumber DEF ReduceInv, NfInv
          <5>2. config.max_iterations \in Nat
            BY ConfigAssumption DEF ReduceInv, NfInv, GInv, NfConfig
          <5>3. run.iterations # config.max_iterations
            BY <4>2, <5>1, <5>2
          <5>4. run.size_before \in Nat
            BY <2>1 DEF ReduceInv, SizeInv
          <5>5. Size(dag) = run.size_before \/ run.c1_merged = 0
            BY <3>2, <5>3 DEF LastTurn
          <5>6. QED
            BY <3>1, <5>1, <5>4, <5>5
        <4>3. dag' = dag /\ cone' = cone
          BY <2>1, <2>3, <3>1
        <4>4. pc' = "done" /\ run'.iterations < config'.max_iterations => Distinct(dag', cone')
          BY <1>1, <4>1, <4>2, <4>3
        <4>5. QED
          BY <3>1, <4>1, <4>3, <4>4 DEF LoopInv, Settled
      <3>3. CASE ~LastTurn
        <4>1. pc' = "C3"
          BY <1>7, <3>3, EndTurnEffect DEF ReduceInv, NfInv
        <4>2. QED
          BY <2>1, <3>1, <4>1 DEF LoopInv, Settled
      <3>4. QED
        BY <3>2, <3>3
    <2>6. QED
      BY <1>1, <2>1, <2>2, <2>3, <2>4, <2>5 DEF WholeInv, HashingOn
  <1>8. ASSUME Return PROVE WholeInv'
    <2>1. /\ pc = "done" /\ pc' = "idle" /\ dag' = dag /\ cone' = cone /\ run'.cone_ready = FALSE
      BY <1>8, ReturnEffect
    <2>2. QED
      BY <1>2, <2>1 DEF ReduceInv, WholeInv, LoopInv
  <1>9. ASSUME UNCHANGED vars PROVE WholeInv'
    <2>1. /\ dag' = dag /\ cone' = cone /\ pc' = pc /\ run' = run /\ config' = config
      BY <1>9 DEF vars, fixed
    <2>2. /\ MergeInv => MergeInv'
          /\ LoopInv => LoopInv'
          /\ HashingOn' = HashingOn /\ C1AfterC3' = C1AfterC3
      BY <2>1 DEF MergeInv, LoopInv, Settled, HashingOn, C1AfterC3
    <2>3. QED
      BY <2>1, <2>2 DEF ReduceInv, WholeInv
  <1>10. QED
    BY <1>3, <1>4, <1>5, <1>6, <1>7, <1>8, <1>9,
       StartC1KeepsWhole, PickGroupKeepsWhole, MergeKeepsWhole, EndC1KeepsWhole DEF Next, Reducing

\* The empty history is whole.
LEMMA InitWholeInv == Init => WholeInv
  <1> SUFFICES ASSUME Init PROVE WholeInv
    OBVIOUS
  <1>1. dag = EmptyDag /\ cone = <<>> /\ pc = "idle" /\ run.cone_ready = FALSE
    BY DEF Init, NotRun
  <1>2. DOMAIN <<>> = {} /\ IsFiniteSet({})
    BY FS_EmptySet
  <1>3. IsFiniteSet(DOMAIN cone)
    BY <1>1, <1>2
  <1>4. QED
    BY <1>1, <1>3, EmptyIsWhole DEF WholeInv, LoopInv

\* What the theorems below assume of a behavior: calls are made on histories whose ids are
\* their keys, C1 keeps one event of each group, and the owner inserts an event after its
\* parents and never again once it was removed.  The first two fail in the code
\* (NF_unlisted, NF_ghost), and without any of them so do the theorems.
Kept == [](FreshIds /\ OneIsKept) /\ [][InsertsAnew]_vars

\* Then the history is whole in every state.
LEMMA WholeInvHolds ==
    Spec /\ Kept => [](NfInv /\ SizeInv /\ FirstInv /\ WholeInv)
  <1>1. Init => WholeInv
    BY InitWholeInv
  <1>2. ASSUME NfInv, SizeInv, FirstInv, WholeInv, FreshIds, OneIsKept, [Next]_vars, [InsertsAnew]_vars
        PROVE  WholeInv'
    BY <1>2, NextWholeInv DEF ReduceInv
  <1>3. QED
    BY <1>1, <1>2, TurnInvHolds, PTL DEF Spec, Kept

\* It says all that the theorems below do.
LEMMA WholeIsEnough ==
    ASSUME NfInv, WholeInv
    PROVE  StaysWhole /\ IncrementalExact /\ OneEventPerShape
  <1>1. StaysWhole
    <2> SUFFICES ASSUME Done PROVE IsCausallyClosed(dag) /\ FrontierCovers(dag)
      BY DEF StaysWhole
    <2>1. Whole(dag) /\ Finite(dag)
      BY DEF Done, WholeInv, NfInv, GInv, DagOk
    <2>2. QED
      BY <2>1, WholeIsCovered
  <1>2. IncrementalExact
    <2> SUFFICES ASSUME pc = "check", run.cone_ready
                 PROVE  \A i \in Keys(dag) : i \in DOMAIN cone /\ cone[i] = TrueCones(dag)[i]
      BY DEF IncrementalExact
    <2>1. Whole(dag) /\ Exact(dag, cone)
      BY DEF WholeInv
    <2>2. QED
      BY <2>1, ExactIsTrue DEF Whole, Closed
  <1>3. OneEventPerShape
    <2> SUFFICES ASSUME Done, C1AfterC3, run.iterations < config.max_iterations
                 PROVE  /\ Shapes(dag) = Shapes(Reduce(run.before))
                        /\ Size(dag) = Cardinality(Shapes(dag))
      BY DEF OneEventPerShape
    <2>1. Settled /\ Distinct(dag, cone) /\ run.cone_ready
      BY DEF WholeInv, LoopInv, Done
    <2>2. Whole(dag) /\ Finite(dag) /\ Exact(dag, cone)
      BY <2>1 DEF WholeInv, Done, NfInv, GInv, DagOk
    <2>3. QED
      BY <2>1, <2>2, DistinctShapes DEF Settled
  <1>4. QED
    BY <1>1, <1>2, <1>3

\* Reduction with C1 leaves closed histories closed, with tips that cover them.
THEOREM KeptStaysWhole == Spec /\ Kept => []StaysWhole
  BY WholeIsEnough, WholeInvHolds, PTL

\* The incremental cone cache is what hashing anew would give, in every turn of every call.
THEOREM KeptIncrementalExact == Spec /\ Kept => []IncrementalExact
  BY WholeIsEnough, WholeInvHolds, PTL

\* C1 after every C3 ends with one event per shape, for every order of ids and groups.
THEOREM KeptOneEventPerShape == Spec /\ Kept => []OneEventPerShape
  BY WholeIsEnough, WholeInvHolds, PTL

----------------------------------------------------------------------------
\* Until the call the history is as insertion makes it.
CallInv ==
    /\ pc = "idle" => run = NotRun /\ ChildrenExact(dag) /\ KeysMatchIds(dag)
    /\ KeysMatchIds(run.before)

\* Insertion keeps it so, and the call keeps the history it was made on.
LEMMA NextCallInv ==
    ASSUME GInv, CallInv, [Next /\ pc # "done"]_vars
    PROVE  CallInv'
  <1>1. ASSUME pc' # "idle", run'.before = run.before PROVE CallInv'
    BY <1>1 DEF CallInv
  <1>2. ASSUME NEW e \in Catalog, InsertEvent(e) PROVE CallInv'
    <2>1. /\ pc = "idle" /\ pc' = "idle" /\ run' = run
          /\ e.id \notin Keys(dag) /\ dag' = Insert(dag, e)
      BY <1>2 DEF InsertEvent
    <2>2. ChildrenExact(dag) /\ KeysMatchIds(dag)
      BY <2>1 DEF CallInv
    <2>3. ChildrenExact(dag') /\ KeysMatchIds(dag')
      BY <2>1, <2>2, InsertFields DEF KeysMatchIds
    <2>4. QED
      BY <2>1, <2>3 DEF CallInv
  <1>3. ASSUME StartReduce PROVE CallInv'
    BY <1>3, StartReduceEffect DEF CallInv
  <1>4. ASSUME RunC3 PROVE CallInv'
    BY <1>1, <1>4, RunC3Effect
  <1>5. ASSUME SkipC1 PROVE CallInv'
    BY <1>1, <1>5, SkipC1Effect
  <1>6. ASSUME StartC1 PROVE CallInv'
    BY <1>1, <1>6, StartC1Effect
  <1>7. ASSUME NEW g \in run.groups, PickGroup(g) PROVE CallInv'
    BY <1>1, <1>7, PickGroupEffect
  <1>8. ASSUME MergeDuplicate PROVE CallInv'
    BY <1>1, <1>8, MergeEffect
  <1>9. ASSUME EndC1 PROVE CallInv'
    BY <1>1, <1>9, EndC1Effect
  <1>10. ASSUME EndTurn PROVE CallInv'
    BY <1>1, <1>10, EndTurnEffect
  <1>11. ASSUME Return, pc # "done" PROVE FALSE
    BY <1>11, ReturnEffect
  <1>12. ASSUME UNCHANGED vars PROVE CallInv'
    BY <1>12 DEF CallInv, vars
  <1>13. QED
    BY <1>2, <1>3, <1>4, <1>5, <1>6, <1>7, <1>8, <1>9, <1>10, <1>11, <1>12 DEF Next, Reducing

\* The empty history is as insertion makes it.
LEMMA InitCallInv == Init => CallInv
  <1>1. Keys(EmptyDag) = {} /\ ChildrenExact(EmptyDag)
    BY DEF EmptyDag, Keys, ChildrenExact, EdgesOf
  <1>2. NotRun.before = EmptyDag
    BY DEF NotRun
  <1>3. QED
    BY <1>1, <1>2 DEF Init, CallInv, KeysMatchIds

\* Then no id is stale, and no event that is inserted after its parents has been removed
\* before.
LEMMA OneCallIsFresh ==
    ASSUME CallInv
    PROVE  FreshIds /\ (config \in InOrder => InsertsAnew)
  <1>1. FreshIds
    BY DEF CallInv, KeysMatchIds, FreshIds
  <1>2. ASSUME config \in InOrder, NEW e \in Catalog, InsertEvent(e)
        PROVE  e.parents \subseteq Keys(dag) /\ \A x \in dag.children : x[2] # e.id
    <2>1. e.parents \subseteq Keys(dag) /\ e.id \notin Keys(dag) /\ ChildrenExact(dag)
      BY <1>2 DEF InsertEvent, CallInv
    <2>2. ASSUME NEW x \in dag.children PROVE x[2] \in Keys(dag)
      BY <2>1 DEF ChildrenExact, EdgesOf, Keys
    <2>3. QED
      BY <2>1, <2>2
  <1>3. QED
    BY <1>1, <1>2 DEF InsertsAnew

\* A behavior with one call is one of the specification.
LEMMA OneCallHolds == OneCall => Spec /\ [](NfInv /\ SizeInv /\ FirstInv /\ CallInv)
  <1>1. NfInv /\ CallInv /\ [Next /\ pc # "done"]_vars => CallInv'
    BY NextCallInv DEF NfInv
  <1>2. [Next /\ pc # "done"]_vars => [Next]_vars
    OBVIOUS
  <1>3. QED
    BY <1>1, <1>2, InitCallInv, TurnInvHolds, PTL DEF OneCall, Spec

\* A call on a history that was filled parents first normalizes it, if its merges keep one
\* event of each group: no other condition is left.
THEOREM OneCallNormalizes ==
    OneCall /\ [](config \in InOrder /\ OneIsKept)
        => [](OneEventPerShape /\ StaysWhole /\ IncrementalExact)
  <1>1. CallInv => FreshIds
    BY OneCallIsFresh
  <1>2. CallInv /\ config \in InOrder => [InsertsAnew]_vars
    BY OneCallIsFresh
  <1>3. QED
    BY <1>1, <1>2, OneCallHolds, KeptOneEventPerShape, KeptStaysWhole, KeptIncrementalExact, PTL
    DEF Kept

\* The first turn needs no more than the order of insertion.
THEOREM FirstTurnIsExact ==
    OneCall => [](config \in InOrder /\ run.iterations <= 1 => StaysWhole /\ IncrementalExact)
  <1> DEFINE Early == config \in InOrder /\ run.iterations <= 1
  <1>1. Init => (Early => WholeInv)
    BY InitWholeInv
  <1>2. ASSUME NfInv, SizeInv, FirstInv, CallInv, Early => WholeInv, [Next /\ pc # "done"]_vars
        PROVE  (Early => WholeInv)'
    <2>1. config' = config
      BY <1>2 DEF Next, Reducing, InsertEvent, StartReduce, RunC3, SkipC1, StartC1, PickGroup,
             MergeDuplicate, EndC1, EndTurn, Return, vars, fixed
    <2>2. run'.iterations <= 1 => run.iterations <= 1
      <3>1. run.iterations \in Nat
        BY <1>2, SizeIsNumber DEF NfInv
      <3>2. StartReduce => run.iterations <= 1
        <4> SUFFICES ASSUME StartReduce PROVE run.iterations = 0
          BY <3>1
        <4>1. run = NotRun
          BY <1>2, StartReduceEffect DEF CallInv
        <4>2. QED
          BY <4>1 DEF NotRun
      <3>3. EndTurn => run'.iterations = run.iterations \/ run'.iterations = run.iterations + 1
        BY <1>2, EndTurnEffect DEF NfInv
      <3>4. Return => pc = "done"
        BY ReturnEffect
      <3>5. ASSUME \/ RunC3 \/ SkipC1 \/ StartC1 \/ (\E g \in run.groups : PickGroup(g))
                   \/ MergeDuplicate \/ EndC1 \/ (\E e \in Catalog : InsertEvent(e)) \/ UNCHANGED vars
            PROVE  run'.iterations = run.iterations
        BY <1>2, <3>5, RunC3Effect, SkipC1Effect, StartC1Effect, PickGroupEffect, MergeEffect, EndC1Effect
           DEF NfInv, InsertEvent, vars
      <3>6. QED
        BY <1>2, <3>1, <3>2, <3>3, <3>4, <3>5 DEF Next, Reducing
    <2> SUFFICES ASSUME Early PROVE WholeInv'
      BY <2>1, <2>2
    <2>3. OneIsKept
      BY <1>2 DEF FirstInv, OneIsKept
    <2>4. FreshIds /\ [InsertsAnew]_vars /\ [Next]_vars
      BY <1>2, OneCallIsFresh
    <2>5. QED
      BY <1>2, <2>3, <2>4, NextWholeInv DEF ReduceInv
  <1>3. NfInv /\ WholeInv => StaysWhole /\ IncrementalExact
    BY WholeIsEnough
  <1> HIDE DEF Early
  <1>4. QED
    BY <1>1, <1>2, <1>3, OneCallHolds, PTL DEF OneCall, Early
=============================================================================
