------------------------- MODULE RawHistoriesProofs -------------------------
(***************************************************************************)
(* The laws of merge hold of every history that an author can build by     *)
(* inserting parents first, for every set of authors and every catalog:    *)
(* such histories are parts of the catalog, and MergeLaws is about parts.  *)
(***************************************************************************)
EXTENDS RawHistories, HistoryProofs

\* The DAG of the whole catalog, of which the histories are parts.
World == InsertAll(EmptyDag, Catalog)

\* What TypeOK needs to be kept by a step: histories are records as EmptyDag is.
Typed == TypeOK /\ \A w \in Author : Shaped(raw[w])

\* With parents first, each author has a closed part of the catalog.
Parts == Typed /\ \A w \in Author : Part(raw[w], World)

\* The catalog as one DAG is a content-addressed world of those events.
LEMMA WorldIsCatalog ==
    /\ IsWorld(World)
    /\ Keys(World) = {e.id : e \in Catalog}
    /\ \A e \in Catalog : World.events[e.id] = e
  <1>1. \A e \in Catalog : e = NewEvent(e.payload, e.parents)
    BY CatalogAssumption
  <1>2. QED
    BY <1>1, CatalogIsWorld DEF World

\* Empty histories are parts of the catalog.
LEMMA InitParts == Init => Parts
  <1> SUFFICES ASSUME Init PROVE Parts
    OBVIOUS
  <1>1. \A w \in Author : raw[w] = EmptyDag
    BY DEF Init
  <1>2. Part(EmptyDag, World) /\ Keys(EmptyDag) = {} /\ EmptyDag.ancestry_cache = <<>>
    BY EmptyIsPart
  <1>3. TypeOK
    <2>1. DOMAIN raw = Author
      BY DEF Init
    <2>2. Events(EmptyDag) = {} /\ KeysMatchIds(EmptyDag) /\ ChildrenExact(EmptyDag)
      BY <1>2 DEF Events, KeysMatchIds, Part
    <2>3. QED
      BY <1>1, <1>2, <2>1, <2>2 DEF TypeOK
  <1>4. QED
    BY <1>1, <1>2, <1>3 DEF Parts, Typed, Part

\* Inserting a catalog event, in whatever order, keeps an author's history typed.
LEMMA InsertKeepsTyped ==
    ASSUME Typed, NEW v \in Author, NEW e \in Catalog, InsertBy(v, e)
    PROVE  Typed'
  <1> DEFINE D == Insert(raw[v], e)
  <1>1. /\ DOMAIN raw' = Author
        /\ raw'[v] = D
        /\ \A w \in Author \ {v} : raw'[w] = raw[w]
    BY DEF Typed, TypeOK, InsertBy
  <1>2. /\ Events(D) \subseteq Catalog /\ KeysMatchIds(D) /\ ChildrenExact(D)
        /\ D.ancestry_cache = <<>> /\ Shaped(D)
    <2>1. CASE e.id \in Keys(raw[v])
      BY <2>1 DEF Insert, Typed, TypeOK
    <2>2. CASE e.id \notin Keys(raw[v])
      <3>1. /\ Keys(D) = Keys(raw[v]) \union {e.id}
            /\ \A i \in Keys(raw[v]) : D.events[i] = raw[v].events[i]
            /\ D.events[e.id] = e
            /\ D.ancestry_cache = raw[v].ancestry_cache
            /\ ChildrenExact(D)
            /\ Shaped(D)
        BY <2>2, InsertEffect DEF Typed, TypeOK
      <3>2. QED
        BY <3>1 DEF Events, KeysMatchIds, Typed, TypeOK
    <2>3. QED
      BY <2>1, <2>2
  <1>3. QED
    BY <1>1, <1>2 DEF Typed, TypeOK

\* A typed history that is closed is a part of the catalog.
LEMMA ClosedIsPart ==
    ASSUME Typed, NEW w \in Author, IsCausallyClosed(raw[w])
    PROVE  Part(raw[w], World)
  <1>1. \A i \in Keys(raw[w]) : i \in Keys(World) /\ raw[w].events[i] = World.events[i]
    <2>1. ASSUME NEW i \in Keys(raw[w])
          PROVE  raw[w].events[i] \in Catalog /\ raw[w].events[i].id = i
      BY DEF Typed, TypeOK, Events, KeysMatchIds
    <2>2. QED
      BY <2>1, WorldIsCatalog
  <1>2. QED
    BY <1>1 DEF Part, Typed, TypeOK

\* Parents first: an insert keeps every history a part of the catalog.
LEMMA InsertKeepsParts ==
    ASSUME InOrder, Parts, NEW v \in Author, NEW e \in Catalog, InsertBy(v, e)
    PROVE  Parts'
  <1> DEFINE D == Insert(raw[v], e)
  <1>1. Typed'
    BY InsertKeepsTyped DEF Parts
  <1>2. /\ raw'[v] = D
        /\ \A w \in Author \ {v} : raw'[w] = raw[w]
    BY DEF Parts, Typed, TypeOK, InsertBy
  <1>3. Part(D, World)
    <2>1. CASE e.id \in Keys(raw[v])
      BY <2>1 DEF Insert, Parts
    <2>2. CASE e.id \notin Keys(raw[v])
      <3>1. Brings({e}, raw[v], World)
        BY WorldIsCatalog DEF Brings, InsertBy
      <3>2. QED
        BY <2>2, <3>1, InsertIsInsertAll, InsertAllKeepsPart, WorldIsCatalog DEF Parts
    <2>3. QED
      BY <2>1, <2>2
  <1>4. QED
    BY <1>1, <1>2, <1>3 DEF Parts

----------------------------------------------------------------------------
\* Histories hold catalog events under their own ids with an exact index, parents
\* first or not.
THEOREM RawTypes == Spec => []TypeOK
  <1>1. Init => Typed
    BY InitParts DEF Parts
  <1>2. Typed /\ [Next]_raw => Typed'
    <2> SUFFICES ASSUME Typed, [Next]_raw PROVE Typed'
      OBVIOUS
    <2>1. CASE UNCHANGED raw
      BY <2>1 DEF Typed, TypeOK
    <2>2. CASE Next
      BY <2>2, InsertKeepsTyped DEF Next
    <2>3. QED
      BY <2>1, <2>2
  <1>3. Typed => TypeOK
    BY DEF Typed
  <1>4. QED
    BY <1>1, <1>2, <1>3, PTL DEF Spec

\* Parents first, histories stay parts of the catalog.
LEMMA PartsIsInvariant ==
    ASSUME InOrder
    PROVE  Spec => []Parts
  <1>1. Parts /\ [Next]_raw => Parts'
    <2> SUFFICES ASSUME Parts, [Next]_raw PROVE Parts'
      OBVIOUS
    <2>1. CASE UNCHANGED raw
      BY <2>1 DEF Parts, Typed, TypeOK
    <2>2. CASE Next
      BY <2>2, InsertKeepsParts DEF Next
    <2>3. QED
      BY <2>1, <2>2
  <1>2. QED
    BY <1>1, InitParts, PTL DEF Spec

\* Merging whatever parents-first histories authors build commutes and is idempotent.
THEOREM RawMergeJoins ==
    ASSUME InOrder
    PROVE  Spec => []MergeJoins
  <1>1. Parts => MergeJoins
    BY WorldIsCatalog, MergeLaws DEF Parts, MergeJoins
  <1>2. QED
    BY <1>1, PartsIsInvariant, PTL

\* It associates.
THEOREM RawMergeAssociates ==
    ASSUME InOrder
    PROVE  Spec => []MergeAssociates
  <1>1. Parts => MergeAssociates
    BY WorldIsCatalog, MergeLaws DEF Parts, MergeAssociates
  <1>2. QED
    BY <1>1, PartsIsInvariant, PTL

\* And it does not matter who reduces when.
THEOREM RawReducesWhenever ==
    ASSUME InOrder
    PROVE  Spec => []ReduceEarlyOrLate
  <1>1. Parts => ReduceEarlyOrLate
    BY WorldIsCatalog, MergeLaws DEF Parts, ReduceEarlyOrLate
  <1>2. QED
    BY <1>1, PartsIsInvariant, PTL
=============================================================================
