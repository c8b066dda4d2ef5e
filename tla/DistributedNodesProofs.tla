----------------------- MODULE DistributedNodesProofs -----------------------
(***************************************************************************)
(* For every set of nodes and every catalog, when clients append an event  *)
(* only where its parents are or together with them: a node's history is   *)
(* determined by the events in it, stays closed, and the cluster is a set  *)
(* of growing, joining event sets; and nodes that have been given the same *)
(* events, noops included, have the same history.                          *)
(***************************************************************************)
EXTENDS ReceivedEvents, HistoryProofs

\* What each step leaves a node with.  The two halves need each other: a view of
\* events is a part of the catalog again only if it is closed, and it stays closed
\* only because what is left of an event's past is the same in every view.
Normal(d) ==
    /\ d = View(World, Keys(d))
    /\ Keys(d) \subseteq Real
    /\ IsCausallyClosed(d)

IInv ==
    /\ DOMAIN history = Node
    /\ \A n \in Node : Normal(history[n])

\* The catalog as one DAG is a content-addressed world of those events.
LEMMA WorldIsCatalog ==
    /\ IsWorld(World)
    /\ Keys(World) = {e.id : e \in Catalog}
    /\ \A e \in Catalog : World.events[e.id] = e
    /\ \A e, f \in Catalog : e.id = f.id => e = f
  <1>1. \A e \in Catalog : e = NewEvent(e.payload, e.parents)
    BY CatalogAssumption
  <1>2. QED
    BY <1>1, CatalogIsWorld DEF World

\* A history that is the view of its own events is a closed part of the world.
LEMMA NormalIsPart ==
    ASSUME NEW d, Normal(d)
    PROVE  /\ Part(d, World)
           /\ d.ancestry_cache = <<>>
           /\ KeysMatchIds(d)
           /\ \A i \in Keys(d) : Past[i] \subseteq Keys(d)
           /\ \A i \in Keys(d) : d.events[i] = Bare(World, i)
  <1> DEFINE K == Keys(d)
  <1>1. /\ d.ancestry_cache = <<>>
        /\ \A i \in K : d.events[i] = Bare(World, i)
    BY DEF Normal, View
  <1>2. \A i \in K : Bare(World, i).parents \subseteq K
    BY <1>1 DEF Normal, IsCausallyClosed, MissingAncestors, AllParents
  <1>3. Part(d, World)
    BY <1>2, ViewIsPart, WorldIsCatalog DEF Normal, Real
  <1>4. QED
    BY <1>1, <1>2, <1>3, PartFields, WorldIsCatalog DEF Normal, Past, KeysMatchIds

\* Whatever part of the catalog a handler has made, reducing it makes it normal.
LEMMA ReduceIsNormal ==
    ASSUME NEW d, Part(d, World), d.ancestry_cache = <<>>
    PROVE  Normal(Reduce(d)) /\ Keys(Reduce(d)) = Keys(d) \intersect Real
  <1>1. /\ Reduce(d) = View(World, Keys(Reduce(d)))
        /\ Keys(Reduce(d)) = Keys(d) \ Noops(World)
        /\ Part(Reduce(d), World)
    BY ReduceIsExactlyView, WorldIsCatalog
  <1>2. Keys(Reduce(d)) = Keys(d) \intersect Real
    BY <1>1 DEF Real, Part
  <1>3. QED
    BY <1>1, <1>2 DEF Normal, Part

\* A node that takes in events of the catalog with their causes.
LEMMA TakenBatchIsNormal ==
    ASSUME NEW d, Normal(d), NEW B, B \subseteq Catalog,
           \A e \in B : e.parents \subseteq Keys(d) \union {f.id : f \in B}
    PROVE  LET R == Reduce(InsertAll(d, B))
           IN  Normal(R) /\ Keys(R) = (Keys(d) \union {e.id : e \in B}) \intersect Real
  <1>1. Brings(B, d, World)
    BY WorldIsCatalog DEF Brings
  <1>2. /\ Part(InsertAll(d, B), World)
        /\ Keys(InsertAll(d, B)) = Keys(d) \union {e.id : e \in B}
        /\ InsertAll(d, B).ancestry_cache = <<>>
    BY <1>1, NormalIsPart, InsertAllKeepsPart, WorldIsCatalog
  <1>3. QED
    BY <1>2, ReduceIsNormal

\* The first event of a node.
LEMMA GenesisIsNormal ==
    LET d == Insert(EmptyDag, GenesisEvent)
    IN  Normal(d) /\ Keys(d) = {GenesisEvent.id}
  <1> DEFINE d == InsertAll(EmptyDag, {GenesisEvent})
  <1>1. GenesisEvent \in Catalog /\ GenesisEvent.parents = {} /\ ~IsNoop(GenesisEvent)
    BY CatalogAssumption, PayloadAssumption DEF GenesisEvent, NewEvent, IsNoop
  <1>2. Insert(EmptyDag, GenesisEvent) = d
    BY EmptyIsPart, InsertIsInsertAll
  <1>3. Brings({GenesisEvent}, EmptyDag, World)
    BY <1>1, WorldIsCatalog DEF Brings
  <1>4. /\ Part(d, World) /\ Keys(d) = {GenesisEvent.id}
        /\ d.ancestry_cache = <<>>
    <2>1. /\ Part(d, World)
          /\ Keys(d) = Keys(EmptyDag) \union {e.id : e \in {GenesisEvent}}
          /\ d.ancestry_cache = EmptyDag.ancestry_cache
      BY <1>3, EmptyIsPart, InsertAllKeepsPart, WorldIsCatalog
    <2> HIDE DEF d
    <2>2. QED
      BY <2>1, EmptyIsPart
  <1> HIDE DEF d
  <1>5. Noops(d) = {}
    <2>1. GenesisEvent.id \notin Noops(World)
      BY <1>1, WorldIsCatalog DEF Noops
    <2>2. Noops(d) = Noops(World) \intersect Keys(d)
      BY <1>4, PartFields, WorldIsCatalog
    <2>3. QED
      BY <1>4, <2>1, <2>2
  <1>6. Reduce(d) = d
    BY <1>5 DEF Reduce, PhaseC3, CompactTombstones
  <1>7. QED
    BY <1>2, <1>4, <1>6, ReduceIsNormal

----------------------------------------------------------------------------
\* Nodes that hold genesis alone satisfy the invariant and start the abstraction.
LEMMA InitIInv == Init => IInv /\ Abstract!Init
  <1> SUFFICES ASSUME Init PROVE IInv /\ Abstract!Init
    OBVIOUS
  <1>1. DOMAIN history = Node
    BY DEF Init
  <1>2. \A n \in Node : Normal(history[n]) /\ Keys(history[n]) = {GenesisEvent.id}
    BY GenesisIsNormal DEF Init
  <1>3. QED
    BY <1>1, <1>2 DEF IInv, Abstract!Init, Known

\* One node takes in events and the others stay as they are.
LEMMA TakeInKeepsIInv ==
    ASSUME IInv, NEW n \in Node, NEW B, B \subseteq Catalog,
           \A e \in B : e.parents \subseteq Keys(history[n]) \union {f.id : f \in B},
           history' = [history EXCEPT ![n] = Reduce(InsertAll(history[n], B))]
    PROVE  IInv' /\ Abstract!Next
  <1> DEFINE S == {e.id : e \in B} \intersect Real
  <1>1. /\ DOMAIN history' = Node
        /\ \A m \in Node \ {n} : history'[m] = history[m]
        /\ history'[n] = Reduce(InsertAll(history[n], B))
    BY DEF IInv
  <1>2. Normal(history'[n]) /\ Keys(history'[n]) = Keys(history[n]) \union S
    <2>1. /\ Normal(history'[n])
          /\ Keys(history'[n]) = (Keys(history[n]) \union {e.id : e \in B}) \intersect Real
      BY <1>1, TakenBatchIsNormal DEF IInv
    <2>2. Keys(history[n]) \subseteq Real
      BY DEF IInv, Normal
    <2>3. QED
      BY <2>1, <2>2
  <1>3. IInv'
    BY <1>1, <1>2 DEF IInv, Normal
  <1>4. Abstract!Learn(n, S)
    <2>1. \A x \in Keys(history'[n]) : Past[x] \subseteq Keys(history'[n])
      BY <1>2, NormalIsPart
    <2>2. Abstract!HoldsPast(Known[n] \union S)
      BY <1>2, <2>1 DEF Abstract!HoldsPast, Known
    <2>3. Known' = [Known EXCEPT ![n] = @ \union S]
      BY <1>1, <1>2 DEF Known
    <2>4. QED
      BY <2>2, <2>3 DEF Abstract!Learn
  <1>5. S \in SUBSET Real
    OBVIOUS
  <1>6. QED
    BY <1>3, <1>4, <1>5 DEF Abstract!Next

\* append: the guard makes the event one whose causes are there.
LEMMA AppendKeepsIInv ==
    ASSUME InOrder, IInv, NEW n \in Node, NEW e \in Catalog, AppendEvent(n, e)
    PROVE  IInv' /\ (Abstract!Next \/ UNCHANGED Known)
  <1>1. CASE e.id \notin Keys(history[n])
    <2> DEFINE B == {e}
    <2>1. Insert(history[n], e) = InsertAll(history[n], B)
      BY <1>1, InsertIsInsertAll
    <2>2. history' = [history EXCEPT ![n] = Reduce(InsertAll(history[n], B))]
      BY <2>1 DEF AppendEvent
    <2>3. \A f \in B : f.parents \subseteq Keys(history[n]) \union {g.id : g \in B}
      BY DEF AppendEvent
    <2>4. B \subseteq Catalog
      OBVIOUS
    <2> HIDE DEF B
    <2>5. QED
      BY <2>2, <2>3, <2>4, TakeInKeepsIInv
  <1>2. CASE e.id \in Keys(history[n])
    <2>1. Reduce(history[n]) = history[n]
      <3>1. Noops(history[n]) = {}
        BY NormalIsPart, PartFields, WorldIsCatalog DEF IInv, Normal, Real
      <3>2. QED
        BY <3>1 DEF Reduce, PhaseC3, CompactTombstones
    <2>2. history' = [history EXCEPT ![n] = history[n]]
      BY <1>2, <2>1 DEF AppendEvent, Insert
    <2>3. DOMAIN history' = Node /\ \A m \in Node : history'[m] = history[m]
      BY <2>2 DEF IInv
    <2>4. QED
      BY <2>3 DEF IInv, Normal, Known
  <1>3. QED
    BY <1>1, <1>2

\* batch_append: the same for a set of events that brings its own causes.
LEMMA BatchKeepsIInv ==
    ASSUME InOrder, IInv, NEW n \in Node, NEW B \in SUBSET Catalog, BatchAppend(n, B)
    PROVE  IInv' /\ Abstract!Next
  BY TakeInKeepsIInv DEF BatchAppend

\* sync_with: the union of two normal histories, reduced, and a join above.
LEMMA SyncKeepsIInv ==
    ASSUME IInv, NEW n \in Node, NEW m \in Node \ {n}, SyncWith(n, m)
    PROVE  IInv' /\ Abstract!Next
  <1> DEFINE U == UnionWith(history[n], history[m])
  <1>1. /\ DOMAIN history' = Node
        /\ \A k \in Node \ {n} : history'[k] = history[k]
        /\ history'[n] = Reduce(U)
    BY DEF IInv, SyncWith, MergeHistories
  <1>2. /\ Part(U, World)
        /\ Keys(U) = Keys(history[n]) \union Keys(history[m])
        /\ U.ancestry_cache = <<>>
    <2>1. /\ Part(history[n], World) /\ history[n].ancestry_cache = <<>>
          /\ Part(history[m], World)
      BY NormalIsPart DEF IInv
    <2>2. QED
      BY <2>1, UnionIsPart, WorldIsCatalog
  <1>3. Keys(history[n]) \subseteq Real /\ Keys(history[m]) \subseteq Real
    BY DEF IInv, Normal
  <1> HIDE DEF U
  <1>4. /\ Normal(history'[n])
        /\ Keys(history'[n]) = Keys(history[n]) \union Keys(history[m])
    BY <1>1, <1>2, <1>3, ReduceIsNormal
  <1>5. IInv'
    BY <1>1, <1>4 DEF IInv, Normal
  <1>6. Abstract!Join(n, m)
    <2>1. Known' = [Known EXCEPT ![n] = @ \union Known[m]]
      BY <1>1, <1>4 DEF Known
    <2>2. QED
      BY <2>1 DEF Abstract!Join
  <1>7. QED
    BY <1>5, <1>6 DEF Abstract!Next

\* Every step of a cluster keeps the invariant and is a step, or none, above.
LEMMA NextIInv ==
    ASSUME InOrder
    PROVE  IInv /\ [Next]_history => IInv' /\ [Abstract!Next]_Known
  <1> SUFFICES ASSUME IInv, [Next]_history
               PROVE  IInv' /\ [Abstract!Next]_Known
    OBVIOUS
  <1>1. CASE UNCHANGED history
    BY <1>1 DEF IInv, Normal, Known
  <1>2. ASSUME NEW n \in Node, NEW e \in Catalog, AppendEvent(n, e)
        PROVE  IInv' /\ [Abstract!Next]_Known
    BY <1>2, AppendKeepsIInv
  <1>3. ASSUME NEW n \in Node, NEW B \in SUBSET Catalog, BatchAppend(n, B)
        PROVE  IInv' /\ [Abstract!Next]_Known
    BY <1>3, BatchKeepsIInv
  <1>4. ASSUME NEW n \in Node, NEW m \in Node \ {n}, SyncWith(n, m)
        PROVE  IInv' /\ [Abstract!Next]_Known
    BY <1>4, SyncKeepsIInv
  <1>5. QED
    BY <1>1, <1>2, <1>3, <1>4 DEF Next

----------------------------------------------------------------------------
\* The inductive invariant gives every invariant that the runs check.
LEMMA IInvImplies ==
    IInv => TypeOK /\ HistoryIsView /\ SameEventsSameHistory /\ HistoriesClosed
  BY NormalIsPart
     DEF IInv, Normal, TypeOK, HistoryIsView, SameEventsSameHistory, HistoriesClosed, Same

\* Nodes hold catalog events under their own ids, none of them a noop.
THEOREM NodesTyped ==
    ASSUME InOrder
    PROVE  Spec => []TypeOK
  <1>1. Init => IInv
    BY InitIInv
  <1>2. IInv /\ [Next]_history => IInv'
    BY NextIInv
  <1>3. IInv => TypeOK
    BY IInvImplies
  <1>4. QED
    BY <1>1, <1>2, <1>3, PTL DEF Spec

\* Nodes with the same events have the same history, whatever order, batches and
\* syncs brought them and wherever noops were eliminated; and every cause of an
\* event that a node holds is there with it.
THEOREM NodesConverge ==
    ASSUME InOrder
    PROVE  Spec => [](HistoryIsView /\ SameEventsSameHistory /\ HistoriesClosed)
  <1>1. Init => IInv
    BY InitIInv
  <1>2. IInv /\ [Next]_history => IInv'
    BY NextIInv
  <1>3. IInv => HistoryIsView /\ SameEventsSameHistory /\ HistoriesClosed
    BY IInvImplies
  <1>4. QED
    BY <1>1, <1>2, <1>3, PTL DEF Spec

\* A cluster of nodes implements growing, joining event sets.
THEOREM NodesRefine ==
    ASSUME InOrder
    PROVE  Spec => RefinesGrowOnly
  <1>1. Init => IInv /\ Abstract!Init
    BY InitIInv
  <1>2. IInv /\ [Next]_history => IInv' /\ [Abstract!Next]_Known
    BY NextIInv
  <1>3. QED
    BY <1>1, <1>2, PTL DEF Spec, RefinesGrowOnly, Abstract!Spec

\* A step adds events to a history and leaves the parents of the others alone.
LEMMA StepGrows ==
    ASSUME IInv, IInv', [Abstract!Next]_Known, NEW n \in Node
    PROVE  /\ Keys(history[n]) \subseteq Keys(history'[n])
           /\ \A i \in Keys(history[n]) :
                 history[n].events[i].parents = history'[n].events[i].parents
  <1>1. Known[n] \subseteq Known'[n]
    <2>1. DOMAIN Known = Node
      BY DEF Known
    <2>2. QED
      BY <2>1 DEF Abstract!Next, Abstract!Learn, Abstract!Join
  <1>2. Keys(history[n]) \subseteq Keys(history'[n])
    BY <1>1 DEF Known
  <1>3. /\ \A i \in Keys(history[n]) : history[n].events[i] = Bare(World, i)
        /\ \A i \in Keys(history'[n]) : history'[n].events[i] = Bare(World, i)
    BY NormalIsPart DEF IInv
  <1>4. QED
    BY <1>2, <1>3

\* The causal order that a node has shown between two events stays as it is.
THEOREM NodesKeepOrder ==
    ASSUME InOrder
    PROVE  Spec => OrderIsStable
  <1> DEFINE Stable == \A n \in Node : \A i, j \in Keys(history[n]) :
                          Precedes(history[n], i, j) <=> Precedes(history'[n], i, j)
  <1>1. Init => IInv
    BY InitIInv
  <1>2. IInv /\ [Next]_history => IInv' /\ [Abstract!Next]_Known
    BY NextIInv
  <1>3. IInv /\ IInv' /\ [Abstract!Next]_Known => Stable
    <2> SUFFICES ASSUME IInv, IInv', [Abstract!Next]_Known,
                        NEW n \in Node,
                        NEW i \in Keys(history[n]), NEW j \in Keys(history[n])
                 PROVE  Precedes(history[n], i, j) <=> Precedes(history'[n], i, j)
      OBVIOUS
    <2>1. Ancestors(history[n], j) = Ancestors(history'[n], j)
      BY StepGrows, GrowthKeepsAncestors DEF IInv, Normal
    <2>2. QED
      BY <2>1 DEF Precedes
  <1>4. QED
    BY <1>1, <1>2, <1>3, PTL DEF Spec, OrderIsStable

----------------------------------------------------------------------------
\* A history has what its node has been given, but for the noops.
ReceivedInv ==
    /\ IInv
    /\ DOMAIN received = Node
    /\ \A n \in Node : Keys(history[n]) = received[n] \intersect Real

\* Genesis is there and given.
LEMMA InitReceivedInv == InitReceived => ReceivedInv
  <1> SUFFICES ASSUME InitReceived PROVE ReceivedInv
    OBVIOUS
  <1>1. IInv
    BY InitIInv DEF InitReceived
  <1>2. \A n \in Node : Keys(history[n]) = {GenesisEvent.id}
    BY GenesisIsNormal DEF InitReceived, Init
  <1>3. \A n \in Node : Keys(history[n]) \subseteq Real
    BY <1>1 DEF IInv, Normal
  <1>4. QED
    BY <1>1, <1>2, <1>3 DEF ReceivedInv, InitReceived

\* A node is given ids, its history has the real ones among them, and the others stay as
\* they are.
LEMMA GivenKeepsReceivedInv ==
    ASSUME ReceivedInv, IInv', NEW n \in Node, NEW ids, Receive(n, ids),
           DOMAIN history' = Node,
           \A m \in Node \ {n} : history'[m] = history[m],
           Keys(history'[n]) = Keys(history[n]) \union (ids \intersect Real)
    PROVE  ReceivedInv'
  <1>1. /\ DOMAIN received' = Node
        /\ received'[n] = received[n] \union ids
        /\ \A m \in Node \ {n} : received'[m] = received[m]
    BY DEF ReceivedInv, Receive
  <1>2. \A m \in Node : Keys(history'[m]) = received'[m] \intersect Real
    BY <1>1 DEF ReceivedInv
  <1>3. QED
    BY <1>1, <1>2 DEF ReceivedInv

\* A batch that comes with its causes adds its real events.
LEMMA BatchAdds ==
    ASSUME IInv, NEW n \in Node, NEW B, B \subseteq Catalog,
           \A e \in B : e.parents \subseteq Keys(history[n]) \union {f.id : f \in B}
    PROVE  Keys(Reduce(InsertAll(history[n], B))) =
              Keys(history[n]) \union ({e.id : e \in B} \intersect Real)
  <1>1. Normal(history[n])
    BY DEF IInv
  <1>2. Keys(Reduce(InsertAll(history[n], B))) =
           (Keys(history[n]) \union {e.id : e \in B}) \intersect Real
    BY <1>1, TakenBatchIsNormal
  <1>3. Keys(history[n]) \subseteq Real
    BY <1>1 DEF Normal
  <1>4. QED
    BY <1>2, <1>3

\* append
LEMMA AppendKeepsReceivedInv ==
    ASSUME InOrder, ReceivedInv, NEW n \in Node, NEW e \in Catalog, AppendReceived(n, e)
    PROVE  ReceivedInv'
  <1>1. IInv /\ IInv' /\ AppendEvent(n, e) /\ Receive(n, {e.id})
    BY AppendKeepsIInv DEF ReceivedInv, AppendReceived
  <1>2. /\ DOMAIN history' = Node
        /\ \A m \in Node \ {n} : history'[m] = history[m]
        /\ history'[n] = Reduce(Insert(history[n], e))
    BY <1>1 DEF IInv, AppendEvent
  <1>3. Keys(history'[n]) = Keys(history[n]) \union ({e.id} \intersect Real)
    <2>1. CASE e.id \notin Keys(history[n])
      <3> DEFINE B == {e}
      <3>1. Insert(history[n], e) = InsertAll(history[n], B)
        BY <2>1, InsertIsInsertAll
      <3>2. /\ \A f \in B : f.parents \subseteq Keys(history[n]) \union {g.id : g \in B}
            /\ B \subseteq Catalog /\ {f.id : f \in B} = {e.id}
        BY <1>1 DEF AppendEvent
      <3> HIDE DEF B
      <3>3. Keys(Reduce(InsertAll(history[n], B))) =
               Keys(history[n]) \union ({f.id : f \in B} \intersect Real)
        BY <1>1, <3>2, BatchAdds
      <3>4. history'[n] = Reduce(InsertAll(history[n], B))
        BY <1>2, <3>1
      <3>5. QED
        BY <3>2, <3>3, <3>4
    <2>2. CASE e.id \in Keys(history[n])
      <3>1. Noops(history[n]) = {}
        BY <1>1, NormalIsPart, PartFields, WorldIsCatalog DEF IInv, Normal, Real
      <3>2. Reduce(history[n]) = history[n]
        BY <3>1 DEF Reduce, PhaseC3, CompactTombstones
      <3>3. history'[n] = history[n]
        BY <1>2, <2>2, <3>2 DEF Insert
      <3>4. QED
        BY <2>2, <3>3
    <2>3. QED
      BY <2>1, <2>2
  <1>4. QED
    BY <1>1, <1>2, <1>3, GivenKeepsReceivedInv

\* batch_append
LEMMA BatchKeepsReceivedInv ==
    ASSUME InOrder, ReceivedInv, NEW n \in Node, NEW B \in SUBSET Catalog, BatchReceived(n, B)
    PROVE  ReceivedInv'
  <1>1. IInv /\ IInv' /\ BatchAppend(n, B) /\ Receive(n, {e.id : e \in B})
    BY BatchKeepsIInv DEF ReceivedInv, BatchReceived
  <1>2. /\ DOMAIN history' = Node
        /\ \A m \in Node \ {n} : history'[m] = history[m]
        /\ history'[n] = Reduce(InsertAll(history[n], B))
        /\ \A e \in B : e.parents \subseteq Keys(history[n]) \union {f.id : f \in B}
    BY <1>1 DEF IInv, BatchAppend
  <1>3. Keys(history'[n]) = Keys(history[n]) \union ({e.id : e \in B} \intersect Real)
    BY <1>1, <1>2, BatchAdds
  <1>4. QED
    BY <1>1, <1>2, <1>3, GivenKeepsReceivedInv

\* sync_with: only what the other end has is given, none of it a noop.
LEMMA SyncKeepsReceivedInv ==
    ASSUME ReceivedInv, NEW n \in Node, NEW m \in Node \ {n}, SyncReceived(n, m)
    PROVE  ReceivedInv'
  <1>1. IInv /\ IInv' /\ SyncWith(n, m) /\ Receive(n, Keys(history[m]))
    BY SyncKeepsIInv DEF ReceivedInv, SyncReceived
  <1>2. /\ DOMAIN history' = Node
        /\ \A k \in Node \ {n} : history'[k] = history[k]
        /\ history'[n] = Reduce(UnionWith(history[n], history[m]))
    BY <1>1 DEF IInv, SyncWith, MergeHistories
  <1>3. Keys(history'[n]) = Keys(history[n]) \union (Keys(history[m]) \intersect Real)
    <2>1. /\ Part(history[n], World) /\ history[n].ancestry_cache = <<>>
          /\ Part(history[m], World)
      BY <1>1, NormalIsPart DEF IInv
    <2>2. /\ Part(UnionWith(history[n], history[m]), World)
          /\ Keys(UnionWith(history[n], history[m])) = Keys(history[n]) \union Keys(history[m])
          /\ UnionWith(history[n], history[m]).ancestry_cache = <<>>
      BY <2>1, UnionIsPart, WorldIsCatalog
    <2>3. Keys(history'[n]) = (Keys(history[n]) \union Keys(history[m])) \intersect Real
      BY <1>2, <2>2, ReduceIsNormal
    <2>4. Keys(history[n]) \subseteq Real
      BY <1>1 DEF IInv, Normal
    <2>5. QED
      BY <2>3, <2>4
  <1>4. QED
    BY <1>1, <1>2, <1>3, GivenKeepsReceivedInv

\* Every step keeps the invariant.
LEMMA NextReceivedInv ==
    ASSUME InOrder
    PROVE  ReceivedInv /\ [NextReceived]_<<history, received>> => ReceivedInv'
  <1> SUFFICES ASSUME ReceivedInv, [NextReceived]_<<history, received>>
               PROVE  ReceivedInv'
    OBVIOUS
  <1>1. CASE UNCHANGED <<history, received>>
    BY <1>1 DEF ReceivedInv, IInv, Normal
  <1>2. ASSUME NEW n \in Node, NEW e \in Catalog, AppendReceived(n, e)
        PROVE  ReceivedInv'
    BY <1>2, AppendKeepsReceivedInv
  <1>3. ASSUME NEW n \in Node, NEW B \in SUBSET Catalog, BatchReceived(n, B)
        PROVE  ReceivedInv'
    BY <1>3, BatchKeepsReceivedInv
  <1>4. ASSUME NEW n \in Node, NEW m \in Node \ {n}, SyncReceived(n, m)
        PROVE  ReceivedInv'
    BY <1>4, SyncKeepsReceivedInv
  <1>5. QED
    BY <1>1, <1>2, <1>3, <1>4 DEF NextReceived

\* Nodes that have been given the same events, by clients or by other nodes and in any
\* order that brings an event where its parents are or together with them, have the same
\* history and show functors the same events.
THEOREM SameReceivedConverges ==
    ASSUME InOrder
    PROVE  SpecReceived => [](SameReceivedSameHistory /\ SameReceivedSameState)
  <1>1. InitReceived => ReceivedInv
    BY InitReceivedInv
  <1>2. ReceivedInv /\ [NextReceived]_<<history, received>> => ReceivedInv'
    BY NextReceivedInv
  <1>3. ReceivedInv => SameReceivedSameHistory /\ SameReceivedSameState
    <2> SUFFICES ASSUME ReceivedInv, NEW m \in Node, NEW n \in Node, received[m] = received[n]
                 PROVE  Same(history[m], history[n]) /\ Listed(history[m]) = Listed(history[n])
      BY DEF SameReceivedSameHistory, SameReceivedSameState
    <2>1. Keys(history[m]) = Keys(history[n])
      BY DEF ReceivedInv
    <2>2. history[m] = history[n]
      BY <2>1 DEF ReceivedInv, IInv, Normal
    <2>3. QED
      BY <2>2 DEF Same
  <1>4. QED
    BY <1>1, <1>2, <1>3, PTL DEF SpecReceived
=============================================================================
