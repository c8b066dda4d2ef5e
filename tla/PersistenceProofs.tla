------------------------- MODULE PersistenceProofs -------------------------
(***************************************************************************)
(* The log, the snapshots and the kernel of Persistence.tla, for every     *)
(* catalog in which nothing depends on a noop, whatever is appended,       *)
(* restored and cut off in whatever order.  A kernel then is determined by *)
(* the ids it holds, so the argument is about sets of ids: those of the    *)
(* kernel, of the log, of the snapshot and of the cached answer.           *)
(***************************************************************************)
EXTENDS Persistence, HistoryProofs, SequenceTheorems

\* The events there are.
All == Catalog \union {GenesisEvent}

\* The catalog and genesis as one DAG.
World == InsertAll(EmptyDag, All)

\* No event of the catalog has a noop among its parents.
NoopsAtTip == \A e \in Catalog : e.parents \intersect Noops(World) = {}

\* A closed set of ids with genesis.
History(K) ==
    /\ GenesisEvent.id \in K
    /\ K \subseteq Keys(World)
    /\ IsFiniteSet(K)
    /\ \A i \in K : World.events[i].parents \subseteq K

\* The DAG that holds the events of K as they were made.
Held(K) == View(World, K)

----------------------------------------------------------------------------
\* The catalog and genesis are a content-addressed world; genesis is not in the catalog.
LEMMA WorldIsCatalog ==
    /\ IsWorld(World)
    /\ Keys(World) = {e.id : e \in All}
    /\ \A e \in All : World.events[e.id] = e /\ e = NewEvent(e.payload, e.parents)
    /\ \A i \in Keys(World) : World.events[i] \in All /\ World.events[i].id = i
    /\ GenesisEvent.parents = {}
    /\ GenesisEvent.id \notin Noops(World)
    /\ \A e \in Catalog : e.id # GenesisEvent.id
  <1>1. GenesisEvent.payload = Genesis /\ GenesisEvent.parents = {}
    BY DEF GenesisEvent, NewEvent
  <1>2. \A e \in All : e = NewEvent(e.payload, e.parents)
    BY <1>1, CatalogAssumption DEF All, GenesisEvent
  <1>3. /\ IsWorld(World) /\ Keys(World) = {e.id : e \in All}
        /\ \A e \in All : World.events[e.id] = e
    BY <1>2, CatalogIsWorld DEF World
  <1>4. \A i \in Keys(World) : World.events[i] \in All /\ World.events[i].id = i
    BY <1>3
  <1>5. GenesisEvent.id \notin Noops(World)
    BY <1>1, <1>3, PayloadAssumption DEF Noops, IsNoop, All
  <1>6. ASSUME NEW e \in Catalog PROVE e.id # GenesisEvent.id
    <2>1. e.payload # Genesis
      BY CatalogAssumption, PayloadAssumption
    <2>2. QED
      BY <1>1, <1>3, <2>1 DEF All
  <1>7. QED
    BY <1>1, <1>2, <1>3, <1>4, <1>5, <1>6

\* Taking the noops out changes no event that stays.
LEMMA BareIsWhole ==
    ASSUME NoopsAtTip, NEW i \in Keys(World)
    PROVE  Bare(World, i) = World.events[i]
  <1> DEFINE e == World.events[i]
             T == Noops(World)
  <1>1. e \in All
    BY WorldIsCatalog
  <1>2. e.parents \intersect T = {}
    BY <1>1, WorldIsCatalog DEF NoopsAtTip, All
  <1>3. Resolve(World, T, e.parents) = e.parents
    BY <1>2, ThroughOutside DEF Resolve
  <1>4. e = WithParents(e, e.parents)
    BY WorldIsCatalog DEF IsWorld
  <1>5. QED
    BY <1>3, <1>4 DEF Bare

\* What a DAG made of a history shows.
LEMMA HeldIsPart ==
    ASSUME NoopsAtTip, NEW K, History(K)
    PROVE  /\ Keys(Held(K)) = K
           /\ \A i \in K : Held(K).events[i] = World.events[i]
           /\ Held(K).ancestry_cache = <<>>
           /\ Part(Held(K), World)
           /\ Noops(Held(K)) = K \intersect Noops(World)
           /\ Events(Held(K)) = {World.events[i] : i \in K}
  <1> DEFINE d == Held(K)
  <1>1. /\ d.events = [i \in K |-> Bare(World, i)]
        /\ d.children = EdgesOf(d.events)
        /\ d.ancestry_cache = <<>>
        /\ \E events, children, memo :
              d = [events |-> events, children |-> children, ancestry_cache |-> memo]
    BY DEF Held, View
  <1> HIDE DEF d
  <1>2. Keys(d) = K /\ \A i \in K : d.events[i] = World.events[i]
    BY <1>1, BareIsWhole DEF Keys, History
  <1>3. d.events = [i \in Keys(d) |-> d.events[i]]
    BY <1>1, <1>2
  <1>4. IsCausallyClosed(d)
    BY <1>2 DEF IsCausallyClosed, MissingAncestors, AllParents, History
  <1>5. Part(d, World)
    BY <1>1, <1>2, <1>3, <1>4 DEF Part, Shaped, ChildrenExact, History
  <1>6. Noops(d) = K \intersect Noops(World)
    BY <1>2, <1>5, PartFields, WorldIsCatalog
  <1>7. Events(d) = {World.events[i] : i \in K}
    BY <1>2 DEF Events
  <1>8. QED
    BY <1>1, <1>2, <1>5, <1>6, <1>7 DEF d

\* A closed part of the world without a memo is the DAG of its ids.
LEMMA PartIsHeld ==
    ASSUME NoopsAtTip, NEW d, Part(d, World), d.ancestry_cache = <<>>
    PROVE  /\ d = Held(Keys(d))
           /\ Keys(d) \subseteq Keys(World)
           /\ \A i \in Keys(d) : World.events[i].parents \subseteq Keys(d)
  <1> DEFINE K == Keys(d)
  <1>1. K \subseteq Keys(World) /\ \A i \in K : d.events[i] = Bare(World, i) /\ d.events[i] = World.events[i]
    BY BareIsWhole DEF Part
  <1>2. \A i \in K : World.events[i].parents \subseteq K
    BY <1>1 DEF Part, IsCausallyClosed, MissingAncestors, AllParents
  <1>3. d.events = [i \in K |-> Bare(World, i)]
    <2>1. d.events = [i \in K |-> d.events[i]]
      BY DEF Part, Shaped
    <2>2. QED
      BY <1>1, <2>1
  <1>4. d.children = EdgesOf(d.events)
    BY DEF Part, ChildrenExact
  <1>5. PICK events, children, memo :
            d = [events |-> events, children |-> children, ancestry_cache |-> memo]
    BY DEF Part, Shaped
  <1>6. d = [events |-> d.events, children |-> d.children, ancestry_cache |-> d.ancestry_cache]
    BY <1>5
  <1>7. d = Held(K)
    BY <1>3, <1>4, <1>6 DEF Held, View
  <1>8. QED
    BY <1>1, <1>2, <1>7

\* Inserting an event of the catalog with its parents there.
LEMMA HeldInsert ==
    ASSUME NoopsAtTip, NEW K, History(K), NEW e \in All, e.parents \subseteq K
    PROVE  Insert(Held(K), e) = Held(K \union {e.id}) /\ History(K \union {e.id})
  <1> DEFINE d == Held(K)
             D == Insert(d, e)
  <1>1. History(K \union {e.id})
    BY WorldIsCatalog, FS_AddElement DEF History
  <1>2. Part(d, World) /\ Keys(d) = K /\ d.ancestry_cache = <<>>
    BY HeldIsPart
  <1>3. CASE e.id \in K
    <2>1. K \union {e.id} = K
      BY <1>3
    <2> HIDE DEF d
    <2>2. D = d
      BY <1>2, <1>3 DEF Insert
    <2>3. QED
      BY <1>1, <2>1, <2>2 DEF d
  <1>4. CASE e.id \notin K
    <2>1. D = InsertAll(d, {e})
      BY <1>2, <1>4, InsertIsInsertAll
    <2>2. Brings({e}, d, World)
      BY <1>2, WorldIsCatalog DEF Brings
    <2> HIDE DEF d, D
    <2>3. Part(D, World) /\ Keys(D) = K \union {e.id} /\ D.ancestry_cache = <<>>
      <3>1. /\ Part(InsertAll(d, {e}), World)
            /\ Keys(InsertAll(d, {e})) = Keys(d) \union {f.id : f \in {e}}
            /\ InsertAll(d, {e}).ancestry_cache = d.ancestry_cache
        BY <1>2, <2>2, InsertAllKeepsPart, WorldIsCatalog
      <3>2. QED
        BY <1>2, <2>1, <3>1
    <2>4. D = Held(K \union {e.id})
      BY <2>3, PartIsHeld
    <2>5. QED
      BY <1>1, <2>4 DEF D, d
  <1>5. QED
    BY <1>3, <1>4

\* Reducing takes the noops out.
LEMMA HeldReduce ==
    ASSUME NoopsAtTip, NEW K, History(K)
    PROVE  Reduce(Held(K)) = Held(K \ Noops(World)) /\ History(K \ Noops(World))
  <1> DEFINE d == Held(K)
             R == Reduce(d)
  <1>1. Part(d, World) /\ Keys(d) = K /\ d.ancestry_cache = <<>>
    BY HeldIsPart
  <1> HIDE DEF d
  <1>2. R = Held(Keys(R)) /\ Keys(R) = K \ Noops(World) /\ Part(R, World)
    BY <1>1, ReduceIsExactlyView, WorldIsCatalog DEF Held
  <1>3. History(K \ Noops(World))
    <2>1. \A i \in K \ Noops(World) : World.events[i].parents \subseteq K \ Noops(World)
      BY WorldIsCatalog DEF History, NoopsAtTip, All
    <2>2. QED
      BY <2>1, WorldIsCatalog, FS_Subset DEF History
  <1>4. QED
    BY <1>2, <1>3 DEF d

\* The ids that a kernel with K has after an append.
Grown(config, K, e) ==
    IF config = "default" THEN (K \union {e.id}) \ Noops(World) ELSE K \union {e.id}

\* Appending an event of the catalog with its parents there.
LEMMA HeldAppend ==
    ASSUME NoopsAtTip, NEW K, History(K), NEW e \in All, e.parents \subseteq K, NEW config
    PROVE  /\ KernelAppend([dag |-> Held(K), config |-> config], e)
                = [dag |-> Held(Grown(config, K, e)), config |-> config]
           /\ History(Grown(config, K, e))
  <1>1. Insert(Held(K), e) = Held(K \union {e.id}) /\ History(K \union {e.id})
    BY HeldInsert
  <1>2. /\ Reduce(Held(K \union {e.id})) = Held((K \union {e.id}) \ Noops(World))
        /\ History((K \union {e.id}) \ Noops(World))
    BY <1>1, HeldReduce
  <1>3. QED
    BY <1>1, <1>2 DEF KernelAppend, Normalised, Grown

\* Inserting all events of a history into an empty DAG.
LEMMA HeldAll ==
    ASSUME NoopsAtTip, NEW K, History(K)
    PROVE  InsertAll(EmptyDag, {World.events[i] : i \in K}) = Held(K)
  <1> DEFINE S == {World.events[i] : i \in K}
             D == InsertAll(EmptyDag, S)
  <1>1. {e.id : e \in S} = K
    BY WorldIsCatalog DEF History
  <1>2. Brings(S, EmptyDag, World)
    <2>1. \A e \in S : e.id \in Keys(World) /\ e = World.events[e.id]
      BY WorldIsCatalog DEF History
    <2>2. \A e \in S : e.parents \subseteq K
      BY DEF History
    <2>3. \A e, f \in S : e.id = f.id => e = f
      BY <2>1
    <2> HIDE DEF S
    <2>4. QED
      BY <1>1, <2>1, <2>2, <2>3 DEF Brings
  <1> HIDE DEF S
  <1>3. Part(D, World) /\ Keys(D) = K /\ D.ancestry_cache = <<>>
    <2>1. /\ Part(D, World)
          /\ Keys(D) = Keys(EmptyDag) \union {e.id : e \in S}
          /\ D.ancestry_cache = EmptyDag.ancestry_cache
      BY <1>2, EmptyIsPart, InsertAllKeepsPart, WorldIsCatalog
    <2> HIDE DEF D
    <2>2. QED
      BY <1>1, <2>1, EmptyIsPart
  <1> HIDE DEF D
  <1>4. D = Held(K)
    BY <1>3, PartIsHeld
  <1>5. QED
    BY <1>4 DEF D, S

\* Genesis alone is a history, and what a new kernel has.
LEMMA HeldNew ==
    ASSUME NoopsAtTip, NEW config
    PROVE  /\ History({GenesisEvent.id})
           /\ NewKernel(config) = [dag |-> Held({GenesisEvent.id}), config |-> config]
  <1> DEFINE g == GenesisEvent.id
             S == {World.events[i] : i \in {g}}
  <1>1. World.events[g] = GenesisEvent /\ g \in Keys(World) /\ GenesisEvent.parents = {}
    BY WorldIsCatalog DEF All
  <1>2. History({g})
    BY <1>1, FS_Singleton DEF History
  <1>3. S = {GenesisEvent}
    BY <1>1
  <1>4. InsertAll(EmptyDag, S) = Held({g})
    BY <1>2, HeldAll
  <1>5. Insert(EmptyDag, GenesisEvent) = InsertAll(EmptyDag, {GenesisEvent})
    BY EmptyIsPart, InsertIsInsertAll
  <1> HIDE DEF S
  <1>6. QED
    BY <1>2, <1>3, <1>4, <1>5 DEF NewKernel

----------------------------------------------------------------------------
\* The ids of genesis and of the first n of these lines.
IdsTo(lines, n) == {GenesisEvent.id} \union {lines[k].id : k \in 1 .. n}

\* The ids of genesis and of all lines.
LogIds(l) == IdsTo(l.lines, Len(l.lines))

\* Who reads these lines in their order has the parents of an event before the event.
ParentsFirst(lines) ==
    \A k \in 1 .. Len(lines) :
        lines[k] \in Catalog /\ lines[k].parents \subseteq IdsTo(lines, k - 1)

\* The first n lines are a history.
LEMMA LinesAreHistory ==
    ASSUME NEW lines \in Seq(Catalog \union {Garbage}), ParentsFirst(lines),
           NEW n \in 0 .. Len(lines)
    PROVE  History(IdsTo(lines, n))
  <1> DEFINE X == {lines[k].id : k \in 1 .. n}
  <1>1. \A k \in 1 .. n : /\ lines[k] \in Catalog
                          /\ lines[k].id \in Keys(World)
                          /\ World.events[lines[k].id] = lines[k]
                          /\ lines[k].parents \subseteq IdsTo(lines, n)
    <2>1. \A k \in 1 .. n : lines[k] \in Catalog /\ lines[k].parents \subseteq IdsTo(lines, k - 1)
      BY DEF ParentsFirst
    <2>2. \A k \in 1 .. n : IdsTo(lines, k - 1) \subseteq IdsTo(lines, n)
      BY DEF IdsTo
    <2>3. QED
      BY <2>1, <2>2, WorldIsCatalog DEF All
  <1>2. IsFiniteSet(X)
    <2>1. IsFiniteSet(1 .. n)
      BY FS_Interval
    <2> DEFINE f == [k \in 1 .. n |-> lines[k].id]
    <2>2. f \in Surjection(1 .. n, X)
      BY DEF Surjection
    <2> HIDE DEF f, X
    <2>3. QED
      BY <2>1, <2>2, FS_Surjection
  <1>3. IsFiniteSet({GenesisEvent.id} \union X)
    <2>1. IsFiniteSet(X \union {GenesisEvent.id})
      BY <1>2, FS_AddElement
    <2>2. X \union {GenesisEvent.id} = {GenesisEvent.id} \union X
      OBVIOUS
    <2>3. QED
      BY <2>1, <2>2
  <1>4. GenesisEvent.id \in Keys(World) /\ World.events[GenesisEvent.id].parents = {}
    BY WorldIsCatalog DEF All
  <1>5. \A i \in IdsTo(lines, n) : i \in Keys(World) /\ World.events[i].parents \subseteq IdsTo(lines, n)
    BY <1>1, <1>4 DEF IdsTo
  <1>6. QED
    BY <1>3, <1>5 DEF History, IdsTo

\* What is logged, with genesis, is the events of these ids.
LEMMA LoggedAreIds ==
    ASSUME NEW l, l.lines \in Seq(Catalog \union {Garbage}), Garbage \notin Logged(l)
    PROVE  /\ Logged(l) \subseteq Catalog
           /\ LogIds(l) = {e.id : e \in Logged(l) \union {GenesisEvent}}
           /\ Logged(l) \union {GenesisEvent} = {World.events[i] : i \in LogIds(l)}
  <1>1. DOMAIN l.lines = 1 .. Len(l.lines) /\ \A k \in 1 .. Len(l.lines) : l.lines[k] \in Catalog
    BY DEF Logged
  <1>2. Logged(l) \subseteq Catalog
    BY <1>1 DEF Logged
  <1>3. LogIds(l) = {e.id : e \in Logged(l) \union {GenesisEvent}}
    BY <1>1 DEF LogIds, IdsTo, Logged
  <1>4. \A e \in Logged(l) \union {GenesisEvent} : World.events[e.id] = e
    BY <1>2, WorldIsCatalog DEF All
  <1>5. Logged(l) \union {GenesisEvent} = {World.events[i] : i \in LogIds(l)}
    BY <1>3, <1>4
  <1>6. QED
    BY <1>2, <1>3, <1>5

\* One more line.
LEMMA OneMoreLine ==
    ASSUME NEW lines \in Seq(Catalog \union {Garbage}), NEW e \in Catalog
    PROVE  /\ IdsTo(Append(lines, e), Len(Append(lines, e))) = IdsTo(lines, Len(lines)) \union {e.id}
           /\ ParentsFirst(lines) /\ e.parents \subseteq IdsTo(lines, Len(lines))
                => ParentsFirst(Append(lines, e))
  <1> DEFINE more == Append(lines, e)
             N    == Len(lines)
  <1>1. /\ N \in Nat /\ Len(more) = N + 1 /\ more[N + 1] = e
        /\ \A k \in 1 .. N : more[k] = lines[k]
    OBVIOUS
  <1> HIDE DEF more
  <1>2. \A n \in 0 .. N : IdsTo(more, n) = IdsTo(lines, n)
    BY <1>1 DEF IdsTo
  <1>3. IdsTo(more, N + 1) = IdsTo(lines, N) \union {e.id}
    BY <1>1 DEF IdsTo
  <1>4. ASSUME ParentsFirst(lines), e.parents \subseteq IdsTo(lines, N)
        PROVE  ParentsFirst(more)
    <2>1. SUFFICES ASSUME NEW k \in 1 .. N + 1
                   PROVE  more[k] \in Catalog /\ more[k].parents \subseteq IdsTo(more, k - 1)
      BY <1>1 DEF ParentsFirst
    <2>2. CASE k = N + 1
      <3>1. k - 1 = N /\ IdsTo(more, N) = IdsTo(lines, N)
        BY <1>1, <1>2, <2>2
      <3>2. QED
        BY <1>1, <1>4, <2>2, <3>1
    <2>3. CASE k # N + 1
      <3>1. k \in 1 .. N /\ k - 1 \in 0 .. N
        BY <1>1, <2>3
      <3>2. QED
        BY <1>1, <1>2, <1>4, <3>1 DEF ParentsFirst
    <2>4. QED
      BY <2>2, <2>3
  <1>5. QED
    BY <1>1, <1>3, <1>4 DEF more

\* A log of lines.
LogOK(l) ==
    /\ l = [lines |-> l.lines, open |-> l.open]
    /\ l.lines \in Seq(Catalog \union {Garbage})
    /\ l.open \in BOOLEAN
    /\ l.open => l.lines # <<>>

\* What a write of e, whole or cut off, can have made of the log l.
WroteTo(l, e, m) ==
    /\ LogOK(m)
    /\ Len(m.lines) <= Len(l.lines) + 1
    /\ Garbage \notin Logged(m) =>
          /\ Garbage \notin Logged(l)
          /\ m.lines = l.lines \/ m.lines = Append(l.lines, e)

\* A line is added at the end, or spoils the one that is open.
LEMMA AddedLine ==
    ASSUME NEW l, LogOK(l), NEW text \in Catalog \union {Garbage}, NEW open \in BOOLEAN
    PROVE  LET m == [lines |-> Added(l, text), open |-> open]
           IN  /\ LogOK(m)
               /\ Len(m.lines) <= Len(l.lines) + 1
               /\ Garbage \notin Logged(m) =>
                     Garbage \notin Logged(l) /\ text # Garbage /\ m.lines = Append(l.lines, text)
  <1> DEFINE m == [lines |-> Added(l, text), open |-> open]
             N == Len(l.lines)
  <1>1. l.lines \in Seq(Catalog \union {Garbage}) /\ N \in Nat
    BY DEF LogOK
  <1>2. CASE l.open
    <2>1. N > 0
      BY <1>1, <1>2 DEF LogOK
    <2>2. m.lines = [l.lines EXCEPT ![N] = Garbage]
      BY <1>2 DEF Added
    <2>3. /\ m.lines \in Seq(Catalog \union {Garbage}) /\ Len(m.lines) = N
          /\ N \in DOMAIN m.lines /\ m.lines[N] = Garbage
      BY <1>1, <2>1, <2>2
    <2>4. Garbage \in Logged(m)
      BY <2>3 DEF Logged
    <2>5. LogOK(m)
      BY <2>1, <2>3 DEF LogOK
    <2>6. QED
      BY <1>1, <2>3, <2>4, <2>5
  <1>3. CASE ~l.open
    <2>1. m.lines = Append(l.lines, text)
      BY <1>3 DEF Added
    <2>2. /\ m.lines \in Seq(Catalog \union {Garbage}) /\ Len(m.lines) = N + 1
          /\ DOMAIN m.lines = 1 .. N + 1 /\ DOMAIN l.lines = 1 .. N
          /\ m.lines[N + 1] = text /\ \A k \in 1 .. N : m.lines[k] = l.lines[k]
      BY <1>1, <2>1
    <2>3. LogOK(m)
      BY <1>1, <2>2 DEF LogOK
    <2>4. Garbage \notin Logged(m) => Garbage \notin Logged(l) /\ text # Garbage
      BY <1>1, <2>2 DEF Logged
    <2>5. QED
      BY <1>1, <2>1, <2>2, <2>3, <2>4
  <1>4. QED
    BY <1>2, <1>3 DEF LogOK

\* A whole write leaves the event in the log, or a log that cannot be read.
LEMMA WrittenLog ==
    ASSUME NEW l, LogOK(l), NEW e \in Catalog
    PROVE  /\ WroteTo(l, e, Written(l, e))
           /\ Garbage \notin Logged(Written(l, e)) => LogIds(Written(l, e)) = LogIds(l) \union {e.id}
  <1> DEFINE m == [lines |-> Added(l, e), open |-> FALSE]
  <1>1. CASE setup.store = "memory" /\ e \in Logged(l)
    <2>1. Written(l, e) = l
      BY <1>1 DEF Written
    <2>2. Len(l.lines) \in Nat /\ DOMAIN l.lines = 1 .. Len(l.lines)
      BY DEF LogOK
    <2>3. e.id \in LogIds(l)
      BY <1>1, <2>2 DEF Logged, LogIds, IdsTo
    <2>4. QED
      BY <2>1, <2>2, <2>3 DEF WroteTo
  <1>2. CASE ~(setup.store = "memory" /\ e \in Logged(l))
    <2>1. Written(l, e) = m
      BY <1>2 DEF Written
    <2>2. /\ LogOK(m)
          /\ Len(m.lines) <= Len(l.lines) + 1
          /\ Garbage \notin Logged(m) => Garbage \notin Logged(l) /\ m.lines = Append(l.lines, e)
      BY AddedLine
    <2> HIDE DEF m
    <2>3. WroteTo(l, e, m)
      BY <2>2 DEF WroteTo
    <2>4. Garbage \notin Logged(m) => LogIds(m) = LogIds(l) \union {e.id}
      BY <2>2, OneMoreLine DEF LogIds, LogOK
    <2>5. QED
      BY <2>1, <2>3, <2>4
  <1>3. QED
    BY <1>1, <1>2

\* A write that is cut off leaves less or the same.
LEMMA CutLog ==
    ASSUME NEW l, LogOK(l), NEW e \in Catalog, NEW m \in CutWrites(l, e)
    PROVE  WroteTo(l, e, m)
  <1>1. CASE m = l
    BY <1>1 DEF WroteTo, LogOK
  <1>2. ASSUME NEW text \in {e, Garbage}, m = [lines |-> Added(l, text), open |-> TRUE]
        PROVE  WroteTo(l, e, m)
    <2>0. text \in Catalog \union {Garbage} /\ TRUE \in BOOLEAN
      OBVIOUS
    <2> DEFINE w == [lines |-> Added(l, text), open |-> TRUE]
    <2>1. /\ LogOK(w)
          /\ Len(w.lines) <= Len(l.lines) + 1
          /\ Garbage \notin Logged(w) =>
                Garbage \notin Logged(l) /\ text # Garbage /\ w.lines = Append(l.lines, text)
      BY <2>0, AddedLine, Zenon
    <2> HIDE DEF w
    <2>2. WroteTo(l, e, w)
      BY <2>1 DEF WroteTo
    <2>3. QED
      BY <1>2, <2>2 DEF w
  <1>3. QED
    BY <1>1, <1>2 DEF CutWrites

\* What a write does to the ids in a log that can still be read.
LEMMA WroteIds ==
    ASSUME NEW l, LogOK(l), NEW e \in Catalog, NEW m, WroteTo(l, e, m), Garbage \notin Logged(m)
    PROVE  /\ Garbage \notin Logged(l)
           /\ LogIds(m) = LogIds(l) \/ LogIds(m) = LogIds(l) \union {e.id}
           /\ ParentsFirst(l.lines) /\ e.parents \subseteq LogIds(l) => ParentsFirst(m.lines)
  BY OneMoreLine DEF WroteTo, LogOK, LogIds

----------------------------------------------------------------------------
\* Reading an event of the catalog gives it back.
LEMMA ReadBack ==
    ASSUME NEW e \in Catalog
    PROVE  Reloaded(e) = e
  BY CatalogAssumption DEF Reloaded

\* The kernel that n of these lines make.
AfterLines(lines, n) ==
    [dag |-> Held(IdsTo(lines, n) \ Noops(World)), config |-> "default"]

\* The next line takes it on.
LEMMA NextLine ==
    ASSUME NoopsAtTip,
           NEW lines \in Seq(Catalog \union {Garbage}), ParentsFirst(lines),
           NEW n \in 1 .. Len(lines)
    PROVE  /\ IdsTo(lines, n) = IdsTo(lines, n - 1) \union {lines[n].id}
           /\ lines[n].parents \subseteq IdsTo(lines, n - 1) \ Noops(World)
           /\ KernelAppend(AfterLines(lines, n - 1), Reloaded(lines[n])) = AfterLines(lines, n)
  <1> DEFINE e == lines[n]
             T == Noops(World)
             K == IdsTo(lines, n - 1) \ T
  <1>1. e \in Catalog /\ e.parents \subseteq IdsTo(lines, n - 1)
    BY DEF ParentsFirst
  <1>2. IdsTo(lines, n) = IdsTo(lines, n - 1) \union {e.id}
    BY DEF IdsTo
  <1>3. e.parents \subseteq K
    BY <1>1 DEF NoopsAtTip
  <1>4. History(K)
    <2>1. History(IdsTo(lines, n - 1))
      BY LinesAreHistory
    <2>2. QED
      BY <2>1, HeldReduce
  <1> HIDE DEF K
  <1>5. KernelAppend([dag |-> Held(K), config |-> "default"], e)
            = [dag |-> Held(Grown("default", K, e)), config |-> "default"]
    <2>1. e \in All
      BY <1>1 DEF All
    <2>2. QED
      BY <1>3, <1>4, <2>1, HeldAppend
  <1>6. Grown("default", K, e) = IdsTo(lines, n) \ T
    BY <1>2 DEF Grown, K
  <1>7. Reloaded(e) = e
    BY <1>1, ReadBack
  <1>8. KernelAppend(AfterLines(lines, n - 1), Reloaded(e)) = AfterLines(lines, n)
    BY <1>5, <1>6, <1>7 DEF AfterLines, K
  <1>9. QED
    BY <1>2, <1>3, <1>8 DEF K

\* What the kernels of a replay are asked to be.
IsReplay(lines, f) ==
    f = [n \in 0 .. Len(lines) |->
            IF n = 0 THEN NewKernel("default") ELSE KernelAppend(f[n - 1], Reloaded(lines[n]))]

\* A replay makes the kernel of what is in the lines.
LEMMA ReplayIsLines ==
    ASSUME NoopsAtTip, NEW lines \in Seq(Catalog \union {Garbage}), ParentsFirst(lines)
    PROVE  Replayed(lines)[Len(lines)] = AfterLines(lines, Len(lines))
  <1> DEFINE N == Len(lines)
             F == [n \in 0 .. N |-> AfterLines(lines, n)]
             g == CHOOSE f : IsReplay(lines, f)
  <1>1. N \in Nat
    OBVIOUS
  <1>2. AfterLines(lines, 0) = NewKernel("default")
    <2>1. IdsTo(lines, 0) = {GenesisEvent.id}
      BY DEF IdsTo
    <2>2. IdsTo(lines, 0) \ Noops(World) = {GenesisEvent.id}
      BY <2>1, WorldIsCatalog
    <2>3. QED
      BY <2>2, HeldNew DEF AfterLines
  <1>3. \A n \in 1 .. N :
            KernelAppend(AfterLines(lines, n - 1), Reloaded(lines[n])) = AfterLines(lines, n)
    BY NextLine
  <1>4. IsReplay(lines, F)
    <2>1. ASSUME NEW n \in 0 .. N
          PROVE  F[n] = IF n = 0 THEN NewKernel("default") ELSE KernelAppend(F[n - 1], Reloaded(lines[n]))
      <3>1. CASE n = 0
        BY <1>2, <3>1
      <3>2. CASE n # 0
        <4>1. n \in 1 .. N /\ n - 1 \in 0 .. N
          BY <1>1, <3>2
        <4>2. QED
          BY <1>3, <3>2, <4>1
      <3>3. QED
        BY <3>1, <3>2
    <2>2. F = [n \in 0 .. N |-> F[n]]
      OBVIOUS
    <2> HIDE DEF F
    <2>3. QED
      BY <2>1, <2>2 DEF IsReplay
  <1> HIDE DEF F
  <1>5. IsReplay(lines, g)
    BY <1>4
  <1>6. Replayed(lines) = g
    BY DEF Replayed, IsReplay
  <1> HIDE DEF g
  <1>7. \A n \in 0 .. N : g[n] = AfterLines(lines, n)
    <2> DEFINE Wrong == {n \in 0 .. N : g[n] # AfterLines(lines, n)}
    <2>1. SUFFICES Wrong = {}
      OBVIOUS
    <2>2. SUFFICES ASSUME NEW n \in Wrong, \A k \in Wrong : n <= k
                   PROVE  FALSE
      <3>1. Wrong \in SUBSET Nat
        BY <1>1
      <3> HIDE DEF Wrong
      <3>2. QED
        BY <3>1, LeastNumber
    <2>3. n # 0
      BY <1>2, <1>5 DEF IsReplay
    <2>4. n - 1 \in 0 .. N /\ n \in 1 .. N /\ n - 1 \notin Wrong
      BY <1>1, <2>2, <2>3
    <2>5. g[n - 1] = AfterLines(lines, n - 1)
      BY <2>4
    <2>6. g[n] = KernelAppend(g[n - 1], Reloaded(lines[n]))
      BY <1>5, <2>3 DEF IsReplay
    <2>7. QED
      BY <1>3, <2>4, <2>5, <2>6
  <1>8. QED
    BY <1>1, <1>6, <1>7

\* A snapshot of the history K.
SnapshotOf(K, s) ==
    /\ s = [seq |-> s.seq, events |-> {World.events[i] : i \in K}, source |-> s.source]
    /\ History(K)

\* Its events make that history again.
LEMMA SnapshotReadBack ==
    ASSUME NoopsAtTip, NEW K, NEW s, SnapshotOf(K, s)
    PROVE  ToDag(s) = Held(K) /\ {e.id : e \in s.events} = K
  <1> DEFINE S == {World.events[i] : i \in K}
  <1>1. s.events = S
    BY DEF SnapshotOf
  <1>2. \A i \in K : World.events[i] \in All /\ World.events[i].id = i
    BY WorldIsCatalog DEF SnapshotOf, History
  <1>3. \A e \in S : NewEvent(e.payload, e.parents) = e
    BY <1>2, WorldIsCatalog
  <1>4. {NewEvent(e.payload, e.parents) : e \in S} = S
    BY <1>3
  <1>5. {e.id : e \in S} = K
    BY <1>2
  <1>6. InsertAll(EmptyDag, S) = Held(K)
    BY HeldAll DEF SnapshotOf
  <1>7. QED
    BY <1>1, <1>4, <1>5, <1>6 DEF ToDag

\* A set has at most one element more when one has been added to it.
LEMMA OneMore ==
    ASSUME NEW A, IsFiniteSet(A), NEW x, NEW g, NEW B, B \subseteq A \union {x}
    PROVE  /\ Cardinality(B \ {g}) \in Nat /\ Cardinality(A \ {g}) \in Nat
           /\ Cardinality(B \ {g}) <= Cardinality(A \ {g}) + 1
  <1> DEFINE X == A \ {g}
  <1>1. IsFiniteSet(X) /\ Cardinality(X) \in Nat
    BY FS_Subset, FS_CardinalityType
  <1>2. B \ {g} \subseteq X \union {x}
    OBVIOUS
  <1> HIDE DEF X
  <1>3. /\ IsFiniteSet(X \union {x})
        /\ Cardinality(X \union {x}) = IF x \in X THEN Cardinality(X) ELSE Cardinality(X) + 1
    BY <1>1, FS_AddElement
  <1>4. /\ Cardinality(B \ {g}) <= Cardinality(X \union {x})
        /\ Cardinality(B \ {g}) \in Nat
    BY <1>2, <1>3, FS_Subset, FS_CardinalityType
  <1>5. Cardinality(B \ {g}) <= Cardinality(X) + 1
    BY <1>1, <1>3, <1>4
  <1>6. QED
    BY <1>1, <1>4, <1>5 DEF X

\* Where a restore may be that began with the history K and has read n of the lines: it
\* holds what it began with and what it has read, but for noops, and has counted every
\* event that it read and did not have.
Underway(K, config, lines, n, r) ==
    \E M :
        /\ History(M)
        /\ r = [kernel |-> [dag |-> Held(M), config |-> config], count |-> r.count]
        /\ (K \union IdsTo(lines, n)) \ Noops(World) \subseteq M
        /\ M \subseteq K \union IdsTo(lines, n)
        /\ K \intersect Noops(World) = {} /\ config = "default" => M \intersect Noops(World) = {}
        /\ r.count \in Nat
        /\ Cardinality((K \union IdsTo(lines, n)) \ {GenesisEvent.id}) <= r.count

\* One line of a restore.
LEMMA UnderwayGoesOn ==
    ASSUME NoopsAtTip,
           NEW lines \in Seq(Catalog \union {Garbage}), ParentsFirst(lines),
           NEW n \in 1 .. Len(lines), NEW K, History(K), NEW config, NEW r,
           Underway(K, config, lines, n - 1, r)
    PROVE  Underway(K, config, lines, n, Taken(K, r, Reloaded(lines[n])))
  <1> DEFINE e == lines[n]
             T == Noops(World)
             g == GenesisEvent.id
             A == K \union IdsTo(lines, n - 1)
             B == K \union IdsTo(lines, n)
  <1>1. e \in All /\ Reloaded(e) = e
    BY ReadBack DEF ParentsFirst, All
  <1>2. B = A \union {e.id} /\ e.parents \subseteq A \ T
    BY NextLine
  <1>3. IsFiniteSet(A)
    <2>1. n - 1 \in 0 .. Len(lines)
      OBVIOUS
    <2>2. IsFiniteSet(IdsTo(lines, n - 1)) /\ IsFiniteSet(K)
      BY <2>1, LinesAreHistory DEF History
    <2>3. QED
      BY <2>2, FS_Union
  <1>4. PICK M :
            /\ History(M)
            /\ r = [kernel |-> [dag |-> Held(M), config |-> config], count |-> r.count]
            /\ A \ T \subseteq M /\ M \subseteq A
            /\ K \intersect T = {} /\ config = "default" => M \intersect T = {}
            /\ r.count \in Nat
            /\ Cardinality(A \ {g}) <= r.count
    BY DEF Underway
  <1> HIDE DEF A, B
  <1>5. Keys(r.kernel.dag) = M /\ r.kernel = [dag |-> Held(M), config |-> config]
    BY <1>4, HeldIsPart
  <1>6. CASE e.id \in K \union M
    <2>1. Taken(K, r, e) = r
      BY <1>5, <1>6 DEF Taken
    <2>2. B = A
      BY <1>2, <1>4, <1>6 DEF A
    <2>3. Underway(K, config, lines, n, r)
      BY <1>4, <2>2 DEF Underway, A, B
    <2>4. QED
      BY <1>1, <2>1, <2>3
  <1>7. CASE e.id \notin K \union M
    <2> DEFINE q == Taken(K, r, e)
               N == Grown(config, M, e)
    <2>1. q = [kernel |-> KernelAppend(r.kernel, e), count |-> r.count + 1]
      BY <1>5, <1>7 DEF Taken
    <2>2. e.parents \subseteq M
      BY <1>2, <1>4
    <2>3. /\ KernelAppend([dag |-> Held(M), config |-> config], e)
                = [dag |-> Held(N), config |-> config]
          /\ History(N)
      BY <1>1, <1>4, <2>2, HeldAppend
    <2>4. q = [kernel |-> [dag |-> Held(N), config |-> config], count |-> q.count]
          /\ q.count = r.count + 1
      BY <1>5, <2>1, <2>3
    <2>5. /\ B \ T \subseteq N /\ N \subseteq B
          /\ K \intersect T = {} /\ config = "default" => N \intersect T = {}
      BY <1>2, <1>4 DEF Grown
    <2>6. /\ Cardinality(B \ {g}) \in Nat /\ Cardinality(A \ {g}) \in Nat
          /\ Cardinality(B \ {g}) <= Cardinality(A \ {g}) + 1
      BY <1>2, <1>3, OneMore
    <2> HIDE DEF q, N
    <2>7. q.count \in Nat /\ Cardinality(B \ {g}) <= q.count
      BY <1>4, <2>4, <2>6
    <2>8. Underway(K, config, lines, n, q)
      BY <2>3, <2>4, <2>5, <2>7 DEF Underway, B
    <2>9. QED
      BY <1>1, <2>8 DEF q
  <1>8. QED
    BY <1>6, <1>7

\* What the steps of a restore that has known ids and begins with r are asked to be.
IsRestore(known, r, lines, last, f) ==
    f = [n \in 0 .. last |->
            IF n = 0 THEN r ELSE Taken(known, f[n - 1], Reloaded(lines[n]))]

\* They can be had.
LEMMA RestoreExists ==
    ASSUME NEW known, NEW r, NEW lines, NEW last \in Nat
    PROVE  \E f : IsRestore(known, r, lines, last, f)
  <1> DEFINE Unsolved == {m \in Nat : ~\E f : IsRestore(known, r, lines, m, f)}
  <1>1. SUFFICES Unsolved = {}
    OBVIOUS
  <1>2. SUFFICES ASSUME NEW m \in Unsolved, \A k \in Unsolved : m <= k
                 PROVE  FALSE
    <2>1. Unsolved \in SUBSET Nat
      OBVIOUS
    <2> HIDE DEF Unsolved
    <2>2. QED
      BY <2>1, LeastNumber
  <1>3. CASE m = 0
    <2>1. IsRestore(known, r, lines, 0, [n \in 0 .. 0 |-> r])
      BY DEF IsRestore
    <2>2. QED
      BY <1>3, <2>1
  <1>4. CASE m > 0
    <2>1. m - 1 \in Nat /\ m - 1 \notin Unsolved
      BY <1>2, <1>4
    <2>2. PICK g : IsRestore(known, r, lines, m - 1, g)
      BY <2>1
    <2> DEFINE f == [n \in 0 .. m |->
                        IF n = m THEN Taken(known, g[m - 1], Reloaded(lines[m])) ELSE g[n]]
    <2>3. ASSUME NEW n \in 0 .. m
          PROVE  f[n] = IF n = 0 THEN r ELSE Taken(known, f[n - 1], Reloaded(lines[n]))
      <3>1. CASE n = m
        <4>1. n - 1 \in 0 .. m /\ n - 1 # m /\ n # 0
          BY <1>4, <3>1
        <4>2. QED
          BY <3>1, <4>1
      <3>2. CASE n # m
        <4>1. n \in 0 .. m - 1 /\ (n # 0 => n - 1 \in 0 .. m /\ n - 1 # m)
          BY <3>2
        <4>2. f[n] = g[n] /\ (n # 0 => f[n - 1] = g[n - 1])
          BY <3>2, <4>1
        <4>3. g[n] = IF n = 0 THEN r ELSE Taken(known, g[n - 1], Reloaded(lines[n]))
          BY <2>2, <4>1 DEF IsRestore
        <4>4. QED
          BY <4>2, <4>3
      <3>3. QED
        BY <3>1, <3>2
    <2>4. f = [n \in 0 .. m |-> f[n]]
      OBVIOUS
    <2> HIDE DEF f
    <2>5. IsRestore(known, r, lines, m, f)
      BY <2>3, <2>4 DEF IsRestore
    <2>6. QED
      BY <2>5
  <1>5. QED
    BY <1>3, <1>4

\* A restore that has read all lines has every event of them.
LEMMA RestoreIsUnderway ==
    ASSUME NoopsAtTip,
           NEW lines \in Seq(Catalog \union {Garbage}), ParentsFirst(lines),
           NEW K, NEW s, SnapshotOf(K, s),
           s.source \in Nat, Cardinality(K \ {GenesisEvent.id}) <= s.source,
           kernel = [dag |-> kernel.dag, config |-> kernel.config]
    PROVE  Underway(K, kernel.config, lines, Len(lines), Restored(s, lines)[Len(lines)])
  <1> DEFINE N == Len(lines)
             r == [kernel |-> [kernel EXCEPT !.dag = ToDag(s)], count |-> s.source]
             g == CHOOSE f : IsRestore(K, r, lines, N, f)
             Wrong == {n \in 0 .. N : ~Underway(K, kernel.config, lines, n, g[n])}
  <1>1. N \in Nat
    OBVIOUS
  <1>2. ToDag(s) = Held(K) /\ {e.id : e \in s.events} = K /\ History(K)
    BY SnapshotReadBack DEF SnapshotOf
  <1>3. r.kernel = [dag |-> Held(K), config |-> kernel.config] /\ r.count = s.source
    BY <1>2
  <1>4. r = [kernel |-> r.kernel, count |-> r.count]
    OBVIOUS
  <1> HIDE DEF r
  <1>5. Restored(s, lines) = g
    BY <1>2 DEF Restored, IsRestore, r
  <1>6. IsRestore(K, r, lines, N, g)
    BY <1>1, RestoreExists
  <1> HIDE DEF g
  <1>7. SUFFICES Wrong = {}
    BY <1>1, <1>5
  <1>8. SUFFICES ASSUME NEW n \in Wrong, \A k \in Wrong : n <= k
                 PROVE  FALSE
    <2>1. Wrong \in SUBSET Nat
      BY <1>1
    <2> HIDE DEF Wrong
    <2>2. QED
      BY <2>1, LeastNumber
  <1>9. Underway(K, kernel.config, lines, 0, r)
    <2>1. IdsTo(lines, 0) = {GenesisEvent.id}
      BY DEF IdsTo
    <2>2. K \union IdsTo(lines, 0) = K
      BY <1>2, <2>1 DEF History
    <2>3. K \ Noops(World) \subseteq K
      OBVIOUS
    <2>4. QED
      BY <1>2, <1>3, <1>4, <2>2, <2>3 DEF Underway
  <1>10. n # 0
    BY <1>6, <1>9 DEF IsRestore
  <1>11. n - 1 \in 0 .. N /\ n \in 1 .. N /\ n - 1 \notin Wrong
    BY <1>1, <1>8, <1>10
  <1>12. Underway(K, kernel.config, lines, n - 1, g[n - 1])
    BY <1>11
  <1>13. g[n] = Taken(K, g[n - 1], Reloaded(lines[n]))
    BY <1>6, <1>10 DEF IsRestore
  <1>14. Underway(K, kernel.config, lines, n, g[n])
    BY <1>2, <1>11, <1>12, <1>13, UnderwayGoesOn
  <1>15. QED
    BY <1>14

----------------------------------------------------------------------------
\* The parts of the invariant.  Each says of one holder of events that what it holds is a
\* history, without noops if the process was started to keep none, of events that are in
\* the log as long as it can be read.

\* The id that everyone starts with.
Root == GenesisEvent.id

\* What the kernel has.
Kept == Keys(kernel.dag)

\* No noops, for who was started to keep none.
Bald(config, K) == config = "default" => K \intersect Noops(World) = {}

\* In the log, as long as it can be read.
InLog(K, l) == Garbage \notin Logged(l) => K \subseteq LogIds(l)

\* The counters keep within their bounds, and to the interval.
Typed ==
    /\ setup.config \in Configs
    /\ loaded \in BOOLEAN
    /\ counters \in [event_count : 0 .. MaxCount, since : 0 .. MaxCount, snapshot_seq : 0 .. MaxSnapshots]
    /\ setup.interval \in Nat
    /\ setup.interval > 0 => counters.since < setup.interval

\* The log is within its bound, and has causes before effects.
LogInv ==
    /\ LogOK(log)
    /\ Len(log.lines) <= MaxLines
    /\ Readable => ParentsFirst(log.lines)

\* The kernel has a history, and nothing that the log has not.
KernelInv ==
    /\ kernel = [dag |-> Held(Kept), config |-> kernel.config]
    /\ kernel.config \in {"default", setup.config}
    /\ History(Kept) /\ Bald(setup.config, Kept) /\ InLog(Kept, log)

\* A loaded kernel has all of the log but noops.
LoadedInv == loaded /\ Readable => LogIds(log) \ Noops(World) \subseteq Kept

\* event_count has counted every event that there is, genesis aside.
CountInv ==
    /\ Cardinality(Kept \ {Root}) <= counters.event_count
    /\ loaded /\ Readable => Cardinality(LogIds(log) \ {Root}) <= counters.event_count

\* A snapshot has counted every event that it has.
SnapshotOK(config, l, s) ==
    \E K \in SUBSET Keys(World) :
        /\ SnapshotOf(K, s) /\ Bald(config, K) /\ InLog(K, l)
        /\ s.seq \in 0 .. MaxSnapshots /\ s.source \in 0 .. MaxCount
        /\ Cardinality(K \ {Root}) <= s.source

\* There is one snapshot at most.
SavedInv ==
    /\ \A s, t \in saved : s = t
    /\ \A s \in saved : SnapshotOK(setup.config, log, s)

\* The cached functor has answered for a history that a kernel with all of the log has.
CacheOK(kept, l, full, c) ==
    \/ c = NoCache
    \/ \E K \in SUBSET Keys(World) :
          /\ History(K) /\ K \intersect Noops(World) = {} /\ InLog(K, l)
          /\ c = [size |-> Cardinality(K), state |-> KvState(Held(K))]
          /\ full => K \subseteq kept

\* Only a kernel without noops can do with their number.
CacheInv == setup.config = "default" => CacheOK(Kept, log, loaded, cache)

\* The inductive invariant.
StoreInv == Typed /\ LogInv /\ KernelInv /\ LoadedInv /\ CountInv /\ SavedInv /\ CacheInv

----------------------------------------------------------------------------
\* What is in a log stays there when more is written.
LEMMA InLogGrows ==
    ASSUME NEW l, LogOK(l), NEW e \in Catalog, NEW m, WroteTo(l, e, m)
    PROVE  /\ \A K : InLog(K, l) => InLog(K, m)
           /\ \A config, s : SnapshotOK(config, l, s) => SnapshotOK(config, m, s)
           /\ \A kept, full, c : CacheOK(kept, l, full, c) => CacheOK(kept, m, full, c)
  <1>1. \A K : InLog(K, l) => InLog(K, m)
    BY WroteIds DEF InLog
  <1>2. QED
    BY <1>1 DEF SnapshotOK, CacheOK

\* The snapshot that is taken of a kernel.
LEMMA SnapshotTaken ==
    ASSUME NoopsAtTip, NEW K, History(K), NEW seq, NEW count
    PROVE  LET s == FromDag(Held(K), seq, count)
           IN  SnapshotOf(K, s) /\ s.seq = seq /\ s.source = count
  BY HeldIsPart DEF FromDag, SnapshotOf

\* Taking a snapshot of what a kernel has, with the count it has.
LEMMA SnapKeeps ==
    ASSUME NoopsAtTip, NEW K, History(K), NEW config, Bald(config, K), NEW l, InLog(K, l),
           NEW c \in [event_count : 0 .. MaxCount, since : Nat, snapshot_seq : 0 .. MaxSnapshots],
           Cardinality(K \ {Root}) <= c.event_count,
           \A s, t \in saved : s = t,
           \A s \in saved : SnapshotOK(config, l, s),
           Snap(Held(K), c)
    PROVE  /\ counters' = [event_count |-> c.event_count, since |-> 0, snapshot_seq |-> c.snapshot_seq + 1]
           /\ c.snapshot_seq + 1 \in 0 .. MaxSnapshots
           /\ \A s, t \in saved' : s = t
           /\ \A s \in saved' : SnapshotOK(config, l, s)
  <1>1. counters' = [c EXCEPT !.snapshot_seq = @ + 1, !.since = 0] /\ c.snapshot_seq < MaxSnapshots
    BY DEF Snap
  <1>2. counters' = [event_count |-> c.event_count, since |-> 0, snapshot_seq |-> c.snapshot_seq + 1]
    BY <1>1
  <1>3. c.snapshot_seq + 1 \in 0 .. MaxSnapshots /\ c.event_count \in 0 .. MaxCount
    BY <1>1, BoundsAssumption
  <1> DEFINE s == FromDag(Held(K), c.snapshot_seq + 1, c.event_count)
  <1>4. SnapshotOf(K, s) /\ s.seq = c.snapshot_seq + 1 /\ s.source = c.event_count
    BY SnapshotTaken
  <1>5. saved' = saved \/ saved' = {s}
    BY DEF Snap
  <1> HIDE DEF s
  <1>6. SnapshotOK(config, l, s)
    BY <1>3, <1>4 DEF SnapshotOK, History
  <1>7. QED
    BY <1>2, <1>3, <1>5, <1>6

----------------------------------------------------------------------------
\* What an append that returns does to the log and to the kernel.
LEMMA AppendEffect ==
    ASSUME NoopsAtTip, StoreInv, NEW e \in Catalog, AppendLogged(e)
    PROVE  /\ WroteTo(log, e, log')
           /\ Garbage \notin Logged(log') => LogIds(log') = LogIds(log) \union {e.id}
           /\ kernel' = [dag |-> Held(Grown(kernel.config, Kept, e)), config |-> kernel.config]
           /\ Kept' = Grown(kernel.config, Kept, e)
           /\ History(Kept')
           /\ Bald(setup.config, Kept')
           /\ (Kept \union {e.id}) \ Noops(World) \subseteq Kept'
           /\ Kept' \subseteq Kept \union {e.id}
  <1> DEFINE N == Grown(kernel.config, Kept, e)
  <1>1. WroteTo(log, e, log') /\ (Garbage \notin Logged(log') => LogIds(log') = LogIds(log) \union {e.id})
    BY WrittenLog DEF AppendLogged, StoreInv, LogInv
  <1>2. /\ kernel' = KernelAppend([dag |-> Held(Kept), config |-> kernel.config], e)
        /\ e.parents \subseteq Kept
        /\ History(Kept)
    BY DEF AppendLogged, StoreInv, KernelInv, Kept
  <1>3. kernel' = [dag |-> Held(N), config |-> kernel.config] /\ History(N)
    <2>1. e \in All
      BY DEF All
    <2>2. QED
      BY <1>2, <2>1, HeldAppend
  <1>4. /\ (Kept \union {e.id}) \ Noops(World) \subseteq N
        /\ N \subseteq Kept \union {e.id}
        /\ kernel.config = "default" => N \intersect Noops(World) = {}
    BY DEF Grown
  <1> HIDE DEF N
  <1>5. Kept' = N
    BY <1>3, HeldIsPart DEF Kept
  <1>6. Bald(setup.config, N)
    BY <1>4 DEF Bald, StoreInv, KernelInv
  <1>7. QED
    BY <1>1, <1>3, <1>4, <1>5, <1>6 DEF N

\* A write of an event whose parents the kernel has keeps the log in order.
LEMMA WriteKeepsLog ==
    ASSUME StoreInv, NEW e \in Catalog, e.parents \subseteq Kept,
           Len(log.lines) < MaxLines, WroteTo(log, e, log')
    PROVE  LogInv'
  <1>1. LogOK(log) /\ LogOK(log') /\ Len(log'.lines) <= Len(log.lines) + 1
    BY DEF StoreInv, LogInv, WroteTo
  <1>2. Len(log'.lines) <= MaxLines
    <2>1. Len(log.lines) \in Nat /\ Len(log'.lines) \in Nat
      BY <1>1 DEF LogOK
    <2>2. QED
      BY <1>1, <2>1, BoundsAssumption
  <1>3. ASSUME Readable' PROVE ParentsFirst(log'.lines)
    <2>1. Garbage \notin Logged(log') /\ Readable
      BY <1>3 DEF Readable, WroteTo
    <2>2. e.parents \subseteq LogIds(log) /\ ParentsFirst(log.lines)
      BY <2>1 DEF StoreInv, LogInv, KernelInv, InLog, Readable
    <2>3. QED
      BY <1>1, <2>1, <2>2, WroteIds
  <1>4. QED
    BY <1>1, <1>2, <1>3 DEF LogInv

\* An append keeps the invariant.
LEMMA AppendKeeps ==
    ASSUME NoopsAtTip, StoreInv, NEW e \in Catalog, AppendLogged(e)
    PROVE  StoreInv'
  <1> DEFINE counted == [counters EXCEPT !.event_count = @ + 1, !.since = @ + 1]
             due == setup.interval > 0 /\ counted.since >= setup.interval
  <1>1. /\ WroteTo(log, e, log')
        /\ Garbage \notin Logged(log') => LogIds(log') = LogIds(log) \union {e.id}
        /\ kernel' = [dag |-> Held(Kept'), config |-> kernel.config]
        /\ History(Kept')
        /\ Bald(setup.config, Kept')
        /\ (Kept \union {e.id}) \ Noops(World) \subseteq Kept'
        /\ Kept' \subseteq Kept \union {e.id}
    BY AppendEffect
  <1>2. /\ e.parents \subseteq Kept /\ Len(log.lines) < MaxLines
        /\ counters.event_count < MaxCount /\ counters.since < MaxCount
        /\ setup' = setup /\ loaded' = loaded /\ cache' = cache
        /\ \/ due /\ Snap(kernel'.dag, counted)
           \/ ~due /\ counters' = counted /\ saved' = saved
    <2>1. \/ due /\ Snap(kernel'.dag, counted)
          \/ ~due /\ counters' = counted /\ UNCHANGED saved
      BY Zenon DEF AppendLogged
    <2> HIDE DEF counted
    <2>2. /\ e.parents \subseteq Kept /\ Len(log.lines) < MaxLines
          /\ counters.event_count < MaxCount /\ counters.since < MaxCount
          /\ setup' = setup /\ loaded' = loaded /\ cache' = cache
      BY DEF AppendLogged, Kept
    <2>3. QED
      BY <2>1, <2>2
  <1>3. /\ counted = [event_count |-> counters.event_count + 1, since |-> counters.since + 1,
                      snapshot_seq |-> counters.snapshot_seq]
        /\ counters.event_count \in Nat /\ counters.since \in Nat
        /\ counted \in [event_count : 0 .. MaxCount, since : 0 .. MaxCount, snapshot_seq : 0 .. MaxSnapshots]
    <2>1. counters \in [event_count : 0 .. MaxCount, since : 0 .. MaxCount, snapshot_seq : 0 .. MaxSnapshots]
      BY DEF StoreInv, Typed
    <2>2. counters.event_count \in 0 .. MaxCount /\ counters.since \in 0 .. MaxCount
      BY <2>1
    <2>3. counters.event_count + 1 \in 0 .. MaxCount /\ counters.since + 1 \in 0 .. MaxCount
      BY <1>2, <2>2, BoundsAssumption
    <2>4. counters = [event_count |-> counters.event_count, since |-> counters.since,
                      snapshot_seq |-> counters.snapshot_seq]
          /\ counters.snapshot_seq \in 0 .. MaxSnapshots
      BY <2>1
    <2>5. counted = [event_count |-> counters.event_count + 1, since |-> counters.since + 1,
                     snapshot_seq |-> counters.snapshot_seq]
      <3>1. counted \in [event_count : {counters.event_count + 1}, since : {counters.since + 1},
                         snapshot_seq : {counters.snapshot_seq}]
        BY <2>1
      <3> HIDE DEF counted
      <3>2. QED
        BY <3>1
    <2> HIDE DEF counted
    <2>6. QED
      BY <2>2, <2>3, <2>4, <2>5
  <1>4. LogOK(log) /\ (Readable' => Readable)
    BY <1>1 DEF StoreInv, LogInv, Readable, WroteTo
  <1>5. LogInv'
    BY <1>1, <1>2, WriteKeepsLog
  <1>6. KernelInv'
    <2>1. InLog(Kept, log)'
      BY <1>1, <1>4 DEF StoreInv, KernelInv, InLog, Readable
    <2>2. kernel'.config = kernel.config
      BY <1>1
    <2>3. QED
      BY <1>1, <1>2, <2>1, <2>2 DEF StoreInv, KernelInv
  <1>7. LoadedInv'
    <2>1. SUFFICES ASSUME loaded, Readable'
                   PROVE  LogIds(log') \ Noops(World) \subseteq Kept'
      BY <1>2 DEF LoadedInv
    <2>2. Readable /\ LogIds(log') = LogIds(log) \union {e.id}
      BY <1>1, <1>4, <2>1 DEF Readable
    <2>3. LogIds(log) \ Noops(World) \subseteq Kept
      BY <2>1, <2>2 DEF StoreInv, LoadedInv
    <2>4. QED
      BY <1>1, <2>2, <2>3
  <1>8. /\ Cardinality(Kept' \ {Root}) <= counted.event_count
        /\ loaded /\ Readable' => Cardinality(LogIds(log') \ {Root}) <= counted.event_count
    <2>1. /\ Cardinality(Kept' \ {Root}) \in Nat /\ Cardinality(Kept \ {Root}) \in Nat
          /\ Cardinality(Kept' \ {Root}) <= Cardinality(Kept \ {Root}) + 1
      BY <1>1, OneMore DEF StoreInv, KernelInv, History
    <2>2. Cardinality(Kept' \ {Root}) <= counted.event_count
      BY <1>3, <2>1 DEF StoreInv, CountInv
    <2>3. ASSUME loaded, Readable'
          PROVE  Cardinality(LogIds(log') \ {Root}) <= counted.event_count
      <3>1. Readable /\ LogIds(log') = LogIds(log) \union {e.id}
        BY <1>1, <1>4, <2>3 DEF Readable
      <3>2. IsFiniteSet(LogIds(log))
        <4>1. ParentsFirst(log.lines) /\ log.lines \in Seq(Catalog \union {Garbage})
              /\ Len(log.lines) \in 0 .. Len(log.lines)
          BY <1>4, <3>1 DEF StoreInv, LogInv, LogOK
        <4>2. QED
          BY <4>1, LinesAreHistory DEF LogIds, History
      <3>3. /\ Cardinality(LogIds(log') \ {Root}) \in Nat /\ Cardinality(LogIds(log) \ {Root}) \in Nat
            /\ Cardinality(LogIds(log') \ {Root}) <= Cardinality(LogIds(log) \ {Root}) + 1
        BY <3>1, <3>2, OneMore
      <3>4. QED
        BY <1>3, <2>3, <3>1, <3>3 DEF StoreInv, CountInv
    <2>4. QED
      BY <2>2, <2>3
  <1>9. /\ \A s, t \in saved : s = t
        /\ \A s \in saved : SnapshotOK(setup.config, log', s)
    BY <1>1, <1>4, InLogGrows DEF StoreInv, SavedInv
  <1>10. CacheInv'
    <2>1. SUFFICES ASSUME setup.config = "default" PROVE CacheOK(Kept', log', loaded, cache)
      BY <1>2 DEF CacheInv
    <2>2. CacheOK(Kept, log', loaded, cache)
      BY <1>1, <1>4, <2>1, InLogGrows DEF StoreInv, CacheInv
    <2>3. QED
      BY <1>1, <2>2 DEF CacheOK
  <1>11. CASE due
    <2>1. Snap(Held(Kept'), counted)
      <3>1. kernel'.dag = Held(Kept')
        BY <1>1
      <3>2. QED
        BY <1>2, <1>11, <3>1
    <2>2. InLog(Kept', log')
      BY <1>6 DEF KernelInv
    <2> HIDE DEF counted
    <2>3. counted \in [event_count : 0 .. MaxCount, since : Nat, snapshot_seq : 0 .. MaxSnapshots]
      BY <1>3
    <2>4. /\ counters' = [event_count |-> counted.event_count, since |-> 0, snapshot_seq |-> counted.snapshot_seq + 1]
          /\ counted.snapshot_seq + 1 \in 0 .. MaxSnapshots
          /\ \A s, t \in saved' : s = t
          /\ \A s \in saved' : SnapshotOK(setup.config, log', s)
      BY <1>1, <1>8, <1>9, <2>1, <2>2, <2>3, SnapKeeps
    <2>5. Typed'
      BY <1>2, <1>3, <2>4, BoundsAssumption DEF StoreInv, Typed
    <2>6. CountInv'
      BY <1>2, <1>8, <2>4 DEF CountInv
    <2>7. SavedInv'
      BY <1>2, <2>4 DEF SavedInv
    <2>8. QED
      BY <1>5, <1>6, <1>7, <1>10, <2>5, <2>6, <2>7 DEF StoreInv
  <1>12. CASE ~due
    <2>1. counters' = counted /\ saved' = saved
      BY <1>2, <1>12
    <2>2. Typed'
      BY <1>2, <1>3, <1>12, <2>1 DEF StoreInv, Typed
    <2> HIDE DEF counted
    <2>3. CountInv'
      BY <1>2, <1>8, <2>1 DEF CountInv
    <2>4. SavedInv'
      BY <1>2, <1>9, <2>1 DEF SavedInv
    <2>5. QED
      BY <1>5, <1>6, <1>7, <1>10, <2>2, <2>3, <2>4 DEF StoreInv
  <1>13. QED
    BY <1>11, <1>12

\* An append that the store refuses leaves the kernel alone.
LEMMA FailingKeeps ==
    ASSUME StoreInv, NEW e \in Catalog, AppendFailing(e)
    PROVE  StoreInv' /\ WroteTo(log, e, log')
  <1>1. /\ e.parents \subseteq Kept /\ Len(log.lines) < MaxLines
        /\ log' \in CutWrites(log, e)
        /\ loaded' = (loaded /\ log' = log)
        /\ setup' = setup /\ kernel' = kernel /\ counters' = counters /\ saved' = saved /\ cache' = cache
    BY DEF AppendFailing, Kept
  <1>2. LogOK(log)
    BY DEF StoreInv, LogInv
  <1>3. WroteTo(log, e, log')
    BY <1>1, <1>2, CutLog
  <1>4. loaded' \in BOOLEAN /\ (loaded' => loaded /\ log' = log)
    BY <1>1
  <1>5. Kept' = Kept
    BY <1>1 DEF Kept
  <1>6. Typed'
    BY <1>1, <1>4 DEF StoreInv, Typed
  <1>7. LogInv'
    BY <1>1, <1>3, WriteKeepsLog
  <1>8. KernelInv'
    <2>1. InLog(Kept, log')
      BY <1>2, <1>3, InLogGrows DEF StoreInv, KernelInv
    <2>2. QED
      BY <1>1, <1>5, <2>1 DEF StoreInv, KernelInv
  <1>9. LoadedInv' /\ CountInv'
    BY <1>1, <1>4, <1>5 DEF StoreInv, LoadedInv, CountInv, Readable
  <1>10. SavedInv'
    BY <1>1, <1>2, <1>3, InLogGrows DEF StoreInv, SavedInv
  <1>11. CacheInv'
    <2>1. SUFFICES ASSUME setup.config = "default" PROVE CacheOK(Kept, log', loaded', cache)
      BY <1>1, <1>5 DEF CacheInv
    <2>2. CacheOK(Kept, log', loaded, cache)
      BY <1>2, <1>3, <2>1, InLogGrows DEF StoreInv, CacheInv
    <2>3. QED
      BY <1>4, <2>2 DEF CacheOK
  <1>12. QED
    BY <1>3, <1>6, <1>7, <1>8, <1>9, <1>10, <1>11 DEF StoreInv

\* A new process has the log and the snapshot of the old one, and nothing else.
LEMMA FreshKeeps ==
    ASSUME NoopsAtTip, StoreInv, Fresh, loaded' = FALSE, UNCHANGED <<setup, saved>>, LogInv',
           \A config, s : SnapshotOK(config, log, s) => SnapshotOK(config, log', s)
    PROVE  StoreInv' /\ Kept' = {Root}
  <1>1. /\ kernel' = NewKernel(setup.config) /\ cache' = NoCache
        /\ counters' = [event_count |-> 0, since |-> 0, snapshot_seq |-> 0]
        /\ setup' = setup /\ saved' = saved
    BY DEF Fresh
  <1>2. History({Root}) /\ kernel' = [dag |-> Held({Root}), config |-> setup.config]
    BY <1>1, HeldNew DEF Root
  <1>3. Kept' = {Root}
    BY <1>2, HeldIsPart DEF Kept
  <1>4. Typed'
    <2>1. setup'.config \in Configs /\ setup'.interval \in Nat
      BY <1>1 DEF StoreInv, Typed
    <2>2. loaded' \in BOOLEAN
      OBVIOUS
    <2>3. /\ 0 \in 0 .. MaxCount /\ 0 \in 0 .. MaxSnapshots /\ counters'.since = 0
          /\ counters' \in [event_count : 0 .. MaxCount, since : 0 .. MaxCount, snapshot_seq : 0 .. MaxSnapshots]
      BY <1>1, BoundsAssumption
    <2>4. QED
      BY <2>1, <2>2, <2>3 DEF Typed
  <1>5. KernelInv'
    <2>1. Bald(setup.config, {Root})
      BY WorldIsCatalog DEF Bald, Root
    <2>2. InLog({Root}, log')
      BY DEF InLog, LogIds, IdsTo, Root
    <2>3. kernel'.config = setup.config
      BY <1>2
    <2>4. QED
      BY <1>1, <1>2, <1>3, <2>1, <2>2, <2>3 DEF KernelInv
  <1>6. LoadedInv'
    BY DEF LoadedInv
  <1>7. CountInv'
    <2>1. Cardinality({Root} \ {Root}) = 0
      BY FS_EmptySet
    <2>2. counters'.event_count = 0
      BY <1>1
    <2>3. QED
      BY <1>3, <2>1, <2>2 DEF CountInv
  <1>8. SavedInv'
    BY <1>1 DEF StoreInv, SavedInv
  <1>9. CacheInv'
    BY <1>1 DEF CacheInv, CacheOK
  <1>10. QED
    BY <1>3, <1>4, <1>5, <1>6, <1>7, <1>8, <1>9 DEF StoreInv

\* A restart keeps the invariant.
LEMMA RestartKeeps ==
    ASSUME NoopsAtTip, StoreInv, Restart
    PROVE  StoreInv' /\ Kept' = {Root}
  <1>1. log' = log /\ Fresh /\ loaded' = FALSE /\ UNCHANGED <<setup, saved>>
    BY DEF Restart
  <1>2. LogInv'
    BY <1>1 DEF StoreInv, LogInv, Readable
  <1>3. QED
    BY <1>1, <1>2, FreshKeeps

\* A crash in an append does, however much of the write it lets through.
LEMMA CrashKeeps ==
    ASSUME NoopsAtTip, StoreInv, NEW e \in Catalog, CrashInAppend(e)
    PROVE  StoreInv' /\ WroteTo(log, e, log')
  <1>1. /\ e.parents \subseteq Kept /\ Len(log.lines) < MaxLines
        /\ log' \in CutWrites(log, e) \/ log' = Written(log, e)
        /\ Fresh /\ loaded' = FALSE /\ UNCHANGED <<setup, saved>>
    BY DEF CrashInAppend, Kept
  <1>2. LogOK(log)
    BY DEF StoreInv, LogInv
  <1>3. WroteTo(log, e, log')
    BY <1>1, <1>2, CutLog, WrittenLog
  <1>4. LogInv'
    BY <1>1, <1>3, WriteKeepsLog
  <1>5. \A config, s : SnapshotOK(config, log, s) => SnapshotOK(config, log', s)
    BY <1>2, <1>3, InLogGrows
  <1>6. QED
    BY <1>1, <1>3, <1>4, <1>5, FreshKeeps

\* A snapshot taken between two appends keeps the invariant.
LEMMA TakeKeeps ==
    ASSUME NoopsAtTip, StoreInv, TakeSnapshot
    PROVE  StoreInv' /\ Kept' = Kept
  <1>1. /\ Snap(kernel.dag, counters)
        /\ setup' = setup /\ kernel' = kernel /\ log' = log /\ loaded' = loaded /\ cache' = cache
    BY DEF TakeSnapshot
  <1>2. /\ kernel.dag = Held(Kept) /\ History(Kept) /\ Bald(setup.config, Kept) /\ InLog(Kept, log)
        /\ counters \in [event_count : 0 .. MaxCount, since : 0 .. MaxCount, snapshot_seq : 0 .. MaxSnapshots]
        /\ Cardinality(Kept \ {Root}) <= counters.event_count
        /\ \A s, t \in saved : s = t
        /\ \A s \in saved : SnapshotOK(setup.config, log, s)
    <2>1. kernel.dag = Held(Kept)
      BY DEF StoreInv, KernelInv
    <2>2. QED
      BY <2>1 DEF StoreInv, Typed, KernelInv, CountInv, SavedInv
  <1>3. counters \in [event_count : 0 .. MaxCount, since : Nat, snapshot_seq : 0 .. MaxSnapshots]
    BY <1>2, BoundsAssumption
  <1>4. Snap(Held(Kept), counters)
    BY <1>1, <1>2
  <1>5. /\ counters' = [event_count |-> counters.event_count, since |-> 0, snapshot_seq |-> counters.snapshot_seq + 1]
        /\ counters.snapshot_seq + 1 \in 0 .. MaxSnapshots
        /\ \A s, t \in saved' : s = t
        /\ \A s \in saved' : SnapshotOK(setup.config, log, s)
    BY <1>2, <1>3, <1>4, SnapKeeps
  <1>6. Kept' = Kept
    BY <1>1 DEF Kept
  <1>7. Typed'
    BY <1>1, <1>2, <1>5, BoundsAssumption DEF StoreInv, Typed
  <1>8. LogInv' /\ KernelInv' /\ LoadedInv' /\ CacheInv'
    BY <1>1, <1>6 DEF StoreInv, LogInv, KernelInv, LoadedInv, CacheInv, Readable
  <1>9. CountInv'
    BY <1>1, <1>5, <1>6 DEF StoreInv, CountInv, Readable
  <1>10. SavedInv'
    BY <1>1, <1>5 DEF SavedInv
  <1>11. QED
    BY <1>6, <1>7, <1>8, <1>9, <1>10 DEF StoreInv

\* The kernel of a load: it has the history M, which has all of the log but noops if that
\* was read, and has counted what there is.
LEMMA LoadKeeps ==
    ASSUME NoopsAtTip, StoreInv, NEW M, NEW config, NEW count, NEW seq, NEW read \in BOOLEAN,
           History(M), Bald(setup.config, M), InLog(M, log),
           config \in {"default", setup.config},
           kernel' = [dag |-> Held(M), config |-> config],
           count \in 0 .. MaxCount, seq \in 0 .. MaxSnapshots,
           counters' = [event_count |-> count, since |-> counters.since, snapshot_seq |-> seq],
           loaded' = read, read => Readable,
           Cardinality(M \ {Root}) <= count,
           read => /\ LogIds(log) \ Noops(World) \subseteq M
                   /\ Cardinality(LogIds(log) \ {Root}) <= count,
           UNCHANGED <<setup, log, saved, cache>>
    PROVE  StoreInv' /\ Kept' = M
  <1>1. Kept' = M
    BY HeldIsPart DEF Kept
  <1>2. setup' = setup /\ log' = log /\ saved' = saved /\ cache' = cache /\ kernel'.config = config
    OBVIOUS
  <1>3. Readable' = Readable /\ loaded' \in BOOLEAN
    BY <1>2 DEF Readable
  <1>4. Typed'
    <2>1. counters \in [event_count : 0 .. MaxCount, since : 0 .. MaxCount, snapshot_seq : 0 .. MaxSnapshots]
      BY DEF StoreInv, Typed
    <2>2. counters.since \in 0 .. MaxCount
      BY <2>1
    <2>3. /\ counters' \in [event_count : 0 .. MaxCount, since : 0 .. MaxCount, snapshot_seq : 0 .. MaxSnapshots]
          /\ counters'.since = counters.since
      BY <2>2
    <2>4. QED
      BY <1>2, <1>3, <2>3 DEF StoreInv, Typed
  <1>5. LogInv'
    BY <1>2, <1>3 DEF StoreInv, LogInv
  <1>6. KernelInv'
    BY <1>1, <1>2 DEF KernelInv
  <1>7. LoadedInv'
    BY <1>1, <1>2, <1>3 DEF LoadedInv
  <1>8. CountInv'
    <2>1. counters'.event_count = count
      OBVIOUS
    <2>2. QED
      BY <1>1, <1>2, <1>3, <2>1 DEF CountInv
  <1>9. SavedInv'
    BY <1>2 DEF StoreInv, SavedInv
  <1>10. CacheInv'
    <2>1. SUFFICES ASSUME setup.config = "default" PROVE CacheOK(M, log, read, cache)
      BY <1>1, <1>2 DEF CacheInv
    <2>2. CacheOK(Kept, log, loaded, cache)
      BY <2>1 DEF StoreInv, CacheInv
    <2>3. \A K : K \intersect Noops(World) = {} /\ InLog(K, log) /\ read => K \subseteq M
      BY DEF InLog, Readable
    <2>4. QED
      BY <2>2, <2>3 DEF CacheOK
  <1>11. QED
    BY <1>1, <1>4, <1>5, <1>6, <1>7, <1>8, <1>9, <1>10 DEF StoreInv

\* What there is in a log that can be read.
LEMMA ReadableLog ==
    ASSUME StoreInv, Readable
    PROVE  /\ log.lines \in Seq(Catalog \union {Garbage}) /\ ParentsFirst(log.lines)
           /\ Len(log.lines) \in 0 .. MaxCount
           /\ History(LogIds(log))
           /\ Cardinality(LogIds(log) \ {Root}) <= Len(log.lines)
  <1>1. log.lines \in Seq(Catalog \union {Garbage}) /\ ParentsFirst(log.lines) /\ Len(log.lines) <= MaxLines
    BY DEF StoreInv, LogInv, LogOK
  <1> DEFINE N == Len(log.lines)
             X == LogIds(log) \ {Root}
             Y == {k \in 1 .. N : log.lines[k].id # Root}
             f == [k \in Y |-> log.lines[k].id]
  <1>2. N \in 0 .. N /\ N \in 0 .. MaxCount
    BY <1>1, BoundsAssumption
  <1>3. History(LogIds(log))
    BY <1>1, <1>2, LinesAreHistory DEF LogIds
  <1>4. X = {f[k] : k \in Y}
    BY DEF LogIds, IdsTo, Root
  <1>5. f \in Surjection(Y, X)
    BY <1>4 DEF Surjection
  <1>6. IsFiniteSet(1 .. N) /\ Cardinality(1 .. N) = N
    BY <1>2, FS_Interval
  <1>7. IsFiniteSet(Y) /\ Cardinality(Y) <= N /\ Cardinality(Y) \in Nat
    BY <1>6, FS_Subset, FS_CardinalityType
  <1> HIDE DEF f, Y, X
  <1>8. Cardinality(X) <= Cardinality(Y) /\ Cardinality(X) \in Nat
    BY <1>5, <1>7, FS_Surjection, FS_CardinalityType
  <1>9. Cardinality(X) <= N
    BY <1>2, <1>7, <1>8
  <1>10. QED
    BY <1>1, <1>2, <1>3, <1>9 DEF X

\* A replay keeps the invariant.
LEMMA ReplayKeeps ==
    ASSUME NoopsAtTip, StoreInv, Replay
    PROVE  StoreInv' /\ Kept' = LogIds(log) \ Noops(World)
  <1> DEFINE M == LogIds(log) \ Noops(World)
             N == Len(log.lines)
  <1>1. /\ Readable
        /\ kernel' = Replayed(log.lines)[N]
        /\ counters' = [counters EXCEPT !.event_count = N]
        /\ loaded' = TRUE
        /\ UNCHANGED <<setup, log, saved, cache>>
    BY DEF Replay
  <1>2. /\ log.lines \in Seq(Catalog \union {Garbage}) /\ ParentsFirst(log.lines)
        /\ N \in 0 .. MaxCount /\ History(LogIds(log))
        /\ Cardinality(LogIds(log) \ {Root}) <= N
    BY <1>1, ReadableLog
  <1>3. kernel' = [dag |-> Held(M), config |-> "default"]
    BY <1>1, <1>2, ReplayIsLines DEF AfterLines, LogIds
  <1>4. History(M)
    BY <1>2, HeldReduce
  <1>5. Bald(setup.config, M) /\ InLog(M, log)
    BY DEF Bald, InLog
  <1>6. Cardinality(M \ {Root}) <= N
    <2>1. IsFiniteSet(LogIds(log) \ {Root}) /\ M \ {Root} \subseteq LogIds(log) \ {Root}
      BY <1>2, FS_Subset DEF History
    <2>2. /\ Cardinality(M \ {Root}) <= Cardinality(LogIds(log) \ {Root})
          /\ Cardinality(M \ {Root}) \in Nat /\ Cardinality(LogIds(log) \ {Root}) \in Nat
      BY <2>1, FS_Subset, FS_CardinalityType
    <2>3. QED
      BY <1>2, <2>2
  <1>7. /\ counters' = [event_count |-> N, since |-> counters.since, snapshot_seq |-> counters.snapshot_seq]
        /\ counters.snapshot_seq \in 0 .. MaxSnapshots
    <2>1. counters \in [event_count : 0 .. MaxCount, since : 0 .. MaxCount, snapshot_seq : 0 .. MaxSnapshots]
      BY DEF StoreInv, Typed
    <2>2. QED
      BY <1>1, <2>1
  <1> HIDE DEF M, N
  <1>9. LogIds(log) \ Noops(World) \subseteq M
    BY DEF M
  <1>10. StoreInv' /\ Kept' = M
    BY <1>1, <1>2, <1>3, <1>4, <1>5, <1>6, <1>7, <1>9, LoadKeeps
  <1>11. QED
    BY <1>10 DEF M

\* A restore from the saved snapshot and the log keeps the invariant.
LEMMA RestoreKeeps ==
    ASSUME NoopsAtTip, StoreInv, Restore
    PROVE  /\ StoreInv'
           /\ loaded' \in BOOLEAN
           /\ loaded' => Readable /\ Kept' \ Noops(World) = LogIds(log) \ Noops(World)
  <1> DEFINE T == Noops(World)
             linesIf(read) == IF read THEN log.lines ELSE <<>>
  <1>1. PICK s \in saved, read \in BOOLEAN :
            LET result == Restored(s, linesIf(read))[Len(linesIf(read))]
            IN  /\ read => Readable
                /\ result.count <= MaxCount
                /\ kernel' = result.kernel
                /\ counters' = [counters EXCEPT !.snapshot_seq = s.seq, !.event_count = result.count]
                /\ loaded' = read
                /\ UNCHANGED <<setup, log, saved, cache>>
    BY DEF Restore
  <1> DEFINE lines == linesIf(read)
  <1> DEFINE result == Restored(s, lines)[Len(lines)]
  <1>2. PICK K \in SUBSET Keys(World) :
            /\ SnapshotOf(K, s) /\ Bald(setup.config, K) /\ InLog(K, log)
            /\ s.seq \in 0 .. MaxSnapshots /\ s.source \in 0 .. MaxCount
            /\ Cardinality(K \ {Root}) <= s.source
    BY DEF StoreInv, SavedInv, SnapshotOK
  <1>3. History(K) /\ s.source \in Nat
    BY <1>2, BoundsAssumption DEF SnapshotOf
  <1>4. lines \in Seq(Catalog \union {Garbage}) /\ ParentsFirst(lines) /\ Len(lines) \in 0 .. Len(lines)
    BY <1>1, ReadableLog DEF ParentsFirst
  <1>5. kernel = [dag |-> kernel.dag, config |-> kernel.config] /\ kernel.config \in {"default", setup.config}
    <2>1. kernel = [dag |-> Held(Kept), config |-> kernel.config] /\ kernel.config \in {"default", setup.config}
      BY DEF StoreInv, KernelInv
    <2>2. kernel.dag = Held(Kept)
      BY <2>1
    <2>3. QED
      BY <2>1, <2>2
  <1> HIDE DEF result
  <1>6. Underway(K, kernel.config, lines, Len(lines), result)
    <2>1. Cardinality(K \ {GenesisEvent.id}) <= s.source
      BY <1>2 DEF Root
    <2> HIDE DEF lines
    <2>2. QED
      BY <1>2, <1>3, <1>4, <1>5, <2>1, RestoreIsUnderway DEF result
  <1> DEFINE B == K \union IdsTo(lines, Len(lines))
  <1>7. PICK M :
            /\ History(M)
            /\ result = [kernel |-> [dag |-> Held(M), config |-> kernel.config], count |-> result.count]
            /\ B \ T \subseteq M /\ M \subseteq B
            /\ K \intersect T = {} /\ kernel.config = "default" => M \intersect T = {}
            /\ result.count \in Nat
            /\ Cardinality(B \ {Root}) <= result.count
    BY <1>6 DEF Underway, Root
  <1>8. (read => B = K \union LogIds(log)) /\ (~read => B = K)
    BY <1>3 DEF LogIds, IdsTo, History, Root
  <1>9. IsFiniteSet(B)
    <2>1. IsFiniteSet(IdsTo(lines, Len(lines)))
      BY <1>4, LinesAreHistory DEF History
    <2>2. QED
      BY <1>3, <2>1, FS_Union DEF History
  <1> HIDE DEF B, lines
  <1>10. /\ kernel' = [dag |-> Held(M), config |-> kernel.config]
         /\ result.count \in 0 .. MaxCount
         /\ loaded' = read /\ (read => Readable)
         /\ UNCHANGED <<setup, log, saved, cache>>
         /\ counters' = [counters EXCEPT !.snapshot_seq = s.seq, !.event_count = result.count]
    BY <1>1, <1>7, BoundsAssumption DEF result, lines
  <1>11. counters' = [event_count |-> result.count, since |-> counters.since, snapshot_seq |-> s.seq]
    <2>1. counters \in [event_count : 0 .. MaxCount, since : 0 .. MaxCount, snapshot_seq : 0 .. MaxSnapshots]
      BY DEF StoreInv, Typed
    <2>2. counters' \in [event_count : {result.count}, since : {counters.since}, snapshot_seq : {s.seq}]
      BY <1>10, <2>1
    <2>3. QED
      BY <2>2
  <1>12. Bald(setup.config, M) /\ InLog(M, log)
    <2>1. Bald(setup.config, M)
      BY <1>2, <1>5, <1>7 DEF Bald
    <2>2. InLog(M, log)
      <3>1. CASE read
        BY <1>2, <1>7, <1>8, <1>10, <3>1 DEF InLog, Readable
      <3>2. CASE ~read
        BY <1>2, <1>7, <1>8, <3>2 DEF InLog
      <3>3. QED
        BY <3>1, <3>2
    <2>3. QED
      BY <2>1, <2>2
  <1>13. Cardinality(M \ {Root}) <= result.count
    <2>1. IsFiniteSet(B \ {Root}) /\ M \ {Root} \subseteq B \ {Root}
      BY <1>7, <1>9, FS_Subset
    <2>2. /\ Cardinality(M \ {Root}) <= Cardinality(B \ {Root})
          /\ Cardinality(M \ {Root}) \in Nat /\ Cardinality(B \ {Root}) \in Nat
      BY <2>1, FS_Subset, FS_CardinalityType
    <2>3. QED
      BY <1>7, <2>2
  <1>14. ASSUME read
         PROVE  /\ LogIds(log) \ T \subseteq M
                /\ M \ T = LogIds(log) \ T
                /\ Cardinality(LogIds(log) \ {Root}) <= result.count
    <2>1. K \subseteq LogIds(log)
      BY <1>2, <1>10, <1>14 DEF InLog, Readable
    <2>2. B = LogIds(log)
      BY <1>8, <1>14, <2>1
    <2>3. QED
      BY <1>7, <2>2
  <1>15. StoreInv' /\ Kept' = M
    <2>1. read => LogIds(log) \ Noops(World) \subseteq M /\ Cardinality(LogIds(log) \ {Root}) <= result.count
      BY <1>14
    <2>2. QED
      BY <1>2, <1>5, <1>7, <1>10, <1>11, <1>12, <1>13, <2>1, LoadKeeps
  <1>16. QED
    BY <1>10, <1>14, <1>15

\* A cached answer is the answer for the history it was given for.
LEMMA AskKeeps ==
    ASSUME NoopsAtTip, StoreInv, AskKv \/ InvalidateKv \/ UNCHANGED vars
    PROVE  StoreInv' /\ Kept' = Kept
  <1>1. /\ setup' = setup /\ kernel' = kernel /\ log' = log /\ counters' = counters
        /\ saved' = saved /\ loaded' = loaded
    BY DEF AskKv, InvalidateKv, vars
  <1>2. Kept' = Kept
    BY <1>1 DEF Kept
  <1>3. Typed' /\ LogInv' /\ KernelInv' /\ LoadedInv' /\ CountInv' /\ SavedInv'
    BY <1>1, <1>2 DEF StoreInv, Typed, LogInv, KernelInv, LoadedInv, CountInv, SavedInv, Readable
  <1>4. CacheInv'
    <2>1. SUFFICES ASSUME setup.config = "default" PROVE CacheOK(Kept, log, loaded, cache')
      BY <1>1, <1>2 DEF CacheInv
    <2>2. CacheOK(Kept, log, loaded, cache)
      BY <2>1 DEF StoreInv, CacheInv
    <2>3. \/ cache' = cache \/ cache' = NoCache
          \/ cache' = [size |-> Cardinality(Keys(kernel.dag)), state |-> KvState(kernel.dag)]
      BY DEF AskKv, InvalidateKv, vars, CachedGet
    <2>4. CASE cache' = [size |-> Cardinality(Keys(kernel.dag)), state |-> KvState(kernel.dag)]
      <3>1. /\ kernel.dag = Held(Kept) /\ Kept = Keys(kernel.dag)
            /\ History(Kept) /\ Kept \intersect Noops(World) = {} /\ InLog(Kept, log)
        BY <2>1 DEF StoreInv, KernelInv, Bald, Kept
      <3>2. Kept \in SUBSET Keys(World)
        BY <3>1 DEF History
      <3>3. cache' = [size |-> Cardinality(Kept), state |-> KvState(Held(Kept))]
        BY <2>4, <3>1
      <3>4. QED
        BY <3>1, <3>2, <3>3 DEF CacheOK
    <2>5. QED
      BY <2>2, <2>3, <2>4 DEF CacheOK
  <1>5. QED
    BY <1>2, <1>3, <1>4 DEF StoreInv

\* A process that is started on an empty store satisfies the invariant.
LEMMA InitKeeps ==
    ASSUME NoopsAtTip, Init
    PROVE  StoreInv
  <1>1. /\ setup \in [store : {"memory", "file"}, config : Configs, interval : Intervals]
        /\ kernel = NewKernel(setup.config) /\ log = [lines |-> <<>>, open |-> FALSE]
        /\ counters = [event_count |-> 0, since |-> 0, snapshot_seq |-> 0]
        /\ saved = {} /\ loaded = TRUE /\ cache = NoCache
    BY DEF Init
  <1>2. History({Root}) /\ kernel = [dag |-> Held({Root}), config |-> setup.config]
    BY <1>1, HeldNew DEF Root
  <1>3. Kept = {Root} /\ kernel.config = setup.config
    BY <1>2, HeldIsPart DEF Kept
  <1>4. LogIds(log) = {Root}
    BY <1>1 DEF LogIds, IdsTo, Root
  <1>5. Typed
    <2>1. setup.config \in Configs /\ setup.interval \in Nat
      BY <1>1, SetupAssumption
    <2>2. /\ 0 \in 0 .. MaxCount /\ 0 \in 0 .. MaxSnapshots /\ counters.since = 0
          /\ counters \in [event_count : 0 .. MaxCount, since : 0 .. MaxCount, snapshot_seq : 0 .. MaxSnapshots]
      BY <1>1, BoundsAssumption
    <2>3. QED
      BY <1>1, <2>1, <2>2 DEF Typed
  <1>6. LogInv
    <2>1. LogOK(log) /\ Len(log.lines) = 0
      BY <1>1 DEF LogOK
    <2>2. ParentsFirst(log.lines)
      BY <1>1 DEF ParentsFirst
    <2>3. QED
      BY <2>1, <2>2, BoundsAssumption DEF LogInv
  <1>7. KernelInv
    <2>1. Bald(setup.config, {Root})
      BY WorldIsCatalog DEF Bald, Root
    <2>2. QED
      BY <1>2, <1>3, <1>4, <2>1 DEF KernelInv, InLog
  <1>8. LoadedInv
    BY <1>3, <1>4 DEF LoadedInv
  <1>9. CountInv
    <2>1. Cardinality({Root} \ {Root}) = 0
      BY FS_EmptySet
    <2>2. counters.event_count = 0
      BY <1>1
    <2>3. QED
      BY <1>3, <1>4, <2>1, <2>2 DEF CountInv
  <1>10. SavedInv /\ CacheInv
    BY <1>1 DEF SavedInv, CacheInv, CacheOK
  <1>11. QED
    BY <1>5, <1>6, <1>7, <1>8, <1>9, <1>10 DEF StoreInv

\* Every step keeps the invariant.
LEMMA StoreStepKeeps ==
    ASSUME NoopsAtTip, StoreInv, [Next]_vars
    PROVE  StoreInv'
  <1>1. CASE \E e \in Catalog : AppendLogged(e) \/ AppendFailing(e) \/ CrashInAppend(e)
    BY <1>1, AppendKeeps, FailingKeeps, CrashKeeps
  <1>2. CASE TakeSnapshot \/ Replay \/ Restore \/ Restart
    BY <1>2, TakeKeeps, ReplayKeeps, RestoreKeeps, RestartKeeps
  <1>3. CASE AskKv \/ InvalidateKv \/ UNCHANGED vars
    BY <1>3, AskKeeps
  <1>4. QED
    BY <1>1, <1>2, <1>3 DEF Next

\* The invariant of the store.
LEMMA StoreInvariant ==
    ASSUME NoopsAtTip
    PROVE  Spec => []StoreInv
  <1>1. Init => StoreInv
    BY InitKeeps
  <1>2. StoreInv /\ [Next]_vars => StoreInv'
    BY StoreStepKeeps
  <1>3. QED
    BY <1>1, <1>2, PTL DEF Spec

----------------------------------------------------------------------------
\* The types, the interval and the one snapshot, for every catalog in which nothing depends
\* on a noop.
THEOREM StoreTyped ==
    ASSUME NoopsAtTip
    PROVE  Spec => []StoreTypeOK
  <1>1. ASSUME StoreInv PROVE StoreTypeOK
    <2>1. LogTypeOK
      BY <1>1 DEF StoreInv, LogInv, LogOK, LogTypeOK
    <2>2. /\ kernel.dag = Held(Kept) /\ kernel.config \in {"default", setup.config}
          /\ History(Kept) /\ Bald(setup.config, Kept)
      <3>1. kernel = [dag |-> Held(Kept), config |-> kernel.config]
        BY <1>1 DEF StoreInv, KernelInv
      <3>2. kernel.dag = Held(Kept)
        BY <3>1
      <3>3. QED
        BY <1>1, <3>2 DEF StoreInv, KernelInv
    <2>3. Events(kernel.dag) = {World.events[i] : i \in Kept} /\ Noops(kernel.dag) = Kept \intersect Noops(World)
      BY <2>2, HeldIsPart
    <2>4. Events(kernel.dag) \subseteq Catalog \union {GenesisEvent}
      BY <2>2, <2>3, WorldIsCatalog DEF All, History
    <2>5. setup.config = "default" => Noops(kernel.dag) = {}
      BY <2>2, <2>3 DEF Bald
    <2>6. Cardinality(saved) <= 1
      <3>1. \A s, t \in saved : s = t
        BY <1>1 DEF StoreInv, SavedInv
      <3>2. CASE saved = {}
        <4>1. Cardinality(saved) = 0
          BY <3>2, FS_EmptySet
        <4>2. QED
          BY <4>1
      <3>3. CASE saved # {}
        <4>1. PICK s \in saved : TRUE
          BY <3>3
        <4>2. saved = {s}
          BY <3>1, <4>1
        <4>3. Cardinality(saved) = 1
          BY <4>2, FS_Singleton
        <4>4. QED
          BY <4>3
      <3>4. QED
        BY <3>2, <3>3
    <2>7. QED
      BY <1>1, <2>1, <2>2, <2>4, <2>5, <2>6 DEF StoreInv, Typed, StoreTypeOK
  <1>2. QED
    BY <1>1, StoreInvariant, PTL

\* A snapshot never runs ahead of the log.
THEOREM StoreLogsFirst ==
    ASSUME NoopsAtTip
    PROVE  Spec => []SnapshotBehindLog
  <1>1. ASSUME StoreInv PROVE SnapshotBehindLog
    <2>1. SUFFICES ASSUME Readable, NEW s \in saved
                   PROVE  s.events \subseteq Logged(log) \union {GenesisEvent}
      BY DEF SnapshotBehindLog
    <2>2. PICK K \in SUBSET Keys(World) : SnapshotOf(K, s) /\ InLog(K, log)
      BY <1>1 DEF StoreInv, SavedInv, SnapshotOK
    <2>3. s.events = {World.events[i] : i \in K} /\ K \subseteq LogIds(log)
      BY <2>1, <2>2 DEF SnapshotOf, InLog, Readable
    <2>4. Logged(log) \union {GenesisEvent} = {World.events[i] : i \in LogIds(log)}
      BY <1>1, <2>1, LoggedAreIds DEF StoreInv, LogInv, LogOK, Readable
    <2>5. QED
      BY <2>3, <2>4
  <1>2. QED
    BY <1>1, StoreInvariant, PTL

\* event_count never falls behind the log, by whatever path the kernel was loaded.
THEOREM StoreCounts ==
    ASSUME NoopsAtTip
    PROVE  Spec => []CountCoversLog
  <1>1. ASSUME StoreInv PROVE CountCoversLog
    <2>1. SUFFICES ASSUME loaded, Readable
                   PROVE  counters.event_count >= Cardinality(Logged(log))
      BY DEF CountCoversLog
    <2> DEFINE X == LogIds(log) \ {Root}
               L == Logged(log)
               f == [i \in X |-> World.events[i]]
    <2>2. /\ L \subseteq Catalog
          /\ LogIds(log) = {e.id : e \in L \union {GenesisEvent}}
          /\ History(LogIds(log))
      BY <1>1, <2>1, LoggedAreIds, ReadableLog DEF Readable
    <2>3. \A e \in L : e.id \in X /\ World.events[e.id] = e
      BY <2>2, WorldIsCatalog DEF All, Root
    <2>4. \A i \in X : World.events[i] \in L
      BY <2>2, <2>3 DEF Root
    <2>5. f \in Surjection(X, L)
      BY <2>3, <2>4 DEF Surjection
    <2>6. IsFiniteSet(X)
      BY <2>2, FS_Subset DEF History
    <2>7. Cardinality(X) <= counters.event_count
      BY <1>1, <2>1 DEF StoreInv, CountInv
    <2>8. counters.event_count \in Nat
      <3>1. counters \in [event_count : 0 .. MaxCount, since : 0 .. MaxCount, snapshot_seq : 0 .. MaxSnapshots]
        BY <1>1 DEF StoreInv, Typed
      <3>2. QED
        BY <3>1, BoundsAssumption
    <2> HIDE DEF X, L, f
    <2>9. IsFiniteSet(L) /\ Cardinality(L) <= Cardinality(X)
      BY <2>5, <2>6, FS_Surjection
    <2>10. Cardinality(X) \in Nat /\ Cardinality(L) \in Nat
      BY <2>6, <2>9, FS_CardinalityType
    <2>11. QED
      BY <2>7, <2>8, <2>9, <2>10 DEF L
  <1>2. QED
    BY <1>1, StoreInvariant, PTL

\* A loaded kernel is determined by the log, whatever appends, failures, crashes, replays and
\* restores lie behind it.
THEOREM StoreIsDetermined ==
    ASSUME NoopsAtTip
    PROVE  Spec => []LogDeterminesKernel
  <1>1. ASSUME StoreInv PROVE LogDeterminesKernel
    <2> DEFINE T == Noops(World)
               W == InsertAll(EmptyDag, Logged(log) \union {GenesisEvent})
    <2>1. SUFFICES ASSUME loaded, Readable
                   PROVE  Reduce(kernel.dag) = Reduce(W)
      BY DEF LogDeterminesKernel, Same
    <2>2. /\ History(LogIds(log))
          /\ Logged(log) \union {GenesisEvent} = {World.events[i] : i \in LogIds(log)}
      BY <1>1, <2>1, LoggedAreIds, ReadableLog DEF Readable
    <2>3. W = Held(LogIds(log))
      BY <2>2, HeldAll
    <2>4. Reduce(W) = Held(LogIds(log) \ T)
      BY <2>2, <2>3, HeldReduce
    <2>5. History(Kept) /\ InLog(Kept, log) /\ LogIds(log) \ T \subseteq Kept
      BY <1>1, <2>1 DEF StoreInv, KernelInv, LoadedInv
    <2>6. kernel.dag = Held(Kept)
      <3>1. kernel = [dag |-> Held(Kept), config |-> kernel.config]
        BY <1>1 DEF StoreInv, KernelInv
      <3>2. QED
        BY <3>1
    <2>7. Reduce(kernel.dag) = Held(Kept \ T)
      BY <2>5, <2>6, HeldReduce
    <2>8. Kept \ T = LogIds(log) \ T
      BY <2>1, <2>5 DEF InLog, Readable
    <2>9. QED
      BY <2>4, <2>7, <2>8
  <1>2. QED
    BY <1>1, StoreInvariant, PTL

\* A cached answer that is still given is the answer a fresh computation would give.
THEOREM StoreCacheFresh ==
    ASSUME NoopsAtTip
    PROVE  Spec => []CachedFresh
  <1>1. ASSUME StoreInv PROVE CachedFresh
    <2>1. SUFFICES ASSUME loaded, setup.config = "default"
                   PROVE  CachedGet(cache, kernel.dag).state = KvState(kernel.dag)
      BY DEF CachedFresh
    <2>2. CASE cache.size # Cardinality(Keys(kernel.dag))
      BY <2>2 DEF CachedGet
    <2>3. CASE cache.size = Cardinality(Keys(kernel.dag))
      <3>1. kernel.dag = Held(Kept) /\ History(Kept)
        <4>1. kernel = [dag |-> Held(Kept), config |-> kernel.config] /\ History(Kept)
          BY <1>1 DEF StoreInv, KernelInv
        <4>2. QED
          BY <4>1
      <3>2. cache # NoCache
        <4>1. Cardinality(Kept) # 0
          BY <3>1, FS_EmptySet DEF History
        <4>2. QED
          BY <2>3, <4>1 DEF NoCache, Kept
      <3>3. PICK K \in SUBSET Keys(World) :
                /\ cache = [size |-> Cardinality(K), state |-> KvState(Held(K))]
                /\ K \subseteq Kept
        BY <1>1, <2>1, <3>2 DEF StoreInv, CacheInv, CacheOK
      <3>4. Cardinality(K) = Cardinality(Kept)
        BY <2>3, <3>3 DEF Kept
      <3>5. K = Kept
        BY <3>1, <3>3, <3>4, FS_Subset DEF History
      <3>6. CachedGet(cache, kernel.dag) = cache
        BY <2>3 DEF CachedGet
      <3>7. QED
        BY <3>1, <3>3, <3>5, <3>6
    <2>4. QED
      BY <2>2, <2>3
  <1>2. QED
    BY <1>1, StoreInvariant, PTL

----------------------------------------------------------------------------
\* What the abstract history sees of this state.
Stored == IF Readable THEN RealIds(Logged(log) \union {GenesisEvent}) ELSE {}

\* And of its kernel.
Seen == IF loaded THEN RealIds(Events(kernel.dag)) ELSE {}

\* The ids that stay are the ids without the noops.
LEMMA RealOfLog ==
    ASSUME NEW l, LogOK(l), Garbage \notin Logged(l)
    PROVE  RealIds(Logged(l) \union {GenesisEvent}) = LogIds(l) \ Noops(World)
  <1> DEFINE E == Logged(l) \union {GenesisEvent}
  <1>1. E \subseteq All /\ LogIds(l) = {e.id : e \in E}
    BY LoggedAreIds DEF LogOK, All
  <1>2. \A e \in E : e # Garbage /\ (IsNoop(e) <=> e.id \in Noops(World))
    BY <1>1, WorldIsCatalog, SetupAssumption DEF Noops, All
  <1> HIDE DEF E
  <1>3. QED
    BY <1>1, <1>2 DEF RealIds, E

\* The same for what a kernel has.
LEMMA RealOfKernel ==
    ASSUME NoopsAtTip, NEW K, History(K)
    PROVE  RealIds(Events(Held(K))) = K \ Noops(World)
  <1> DEFINE E == Events(Held(K))
  <1>1. E = {World.events[i] : i \in K}
    BY HeldIsPart
  <1>2. E \subseteq All /\ K = {e.id : e \in E}
    BY <1>1, WorldIsCatalog DEF History
  <1>3. \A e \in E : e # Garbage /\ (IsNoop(e) <=> e.id \in Noops(World))
    BY <1>2, WorldIsCatalog, SetupAssumption DEF Noops, All
  <1> HIDE DEF E
  <1>4. QED
    BY <1>2, <1>3 DEF RealIds, E

\* An event of the catalog stays unless it is a noop.
LEMMA RealOfCatalog ==
    ASSUME NEW e \in Catalog
    PROVE  e.id \in RealIds(Catalog) \/ e.id \in Noops(World)
  <1>1. e # Garbage /\ (IsNoop(e) <=> e.id \in Noops(World))
    BY WorldIsCatalog, SetupAssumption DEF Noops, All
  <1>2. QED
    BY <1>1 DEF RealIds

\* Both in terms of ids.
LEMMA Mapped ==
    ASSUME NoopsAtTip, StoreInv
    PROVE  /\ Stored = IF Readable THEN LogIds(log) \ Noops(World) ELSE {}
           /\ Seen = IF loaded THEN Kept \ Noops(World) ELSE {}
  <1>1. kernel = [dag |-> Held(Kept), config |-> kernel.config] /\ History(Kept) /\ LogOK(log)
    BY DEF StoreInv, KernelInv, LogInv
  <1>2. kernel.dag = Held(Kept)
    BY <1>1
  <1>3. QED
    BY <1>1, <1>2, RealOfLog, RealOfKernel DEF Stored, Seen, Readable

\* The same after a step.
LEMMA MappedNext ==
    ASSUME NoopsAtTip, StoreInv'
    PROVE  /\ Stored' = IF Readable' THEN LogIds(log') \ Noops(World) ELSE {}
           /\ Seen' = IF loaded' THEN Kept' \ Noops(World) ELSE {}
  <1>1. kernel' = [dag |-> Held(Kept'), config |-> kernel'.config] /\ History(Kept') /\ LogOK(log')
    BY DEF StoreInv, KernelInv, LogInv
  <1>2. kernel'.dag = Held(Kept')
    BY <1>1
  <1>3. QED
    BY <1>1, <1>2, RealOfLog, RealOfKernel DEF Stored, Seen, Readable

\* What a readable log and a loaded kernel are to the abstract history: whole, and not empty.
LEMMA WholeOrDown ==
    ASSUME NoopsAtTip, StoreInv
    PROVE  /\ Readable => Root \in Stored
           /\ ~Readable => Stored = {}
           /\ loaded /\ Readable => Seen = Stored
           /\ loaded => Root \in Seen
  <1>1. Root \notin Noops(World) /\ Root \in LogIds(log) /\ Root \in Kept
    BY WorldIsCatalog DEF LogIds, IdsTo, Root, StoreInv, KernelInv, History
  <1>2. loaded /\ Readable => Kept \ Noops(World) = LogIds(log) \ Noops(World)
    BY DEF StoreInv, KernelInv, LoadedInv, InLog, Readable
  <1>3. QED
    BY <1>1, <1>2, Mapped

\* A write that nobody sees: the event is stored, or not, or the log is spoilt.
LEMMA UnseenWrite ==
    ASSUME NoopsAtTip, StoreInv, StoreInv', NEW e \in Catalog, WroteTo(log, e, log'), loaded' = FALSE
    PROVE  Abstract!Next
  <1>1. Seen' = {}
    BY MappedNext
  <1>2. CASE ~Readable'
    <2>1. Stored' = {}
      BY <1>2, MappedNext
    <2>2. Abstract!Spoil
      BY <1>1, <2>1 DEF Abstract!Spoil, Stored, Seen
    <2>3. QED
      BY <2>2 DEF Abstract!Next
  <1>3. CASE Readable'
    <2>1. LogOK(log) /\ Garbage \notin Logged(log')
      BY <1>3 DEF StoreInv, LogInv, Readable
    <2>2. Readable /\ (LogIds(log') = LogIds(log) \/ LogIds(log') = LogIds(log) \union {e.id})
      BY <2>1, WroteIds DEF Readable
    <2>3. Stored # {} /\ Stored = LogIds(log) \ Noops(World) /\ Stored' = LogIds(log') \ Noops(World)
      BY <1>3, <2>2, WholeOrDown, Mapped, MappedNext
    <2>4. CASE Stored' = Stored
      <3>1. Abstract!Fail
        BY <1>1, <2>4 DEF Abstract!Fail, Stored, Seen
      <3>2. QED
        BY <3>1 DEF Abstract!Next
    <2>5. CASE Stored' # Stored
      <3>1. Stored' = Stored \union {e.id} /\ e.id \in RealIds(Catalog)
        BY <2>2, <2>3, <2>5, RealOfCatalog
      <3>2. Abstract!Store(e.id)
        BY <1>1, <2>3, <3>1 DEF Abstract!Store, Stored, Seen
      <3>3. QED
        BY <3>1, <3>2 DEF Abstract!Next
    <2>6. QED
      BY <2>4, <2>5
  <1>4. QED
    BY <1>2, <1>3

\* An append that returns stores an event and shows it to who had the whole history.
LEMMA SeenWrite ==
    ASSUME NoopsAtTip, StoreInv, StoreInv', NEW e \in Catalog, AppendLogged(e)
    PROVE  Abstract!Next \/ (Stored' = Stored /\ Seen' = Seen)
  <1>1. /\ WroteTo(log, e, log')
        /\ Garbage \notin Logged(log') => LogIds(log') = LogIds(log) \union {e.id}
        /\ (Kept \union {e.id}) \ Noops(World) \subseteq Kept'
        /\ Kept' \subseteq Kept \union {e.id}
        /\ loaded' = loaded
    BY AppendEffect DEF AppendLogged
  <1>2. Kept' \ Noops(World) = (Kept \union {e.id}) \ Noops(World)
    BY <1>1
  <1>3. e.id \in RealIds(Catalog) \/ e.id \in Noops(World)
    BY RealOfCatalog
  <1>4. CASE ~Readable'
    <2>1. Stored' = {}
      BY <1>4, MappedNext
    <2>2. CASE ~loaded
      <3>1. Seen' = {}
        BY <1>1, <2>2, MappedNext
      <3>2. Abstract!Spoil
        BY <2>1, <3>1 DEF Abstract!Spoil, Stored, Seen
      <3>3. QED
        BY <3>2 DEF Abstract!Next
    <2>3. CASE loaded
      <3>1. Seen = Kept \ Noops(World) /\ Seen' = Kept' \ Noops(World) /\ Seen # {}
        BY <1>1, <2>3, Mapped, MappedNext, WholeOrDown
      <3>2. Seen' \in {Seen \union X : X \in SUBSET RealIds(Catalog)}
        <4>1. CASE e.id \in Noops(World)
          <5>1. Seen' = Seen \union {} /\ {} \in SUBSET RealIds(Catalog)
            BY <1>2, <3>1, <4>1
          <5>2. QED
            BY <5>1
        <4>2. CASE e.id \notin Noops(World)
          <5>1. Seen' = Seen \union {e.id} /\ {e.id} \in SUBSET RealIds(Catalog)
            BY <1>2, <1>3, <3>1, <4>2
          <5>2. QED
            BY <5>1
        <4>3. QED
          BY <4>1, <4>2
      <3>3. Abstract!Spoil
        BY <2>1, <3>1, <3>2 DEF Abstract!Spoil, Stored, Seen
      <3>4. QED
        BY <3>3 DEF Abstract!Next
    <2>4. QED
      BY <2>2, <2>3
  <1>5. CASE Readable'
    <2>1. Readable /\ LogIds(log') = LogIds(log) \union {e.id}
      BY <1>1, <1>5 DEF Readable, WroteTo
    <2>2. /\ Stored # {} /\ Stored = LogIds(log) \ Noops(World)
          /\ Stored' = (LogIds(log) \union {e.id}) \ Noops(World)
          /\ Seen = IF loaded THEN Stored ELSE {}
      BY <1>5, <2>1, WholeOrDown, Mapped, MappedNext
    <2>3. Seen' = IF loaded THEN Stored' ELSE {}
      BY <1>1, <1>2, <2>1, <2>2, Mapped, MappedNext
    <2>4. CASE e.id \in Noops(World)
      BY <2>2, <2>3, <2>4
    <2>5. CASE e.id \notin Noops(World)
      <3>1. Stored' = Stored \union {e.id} /\ e.id \in RealIds(Catalog)
        BY <1>3, <2>2, <2>5
      <3>2. Seen' \in IF Seen = {} THEN {{}} ELSE {Stored', {}}
        BY <2>2, <2>3
      <3>3. Abstract!Store(e.id)
        BY <2>2, <3>1, <3>2 DEF Abstract!Store, Stored, Seen
      <3>4. QED
        BY <3>1, <3>3 DEF Abstract!Next
    <2>6. QED
      BY <2>4, <2>5
  <1>6. QED
    BY <1>4, <1>5

\* A step that leaves the log and whether it has been loaded; or loads it; or loses the view.
LEMMA ViewSteps ==
    ASSUME NoopsAtTip, StoreInv, StoreInv', log' = log
    PROVE  /\ loaded' = FALSE => Abstract!Next
           /\ loaded' = TRUE /\ Readable => Abstract!Next
           /\ loaded' = loaded /\ Kept' = Kept => Stored' = Stored /\ Seen' = Seen
  <1>1. Readable' = Readable
    BY DEF Readable
  <1>2. Stored' = Stored
    BY <1>1, Mapped, MappedNext
  <1>3. ASSUME loaded' = FALSE PROVE Abstract!Next
    <2>1. Seen' = {}
      BY <1>3, MappedNext
    <2>2. Abstract!Fail
      BY <1>2, <2>1 DEF Abstract!Fail, Stored, Seen
    <2>3. QED
      BY <2>2 DEF Abstract!Next
  <1>4. ASSUME loaded' = TRUE, Readable PROVE Abstract!Next
    <2>1. Kept' \ Noops(World) = LogIds(log) \ Noops(World)
      BY <1>1, <1>4 DEF StoreInv, KernelInv, LoadedInv, InLog, Readable
    <2>2. Seen' = Stored /\ Stored # {}
      BY <1>4, <2>1, Mapped, MappedNext, WholeOrDown
    <2>3. Abstract!Recover
      BY <1>2, <2>2 DEF Abstract!Recover, Stored, Seen
    <2>4. QED
      BY <2>3 DEF Abstract!Next
  <1>5. ASSUME loaded' = loaded, Kept' = Kept PROVE Seen' = Seen
    BY <1>5, Mapped, MappedNext
  <1>6. QED
    BY <1>2, <1>3, <1>4, <1>5

\* Every step of the store is a step of the abstract history or changes nothing there.
LEMMA StoreSteps ==
    ASSUME NoopsAtTip, StoreInv, StoreInv', [Next]_vars
    PROVE  Abstract!Next \/ (Stored' = Stored /\ Seen' = Seen)
  <1>1. ASSUME NEW e \in Catalog, AppendLogged(e)
        PROVE  Abstract!Next \/ (Stored' = Stored /\ Seen' = Seen)
    BY <1>1, SeenWrite
  <1>2. ASSUME NEW e \in Catalog, AppendFailing(e)
        PROVE  Abstract!Next \/ (Stored' = Stored /\ Seen' = Seen)
    <2>1. WroteTo(log, e, log') /\ kernel' = kernel /\ loaded' = (loaded /\ log' = log)
      BY <1>2, FailingKeeps DEF AppendFailing
    <2>2. CASE loaded' = FALSE
      BY <2>1, <2>2, UnseenWrite
    <2>3. CASE loaded' # FALSE
      <3>1. log' = log /\ loaded' = loaded /\ Kept' = Kept
        BY <2>1, <2>3 DEF Kept, StoreInv, Typed
      <3>2. QED
        BY <3>1, ViewSteps
    <2>4. QED
      BY <2>2, <2>3
  <1>3. ASSUME NEW e \in Catalog, CrashInAppend(e)
        PROVE  Abstract!Next \/ (Stored' = Stored /\ Seen' = Seen)
    BY <1>3, CrashKeeps, UnseenWrite DEF CrashInAppend
  <1>4. CASE Restart
    BY <1>4, ViewSteps DEF Restart
  <1>5. CASE Replay
    BY <1>5, ViewSteps DEF Replay
  <1>6. CASE Restore
    <2>1. log' = log /\ ((loaded' = TRUE /\ Readable) \/ loaded' = FALSE)
      <3>1. loaded' \in BOOLEAN /\ (loaded' => Readable)
        BY <1>6, RestoreKeeps
      <3>2. QED
        BY <1>6, <3>1 DEF Restore
    <2>2. QED
      BY <2>1, ViewSteps
  <1>7. CASE TakeSnapshot
    <2>1. log' = log /\ loaded' = loaded /\ Kept' = Kept
      BY <1>7, TakeKeeps DEF TakeSnapshot
    <2>2. QED
      BY <2>1, ViewSteps
  <1>8. CASE AskKv \/ InvalidateKv \/ UNCHANGED vars
    <2>1. log' = log /\ loaded' = loaded /\ Kept' = Kept
      BY <1>8, AskKeeps DEF AskKv, InvalidateKv, vars
    <2>2. QED
      BY <2>1, ViewSteps
  <1>9. QED
    BY <1>1, <1>2, <1>3, <1>4, <1>5, <1>6, <1>7, <1>8 DEF Next

\* Through crashes, restarts and cut lines a history comes back whole or not at all.
THEOREM StoreRefines ==
    ASSUME NoopsAtTip
    PROVE  Spec => RefinesDurable
  <1>1. Init => Abstract!Init
    <2>1. SUFFICES ASSUME Init PROVE Stored = {Root} /\ Seen = {Root}
      BY DEF Abstract!Init, Stored, Seen, Root
    <2>2. StoreInv /\ loaded /\ Readable /\ LogIds(log) = {Root}
      BY <2>1, InitKeeps DEF Init, Readable, Logged, LogIds, IdsTo, Root
    <2>3. Root \in Stored /\ Stored \subseteq {Root} /\ Seen = Stored
      BY <2>2, WholeOrDown, Mapped
    <2>4. QED
      BY <2>3
  <1>2. StoreInv /\ StoreInv' /\ [Next]_vars
            => Abstract!Next \/ (Stored' = Stored /\ Seen' = Seen)
    BY StoreSteps
  <1>3. StoreInv /\ StoreInv' /\ [Next]_vars => [Abstract!Next]_<<Stored, Seen>>
    BY <1>2
  <1>4. QED
    BY <1>1, <1>3, StoreInvariant, PTL DEF Spec, RefinesDurable, Abstract!Spec, Stored, Seen
=============================================================================
