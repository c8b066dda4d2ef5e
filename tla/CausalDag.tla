----------------------------- MODULE CausalDag -----------------------------
(***************************************************************************)
(* The operations of CausalDag (src/src/dag.rs) as operators on a value    *)
(*                                                                         *)
(*   d.events          key -> event          (HashMap<EventId, Event>)     *)
(*   d.children        the reverse index, as a set of <<parent, child>>    *)
(*                     edges: an absent entry and an empty one behave the  *)
(*                     same for every reader of the map                    *)
(*   d.ancestry_cache  id -> memoized ancestor set                         *)
(*                                                                         *)
(* The key of an event and its `id` field are kept apart, as in the code:  *)
(* they are equal on insertion, and `Remove` changes the field only.       *)
(*                                                                         *)
(* Graph traversals (the breadth-first search of `ancestors`, the worklist *)
(* of `compact_tombstones`) are given by what they compute: the least set  *)
(* that holds their start and is closed under following parent pointers.   *)
(***************************************************************************)
EXTENDS Event

EmptyDag == [events |-> <<>>, children |-> {}, ancestry_cache |-> <<>>]

Keys(d) == DOMAIN d.events

Events(d) == {d.events[i] : i \in Keys(d)}

AllParents(d) == UNION {d.events[i].parents : i \in Keys(d)}

\* The <<parent, child>> edges that an event map states through its parent sets.
EdgesOf(events) ==
    UNION {{<<p, i>> : p \in events[i].parents} : i \in DOMAIN events}

----------------------------------------------------------------------------
\* insert: false (no change) if the id is already a key.
Insert(d, e) ==
    IF e.id \in Keys(d)
    THEN d
    ELSE [events         |-> [i \in Keys(d) \union {e.id} |->
                                IF i = e.id THEN e ELSE d.events[i]],
          children       |-> d.children \union {<<p, e.id>> : p \in e.parents},
          ancestry_cache |-> d.ancestry_cache]

\* remove: children of `id` inherit its parents and get a fresh `id` field; the
\* map keeps them under the key they had.
Remove(d, id) ==
    IF id \notin Keys(d)
    THEN d
    ELSE LET ps   == d.events[id].parents
             kids == {c \in Keys(d) \ {id} : <<id, c>> \in d.children}
         IN  [events |->
                 [i \in Keys(d) \ {id} |->
                    IF i \in kids
                    THEN RecomputeId(WithParents(d.events[i],
                                                 (d.events[i].parents \ {id}) \union ps))
                    ELSE d.events[i]],
              children |->
                 {x \in d.children : /\ x[1] # id
                                     /\ ~(x[1] \in ps /\ x[2] = id)}
                   \union {<<p, c>> : p \in ps,
                                      c \in {x[2] : x \in {y \in d.children : y[1] = id}}},
              ancestry_cache |-> <<>>]

\* A loop of inserts over the events of S.  Each goes in under its own id and an
\* id already present wins, so the order of the loop does not show as long as no
\* two events of S share an id.
InsertAll(d, S) ==
    LET fresh == {e.id : e \in S} \ Keys(d)
        new   == [i \in fresh |-> CHOOSE e \in S : e.id = i]
    IN  [events         |-> [i \in Keys(d) \union fresh |->
                               IF i \in fresh THEN new[i] ELSE d.events[i]],
         children       |-> d.children \union EdgesOf(new),
         ancestry_cache |-> d.ancestry_cache]

\* union_with walks the values of the other map, not its keys.
UnionWith(d, o) == InsertAll(d, Events(o))

----------------------------------------------------------------------------
\* Every id reachable from the set S by following the parent pointers of the
\* members of T, S included: the least superset of S closed under them.
UpClosed(d, T, X) == \A i \in X \intersect T : d.events[i].parents \subseteq X

Universe(d, T, S) == S \union UNION {d.events[i].parents : i \in T}

Through(d, T, S) ==
    {a \in Universe(d, T, S) :
        \A X \in SUBSET Universe(d, T, S) :
            S \subseteq X /\ UpClosed(d, T, X) => a \in X}

\* The breadth-first search of `ancestors`; a missing parent is reported but
\* leads nowhere.
Ancestors(d, id) ==
    IF id \in Keys(d) THEN Through(d, Keys(d), d.events[id].parents) ELSE {}

\* The memo that a call of `ancestors` leaves: an answer once given is kept.
QueryAncestors(d, id) ==
    [d EXCEPT !.ancestry_cache =
        [i \in DOMAIN d.ancestry_cache \union {id} |->
            IF i \in DOMAIN d.ancestry_cache THEN d.ancestry_cache[i]
                                             ELSE Ancestors(d, i)]]

\* a is a causal ancestor of b.
Precedes(d, a, b) == a \in Ancestors(d, b)

MissingAncestors(d) == AllParents(d) \ Keys(d)

IsCausallyClosed(d) == MissingAncestors(d) = {}

Frontier(d) == {i \in Keys(d) : \A x \in d.children : x[1] # i}

----------------------------------------------------------------------------
\* A variant that expands a tombstone once and does not follow its parents further.
ResolveOneStep(d, T, S) == (S \ T) \union UNION {d.events[i].parents : i \in S \intersect T}

\* The nearest ancestors outside T, walking through members of T only.
Resolve(d, T, S) == Through(d, T, S) \ T

\* compact_tombstones: only direct children of a tombstone are rewritten, their
\* ids stay, and the reverse index is rebuilt from what survives.
CompactTombstones(d, tombstones) ==
    LET T        == tombstones \intersect Keys(d)
        affected == {x[2] : x \in {y \in d.children : y[1] \in T}} \ tombstones
        rewritten ==
            [i \in Keys(d) \ T |->
                IF i \in affected
                THEN WithParents(d.events[i], Resolve(d, T, d.events[i].parents))
                ELSE d.events[i]]
    IN  IF T = {}
        THEN d
        ELSE [events         |-> rewritten,
              children       |-> EdgesOf(rewritten),
              ancestry_cache |-> <<>>]

----------------------------------------------------------------------------
\* Properties of one DAG value that the machines built on it share.

\* The reverse index says exactly what the parent sets say.
ChildrenExact(d) == d.children = EdgesOf(d.events)

\* Every event is stored under its own id field.
KeysMatchIds(d) == \A i \in Keys(d) : d.events[i].id = i

\* Every memoized answer is the answer a fresh search would give.
AncestryCacheSound(d) ==
    \A i \in DOMAIN d.ancestry_cache : d.ancestry_cache[i] = Ancestors(d, i)

\* The tips cover the history: an event created on the frontier has every event
\* of the DAG in its past.
FrontierCovers(d) ==
    \A i \in Keys(d) : \E f \in Frontier(d) : i = f \/ Precedes(d, i, f)
=============================================================================
