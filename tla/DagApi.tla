------------------------------- MODULE DagApi -------------------------------
(***************************************************************************)
(* One CausalDag driven through its public interface: insert, remove,      *)
(* compact_tombstones and ancestors (src/src/dag.rs), called in any order. *)
(***************************************************************************)
EXTENDS TopologicalOrder

CONSTANTS
    Catalog,     \* the events that callers construct, with Event::new
    Removable,   \* the ids that callers pass to remove
    Tombstones,  \* the ids that callers put into a tombstone set
    Queried      \* the ids whose ancestors callers ask for

ASSUME CatalogAssumption ==
    \A e \in Catalog : /\ e.payload \in Payload
                       /\ e = NewEvent(e.payload, e.parents)
                       /\ IsFiniteSet(e.parents)

\* No hash is among the hashes it is made from, so no event that callers construct is
\* an ancestor of itself, whatever they leave out or insert late.
World == InsertAll(EmptyDag, Catalog)

ASSUME AcyclicAssumption == \A e \in Catalog : e.id \notin Ancestors(World, e.id)

VARIABLE dag

Init == dag = EmptyDag

\* A variant that drops the parents that are not there and takes the id of the rest.
InsertEventLinked(e) ==
    dag' = Insert(dag, NewEvent(e.payload, e.parents \intersect Keys(dag)))

\* A variant that forgets to register the event with its parents.
InsertEventUnindexed(e) ==
    dag' = [Insert(dag, e) EXCEPT !.children = dag.children]

InsertEvent(e) ==
    dag' = Insert(dag, e)

\* A variant whose children do not inherit the parents of the removed event.
RemoveEventCutting(id) ==
    dag' = [Remove(dag, id) EXCEPT
              !.events = [i \in Keys(dag) \ {id} |->
                            WithParents(dag.events[i], dag.events[i].parents \ {id})]]

\* A variant that stays in the child lists of its parents.
RemoveEventHalf(id) ==
    /\ id \in Keys(dag)
    /\ dag' = [Remove(dag, id) EXCEPT
                 !.children = @ \union {<<p, id>> : p \in dag.events[id].parents}]

\* A variant that does not clear the memo.
RemoveEventKeepingMemo(id) ==
    dag' = [Remove(dag, id) EXCEPT !.ancestry_cache = dag.ancestry_cache]

RemoveEvent(id) == dag' = Remove(dag, id)

\* A variant that drops the tombstones and leaves the pointers to them.
CompactUnresolved(S) ==
    dag' = [CompactTombstones(dag, S) EXCEPT
              !.events = [i \in Keys(dag) \ S |-> dag.events[i]]]

Compact(S) == dag' = CompactTombstones(dag, S)

\* Callers ask about an event when its whole past is there.  (An answer that is given
\* before outlives the arrival of what it lacks.)
AskAncestors(id) ==
    /\ id \in Keys(dag)
    /\ Ancestors(dag, id) \subseteq Keys(dag)
    /\ dag' = QueryAncestors(dag, id)

Next ==
    \/ \E e \in Catalog : InsertEvent(e)
    \/ \E id \in Removable : RemoveEvent(id)
    \/ \E S \in SUBSET Tombstones : Compact(S)
    \/ \E id \in Queried : AskAncestors(id)

Spec == Init /\ [][Next]_dag

----------------------------------------------------------------------------
CatalogIds == {e.id : e \in Catalog} \union UNION {e.parents : e \in Catalog}

\* Only catalog events are stored, each under the id it was inserted with and
\* with the payload of that id; parents stay inside the ids the catalog names.
TypeOK ==
    /\ dag = [events         |-> dag.events,
              children       |-> dag.children,
              ancestry_cache |-> dag.ancestry_cache]
    /\ dag.events = [i \in Keys(dag) |-> dag.events[i]]
    /\ Keys(dag) \subseteq {e.id : e \in Catalog}
    /\ \A i \in Keys(dag) :
          /\ dag.events[i] = [id      |-> dag.events[i].id,
                              payload |-> i[1],
                              parents |-> dag.events[i].parents]
          /\ dag.events[i].payload \in Payload
          /\ dag.events[i].parents \subseteq CatalogIds
    /\ dag.children \subseteq CatalogIds \X CatalogIds

\* The reverse index that frontier, topological_order and compaction read never
\* drifts from the parent sets that remove and compact_tombstones rewrite.
IndexExact == ChildrenExact(dag)

\* An event made on frontier() has the whole DAG in its past, whatever has been
\* removed, compacted or inserted out of order before.
FrontierIsWholePast == FrontierCovers(dag)

\* A memoized ancestor set is what a search would find now, whatever is inserted,
\* removed and compacted after the question ("Inserting a leaf cannot change any
\* existing event's ancestry, so the ancestry cache remains fully valid", comment in
\* insert).
MemoSound == AncestryCacheSound(dag)

\* "Returns events in causal order (parents before children)": while keys match ids,
\* every listed event comes once, after all its parents, and the order leaves out an
\* event exactly when something in its past is missing, over rewired edges and joins.
\* (After a remove rewired a child, keys no longer match ids.)
TopoExact == KeysMatchIds(dag) => CausalOrder(dag) /\ ListsWhatIsComplete(dag)

\* Compacting in two calls or in one, or with remove one event at a time, leaves
\* the same events with the same parents ("Batch-remove a set of events").
CompactionComposes ==
    \A S \in SUBSET (Tombstones \intersect Keys(dag)) :
        LET all == CompactTombstones(dag, S)
        IN  /\ \A T \in SUBSET S :
                  CompactTombstones(CompactTombstones(dag, T), S).events = all.events
            /\ \A i \in S :
                  LET one == Remove(CompactTombstones(dag, S \ {i}), i)
                  IN  /\ Keys(one) = Keys(all)
                      /\ \A k \in Keys(all) : one.events[k].parents = all.events[k].parents
                      /\ one.children = all.children

----------------------------------------------------------------------------
Staying == Keys(dag) \intersect Keys(dag')

\* Causal order among the events that stay outlives every call, as removal bridges
\* over what it takes out, and a call that adds no event invents none.
CausalityPreserved ==
    [][\A a, b \in Staying :
          /\ Precedes(dag, a, b) => Precedes(dag', a, b)
          /\ Keys(dag') \subseteq Keys(dag) /\ Precedes(dag', a, b) => Precedes(dag, a, b)]_dag

\* A call that adds no event leaves no parent pointer dangling that did not
\* dangle before: compaction never breaks causal closure.
NoNewGap ==
    [][Keys(dag') \subseteq Keys(dag) =>
          MissingAncestors(dag') \subseteq MissingAncestors(dag)]_dag
=============================================================================
