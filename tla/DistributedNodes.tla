-------------------------- MODULE DistributedNodes --------------------------
(***************************************************************************)
(* A set of DistributedNode values (src/src/merge.rs), each with a local   *)
(* history that is normalised after every append, batch and sync.          *)
(***************************************************************************)
EXTENDS Merge

CONSTANTS
    Node,       \* the nodes
    Catalog,    \* the events that clients construct and hand to nodes
    InOrder     \* TRUE: clients append an event only where its parents are, or
                \* together with them; FALSE: anywhere, in any order

GenesisEvent == NewEvent(Genesis, {})

ASSUME CatalogAssumption ==
    /\ GenesisEvent \in Catalog
    /\ \A e \in Catalog : /\ e.payload \in Payload
                          /\ e = NewEvent(e.payload, e.parents)
                          /\ e.parents \subseteq {f.id : f \in Catalog}

ASSUME InOrderAssumption == InOrder \in BOOLEAN

VARIABLE history

Init == history = [n \in Node |-> Insert(EmptyDag, GenesisEvent)]

\* append
AppendEvent(n, e) ==
    /\ InOrder => e.parents \subseteq Keys(history[n])
    /\ history' = [history EXCEPT ![n] = Reduce(Insert(@, e))]

\* A variant that does not reduce.
BatchAppendRaw(n, B) ==
    /\ InOrder => \A e \in B : e.parents \subseteq Keys(history[n]) \union {f.id : f \in B}
    /\ history' = [history EXCEPT ![n] = InsertAll(@, B)]

\* A variant that also reduces half way through, after the noops of the batch.
BatchAppendTwice(n, B) ==
    LET noops == {e \in B : IsNoop(e)}
    IN  /\ InOrder => \A e \in B : e.parents \subseteq Keys(history[n]) \union {f.id : f \in B}
        /\ history' = [history EXCEPT ![n] =
                          Reduce(InsertAll(Reduce(InsertAll(@, noops)), B \ noops))]

\* batch_append: one reduction after the last insert
BatchAppend(n, B) ==
    /\ InOrder => \A e \in B : e.parents \subseteq Keys(history[n]) \union {f.id : f \in B}
    /\ history' = [history EXCEPT ![n] = Reduce(InsertAll(@, B))]

\* A variant that takes the history of m instead of the union.
SyncWithReplacing(n, m) == history' = [history EXCEPT ![n] = history[m]]

\* A variant that takes one common tip for a sign that there is nothing to pull.
SyncWithSkipping(n, m) ==
    history' = IF Frontier(history[m]) \intersect Keys(history[n]) # {}
               THEN history
               ELSE [history EXCEPT ![n] = MergeHistories(@, history[m])]

\* sync_with: n pulls from m
SyncWith(n, m) ==
    history' = [history EXCEPT ![n] = MergeHistories(@, history[m])]

Next ==
    \/ \E n \in Node, e \in Catalog : AppendEvent(n, e)
    \/ \E n \in Node, B \in SUBSET Catalog : BatchAppend(n, B)
    \/ \E n \in Node : \E m \in Node \ {n} : SyncWith(n, m)

Spec == Init /\ [][Next]_history

\* Every node keeps pulling from every other one; the code leaves that to its
\* caller.  Nothing is assumed of clients.
Fairness == \A n \in Node : \A m \in Node \ {n} : WF_history(SyncWith(n, m))

FairSpec == Spec /\ Fairness

----------------------------------------------------------------------------
\* The catalog as one DAG, the events of it that stay, and what is left of their
\* past without noops.
World == InsertAll(EmptyDag, Catalog)

Real == Keys(World) \ Noops(World)

Past == [i \in Real |-> Bare(World, i).parents]

\* Nodes hold catalog events under their own ids, none of them a noop.
TypeOK ==
    /\ DOMAIN history = Node
    /\ \A n \in Node : /\ Keys(history[n]) \subseteq Real
                       /\ KeysMatchIds(history[n])
                       /\ history[n].ancestry_cache = <<>>

\* A history is determined by the set of events in it, however they arrived and
\* whatever noops came between.  (ReceivedEvents.tla speaks of the events that a node
\* has been given.)
HistoryIsView == \A n \in Node : history[n] = View(World, Keys(history[n]))

\* The same promise between nodes, without reference to the catalog.
SameEventsSameHistory ==
    \A m, n \in Node : Keys(history[m]) = Keys(history[n]) => Same(history[m], history[n])

\* Eliminating noops never leaves an event whose cause is gone ("DAGs, which are
\* always causally closed by construction", NfConfig).
HistoriesClosed == \A n \in Node : IsCausallyClosed(history[n])

\* The causal order a node has shown between two events it never takes back or
\* adds to, while events arrive and noops between them disappear.
OrderIsStable ==
    [][\A n \in Node : \A i, j \in Keys(history[n]) :
          Precedes(history[n], i, j) <=> Precedes(history'[n], i, j)]_history

\* A cluster is a set of growing, joining event sets.
Known == [n \in Node |-> Keys(history[n])]

Abstract == INSTANCE GrowOnlyHistory WITH known <- Known, Root <- GenesisEvent.id

RefinesGrowOnly == Abstract!Spec

\* Nodes that keep syncing end up with one history and stay there.
Converged == \A m, n \in Node : Same(history[m], history[n])

EventuallyConverged == <>[]Converged
=============================================================================
