--------------------------- MODULE ReceivedEvents ---------------------------
(***************************************************************************)
(* DistributedNodes with a history variable: what each node has been       *)
(* given, noops included, which its history does not tell any more.  It is *)
(* what "two nodes that have seen the same events" (src/README.md) is      *)
(* about.  No step depends on it.                                          *)
(***************************************************************************)
EXTENDS DistributedNodes, TopologicalOrder

VARIABLE received

InitReceived ==
    /\ Init
    /\ received = [n \in Node |-> {GenesisEvent.id}]

Receive(n, ids) == received' = [received EXCEPT ![n] = @ \union ids]

AppendReceived(n, e) == AppendEvent(n, e) /\ Receive(n, {e.id})

BatchReceived(n, B) == BatchAppend(n, B) /\ Receive(n, {e.id : e \in B})

SyncReceived(n, m) == SyncWith(n, m) /\ Receive(n, Keys(history[m]))

NextReceived ==
    \/ \E n \in Node, e \in Catalog : AppendReceived(n, e)
    \/ \E n \in Node, B \in SUBSET Catalog : BatchReceived(n, B)
    \/ \E n \in Node : \E m \in Node \ {n} : SyncReceived(n, m)

SpecReceived == InitReceived /\ [][NextReceived]_<<history, received>>

\* Nodes that are only ever given one event at a time, so that nothing but the order in
\* which they get them tells two nodes apart.
OneByOne ==
    /\ InitReceived
    /\ [][\E n \in Node, e \in Catalog : AppendReceived(n, e)]_<<history, received>>

----------------------------------------------------------------------------
\* "Two nodes that have seen the same events will always compute the same state,
\* regardless of the order they received them": all that a functor of kernel.rs gets to
\* see of a history is what topological_order lists.
SameReceivedSameState ==
    \A m, n \in Node : received[m] = received[n] => Listed(history[m]) = Listed(history[n])

\* The same of whole histories.
SameReceivedSameHistory ==
    \A m, n \in Node : received[m] = received[n] => Same(history[m], history[n])
=============================================================================
