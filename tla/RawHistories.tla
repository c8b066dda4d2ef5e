---------------------------- MODULE RawHistories ----------------------------
(***************************************************************************)
(* Histories before normalisation: each author inserts events into a       *)
(* CausalDag of its own, and any two or three of those are merged with     *)
(* merge_histories (src/src/merge.rs).  The machine only builds the        *)
(* operands; the laws of merge are its invariants.                         *)
(***************************************************************************)
EXTENDS Merge

CONSTANTS
    Author,     \* who builds a history
    Catalog,    \* the events that authors construct, with Event::new
    InOrder     \* TRUE: an author inserts parents before their children

ASSUME CatalogAssumption ==
    \A e \in Catalog : /\ e.payload \in Payload
                       /\ e = NewEvent(e.payload, e.parents)

ASSUME InOrderAssumption == InOrder \in BOOLEAN

VARIABLE raw

Init == raw = [w \in Author |-> EmptyDag]

\* A variant that forgets to register the event with its parents.
InsertByUnindexed(w, e) ==
    /\ InOrder => e.parents \subseteq Keys(raw[w])
    /\ raw' = [raw EXCEPT ![w] = [Insert(@, e) EXCEPT !.children = raw[w].children]]

InsertBy(w, e) ==
    /\ InOrder => e.parents \subseteq Keys(raw[w])
    /\ raw' = [raw EXCEPT ![w] = Insert(@, e)]

Next == \E w \in Author, e \in Catalog : InsertBy(w, e)

Spec == Init /\ [][Next]_raw

----------------------------------------------------------------------------
\* Every history holds catalog events under their own ids, with an exact index.
TypeOK ==
    /\ DOMAIN raw = Author
    /\ \A w \in Author : /\ Events(raw[w]) \subseteq Catalog
                         /\ KeysMatchIds(raw[w])
                         /\ ChildrenExact(raw[w])
                         /\ raw[w].ancestry_cache = <<>>

\* merge(merge(A, B), C) = merge(A, merge(B, C)): it does not matter which of
\* three histories has had its noops taken out when the others arrive.
MergeAssociates == \A u, v, w \in Author : Associates(raw[u], raw[v], raw[w])

\* merge(A, B) = merge(B, A) and merge(A, A) = nf(A), noops and rewired parents
\* included, and a second reduction finds nothing to do.
MergeJoins ==
    \A v, w \in Author : /\ Commutes(raw[v], raw[w])
                         /\ IsIdempotent(raw[w])
                         /\ Same(Reduce(Reduce(raw[w])), Reduce(raw[w]))

\* Reducing early, on one side or on both, gives what reducing late gives.
ReduceEarlyOrLate ==
    \A v, w \in Author : ReduceAbsorbs(raw[v], raw[w]) /\ ReduceDistributes(raw[v], raw[w])
=============================================================================
