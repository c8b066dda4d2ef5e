-------------------------- MODULE GrowOnlyHistory --------------------------
(***************************************************************************)
(* What a cluster of nodes promises, without DAGs, noops or rewriting:     *)
(* each node knows a set of events that only grows and always holds the    *)
(* past of its members; nodes learn new events and join each other's sets. *)
(***************************************************************************)
CONSTANTS
    Node,
    Real,    \* the events that stay: everything but noops
    Past,    \* Past[x]: the real events directly before x
    Root     \* the event everyone starts with

VARIABLE known

HoldsPast(S) == \A x \in S : Past[x] \subseteq S

Init == known = [n \in Node |-> {Root}]

Learn(n, S) ==
    /\ HoldsPast(known[n] \union S)
    /\ known' = [known EXCEPT ![n] = @ \union S]

Join(n, m) == known' = [known EXCEPT ![n] = @ \union known[m]]

Next ==
    \/ \E n \in Node, S \in SUBSET Real : Learn(n, S)
    \/ \E n \in Node : \E m \in Node \ {n} : Join(n, m)

Spec == Init /\ [][Next]_known
=============================================================================
