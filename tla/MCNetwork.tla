----------------------------- MODULE MCNetwork -----------------------------
(* Catalogs for model checking Network. *)
EXTENDS Network, TLC

CONSTANTS a, b, n1, n2, n3

eG == GenesisEvent
eA == NewEvent(a, {eG.id})
eB == NewEvent(b, {eA.id})
eC == NewEvent(b, {eG.id})
eJ == NewEvent(a, {eA.id, eC.id})
eN == NewEvent(Noop, {eA.id})
eX == NewEvent(b, {eN.id})

\* A fork, a chain and a join with a noop that nothing depends on; a noop with an
\* event behind it.
NoopAtTip  == {eG, eA, eB, eC, eJ, eN}
NoopInside == {eG, eA, eN, eX}

\* As little as leaves something to exchange.
ThreeAtTip == {eG, eA, eN}

\* Two that call each other, and one that calls the first of them.
OneBehind == n1 :> {n2} @@ n2 :> {n1} @@ n3 :> {n1}
Each      == [n \in Node |-> Node]
=============================================================================
