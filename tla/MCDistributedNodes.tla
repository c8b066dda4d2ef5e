------------------------- MODULE MCDistributedNodes -------------------------
(* A catalog with noops in a chain, at a fork and at a join, for model checking    *)
(* DistributedNodes.                                                               *)
EXTENDS DistributedNodes

CONSTANTS a, b, n1, n2, n3

eG  == GenesisEvent
eN1 == NewEvent(Noop, {eG.id})
eN2 == NewEvent(Noop, {eN1.id})
eA  == NewEvent(a, {eN2.id})
eB  == NewEvent(b, {eN1.id})
eN3 == NewEvent(Noop, {eA.id, eB.id})
eT  == NewEvent(a, {eN3.id})

Forked == {eG, eN1, eN2, eA, eB, eN3, eT}
=============================================================================
