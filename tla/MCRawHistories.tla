--------------------------- MODULE MCRawHistories ---------------------------
(* Three authors and a catalog with a chain of noops, an event behind it, and  *)
(* a merge of it with a concurrent event, for model checking RawHistories.     *)
EXTENDS RawHistories, TLC

CONSTANTS a, b, p, q, r

eG  == NewEvent(Genesis, {})
eN1 == NewEvent(Noop, {eG.id})
eN2 == NewEvent(Noop, {eN1.id})
eA  == NewEvent(a, {eN2.id})
eB  == NewEvent(b, {eN1.id})
eM  == NewEvent(b, {eA.id, eB.id})

Events6 == {eG, eN1, eN2, eA, eB, eM}

Symmetry == Permutations(Author)
=============================================================================
