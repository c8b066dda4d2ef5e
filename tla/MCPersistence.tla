--------------------------- MODULE MCPersistence ---------------------------
(* Catalogs for model checking Persistence. *)
EXTENDS Persistence

CONSTANTS a, b

eG == GenesisEvent
eA == NewEvent(a, {eG.id})
eB == NewEvent(b, {eG.id})
eN == NewEvent(Noop, {eA.id})
eX == NewEvent(b, {eN.id})

\* Two concurrent writes and a noop that nothing depends on; a noop with an event
\* behind it.
NoopAtTip  == {eA, eB, eN}
NoopInside == {eA, eN, eX}

\* The ids are ordered against the order in which they are listed above.
SomeRank == [i \in {e.id : e \in {eG, eA, eB, eN, eX}} |->
                CHOOSE k \in 1 .. 5 : <<eX, eN, eB, eA, eG>>[k].id = i]
=============================================================================
