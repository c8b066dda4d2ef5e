------------------------- MODULE MCParallelHashing -------------------------
(* DAGs of several shapes for model checking ParallelHashing. *)
EXTENDS ParallelHashing

CONSTANTS a, b, c

\* Five roots (four threads take them in chunks of two, so three are enough), two
\* events behind them, and a join on top with a parent in each level.
eG == NewEvent(Genesis, {})
eA == NewEvent(a, {})
eB == NewEvent(b, {})
eC == NewEvent(c, {})
eN == NewEvent(Noop, {})
eJ == NewEvent(a, {eG.id, eA.id})
eK == NewEvent(b, {eB.id})
eT == NewEvent(c, {eJ.id, eK.id, eC.id})
Wide == InsertAll(EmptyDag, {eG, eA, eB, eC, eN, eJ, eK, eT})

\* Two roots, then a level of four.
Narrow == InsertAll(EmptyDag, {eG, eA, eJ} \union {NewEvent(x, {eG.id}) : x \in Data})

\* An event behind a gap is never listed.
Gap == InsertAll(EmptyDag, {eG, eA, eB, eT})

\* A removed root: its child has become a root under a key that is not its id, so one
\* id of the level has no event.
Rewired == Remove(InsertAll(EmptyDag, {eA, eB, eK, eC}), eB.id)

Shapes == {EmptyDag, Wide, Narrow, Gap, Rewired}
=============================================================================
