------------------------------ MODULE MCDagApi ------------------------------
(* Small catalogs of events for model checking DagApi. *)
EXTENDS DagApi

CONSTANTS a, b

\* Genesis and two noops in a row; an event on the first noop and a join of it with
\* the second: chains, forks and joins of events that can be removed.
eG  == NewEvent(Genesis, {})
eN1 == NewEvent(Noop, {eG.id})
eN2 == NewEvent(Noop, {eN1.id})
eA  == NewEvent(a, {eN1.id})
eM  == NewEvent(b, {eA.id, eN2.id})

Diamond == {eG, eN1, eN2, eA, eM}

DiamondIds == {e.id : e \in Diamond}
InnerIds   == DiamondIds \ {eM.id}
TwoQueried == {eA.id, eM.id}
=============================================================================
