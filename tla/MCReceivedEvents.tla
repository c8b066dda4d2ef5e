-------------------------- MODULE MCReceivedEvents --------------------------
(* A noop and an event behind it, for model checking ReceivedEvents. *)
EXTENDS ReceivedEvents

CONSTANTS a, b, n1, n2

eG == GenesisEvent
eN == NewEvent(Noop, {eG.id})
eB == NewEvent(b, {eN.id})

OneNoop == {eG, eN, eB}
=============================================================================
