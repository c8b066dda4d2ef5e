--------------------------- MODULE DurableHistory ---------------------------
(***************************************************************************)
(* What a kernel with a log promises, without lines, snapshots or DAGs: a  *)
(* set of stored events that only grows, and a view of it that is either   *)
(* whole or not there.  The store may become unreadable; then no view is   *)
(* gained any more, but none is ever gained with less in it than was       *)
(* stored.                                                                 *)
(***************************************************************************)
CONSTANTS
    Real,         \* the events that stay: everything but noops
    Root,         \* the event everyone starts with
    Down,         \* there is no view
    Unreadable    \* the store cannot be read

VARIABLES stored, view

Init ==
    /\ stored = {Root}
    /\ view = {Root}

\* An event is stored; a view shows it, or is lost.
Store(x) ==
    /\ stored # Unreadable
    /\ stored' = stored \union {x}
    /\ view' \in IF view = Down THEN {Down} ELSE {stored', Down}

\* The store is spoilt or has been; a view lives on and may grow.
Spoil ==
    /\ stored' = Unreadable
    /\ view' \in {Down} \union IF view = Down THEN {} ELSE {view \union X : X \in SUBSET Real}

Fail ==
    /\ view' = Down
    /\ UNCHANGED stored

Recover ==
    /\ stored # Unreadable
    /\ view' = stored
    /\ UNCHANGED stored

Next == (\E x \in Real : Store(x)) \/ Spoil \/ Fail \/ Recover

Spec == Init /\ [][Next]_<<stored, view>>
=============================================================================
