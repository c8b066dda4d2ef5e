------------------------------- MODULE Event -------------------------------
(***************************************************************************)
(* The event model of src/src/event.rs.  An event carries a payload and    *)
(* the ids of its direct causal predecessors; its id is a hash of both.    *)
(* The hash is modelled as the term it hashes, so two ids are equal        *)
(* exactly when payloads and parent sets are (SHA-256 without collisions). *)
(***************************************************************************)
CONSTANTS
    Data,      \* the domain payloads, Payload::Data { kind, value }
    Noop,      \* Payload::Noop
    Genesis    \* Payload::Genesis

ASSUME PayloadAssumption ==
    /\ Noop # Genesis
    /\ Noop \notin Data
    /\ Genesis \notin Data

Payload == Data \union {Noop, Genesis}

compute_id(payload, parents) == <<payload, parents>>

\* Event::new, and its short forms Event::genesis / data / noop.
NewEvent(payload, parents) ==
    [id |-> compute_id(payload, parents), payload |-> payload, parents |-> parents]

WithParents(e, parents) == [id |-> e.id, payload |-> e.payload, parents |-> parents]

\* The early return of the code compares the cached hashes the id was made
\* from with fresh ones, so in both branches the id ends up being the hash of
\* the current content.
RecomputeId(e) == [e EXCEPT !.id = compute_id(e.payload, e.parents)]

IsNoop(e) == e.payload = Noop

\* "id is derived from (parents, payload)".
ContentAddressed(e) == e.id = compute_id(e.payload, e.parents)
=============================================================================
