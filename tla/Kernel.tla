------------------------------- MODULE Kernel -------------------------------
(***************************************************************************)
(* JcKernel and the functors of src/src/kernel.rs: a DAG that is reduced   *)
(* after every append, and states read off its topological order.          *)
(*                                                                         *)
(* A kernel is a record [dag, config].  Two configurations are told apart: *)
(* the default one, which Merge!Reduce is, and one with every phase off,   *)
(* for which reduce leaves the DAG alone.                                  *)
(***************************************************************************)
EXTENDS Merge, TopologicalOrder, Sequences

Sx == INSTANCE SequencesExt

CONSTANTS
    Sets,     \* the payloads of kind "set": writes to one key
    Rank      \* the order of ids within a level, a function id -> number

ASSUME SetsAssumption == Sets \subseteq Data

Config == {"default", "plain"}

GenesisEvent == NewEvent(Genesis, {})

NewKernel(config) == [dag |-> Insert(EmptyDag, GenesisEvent), config |-> config]

Normalised(config, d) == IF config = "default" THEN Reduce(d) ELSE d

KernelAppend(k, e) == [k EXCEPT !.dag = Normalised(k.config, Insert(@, e))]

----------------------------------------------------------------------------
\* topological_order as a sequence, for a DAG that lists no event twice.
TopologicalSeq(d) ==
    LET levels       == Levels(d)
        LevelOf(i)   == CHOOSE n \in DOMAIN levels : i \in DOMAIN levels[n]
        Before(i, j) == \/ LevelOf(i) < LevelOf(j)
                        \/ LevelOf(i) = LevelOf(j) /\ Rank[i] < Rank[j]
    IN  Sx!SetToSortSeq(UNION {DOMAIN levels[n] : n \in DOMAIN levels}, Before)

\* KvFunctor: the last write wins.
KvState(d) ==
    LET writes == SelectSeq(TopologicalSeq(d), LAMBDA i : d.events[i].payload \in Sets)
    IN  IF writes = <<>> THEN {} ELSE {d.events[writes[Len(writes)]].payload}

\* CachedKvFunctor: a size and a state, or nothing yet.
NoCache == [size |-> 0, state |-> {}]

\* A variant that keeps its answer until the history shrinks.
CachedGetGrowing(cache, d) ==
    IF 0 < cache.size /\ cache.size <= Cardinality(Keys(d))
    THEN cache
    ELSE [size |-> Cardinality(Keys(d)), state |-> KvState(d)]

\* A kernel has a genesis, so no history has size 0.
CachedGet(cache, d) ==
    IF cache.size = Cardinality(Keys(d))
    THEN cache
    ELSE [size |-> Cardinality(Keys(d)), state |-> KvState(d)]
=============================================================================
