-------------------------- MODULE ParallelHashing --------------------------
(***************************************************************************)
(* ConeHasher::compute_all on a DAG of PARALLEL_THRESHOLD events or more:  *)
(* hash_levels_parallel (src/src/cone.rs).  Level after level, the caller  *)
(* cuts the ids of the level into chunks, starts a thread per chunk in a   *)
(* thread scope, and gives it a slice of the results, made from a raw      *)
(* pointer and an offset that it adds up beside the chunks.  When the      *)
(* scope has joined its threads, the results go into the cache that the    *)
(* threads were reading.  Nothing below the threshold depends on it, so    *)
(* Dags are small here.                                                    *)
(*                                                                         *)
(* The number of threads comes from the cores and the first level, and     *)
(* stays for all levels: a history with one root is hashed by one thread.  *)
(***************************************************************************)
EXTENDS ConeHasher, Sequences

CONSTANTS
    Dags,   \* the DAGs that are hashed
    Cores   \* what available_parallelism may return

VARIABLES
    dag,      \* the DAG of the present call
    cache,    \* the cache of the hasher
    pc,       \* "idle", or "level" inside a call
    turn,     \* how many levels have been hashed
    order,    \* current_level
    threads,  \* num_threads
    offset,   \* where the next slice starts
    slices,   \* the slice of each thread started: the slots before it, and its size
    written,  \* how many ids of its chunk each thread is done with
    results   \* per slot, the entry written: at most one <<id, hash>>

vars == <<dag, cache, pc, turn, order, threads, offset, slices, written, results>>

\* The ids of a level as a sequence.  (The code sorts them: one arrangement, the same
\* in every call.)
Arranged(level) ==
    LET copies == Listings(level)
        places == CHOOSE s \in [1 .. Cardinality(copies) -> copies] :
                      \A j, k \in DOMAIN s : s[j] = s[k] => j = k
    IN  [k \in DOMAIN places |-> places[k][1]]

LevelAt(d, n) == IF n \in DOMAIN Levels(d) THEN Arranged(Levels(d)[n]) ELSE <<>>

\* DAGs in memory are finite.
ASSUME HashingAssumption ==
    /\ Cores \subseteq Nat \ {0}
    /\ \A d \in Dags : /\ IsFiniteSet(Keys(d)) /\ IsFiniteSet(d.children)
                       /\ \A i \in Keys(d) : IsFiniteSet(d.events[i].parents)

----------------------------------------------------------------------------
Least(x, y)    == IF x < y THEN x ELSE y
Greatest(x, y) == IF x > y THEN x ELSE y

Ceil(x, y) == (x + y - 1) \div y        \* div_ceil

ChunkSize == Ceil(Len(order), threads)

\* How many chunks of ChunkSize, the last one shorter, a level falls into.
ChunkCount == IF order = <<>> THEN 0 ELSE Ceil(Len(order), ChunkSize)

Chunk(k) == SubSeq(order, (k - 1) * ChunkSize + 1, Least(k * ChunkSize, Len(order)))

EmptySlots(ids) == [k \in 1 .. Len(ids) |-> {}]

Init ==
    /\ dag = EmptyDag
    /\ cache = <<>>
    /\ pc = "idle"
    /\ turn = 0
    /\ order = <<>>
    /\ threads = 1
    /\ offset = 0
    /\ slices = <<>>
    /\ written = <<>>
    /\ results = <<>>

\* What a turn of the loop starts with.
EnterLevel(ids) ==
    /\ order' = ids
    /\ offset' = 0
    /\ slices' = <<>>
    /\ written' = <<>>
    /\ results' = EmptySlots(ids)

Start(d, cores) ==
    /\ pc = "idle"
    /\ pc' = "level"
    /\ dag' = d
    /\ cache' = <<>>
    /\ turn' = 0
    /\ EnterLevel(LevelAt(d, 0))
    /\ threads' = Least(cores, Greatest(Len(order'), 1))

\* A variant that finds the start of a slice from the number of its chunk and the share
\* of a thread, rounded down.
SpawnByShare ==
    LET k == Len(slices) + 1
    IN  /\ pc = "level"
        /\ k <= ChunkCount
        /\ slices' = Append(slices, [first |-> (k - 1) * (Len(order) \div threads),
                                     size  |-> Len(Chunk(k))])
        /\ written' = Append(written, 0)
        /\ offset' = offset + Len(Chunk(k))
        /\ UNCHANGED <<dag, cache, pc, turn, order, threads, results>>

\* The caller starts the thread of the next chunk; those before are running already.
Spawn ==
    LET k == Len(slices) + 1
    IN  /\ pc = "level"
        /\ k <= ChunkCount
        /\ slices' = Append(slices, [first |-> offset, size |-> Len(Chunk(k))])
        /\ written' = Append(written, 0)
        /\ offset' = offset + Len(Chunk(k))
        /\ UNCHANGED <<dag, cache, pc, turn, order, threads, results>>

\* A thread hashes the next id of its chunk.  An id that no event is stored under
\* leaves its slot empty.
HashNext(k) ==
    LET id   == Chunk(k)[written[k] + 1]
        slot == slices[k].first + written[k] + 1
    IN  /\ k \in DOMAIN slices
        /\ written[k] < slices[k].size
        /\ written' = [written EXCEPT ![k] = @ + 1]
        /\ results' = IF id \in Keys(dag)
                      THEN [results EXCEPT ![slot] = {<<id, ConeHash(dag.events[id], cache)>>}]
                      ELSE results
        /\ UNCHANGED <<dag, cache, pc, turn, order, threads, offset, slices>>

\* A variant of the end of the scope that waits for as many threads as there could be.
AllJoinedOfThreads ==
    /\ Len(slices) = threads
    /\ \A k \in DOMAIN slices : written[k] = slices[k].size

\* A variant that joins no thread.
AllJoinedAtOnce == Len(slices) = ChunkCount

\* The scope ends when every chunk has a thread and every thread has returned.
AllJoined ==
    /\ Len(slices) = ChunkCount
    /\ \A k \in DOMAIN slices : written[k] = slices[k].size

\* The results of the level go into the cache, and the next level is collected.
EndLevel ==
    LET entries == UNION {results[k] : k \in DOMAIN results}
        hashed  == {x[1] : x \in entries}
    IN  /\ pc = "level"
        /\ order # <<>>
        /\ AllJoined
        /\ cache' = [i \in DOMAIN cache \union hashed |->
                        IF i \in hashed THEN (CHOOSE x \in entries : x[1] = i)[2] ELSE cache[i]]
        /\ turn' = turn + 1
        /\ EnterLevel(LevelAt(dag, turn + 1))
        /\ UNCHANGED <<dag, pc, threads>>

Return ==
    /\ pc = "level"
    /\ order = <<>>
    /\ pc' = "idle"
    /\ UNCHANGED <<dag, cache, turn, order, threads, offset, slices, written, results>>

Caller == Spawn \/ EndLevel \/ Return

Next ==
    \/ \E d \in Dags, cores \in Cores : Start(d, cores)
    \/ Spawn
    \/ \E k \in DOMAIN slices : HashNext(k)
    \/ EndLevel
    \/ Return

\* The caller and every thread it has started are scheduled.
Fairness ==
    /\ WF_vars(Caller)
    /\ \A k \in UNION {1 .. c : c \in Cores} : WF_vars(HashNext(k))

Spec == Init /\ [][Next]_vars

FairSpec == Spec /\ Fairness

----------------------------------------------------------------------------
Slots(k) == slices[k].first + 1 .. slices[k].first + slices[k].size

\* What makes the raw-pointer slices sound in the unsafe block: no slot
\* of the results belongs to two threads, none lies outside the vector, and no more
\* threads are started than num_threads.  When the last one is started, every slot
\* has its thread, so no id of the level is left out.
SlicesExact ==
    /\ Len(slices) <= threads
    /\ \A k \in DOMAIN slices : Slots(k) \subseteq 1 .. Len(order)
    /\ \A j, k \in DOMAIN slices : j # k => Slots(j) \intersect Slots(k) = {}
    /\ Len(slices) = ChunkCount => 1 .. Len(order) = UNION {Slots(k) : k \in DOMAIN slices}

\* However its threads interleave, a call leaves exactly the hashes that the
\* sequential path computes ("Recompute cone hashes for every event in `dag`", doc of
\* compute_all): no entry of an earlier call, none hashed before its parents.
ParallelExact == pc = "idle" => cache = ComputeAll(dag)

\* A call that started returns.
HashingEnds == pc = "level" ~> pc = "idle"
=============================================================================
