----------------------------- MODULE NormalForm -----------------------------
(***************************************************************************)
(* NormalForm::reduce (src/src/nf.rs), phase by phase, for every           *)
(* configuration, on a DAG that its owner fills with insert between calls. *)
(* phase_a only prints and phase_b is empty; phase_c2 has no candidate, as *)
(* is_passthrough is false for every event, and changes nothing.  Of what  *)
(* reduce returns, the counters are kept; the delta (two differences of    *)
(* key sets, and the pairs that C1 re-identified) is left out.             *)
(*                                                                         *)
(* The canonical member of a group is its first id in the order of SHA-256 *)
(* strings.  That order has nothing to do with the events, so it is any of *)
(* Ranks here, fixed from the start.  Groups come out of a hash map: their *)
(* order is free.                                                          *)
(***************************************************************************)
EXTENDS ConeHasher, Merge

CONSTANTS
    Catalog,    \* the events that the owner inserts
    InOrder,    \* the configurations under which parents are inserted before children
    Ranks,      \* orders of the ids, each as a function id -> number
    Configs     \* the NfConfig values the owner may have chosen

NfConfig == [max_iterations           : Nat \ {0},
             enable_cone_merge        : BOOLEAN,
             enable_chain_contract    : BOOLEAN,
             enable_noop_elim         : BOOLEAN,
             assume_content_addressed : BOOLEAN]

ASSUME ConfigAssumption == Configs \subseteq NfConfig /\ InOrder \subseteq Configs

\* Events are made by Event::new, from finitely many parents; ranks are numbers.
ASSUME CatalogAssumption ==
    /\ \A e \in Catalog : e = NewEvent(e.payload, e.parents) /\ IsFiniteSet(e.parents)
    /\ \A r \in Ranks, e \in Catalog : r[e.id] \in Nat

VARIABLES
    dag,    \* the history that is reduced
    cone,   \* the cache of the cone hasher, kept between calls
    pc,     \* "idle", or where in reduce the next step is
    run,    \* the local variables of reduce
    config, \* the configuration, never changed
    rank    \* the order of ids, never changed

fixed == <<config, rank>>

vars == <<dag, cone, pc, run, fixed>>

AnyNoop(d) == Noops(d) # {}

Size(d) == Cardinality(Keys(d))

NotRun == [before |-> EmptyDag, iterations |-> 0, size_before |-> 0,
           has_noops |-> FALSE, cone_ready |-> FALSE,
           c3_eliminated |-> 0, c1_merged |-> 0,
           noops_eliminated |-> 0, cones_merged |-> 0,
           groups |-> {}, canonical |-> <<>>, duplicates |-> {}, dirty |-> {}]

Init ==
    /\ dag = EmptyDag
    /\ cone = <<>>
    /\ pc = "idle"
    /\ run = NotRun
    /\ config \in Configs
    /\ rank \in Ranks

----------------------------------------------------------------------------
\* A variant that drops the parents that are not there and takes the id of the rest.
InsertEventLinked(e) ==
    /\ pc = "idle"
    /\ config \in InOrder => e.parents \subseteq Keys(dag)
    /\ e.id \notin Keys(dag)
    /\ dag' = Insert(dag, NewEvent(e.payload, e.parents \intersect Keys(dag)))
    /\ UNCHANGED <<cone, pc, run, fixed>>

InsertEvent(e) ==
    /\ pc = "idle"
    /\ config \in InOrder => e.parents \subseteq Keys(dag)
    /\ e.id \notin Keys(dag)
    /\ dag' = Insert(dag, e)
    /\ UNCHANGED <<cone, pc, run, fixed>>

\* The head of reduce, and of its first turn.
StartReduce ==
    /\ pc = "idle"
    /\ pc' = "C3"
    /\ run' = [NotRun EXCEPT !.before = dag,
                             !.iterations = 1,
                             !.size_before = Size(dag),
                             !.has_noops = config.enable_cone_merge /\ AnyNoop(dag)]
    /\ UNCHANGED <<dag, cone, fixed>>

RunC3 ==
    /\ pc = "C3"
    /\ pc' = "C1"
    /\ IF config.enable_noop_elim
       THEN LET tombstones == Noops(dag)
                dirty == {c \in Keys(dag) \ tombstones :
                             \E t \in tombstones : <<t, c>> \in dag.children}
            IN  /\ dag' = PhaseC3(dag)
                /\ cone' = IF dirty # {} /\ run.cone_ready
                           THEN ComputeDirty(Invalidate(cone, dirty, dag'), dag')
                           ELSE cone
                /\ run' = [run EXCEPT
                             !.c3_eliminated = Cardinality(tombstones),
                             !.noops_eliminated = @ + Cardinality(tombstones),
                             !.has_noops = @ /\ (tombstones = {} \/ AnyNoop(dag'))]
       ELSE /\ run' = [run EXCEPT !.c3_eliminated = 0]
            /\ UNCHANGED <<dag, cone>>
    /\ UNCHANGED fixed

\* A variant without the test for noops.
ShouldRunC1Always == config.enable_cone_merge

ShouldRunC1 ==
    config.enable_cone_merge /\ (~config.assume_content_addressed \/ run.has_noops)

SkipC1 ==
    /\ pc = "C1"
    /\ ~ShouldRunC1
    /\ pc' = "check"
    /\ run' = [run EXCEPT !.c1_merged = 0]
    /\ UNCHANGED <<dag, cone, fixed>>

\* The cache is filled the first time C1 runs in a call of reduce.
StartC1 ==
    /\ pc = "C1"
    /\ ShouldRunC1
    /\ pc' = "merge"
    /\ cone' = IF run.cone_ready THEN cone ELSE ComputeAll(dag)
    /\ run' = [run EXCEPT !.cone_ready = TRUE,
                          !.c1_merged = 0,
                          !.dirty = {},
                          !.groups = IsomorphicGroups(cone')]
    /\ UNCHANGED <<dag, fixed>>

First(g) == CHOOSE c \in g : \A i \in g : rank[c] <= rank[i]

PickGroup(g) ==
    /\ pc = "merge"
    /\ run.duplicates = {}
    /\ run' = [run EXCEPT !.groups = @ \ {g},
                          !.canonical = First(g),
                          !.duplicates = g \ {First(g)}]
    /\ UNCHANGED <<dag, cone, pc, fixed>>

\* A variant that leaves the pointer to the duplicate beside the new one.
RedirectedBeside(c, dup) ==
    RecomputeId([dag.events[c] EXCEPT !.parents = @ \union {run.canonical}])

\* The child c of dup as a child of the canonical event.
Redirected(c, dup) ==
    RecomputeId([dag.events[c] EXCEPT !.parents = (@ \ {dup}) \union {run.canonical}])

\* The children of a duplicate move to the canonical event and are given the id
\* of their new content, under the key they had.  The duplicate goes, but its
\* parents still list it as a child, and the cone cache still has it.
MergeDuplicate ==
    LET dup     == First(run.duplicates)
        kids    == {x[2] : x \in {y \in dag.children : y[1] = dup}}
        touched == {c \in kids \intersect Keys(dag) : dup \in dag.events[c].parents}
    IN  /\ pc = "merge"
        /\ run.duplicates # {}
        /\ dag' = [dag EXCEPT
                     !.events = [i \in Keys(dag) \ {dup} |->
                                    IF i \in touched THEN Redirected(i, dup) ELSE dag.events[i]],
                     !.children = {x \in @ : x[1] # dup}
                                     \union {<<run.canonical, c>> : c \in kids}]
        /\ run' = [run EXCEPT
                     !.duplicates = @ \ {dup},
                     !.dirty = @ \union touched,
                     !.c1_merged = @ + 1,
                     !.cones_merged = @ + 1]
        /\ UNCHANGED <<cone, pc, fixed>>

\* A variant that does not hash again what the merges changed.
EndC1Stale ==
    /\ pc = "merge"
    /\ run.groups = {}
    /\ run.duplicates = {}
    /\ pc' = "check"
    /\ UNCHANGED <<dag, cone, run, fixed>>

EndC1 ==
    /\ pc = "merge"
    /\ run.groups = {}
    /\ run.duplicates = {}
    /\ pc' = "check"
    /\ cone' = IF run.dirty # {}
               THEN ComputeDirty(Invalidate(cone, run.dirty, dag), dag)
               ELSE cone
    /\ UNCHANGED <<dag, run, fixed>>

\* A variant that compares with the size at the call, not at the start of the turn.
LastTurnSinceCall ==
    \/ Size(dag) = Size(run.before)
    \/ run.c3_eliminated > 0 /\ run.c1_merged = 0 /\ ~run.has_noops
    \/ run.iterations = config.max_iterations

\* C2 finds nothing; D hashes everything when no other phase is enabled; then
\* the loop ends, on either test or on the bound, or takes another turn.
LastTurn ==
    \/ Size(dag) = run.size_before
    \/ run.c3_eliminated > 0 /\ run.c1_merged = 0 /\ ~run.has_noops
    \/ run.iterations = config.max_iterations

EndTurn ==
    /\ pc = "check"
    /\ cone' = IF config.enable_cone_merge \/ config.enable_chain_contract \/ config.enable_noop_elim
               THEN cone
               ELSE ComputeAll(dag)
    /\ IF LastTurn
       THEN pc' = "done" /\ UNCHANGED run
       ELSE /\ pc' = "C3"
            /\ run' = [run EXCEPT !.iterations = @ + 1, !.size_before = Size(dag)]
    /\ UNCHANGED <<dag, fixed>>

\* reduce returns its statistics and delta to the caller.
Return ==
    /\ pc = "done"
    /\ pc' = "idle"
    /\ run' = NotRun
    /\ UNCHANGED <<dag, cone, fixed>>

Reducing ==
    \/ RunC3
    \/ SkipC1
    \/ StartC1
    \/ \E g \in run.groups : PickGroup(g)
    \/ MergeDuplicate
    \/ EndC1
    \/ EndTurn
    \/ Return

Next ==
    \/ \E e \in Catalog : InsertEvent(e)
    \/ StartReduce
    \/ Reducing

Spec == Init /\ [][Next]_vars

\* An owner who fills a history and has it reduced once.
OneCall == Init /\ [][Next /\ pc # "done"]_vars

----------------------------------------------------------------------------
Phases == {"idle", "C3", "C1", "merge", "check", "done"}

\* Stored events are catalog payloads over catalog ids, the cache speaks of ids that
\* were inserted, and the counters are numbers.
TypeOK ==
    LET Inserted == {e.id : e \in Catalog}
        Named    == Inserted \union UNION {e.parents : e \in Catalog}
    IN  /\ Keys(dag) \subseteq Inserted
        /\ \A i \in Keys(dag) : /\ dag.events[i].payload = i[1]
                                /\ dag.events[i].parents \subseteq Named
        /\ DOMAIN cone \subseteq Inserted
        /\ pc \in Phases
        /\ run.iterations \in 0 .. config.max_iterations
        /\ run.duplicates \subseteq Inserted

Done == pc = "done"

\* No event of the history that reduce was called on carries the id that another
\* one is stored under.  An earlier C1 can leave such a pair behind.
FreshIds == \A i, j \in Keys(run.before) : run.before.events[i].id = j => i = j

\* In the default configuration the loop amounts to one pass of noop elimination,
\* whatever was inserted or reduced before ("the early exit is exact": comments at
\* the early break of reduce).  Merge.tla and DistributedNodes.tla rest on this.
DefaultIsC3 ==
    Done /\ config.enable_noop_elim /\ config.assume_content_addressed =>
        Same(dag, Reduce(run.before))

\* The statistics explain the size: every event that went was counted once.  (With C1
\* on after every C3, a second turn counts again what the cache still has.)
StatsAccount ==
    Done /\ config.assume_content_addressed =>
        Size(run.before) - Size(dag) = run.noops_eliminated + run.cones_merged

\* "Termination: guaranteed by the strictly decreasing measure": no call takes more
\* turns than one for each event and one more, whatever max_iterations is, as every
\* turn that is followed by another has removed an event.
TurnsBounded == pc # "idle" => run.iterations <= Size(run.before) + 1

\* The loop ends because nothing is left to do, not because max_iterations ran out.
BoundNeverDecides == Done => run.iterations < config.max_iterations

\* A history that was closed is closed again when a call is done, whatever phases and
\* turns it took, and the tips cover what is left, although the parents of a merged
\* event go on listing it as a child.  (NormalFormProofs says when this,
\* OneEventPerShape and IncrementalExact hold of every catalog, and that a history is
\* whole between phases as well: where OneIsKept fails, they fail.)
StaysWhole ==
    Done => /\ IsCausallyClosed(run.before) => IsCausallyClosed(dag)
            /\ FrontierCovers(dag)

\* What a history is up to merging of equal cones: each event as its payload and
\* the set (not the number) of its causes.
Shape(d) ==
    LET shape[i \in Keys(d)] ==
            <<d.events[i].payload, {shape[p] : p \in d.events[i].parents \intersect Keys(d)}>>
    IN  shape

Shapes(d) == {Shape(d)[i] : i \in Keys(d)}

\* C1 runs in every turn, after the noops are gone.
C1AfterC3 ==
    config.enable_cone_merge /\ config.enable_noop_elim /\ ~config.assume_content_addressed

\* "The rewriting system is confluent, so order doesn't affect the final normal
\* form": with C1 after every C3, reduce reaches the history with exactly one event
\* per shape, in whatever order groups come up and however ids happen to sort, unless
\* max_iterations stops it.
OneEventPerShape ==
    FreshIds /\ Done /\ C1AfterC3 /\ run.iterations < config.max_iterations =>
        /\ Shapes(dag) = Shapes(Reduce(run.before))
        /\ Size(dag) = Cardinality(Shapes(dag))

\* "Two events with [equal cone hashes] are merged into one" (FormalTheory.md): while
\* a duplicate is still in the history, so is the event that it is merged into.
OneIsKept == run.duplicates \intersect Keys(dag) # {} => run.canonical \in Keys(dag)

\* The cone hash that each event should have.
TrueCones(d) ==
    LET hash[i \in Keys(d)] ==
            ConeHash(d.events[i], [p \in d.events[i].parents \intersect Keys(d) |-> hash[p]])
    IN  hash

\* Invalidating the touched children and hashing only what is missing leaves every
\* event of a closed history with the hash of its present cone ("incremental must
\* match full recompute", a test of cone.rs), after merges and under keys that no
\* longer match ids.
IncrementalExact ==
    FreshIds /\ IsCausallyClosed(run.before) /\ pc = "check" /\ run.cone_ready =>
        \A i \in Keys(dag) : i \in DOMAIN cone /\ cone[i] = TrueCones(dag)[i]

\* "Content-addressing guarantees uniqueness": among events that no noop elimination
\* has rewritten, C1 has nothing to merge, even when parents are missing.
NothingToMerge == ~config.enable_noop_elim => run.cones_merged = 0

\* No event of a closed history is missing from its topological order ("Topological
\* sort of all events"), from which every kernel computes a state.
NothingUnlisted == Done /\ IsCausallyClosed(dag) => Keys(dag) \subseteq Listed(dag)
=============================================================================
