# A verification project for jc-computation

jc-computation keeps computation as a history: a DAG of immutable events, each
with an id that is a hash of its payload and of the ids of the events before it.
State is a function of the *normal form* of a history. Nodes merge histories by
taking the union of their events and reducing the result, and the claim of the
project is that this alone makes them converge.

The modules here model that core and what is built around it: the DAG and its
operations, the order in which it is read, the hashes that find isomorphic events
and the threads that compute them, the reduction to normal form, the nodes that
merge, the protocol they sync with, and the kernel that keeps a log and comes back
from it. TLC checks them on small instances, and TLAPS proves most of it for any set
of nodes and any catalog of events: that the DAG keeps causal order through any
sequence of calls and is read in that order, that hashing with threads gives what
hashing without them gives, that the loop of reduction is by default one pass of noop
elimination, that merging is a CRDT under a condition that the code does not enforce,
namely that an event is appended where all its parents are in the history, or in one
batch with them (which shuts out an event behind a noop that was appended, and so
eliminated, before it),
that merging equal cones beside noop elimination leaves one event of each kind, if no
merge loses one,
and, as long as noops are at the tips, that sessions of the sync protocol deliver what
they should and that a kernel comes back from its log as it was.

## 1. The system

| Part | State | Operations | What is hard |
|---|---|---|---|
| Events, `src/src/event.rs` | none: values | `Event::new`, `recompute_id` | an id is fixed at creation, and parents are rewritten later |
| Causal DAG, `src/src/dag.rs` | `events`, the reverse index `children`, the memo `ancestry_cache` | `insert`, `remove`, `union_with`, `compact_tombstones`, `ancestors`, `topological_order`, `frontier`, closure tests | three maps to keep in step under rewiring; events arriving before their parents; keys that no longer match ids |
| Cone hasher, `src/src/cone.rs` | `cache`, id to hash | `compute_all`, `invalidate`, `compute_dirty`, `isomorphic_groups` | an incremental cache over a graph that others rewrite; threads that write to one vector through a raw pointer |
| Normal form, `src/src/nf.rs` | configuration, a cone hasher kept between calls | `reduce`: a loop over phases A, B, C3, C1, C2, D | phases that enable each other, early exits that must be exact, a bound that must not matter |
| Merge, `src/src/merge.rs` | a history per `DistributedNode` | `append`, `batch_append`, `sync_with`, `merge_histories` | commutativity, associativity and idempotence of union followed by rewriting; order of arrival |
| Kernel, `src/src/kernel.rs` | a DAG and counters; functor caches | `append`, `state`, functors, incremental kernel | a cache keyed by size; state that depends on the topological order |
| Network, `src/src/network.rs` | a node; a TCP connection in progress | `sync_with_peer`, `accept_one`, `push_event_to_peer` | two machines in lock step, connections that break, events hashed again on arrival |
| Persistence, `src/src/persistence.rs` | kernel, log, snapshot, counters | `append`, `take_snapshot`, `replay_from_store`, `restore_from_snapshot_and_wal` | crashes between two writes, snapshots of rewritten events, duplicates in the log |
| Command line, `src/src/node.rs`, `src/src/main.rs` | none | argument parsing, printing | nothing |

Components call each other directly: a node or kernel inserts into its DAG and
calls `reduce`, `reduce` calls the DAG and the cone hasher and also edits the two
public maps of the DAG by itself (phase C1). Concurrent are the two ends of a
connection and the threads that hash a level; only persistence survives a crash.

What makes each part correct:

* DAG: the reverse index says what the parent sets say; removing events neither
  loses nor invents causal order among the rest; a closed history stays closed; the
  frontier covers the history; a memoized answer is a fresh one.
* Topological order: parents first, once each, and exactly the events whose past is
  there.
* Cone hasher: repairing the cache gives what hashing anew would give.
* Normal form: the result does not depend on the order of phases or groups, and the
  loop stops because nothing is left to do.
* Merge: the CRDT laws, equal histories for equal event sets, stable causal order,
  convergence.
* Network: a session, whole or broken anywhere, does to a history no more than
  appending batches with their causes; one that ends well has unified both ends; every
  call returns.
* Persistence: what a process shows after a restart is what was logged, whole or not
  at all; what a functor answers is the present state.
* Parallel hashing: disjoint slices that cover the level, and the sequential result.

## 2. Modules

| Module | Models | Notes |
|---|---|---|
| `Event` | `event.rs` | the hash is the term it hashes: collisions do not exist |
| `CausalDag` | `dag.rs` | operations as operators on a record `events`, `children`, `ancestry_cache`; traversals are given as the least closed set, so no definition is recursive and all can be used in proofs |
| `TopologicalOrder` | `dag.rs:185-229` | Kahn's loop as levels with multiplicities; sorting within a level is left out |
| `ConeHasher` | `cone.rs` | hashes as terms; levels from `TopologicalOrder` |
| `DagApi` | one DAG and its callers | actions `InsertEvent`, `RemoveEvent`, `Compact`, `AskAncestors` |
| `ParallelHashing` | `hash_levels_parallel` | the caller (`Start`, `Spawn`, `EndLevel`, `Return`) and its threads (`HashNext`); uses `ConeHasher` both as a part and as the reference |
| `Merge` | `merge.rs:29-47` and `reduce` in the default configuration | also the laws, and `View`, the history that a set of events determines |
| `RawHistories` | histories that authors build with `insert` | the operands of the laws |
| `DistributedNodes` | `DistributedNode` | actions `AppendEvent`, `BatchAppend`, `SyncWith` |
| `GrowOnlyHistory` | nothing in the code: the abstract specification of nodes | growing sets of events that hold their own past |
| `ReceivedEvents` | `DistributedNodes` with a history variable | what each node has been given, noops included, by appends, batches and syncs; no step depends on it |
| `Network` | `network.rs`, over `DistributedNodes` | one action per message received, for each role; `Accept`, `StartSync`, `StartPush`; `Refuse`, `EndOfStream`, `Break` |
| `NormalForm` | `NormalForm::reduce` | one action per phase, per group and per duplicate of C1; `ConeHasher` and `Merge` composed |
| `Kernel` | `kernel.rs` | `JcKernel` as a record of DAG and configuration, `KvFunctor`, `CachedKvFunctor` |
| `Persistence` | `persistence.rs`, over `Kernel` | `AppendLogged`, `TakeSnapshot`, `Replay`, `Restore`, `Restart`, and the faults `AppendFailing`, `CrashInAppend` |
| `DurableHistory` | nothing in the code: the abstract specification of a kernel with a log | a growing set and a view that is whole or gone |
| `HistoryProofs` | | the lemmas that several proofs need: searches, contraction, parts of a world, finite DAGs, cone hashes and hashing again; and the laws of `Merge` |
| `DagApiProofs`, `ParallelHashingProofs`, `NormalFormProofs`, `RawHistoriesProofs`, `DistributedNodesProofs`, `NetworkProofs`, `PersistenceProofs` | | theorems about the modules they are named for |
| `MCDagApi`, `MCParallelHashing`, `MCNormalForm`, `MCRawHistories`, `MCDistributedNodes`, `MCReceivedEvents`, `MCNetwork`, `MCPersistence` | | instances for TLC |

Correspondence with the code, where it is not one to one:

* `children` is a set of pairs. The code's map may have an empty entry or none for an
  id; every reader treats these alike.
* An event is stored under a key and has an `id` field. Both are kept, since
  `remove` and C1 change the field and not the key.
* `InsertAll` stands for a loop of inserts. The id that is there wins, and events of
  one batch with the same id are equal, so the order of the loop does not show.
* The order of SHA-256 strings decides which member of a group C1 keeps. It is a
  variable of `NormalForm` with a value from a set of orders, fixed at the start, and
  the order in which groups leave the hash map is free.
* A level of the topological order is hashed from the levels before it. The
  thread-parallel code does exactly this; the sequential code also sees earlier
  members of the same level, and lists a child once more when one is its parent.
* Chunks and slices are kept as positions in a level. Ids of a level are sorted in the
  code; the model has them in some fixed arrangement.
* A connection is two queues of messages, each read by one end, and a mark that its
  stream ends after them. A connecting node that is not accepted yet waits in the
  backlog of the listener: its `link` names the listener, and the listener's does not
  name it. Sockets are dropped when a call returns (`HungUp`), the listening one as
  well, which ends the streams of those in its backlog. What is written to a
  connection that is gone is lost, whether the write notices or not (`Reply`); `Break`
  loses any part of what is on its way.
* A line that arrives in part does not parse, which is an error like the end of the
  stream. The Error message and the second Want are sent by nobody and are left out.
* The log is a sequence of lines and a mark that the last one lacks its end. A cut
  write leaves nothing, a part of the text (`Garbage`), or the text without its end;
  what is written next is glued to it. Dying after the write to the log, wherever, is
  dying right after it, as nothing else is written: `CrashInAppend` covers it.
* `loaded` says that the kernel shows all that the log has: not after a restart, and not
  after a call that returned an error, until a load succeeds. It is what callers know.
* A load from a file may fail although every line of it parses. A replay that fails leaves
  everything as it is and is no action; a `Restore` that fails leaves the snapshot in the kernel.
* Phase A prints, phase B is empty, and C2 has no candidates because `is_passthrough`
  is constantly false: they change nothing, and are not actions.
* `reduce` also returns a delta of key sets, which is left out.

Definitions named as variants in their comments are never used by a
specification. Each is a plausible wrong version of the definition below it, and is
there to confirm that the properties notice: with it in place of that definition,
the run finds the property violated that `PROJECT.json` pairs it with.

## 3. Runs

Passing:

| Run | Instance and bounds | What it shows |
|---|---|---|
| `DagApi_open` | five events: genesis, a chain of two noops, an event on the first noop, a join of it with the second; insertion in any order, and again after removal; every event may be removed, every set of tombstones compacted, ancestors asked when the past of an event is there | the index is exact, causal order is kept and not invented, no gap opens, the memo is sound, the frontier covers everything, compacting in one call or several or with `remove` is the same, and the topological order is right while keys match ids |
| `NF_reduce` | eight events with two noops in a chain, equal payloads behind both and further events on top; default configuration and noops kept, with events in any order between calls; and C1 after every C3, parents first, four orders of ids, all orders of groups | `reduce` is one pass of C3 by default; counters explain the size; closure and frontier are kept; with noops kept, C1 has nothing to merge even over gaps; with C1, one event per shape for every order, an exact incremental cone cache, and no more turns than there are events and one |
| `Raw_closed` | three authors (symmetric), six events with a chain of noops, a fork and a join, parents first | commutativity, idempotence, associativity, early and late reduction agree |
| `Nodes_ordered` | three nodes, seven events: two noops in a chain, a fork, a noop at the join and an event behind it; every append, every batch of the catalog, every sync | equal event sets give equal histories, stable order; `GrowOnlyHistory` is implemented; convergence |
| `Net_sessions` | two nodes, six events with a fork, a chain, a join and a noop that nothing depends on; either listens, syncs or pushes; connections break at any point, losing any part of what is under way | what is read last has been delivered, a whole session unifies its ends, only a push is refused, and histories change as `DistributedNodes` allows |
| `Net_backlog` | three nodes, three events; two call each other and the third calls one of them, so that backlogs fill | every call in a session returns |
| `Store_recover` | three events, two concurrent writes and a noop at the tip; memory and file store, default configuration and noops kept, snapshots by hand and after every second event; at most 3 lines, 4 events counted and 1 snapshot | recovered is what was logged, snapshots never run ahead of the log, counts cover it, the cached functor is fresh, and `DurableHistory` is implemented |
| `Hash_parallel` | five DAGs (empty; five roots under two more levels; two roots, so two threads, under a wider level; a gap; rewired by `remove`, with an id on a level that no event is stored under), 1 to 4 cores, calls one after the other | slices are disjoint and complete, the result is the sequential one, calls return |

The catalogs are chosen so that the cases in which the code branches occur: a noop
behind a noop (resolution takes several steps), a noop with two children and a noop
with two parents, a survivor with a noop and an ordinary parent, equal payloads that
become isomorphic only by elimination, and a second generation of them that becomes
isomorphic only by a merge. In `Net_sessions` a session exchanges events both ways and
each end has some that the other lacks. In `Store_recover` a log may hold an event
twice, be cut in or after a line, hold lines behind a cut one, and be read with an
older snapshot, with one of another process, or with none. Three lines are enough for a
line that is glued to one that was glued; five roots over 1 to 4 cores give chunks
that are full, short, and fewer than the threads.

Actions add nothing that is not in the catalog, so there is little to bound:
`max_iterations`, and in `Persistence` the lines (`MaxLines`), counters (`MaxCount`)
and snapshots (`MaxSnapshots`), which grow with repeated appends.

`OneEventPerShape` and `IncrementalExact` speak of calls of `reduce` on histories in which no event has the id that another is stored under
(`FreshIds`); an earlier C1 and a later insert can make such a pair, which is what
`NF_unlisted` is about. `MemoSound` has callers ask about events whose past is there.
`Net_sessions` and `Store_recover` have noops only at the tip: what happens to an event
behind a noop is the subject of `Net_rewired`, and for persistence described below.

Violations, each with one property that states what the repository says and that the
code does not keep:

| Run | The repository says | What happens |
|---|---|---|
| `NF_unlisted` | "Topological sort of all events" (`dag.rs:167`) | C1 leaves a child under an old key with a new id; after the event with that id arrives, events of a closed history are not listed |
| `NF_ghost` | "Two events `e₁, e₂` with `coneHash(e₁) = coneHash(e₂)` are merged into one" (`src/FormalTheory.md:66`) | in its second turn C1 keeps of a group the event that the first turn merged away, whose hash is still cached, and removes the live one |
| `Nodes_any_order` | "two nodes that have seen the same events will always compute the same state, regardless of the order they received them" (`src/README.md:27`) | `append` of a noop eliminates it at once, so an event behind it that comes next dangles, and functors do not see it; a node that is given the two in the other order has it rewired and shows it |
| `Net_rewired` | "sync(A, B) = { H_A := nf(H_A ∪ H_B), H_B := nf(H_A ∪ H_B) }" (`network.rs:31`) | the receiver hashes a rewired event anew (243, 304) and stores it under another id than the sender |

`NF_ghost` takes one call of `reduce` with `assume_content_addressed` off, as the test at
`nf.rs:815` has it, on nine events inserted parents first. S1 and S2 become equal when
their noop goes; R1, R2 and Z stand on the first, the second and both; C and D on R1 and
R2; X on R1 and Z. In the first turn D is merged into C, S2 into S1 and R2 into R1, which
changes the hash of C, and that of X into the one that D had when it went. In the second
turn D and X are a group. Ids are hashes, so D comes first as often as not, and then X is
removed, although nothing like it is left. An event on top of X would point to D, which is
not there: `StaysWhole`, `IncrementalExact` and `OneEventPerShape` then fail as well.

Met while modelling, without a run of their own:

* DAG. An event inserted after its child is no leaf, and leaves a memoized ancestor set
  short (`dag.rs:93`). After a compaction the id of a rewired event is no longer the hash
  of its content (`event.rs:48` against `dag.rs:362`); after `remove` has rewired a
  child, `topological_order` loses it, for its key and its id have separate in-degrees
  (`dag.rs:190-194`).
* Normal form. Two events with equal payload behind different noops become isomorphic by
  C3, and the default configuration skips C1 then (`nf.rs:254`, 260). Pairs in
  `reidentified` are not among `inserted` and `removed` (`nf.rs:170`); C1 does not clear
  the ancestry memo (`dag.rs:59`); a second turn of C1 counts events again that the cache
  still has. Merge is not associative on histories with gaps (`merge.rs:11`).
* Network. A push can never succeed: the listener expects Have after the handshake
  (`network.rs:285-288` against the protocol at 20-22). The comment at 335 tolerates a
  missing Bye, and `conn.recv()?` at 336 does not: the listener returns an error although
  both histories are complete. No timeout is ever set; `NetworkError::Timeout` (104) is
  never raised, so a peer that is alive and silent blocks its other end.
* Persistence. `replay_from_store` rebuilds the kernel with the default configuration
  (`persistence.rs:292`), whichever it was created with: a kernel that keeps noops gets
  back an event behind a noop with a dangling parent, although replay "must reproduce
  state exactly" (584). `Store_recover` with the catalog `NoopInside` of `MCPersistence`
  finds it. Restoring a snapshot hashes rewired events anew, under ids that their
  children do not point to (`persistence.rs:189`; "reconstruct the exact DAG", 131). A
  restart or a replay leaves `snapshot_seq` where a new kernel has it, although it is
  "monotonically increasing" (136). `event_count` counts the lines of eliminated noops
  again at every restore, and duplicates at replay. `FileStore::append` does not ignore
  duplicate ids, as line 50 asks. One torn line makes every later load fail, and an
  unfinished line swallows the next append, which was acknowledged (441).
* Kernel. The cached functor is keyed by size (`kernel.rs:136`): it is stale when another
  kernel of the same size is passed, and when a kernel that kept noops is replayed.
* Parallel hashing. The number of threads is limited by the first level
  (`cone.rs:262-265`), so a history with one genesis is hashed by one thread throughout.

### Fairness

* `EventuallyConverged`: weak fairness of every `SyncWith(n, m)`. The code starts no sync
  by itself: that nodes keep pulling from each other is what its callers must provide, as
  gossip anti-entropy (`network.rs:27`) does. Clients may stop at any time and owe
  nothing; since the catalog is finite, their appends end or change nothing.
* `EveryCallReturns`: weak fairness of `Proceed(n)`, the next step of the call that a node
  is in: a thread that has something to read, or whose stream has ended, is scheduled.
  Nothing makes anybody listen, connect, append or break a connection. A node in
  `accept` may wait for ever, and the property does not speak of it.
* `HashingEnds`: weak fairness of the caller and of each thread it has started.

## 4. Proofs

All theorems are about arbitrary sets of nodes or authors and arbitrary catalogs of
events, finite or not, whose ids are the terms of their content. What they assume:

* `CatalogAssumption`, in each module: the catalog holds events made with `Event::new`,
  in `DagApi` and `NormalForm` with finitely many parents; for `DistributedNodes` it also
  contains genesis and the parents of its members. The ranks that stand for the order of
  ids in `NormalForm` are numbers.
* `AcyclicAssumption` of `DagApi`: no catalog event is its own ancestor, as no hash is
  among the hashes it is made from.
* `HashingAssumption`: the DAGs that are hashed are finite, and there is a core. They may
  have gaps, be rewired, or have a reverse index that is wrong.
* `SetupAssumption` and `BoundsAssumption` of `Persistence`: a line that does not parse is
  no event, and the bounds let the lines of a log be counted.
* `InOrder`, where a theorem names it: an event is appended only when all its parents are
  in the history, or in one batch with them. Parents before children is not enough: a
  parent that is a noop and came before is gone. `Nodes_any_order` shows what happens then.
* `NoopsAtTip`, where a theorem names it: no event of the catalog has a noop among its
  parents. The theorems are false without it, as `Net_rewired` shows: an event behind a noop is rewired, and then hashed anew under
  another id by the receiver, or left dangling by a replay.
* `Kept`, where a theorem names it: in every state no event of the history that `reduce`
  was called on has the id that another is stored under (`FreshIds`), C1 keeps one event
  of each group (`OneIsKept`), and the owner inserts an event after its parents, and not
  again after a merge has removed it (`InsertsAnew`). The first two are no facts about the
  code: `NF_unlisted` and `NF_ghost` show how they fail. TLC has reached thousands of states
  of the instance of `NF_reduce` in which all three hold. For an owner who fills a history parents first and calls `reduce` once
  (`OneCall`) all but `OneIsKept` is proved, and in the first turn that is, too.

| Theorem | Says |
|---|---|
| `DagApiProofs!DagTyped`, `DagIndexExact` | `TypeOK` and `IndexExact` after any calls |
| `DagApiProofs!DagAcyclic` | no event ever becomes its own ancestor |
| `DagApiProofs!DagMemoSound` | `MemoSound` |
| `DagApiProofs!DagFrontierCovers` | `FrontierIsWholePast` |
| `DagApiProofs!DagOrderExact` | `TopoExact`: Kahn's algorithm is right |
| `DagApiProofs!DagKeepsCausality` | `CausalityPreserved` |
| `DagApiProofs!DagOpensNoGap` | `NoNewGap` |
| `DagApiProofs!DagCompactionComposes` | `CompactionComposes`, for any tombstones |
| `ParallelHashingProofs!SlicesSound` | `SlicesExact`, for any level and any number of cores |
| `ParallelHashingProofs!HashingExact` | `ParallelExact`: threads compute what the sequential path computes |
| `NormalFormProofs!NormalFormTyped` | `TypeOK`, in every configuration |
| `NormalFormProofs!DefaultIsNoopElimination` | `DefaultIsC3` |
| `NormalFormProofs!ContentAddressingMerges` | `NothingToMerge` |
| `NormalFormProofs!StatisticsAccount` | `StatsAccount` |
| `NormalFormProofs!OneTurnIsEnough` | the loop ends after one turn, unless C1 runs beside C3 |
| `NormalFormProofs!MeasureDecreases`, `BoundIsSlack` | `TurnsBounded`; and `max_iterations` never decides when it is above the number of events and one |
| `NormalFormProofs!FirstTurnKeepsOne` | `OneIsKept` in the first turn of every call |
| `NormalFormProofs!KeptStaysWhole`, `KeptIncrementalExact`, `KeptOneEventPerShape` | `StaysWhole`, `IncrementalExact`, `OneEventPerShape`, under `Kept`, over any number of calls |
| `NormalFormProofs!OneCallNormalizes` | the three, in one call on a history filled parents first, if `OneIsKept` |
| `NormalFormProofs!FirstTurnIsExact` | `StaysWhole` and `IncrementalExact` up to the end of the first turn of such a call, with no other hypothesis |
| `HistoryProofs!MergeLaws` | merge commutes, associates and is idempotent, nf(nf(A) u B) = nf(A u B), and nf(A) u nf(B) = nf(A u B), for parts of a world |
| `RawHistoriesProofs!RawTypes` | histories built with `insert`, in any order, are well typed with an exact index |
| `RawHistoriesProofs!RawMergeJoins`, `RawMergeAssociates`, `RawReducesWhenever` | `MergeJoins`, `MergeAssociates`, `ReduceEarlyOrLate`: the laws hold of all histories built parents first |
| `DistributedNodesProofs!NodesTyped` | `TypeOK` |
| `DistributedNodesProofs!NodesConverge` | `HistoryIsView`, `SameEventsSameHistory`, and that histories are closed |
| `DistributedNodesProofs!SameReceivedConverges` | `SameReceivedSameHistory` and `SameReceivedSameState`, what `Nodes_any_order` refutes of nodes that are given events in any order, hold under `InOrder` |
| `DistributedNodesProofs!NodesRefine` | the nodes implement `GrowOnlyHistory` |
| `DistributedNodesProofs!NodesKeepOrder` | `OrderIsStable` |
| `NetworkProofs!SessionsFollowScript` | `OnlyPushIsRefused`, for any catalog in any order |
| `NetworkProofs!NobodyIsStuck` | `SomebodyCanRead`: nobody waits in a circle, with any number of nodes and any catalog |
| `NetworkProofs!SessionsTyped` | `NetTypeOK` |
| `NetworkProofs!SessionsRefine` | `RefinesNodes`: sessions change histories only as `DistributedNodes` allows |
| `NetworkProofs!SessionsDeliver`, `SessionsUnify` | `OkMeansDelivered`, `SyncUnifies` |
| `PersistenceProofs!StoreTyped` | `StoreTypeOK` |
| `PersistenceProofs!StoreLogsFirst`, `StoreCounts` | `SnapshotBehindLog`, `CountCoversLog` |
| `PersistenceProofs!StoreIsDetermined` | `LogDeterminesKernel`, for logs of any length |
| `PersistenceProofs!StoreCacheFresh` | `CachedFresh` |
| `PersistenceProofs!StoreRefines` | the kernel with its log implements `DurableHistory` |

nf(nf(A) u B) = nf(A u B) is the lemma that `FormalTheory.md` leaves open
(lines 225-237); it is proved here for the noop elimination that the default
configuration performs, and needs the histories to be closed.

**The DAG.** `remove` of one event and `compact_tombstones` of a set are both
*contractions*: the events outside a set stay, and each has for parents what a search
through the set finds from its old parents (`RemoveContracts`, `CompactContracts`). The
key lemma (`ContractedSearch`) is that a search in a contracted DAG finds what the
search in the DAG found, less the set. From it follow that contraction keeps ancestors
among those that stay (`ContractionKeepsAncestors`), hence causality and acyclicity, and
that contracting twice is contracting once by both sets (`ContractionsCompose`), hence
compaction composes. The inductive invariant `Good` says that types hold, the index is
exact, every ancestor in the DAG is one in the world (the DAG of the whole catalog), and
the memo is sound for events whose past was there. Acyclicity alone is not inductive,
as a late insert could close a cycle; that ancestors are those of the world is. The
memo survives an insert since what was asked about lacked nothing.

**Finite DAGs.** What is true of every finite acyclic DAG is proved from two facts about
numbers and cardinalities, `LeastNumber` and `SmallestSet`: a property that fails
somewhere fails first somewhere, with a least number or a smallest past. So every event
lies below a tip (`ForwardEnds`). For the order, `KahnTurns` says what one turn does to
the degrees, and `KahnLevels` that the degree of an id is always the number of its parents
not listed yet, so that a level lists what has become ready, once each; `KahnEnds` that
there are enough levels, as every turn before the last lists something new; and
`OrderIsExact` that an event is listed exactly when no gap is in its past. That the DAG is
`Finite` is an invariant of its own.

**Parallel hashing.** That slices are exact rests on an invariant (`HInv`) that says that the first k slices cover exactly the first
min(k * size, length) slots, laid end to end. Everything rests on facts about rounding
up (`ceil`): that the chunks reach the end of the level, that all but the last are full,
and that there are at most as many as threads.

That the result is the sequential one needs to know what has been written (`RInv`). The
cache at the start of level n is what the sequential path computes from the levels before
it; a chunk lists its part of the level, in order; and each slot that its thread has
passed holds the hash due there. Threads read only the cache, which nobody changes until
all of them have ended, so how they interleave does not show. Slots and chunks agree since
both are laid end to end with the same sizes, and at `EndLevel` the slices cover the
level, so that the whole level enters the cache. Both paths end at the first empty level,
as after it all levels are empty (`EmptyLevelEnds`). TLC has checked `RInv` as an
invariant of `Hash_parallel`.

**Normal form.** `GInv` is what holds in every configuration: finite DAGs, payloads that
belong to their keys, and groups and duplicates that name inserted ids, of which the merges
of C1 need each (`MergeKeepsDag`). What one call does is followed by two more invariants.
`DInv` is for the default configuration: up to C3 the DAG is as it was, and behind it
it is the DAG without noops, `has_noops` is false and counters say what went. Since no noop
is left C1 is skipped, nothing has changed it since, and each of the two early exits of
the loop that may fire is right. `NInv` is for noop elimination switched off. Then every
stored event still has the id of its content, and `DistinctCones` says that no two of them
have the same cone hash: take two ids that share one in the least level where that
happens; equal hashes have equal payloads and equal sets of parent hashes, so by the
choice of level equal parents, so equal ids. An event over a gap
is not listed, so it has no hash and is in no group; a listed one has all its parents in
earlier levels. So C1 finds no group and the first turn is the last. `StatsAccount` and the single turn
follow from the two invariants. TLC has checked the three invariants on the
instance of `NF_reduce`.

**C1 beside C3.** That the loop ends is `SizeInv`: a turn never adds an event, and one that
is followed by another has removed one. The rest is `WholeInv`. Between phases the history
is *whole*: closed, no event its own ancestor, every parent with an edge to its child, and
no edge whose parent is gone. (Edges to children that are gone do stay.) The cache is
*exact*: what it says of an event is what hashing it from the entries of its parents gives;
in a whole history that is the true hash (`ExactIsTrue`). Neither survives a merge, after
which hashes are old and some of the children of a canonical event are still to be found.
`MergeInv` says what is true meanwhile. The hashes taken before the merges still *trace* the
history: they give the payload of each event and, but for how many have the same, the
hashes of its parents, since a parent is replaced by one of equal hash (`TracedAgrees`).
So merging closes no cycle, for a cycle would be one of hashes, each made from the one before
(`HashFounded`), and shapes do not change (`MergeKeepsTraced`). What no longer has its own
hash is marked, so when the groups are done, hashing again what is marked and what stands on
it (`Invalidated`, a least closed set) makes the cache exact (`ComputeDirtyIsExact`
in `HistoryProofs`, from what `KahnReaches` and `LoopHashes` say of a loop of Kahn's that may
list a node too early, but then lists it again). `LoopInv` follows shapes over the turns: they are those
of the history after the first C3, and a turn that ends with two events of one hash has
merged, so neither test of the loop takes it for the last one. With no two hashes equal no two
shapes are (`DistinctShapes`).

The proof needs that a merge has something to merge into. In the first turn it has:
all hashes belong to events that are there, and groups are disjoint (`FirstInv`). In later
turns the cache has hashes of merged events, and the search for an invariant that makes
them harmless is what led to `NF_ghost`: there is none. TLC has checked `WholeInv`, `SizeInv`
and `FirstInv` on the instance of `NF_reduce`, under `Kept`.

**Merge and nodes.** A history is a *part* of the world if it is closed, its index is
exact, and each of its events is stored either as in the world or *bare*, with its
parents resolved through noops. The key lemma (`PartResolve`) is that the search of
`compact_tombstones` finds the same nearest real ancestors in every part, whether noop
elimination has been there before or not: both searches are least closed sets, and each
is contained in the other. So reducing a part leaves exactly `View`, which depends on
nothing but the keys (`ReduceIsView`), the union of two parts is a part (`UnionIsPart`),
and a merge depends only on the union of keys (`MergeIsView`). All laws follow.

For nodes the inductive invariant `IInv` says that each history is the view of its
own keys, holds no noop, and is closed. None of the three is inductive alone: a view
is a part of the world only if it is closed, and a union is reduced to a view only if
both sides were parts. Closure of what arrives is the guard
`InOrder`; without it the theorems fail, as `Nodes_any_order` shows. `IInv` is the
conjunction of what `Nodes_ordered` checks and closure. To get from what a node holds to what
it has been given takes one more conjunct (`ReceivedInv`): a history has exactly the events
its node has been given, but for the noops. TLC has checked `SameReceivedSameHistory` under
`InOrder` on the catalog of `Nodes_ordered` with two nodes.

**Network.** A session is a script, and at every moment its two ends are at two places of
it that agree with what is on the way between them. `SInv` says so: what may lie in a queue
for each `pc` of its reader (`Scripted`), which pairs of places and queues belong together
(`Agree`), and which links are working, waiting in a backlog, or cut. It says nothing of
contents, and alone gives `SessionsFollowScript`, for any catalog. With `BInv`, which says
that whoever is not accepted yet is in the backlog of a node that serves somebody else, it
gives `NobodyIsStuck`: a server and its peer always have one between them that can read, and
a backlog is told when its listener leaves. TLC has checked `SomebodyCanRead` on the
instance of `Net_backlog`; it is the safety that `EveryCallReturns` rests on. `DInv` adds what is
known of the contents. A Have names ids that its sender has, a Want only ids that the
other end has, and events under way come from the history of their sender (`Truthful`); a
list that answers a Want is exactly the difference of the histories (`Exchange`); an end
that has heard of its peer's last batch holds no more than the peer (`Heard`).
Since histories only grow while a session runs and each node is in one session at a
time, what was true when it was sent is true when it arrives. That received batches are
closed over the receiver's history makes each step one of `BatchAppend`.

**Persistence.** With noops at tips, what a kernel does to its DAG depends only on ids:
its DAG is always `Held(K)`, the events of a finite closed set K of ids as they were made,
and appending, inserting a snapshot or replaying a line each add at most one id to K
(`HeldAppend`; for a log of any length, by induction over its lines). So the
invariant `StoreInv` speaks of four sets of ids: those of the kernel, of the log, of the
snapshot, and of the history for which the cache has the answer. The log has causes
before effects; kernel and snapshot have nothing that a readable log lacks; a loaded kernel has
all of the log but noops; each count is at least the number of ids it stands for; and the
cached history is part of the loaded one, so that equal size means equal. None
of these is inductive alone: the tail that a restore applies is closed only because log
and snapshot both are, and the count it starts from covers the snapshot only because every
count covered its kernel when the snapshot was taken. TLC has checked `StoreInv` as an
invariant of `Store_recover`.

`Merge` models reduction as one pass of C3. `DefaultIsNoopElimination` is what justifies
this for the default configuration, the one that nodes use.

Only model-checked: all liveness (`EventuallyConverged`, `EveryCallReturns`,
`HashingEnds`), which is out of reach of the prover. Of the safety properties of passing
runs none is left without a theorem, but three have one only under `Kept`: `StaysWhole`,
`IncrementalExact` and `OneEventPerShape`, which are false without it, and which `NF_reduce`
checks as they stand on a catalog where no merge loses an event.
`BoundNeverDecides`, that `max_iterations` does not end a call, is false for a bound of 1;
`BoundIsSlack` says when it holds. Induction over data is done with `LeastNumber` and `SmallestSet`, since the
induction theorems of the library take an operator that the provers cannot instantiate.

## 5. Not modelled

* Kernel: `total_stats`, which adds up numbers that `NormalForm` checks; `LogFunctor` and
  `CounterFunctor`, which only read; `IncrementalStateKernel`, which stores a state and
  subscribers that nothing uses.
* Network: addresses and names, the counts in acknowledgements, which are printed.
* Persistence: the JSON of snapshots, timestamps, `diff_from`, `known_ids` and `len`.
* Command line, demos, tests and benchmarks: no state of their own. The calls that the
  command line makes are actions of `Network`.
* Hash collisions, memory limits, and formatting.

## 6. Plan

Done: every component with state, and the proofs of section 4. If the code is changed so
that C1 forgets the hashes of the events it removes, `OneIsKept` should hold in every turn
by the argument for the first one, and `Kept` can go from `OneCallNormalizes`. What
remains for another tool is liveness; and `total_stats` and the delta of `reduce` for a
model that counts.
