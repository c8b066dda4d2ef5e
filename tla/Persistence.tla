----------------------------- MODULE Persistence -----------------------------
(***************************************************************************)
(* IncrementalKernel of src/src/persistence.rs: a kernel whose appends go  *)
(* to a log first, snapshots of its DAG, and the two ways back after a     *)
(* restart, over the memory and the file store.                            *)
(*                                                                         *)
(* A call runs to its end unless the process dies in it.  All that is left *)
(* then is the log and the snapshot its owner saved, so dying anywhere     *)
(* after the write to the log is the same as dying right after it.         *)
(***************************************************************************)
EXTENDS Kernel

CONSTANTS
    Catalog,        \* the events that callers append
    Configs,        \* the configurations that kernels are created with
    Intervals,      \* and the snapshot intervals; 0 for none
    Garbage,        \* a line that does not parse
    MaxLines,       \* bounds: lines in the log, events counted (in all, and since the
                    \* last snapshot), snapshots taken
    MaxCount,
    MaxSnapshots

ASSUME CatalogAssumption ==
    \A e \in Catalog : /\ e.payload \in Data \union {Noop}
                       /\ e = NewEvent(e.payload, e.parents)

ASSUME SetupAssumption ==
    /\ Configs \subseteq Config
    /\ Intervals \subseteq Nat
    /\ Garbage \notin Catalog \union {GenesisEvent}

ASSUME BoundsAssumption ==
    /\ MaxLines \in Nat /\ MaxCount \in Nat /\ MaxSnapshots \in Nat
    /\ MaxLines <= MaxCount        \* the lines of a log that is replayed are counted

VARIABLES
    setup,      \* what a process is started with: store, configuration, interval
    kernel,
    log,        \* the lines of the store, and whether the last one lacks its end
    counters,   \* event_count, events_since_snapshot and snapshot_seq
    saved,      \* the snapshot that the owner has saved, a set of at most one
    loaded,     \* the kernel has all that the log has: FALSE after a restart, and
                \* after a call that returned an error, until a load succeeds
    cache       \* a CachedKvFunctor that reads the kernel

vars == <<setup, kernel, log, counters, saved, loaded, cache>>

Fresh ==
    /\ kernel' = NewKernel(setup.config)
    /\ counters' = [event_count |-> 0, since |-> 0, snapshot_seq |-> 0]
    /\ cache' = NoCache

Init ==
    /\ setup \in [store : {"memory", "file"}, config : Configs, interval : Intervals]
    /\ kernel = NewKernel(setup.config)
    /\ log = [lines |-> <<>>, open |-> FALSE]
    /\ counters = [event_count |-> 0, since |-> 0, snapshot_seq |-> 0]
    /\ saved = {}
    /\ loaded = TRUE
    /\ cache = NoCache

----------------------------------------------------------------------------
Logged(l) == {l.lines[k] : k \in DOMAIN l.lines}

Readable == Garbage \notin Logged(log)

\* What is written after a line without its end becomes part of that line.
Added(l, text) ==
    IF l.open THEN [l.lines EXCEPT ![Len(l.lines)] = Garbage] ELSE Append(l.lines, text)

\* The memory store ignores an id that it has; the file store does not look.
Written(l, e) ==
    IF setup.store = "memory" /\ e \in Logged(l)
    THEN l
    ELSE [lines |-> Added(l, e), open |-> FALSE]

\* A write to the file that stops on the way: before the first byte, in the text, or
\* between the text and the end of the line.
CutWrites(l, e) ==
    {l} \union {[lines |-> Added(l, text), open |-> TRUE] : text \in {e, Garbage}}

\* Lines are hashed again when they are read.
Reloaded(e) == IF setup.store = "file" THEN NewEvent(e.payload, e.parents) ELSE e

FromDag(d, seq, count) == [seq |-> seq, events |-> Events(d), source |-> count]

\* Snapshot events are hashed again as well.
ToDag(snapshot) == InsertAll(EmptyDag, {NewEvent(e.payload, e.parents) : e \in snapshot.events})

----------------------------------------------------------------------------
\* A variant that does not start to count again.
SnapCounting(d, c) ==
    /\ c.snapshot_seq < MaxSnapshots
    /\ saved' \in {saved, {FromDag(d, c.snapshot_seq + 1, c.event_count)}}
    /\ counters' = [c EXCEPT !.snapshot_seq = @ + 1]

\* take_snapshot, of DAG d with these counters.  The owner saves latest_snapshot,
\* before there is another one, or not.
Snap(d, c) ==
    /\ c.snapshot_seq < MaxSnapshots
    /\ saved' \in {saved, {FromDag(d, c.snapshot_seq + 1, c.event_count)}}
    /\ counters' = [c EXCEPT !.snapshot_seq = @ + 1, !.since = 0]

\* append: the log before the kernel.  Callers build on what the kernel shows them.
AppendLogged(e) ==
    LET counted == [counters EXCEPT !.event_count = @ + 1, !.since = @ + 1]
    IN  /\ e.parents \subseteq Keys(kernel.dag)
        /\ Len(log.lines) < MaxLines
        /\ counters.event_count < MaxCount /\ counters.since < MaxCount
        /\ log' = Written(log, e)
        /\ kernel' = KernelAppend(kernel, e)
        /\ \/ /\ setup.interval > 0 /\ counted.since >= setup.interval
              /\ Snap(kernel'.dag, counted)
           \/ /\ ~(setup.interval > 0 /\ counted.since >= setup.interval)
              /\ counters' = counted
              /\ UNCHANGED saved
        /\ UNCHANGED <<setup, loaded, cache>>

\* A variant that has applied the event before it writes it.
AppendFailingLate(e) ==
    /\ setup.store = "file"
    /\ e.parents \subseteq Keys(kernel.dag)
    /\ Len(log.lines) < MaxLines
    /\ log' \in CutWrites(log, e)
    /\ kernel' = KernelAppend(kernel, e)
    /\ loaded' = (loaded /\ log' = log)
    /\ UNCHANGED <<setup, counters, saved, cache>>

\* append, when the store returns an error
AppendFailing(e) ==
    /\ setup.store = "file"
    /\ e.parents \subseteq Keys(kernel.dag)
    /\ Len(log.lines) < MaxLines
    /\ log' \in CutWrites(log, e)
    /\ loaded' = (loaded /\ log' = log)
    /\ UNCHANGED <<setup, kernel, counters, saved, cache>>

TakeSnapshot ==
    /\ Snap(kernel.dag, counters)
    /\ UNCHANGED <<setup, kernel, log, loaded, cache>>

\* The kernel after each of some lines, with what there was before the first.
Replayed(lines) ==
    LET after[n \in 0 .. Len(lines)] ==
            IF n = 0 THEN NewKernel("default") ELSE KernelAppend(after[n - 1], Reloaded(lines[n]))
    IN  after

\* A variant that skips the lines it cannot read.
ReplaySkipping ==
    LET lines == SelectSeq(log.lines, LAMBDA x : x # Garbage)
    IN  /\ kernel' = Replayed(lines)[Len(lines)]
        /\ counters' = [counters EXCEPT !.event_count = Len(lines)]
        /\ loaded' = TRUE
        /\ UNCHANGED <<setup, log, saved, cache>>

\* A variant that leaves event_count as it is.
ReplayUncounted ==
    /\ Readable
    /\ kernel' = Replayed(log.lines)[Len(log.lines)]
    /\ loaded' = TRUE
    /\ UNCHANGED <<setup, log, counters, saved, cache>>

\* replay_from_store; when the log is not read, everything stays as it is.
Replay ==
    /\ Readable
    /\ kernel' = Replayed(log.lines)[Len(log.lines)]
    /\ counters' = [counters EXCEPT !.event_count = Len(log.lines)]
    /\ loaded' = TRUE
    /\ UNCHANGED <<setup, log, saved, cache>>

\* A variant that takes the lines after the first source_event_count for the tail.
RestoreAfterCount ==
    \E snapshot \in saved :
        LET after[n \in snapshot.source .. Len(log.lines)] ==
                IF n = snapshot.source
                THEN [kernel EXCEPT !.dag = ToDag(snapshot)]
                ELSE KernelAppend(after[n - 1], Reloaded(log.lines[n]))
        IN  /\ Readable
            /\ snapshot.source <= Len(log.lines)
            /\ kernel' = after[Len(log.lines)]
            /\ counters' = [counters EXCEPT !.snapshot_seq = snapshot.seq,
                                            !.event_count = Len(log.lines)]
            /\ loaded' = TRUE
            /\ UNCHANGED <<setup, log, saved, cache>>

\* An event of the log that the restored kernel r lacks.
Taken(known, r, e) ==
    IF e.id \in known \union Keys(r.kernel.dag)
    THEN r
    ELSE [kernel |-> KernelAppend(r.kernel, e), count |-> r.count + 1]

\* The kernel and event_count after each of the lines, from those of the snapshot.
Restored(snapshot, lines) ==
    LET known == {e.id : e \in snapshot.events}
        after[n \in 0 .. Len(lines)] ==
            IF n = 0
            THEN [kernel |-> [kernel EXCEPT !.dag = ToDag(snapshot)], count |-> snapshot.source]
            ELSE Taken(known, after[n - 1], Reloaded(lines[n]))
    IN  after

\* restore_from_snapshot_and_wal; when the log is not read, as a line does not parse or
\* the file cannot be opened, the kernel is left with the snapshot.
Restore ==
    \E snapshot \in saved, read \in BOOLEAN :
        LET lines  == IF read THEN log.lines ELSE <<>>
            result == Restored(snapshot, lines)[Len(lines)]
        IN  /\ read => Readable
            /\ ~read => setup.store = "file"
            /\ result.count <= MaxCount
            /\ kernel' = result.kernel
            /\ counters' = [counters EXCEPT !.snapshot_seq = snapshot.seq,
                                            !.event_count = result.count]
            /\ loaded' = read
            /\ UNCHANGED <<setup, log, saved, cache>>

\* The process ends between two calls, and another one opens the store.
Restart ==
    /\ Fresh
    /\ loaded' = FALSE
    /\ UNCHANGED <<setup, log, saved>>

\* The process ends in an append.
CrashInAppend(e) ==
    /\ setup.store = "file"
    /\ e.parents \subseteq Keys(kernel.dag)
    /\ Len(log.lines) < MaxLines
    /\ log' \in CutWrites(log, e) \union {Written(log, e)}
    /\ Fresh
    /\ loaded' = FALSE
    /\ UNCHANGED <<setup, saved>>

AskKv ==
    /\ cache' = CachedGet(cache, kernel.dag)
    /\ UNCHANGED <<setup, kernel, log, counters, saved, loaded>>

InvalidateKv ==
    /\ cache' = NoCache
    /\ UNCHANGED <<setup, kernel, log, counters, saved, loaded>>

Next ==
    \/ \E e \in Catalog : AppendLogged(e) \/ AppendFailing(e) \/ CrashInAppend(e)
    \/ TakeSnapshot
    \/ Replay
    \/ Restore
    \/ Restart
    \/ AskKv
    \/ InvalidateKv

Spec == Init /\ [][Next]_vars

----------------------------------------------------------------------------
LogTypeOK ==
    /\ log = [lines |-> log.lines, open |-> log.open]
    /\ log.lines \in Seq(Catalog \union {Garbage})
    /\ log.open \in BOOLEAN
    /\ log.open => log.lines # <<>>

\* The kernel holds events of the catalog, and noops only if it was created to keep them; 
\* the interval is kept to; at most one snapshot is saved.
StoreTypeOK ==
    /\ LogTypeOK
    /\ kernel.config \in {"default", setup.config}
    /\ Events(kernel.dag) \subseteq Catalog \union {GenesisEvent}
    /\ setup.config = "default" => Noops(kernel.dag) = {}
    /\ counters \in [event_count : 0 .. MaxCount, since : 0 .. MaxCount, snapshot_seq : 0 .. MaxSnapshots]
    /\ setup.interval > 0 => counters.since < setup.interval
    /\ Cardinality(saved) <= 1
    /\ loaded \in BOOLEAN

\* What the kernel has is, noops aside, what the log has, however it came there: appended,
\* replayed, restored with the rest of the log, some of it several times, in this process or in
\* earlier ones ("replay must reproduce state exactly", "state must be preserved after
\* snapshot+WAL replay").
LogDeterminesKernel ==
    loaded /\ Readable =>
        Same(Reduce(kernel.dag), Reduce(InsertAll(EmptyDag, Logged(log) \union {GenesisEvent})))

\* Nothing is in a snapshot that the log does not have ("Persist first (WAL before
\* apply - crash-safe)").
SnapshotBehindLog ==
    Readable =>
        \A snapshot \in saved :
            snapshot.events \subseteq Logged(log) \union {GenesisEvent}

\* "event_count includes all appended events".
CountCoversLog ==
    loaded /\ Readable => counters.event_count >= Cardinality(Logged(log))

\* What the cached functor answers is the current state, for a kernel with the default
\* configuration: a history of the size it remembers is the history it remembers.
CachedFresh ==
    loaded /\ setup.config = "default" =>
        CachedGet(cache, kernel.dag).state = KvState(kernel.dag)

\* Through crashes, restarts and cut lines a history comes back whole or not at all.
RealIds(events) == {e.id : e \in {x \in events : x # Garbage /\ ~IsNoop(x)}}

Abstract == INSTANCE DurableHistory WITH
    Real       <- RealIds(Catalog),
    Root       <- GenesisEvent.id,
    Down       <- {},
    Unreadable <- {},
    stored     <- IF Readable THEN RealIds(Logged(log) \union {GenesisEvent}) ELSE {},
    view       <- IF loaded THEN RealIds(Events(kernel.dag)) ELSE {}

RefinesDurable == Abstract!Spec
=============================================================================
