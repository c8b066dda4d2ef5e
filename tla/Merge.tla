------------------------------- MODULE Merge -------------------------------
(***************************************************************************)
(* The merge protocol of src/src/merge.rs, merge(A, B) = nf(A u B), with   *)
(* the normal form that NfConfig::default() computes (src/src/nf.rs).      *)
(*                                                                         *)
(* With the default configuration one reduce() is one run of phase C3: C3  *)
(* takes every noop out, which clears has_noops, so C1 is skipped (under   *)
(* assume_content_addressed); C2 has no candidate (is_passthrough is       *)
(* false); and the loop stops after the first turn that changed nothing    *)
(* but noops, or after a turn that changed nothing.  NormalForm.tla has    *)
(* the loop itself, for every configuration; the run NF_reduce compares    *)
(* the two, and NormalFormProofs.tla proves that they agree.               *)
(***************************************************************************)
EXTENDS CausalDag

Noops(d) == {i \in Keys(d) : IsNoop(d.events[i])}

\* A variant that keeps the reverse index of before.
PhaseC3StaleIndex(d) == [CompactTombstones(d, Noops(d)) EXCEPT !.children = d.children]

\* A variant that only takes out noops that something depends on.
PhaseC3InnerOnly(d) == CompactTombstones(d, Noops(d) \ Frontier(d))

\* phase_c3_remove_noops
PhaseC3(d) == CompactTombstones(d, Noops(d))

\* reduce, in the default configuration
Reduce(d) == PhaseC3(d)

\* A variant that reduces the left operand before the union and nothing after it.
MergeReducedLeft(a, b) == UnionWith(Reduce(a), b)

\* merge_histories: the closure check it switches on only prints a warning.
MergeHistories(a, b) == Reduce(UnionWith(a, b))

----------------------------------------------------------------------------
\* Two DAGs that a reader of events and children cannot tell apart.
Same(a, b) == a.events = b.events /\ a.children = b.children

\* An event of W once the noops between it and its causes are gone, and the
\* history of those who know the events of K.
Bare(W, i) == WithParents(W.events[i], Resolve(W, Noops(W), W.events[i].parents))

View(W, K) ==
    LET events == [i \in K |-> Bare(W, i)]
    IN  [events |-> events, children |-> EdgesOf(events), ancestry_cache |-> <<>>]

\* The CRDT laws of the module comment of merge.rs.
Commutes(a, b) == Same(MergeHistories(a, b), MergeHistories(b, a))

Associates(a, b, c) ==
    Same(MergeHistories(MergeHistories(a, b), c), MergeHistories(a, MergeHistories(b, c)))

IsIdempotent(a) == Same(MergeHistories(a, a), Reduce(a))

\* nf(nf(A) u B) = nf(A u B), the lemma FormalTheory.md leaves open, and
\* nf(A) u nf(B) = nf(A u B) of PROJECT_ANALYSIS.md.
ReduceAbsorbs(a, b) == Same(MergeHistories(Reduce(a), b), MergeHistories(a, b))

ReduceDistributes(a, b) == Same(UnionWith(Reduce(a), Reduce(b)), Reduce(UnionWith(a, b)))
=============================================================================
