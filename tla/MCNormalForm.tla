---------------------------- MODULE MCNormalForm ----------------------------
(* Catalogs for model checking NormalForm. *)
EXTENDS NormalForm, Sequences

CONSTANTS a, b

\* Two noops in a chain; the same payload behind each of them (equal cones once
\* the noops are gone); an event on both, one on the second, and one on top.
eG  == NewEvent(Genesis, {})
eN1 == NewEvent(Noop, {eG.id})
eN2 == NewEvent(Noop, {eN1.id})
eX1 == NewEvent(a, {eN1.id})
eX2 == NewEvent(a, {eN2.id})
eY  == NewEvent(b, {eX1.id, eX2.id})
eZ2 == NewEvent(b, {eX2.id})
eT  == NewEvent(a, {eY.id})

Twins == {eG, eN1, eN2, eX1, eX2, eY, eZ2, eT}

\* Orders of the ids: each pair that can share a cone, both ways round.
RankOf(seq) == [i \in {seq[k].id : k \in DOMAIN seq} |-> CHOOSE k \in DOMAIN seq : seq[k].id = i]
FourRanks == {RankOf(<<eG, eN1, eN2, eT>> \o xs \o ys) :
                 xs \in {<<eX1, eX2>>, <<eX2, eX1>>}, ys \in {<<eY, eZ2>>, <<eZ2, eY>>}}

\* Two events that are equal once the noop is gone, with one event on each and one on
\* both; C and D, equal then too, stand on the first two, and X on the first and the
\* third.  The first turn merges D into C, then makes X what D was.
gN  == NewEvent(Noop, {})
gS1 == NewEvent(a, {})
gS2 == NewEvent(a, {gN.id})
gR1 == NewEvent(b, {gS1.id})
gR2 == NewEvent(b, {gS2.id})
gZ  == NewEvent(b, {gS1.id, gS2.id})
gC  == NewEvent(a, {gR1.id, gR2.id})
gD  == NewEvent(a, {gR1.id, gR2.id, gN.id})
gX  == NewEvent(a, {gR1.id, gZ.id})

Sorted == <<gN, gS1, gS2, gR1, gR2, gZ, gC, gD, gX>>
Ghosts == {Sorted[k] : k \in DOMAIN Sorted}
OneRank == {RankOf(Sorted)}

\* NfConfig::default(), C1 on noops and all, C1 after every C3.
Default   == [max_iterations           |-> 8,
              enable_cone_merge        |-> TRUE,
              enable_chain_contract    |-> TRUE,
              enable_noop_elim         |-> TRUE,
              assume_content_addressed |-> TRUE]
KeepNoops == [Default EXCEPT !.enable_noop_elim = FALSE]
MergeAll  == [Default EXCEPT !.assume_content_addressed = FALSE]

Merging == {MergeAll}
Three   == {Default, KeepNoops, MergeAll}
=============================================================================
