----------------------------- MODULE ConeHasher -----------------------------
(***************************************************************************)
(* The cone hashes of src/src/cone.rs as operators on a cache id -> hash.  *)
(* The hash of an event is the term it is made from: the payload and, for  *)
(* every hash among its cached parents, how many parents have it.  (The    *)
(* code sorts the list of parent hashes, so only their number counts.)     *)
(***************************************************************************)
EXTENDS TopologicalOrder

ConeHash(e, cache) ==
    LET ps == e.parents \intersect DOMAIN cache
    IN  <<e.payload, {<<h, Cardinality({p \in ps : cache[p] = h})>> : h \in {cache[p] : p \in ps}}>>

\* Level after level, every listed key is hashed from what the earlier levels left
\* in the cache; an id listed again is hashed again.  (The sequential code also sees
\* the members of the same level that sort first; when one of those is a parent, it
\* lists the child once more in the next level.)
HashLevels(cache, levels, d) ==
    LET after[n \in DOMAIN levels] ==
            LET before == IF n = 0 THEN cache ELSE after[n - 1]
                hashed == DOMAIN levels[n] \intersect Keys(d)
            IN  [i \in DOMAIN before \union hashed |->
                    IF i \in hashed THEN ConeHash(d.events[i], before) ELSE before[i]]
    IN  after[Cardinality(DOMAIN levels) - 1]

\* compute_all
ComputeAll(d) == HashLevels(<<>>, Levels(d), d)

\* A variant that drops only the hashes of the changed ids.
InvalidatedAlone(cache, changed, d) == changed

\* invalidate: the changed ids and whatever is reached from them over children
\* that are still cached, as the least set closed under such edges.
Invalidated(cache, changed, d) ==
    LET edges == {x \in d.children : x[2] \in DOMAIN cache}
        reach == changed \union {x[2] : x \in edges}
    IN  {i \in reach :
            \A X \in SUBSET reach :
                changed \subseteq X /\ (\A x \in edges : x[1] \in X => x[2] \in X) => i \in X}

Invalidate(cache, changed, d) ==
    [i \in DOMAIN cache \ Invalidated(cache, changed, d) |-> cache[i]]

\* compute_dirty: Kahn's loop over the keys without a hash, counting only the
\* parents that have none either.
ComputeDirty(cache, d) ==
    LET dirty  == Keys(d) \ DOMAIN cache
        degree == [i \in dirty |-> Cardinality(d.events[i].parents \intersect dirty)]
        roots  == [i \in {x \in dirty : degree[x] = 0} |-> 1]
    IN  HashLevels(cache, Kahn(d.children, [degree |-> degree, level |-> roots]), d)

\* isomorphic_groups: over the whole cache, removed events included.
IsomorphicGroups(cache) ==
    {g \in {{i \in DOMAIN cache : cache[i] = h} : h \in {cache[j] : j \in DOMAIN cache}} :
        Cardinality(g) > 1}
=============================================================================
