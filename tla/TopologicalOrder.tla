-------------------------- MODULE TopologicalOrder --------------------------
(***************************************************************************)
(* CausalDag::topological_order (src/src/dag.rs): Kahn's algorithm by      *)
(* levels.  A level is the multiset of ids that the loop appends to its    *)
(* output in one turn, as a function id -> number of times; sorting a      *)
(* level by id only fixes the order of its members and is left out.        *)
(*                                                                         *)
(* In-degrees are entered under the key of each event and added to under   *)
(* its `id` field.  The two differ after CausalDag!Remove, and then the    *)
(* counts and the walk over the reverse index no longer meet.              *)
(***************************************************************************)
EXTENDS CausalDag, Integers, FiniteSets

Ids(d) == Keys(d) \union {e.id : e \in Events(d)} \union {x[2] : x \in d.children}

\* A variant that counts only the parents that are present.
InDegreeOfPresent(d) ==
    [i \in Ids(d) |->
        Cardinality({x \in Keys(d) \X AllParents(d) : /\ d.events[x[1]].id = i
                                                      /\ x[2] \in d.events[x[1]].parents
                                                      /\ x[2] \in Keys(d)})]

\* The parents of all the events that have the id i: how many <<key, parent>> there are.
InDegree(d) ==
    [i \in Ids(d) |->
        Cardinality({x \in Keys(d) \X AllParents(d) : /\ d.events[x[1]].id = i
                                                      /\ x[2] \in d.events[x[1]].parents})]

\* The ids that have an in-degree entry before the first level is collected.
Entered(d) == Keys(d) \union {e.id : e \in Events(d)}

FirstLevel(d) == LET degree == InDegree(d) IN [i \in {x \in Entered(d) : degree[x] = 0} |-> 1]

Less(x, y) == IF x > y THEN x - y ELSE 0     \* saturating_sub

\* A variant that pushes a node at every decrement, without the test for 0.
PushesUntested(degree, n) == n

\* A decrement pushes its node whenever it leaves 0 behind, those that had
\* nothing left to subtract from included.
Pushes(degree, n) == IF degree = 0 THEN n ELSE Less(n + 1, degree)

\* The listings of a level, numbered for each id.
Listings(level) == UNION {{<<p, n>> : n \in 1 .. level[p]} : p \in DOMAIN level}

\* One turn of Kahn's loop: every listing of a parent decrements its children.
Turn(children, t) ==
    LET minus  == [c \in DOMAIN t.degree |->
                      Cardinality({x \in Listings(t.level) : <<x[1], c>> \in children})]
        pushes == [c \in DOMAIN t.degree |-> Pushes(t.degree[c], minus[c])]
    IN  [degree |-> [c \in DOMAIN t.degree |-> Less(t.degree[c], minus[c])],
         level  |-> [c \in {x \in DOMAIN t.degree : pushes[x] > 0} |-> pushes[c]]]

\* Kahn's loop over the nodes that have an in-degree.  The bound on the number of
\* turns is a level per node, and one for the empty level.  (A turn is taken from a
\* set of one so that TLC evaluates it once.)
Kahn(children, in_degree) ==
    LET last == Cardinality(DOMAIN in_degree.degree)
        turn[n \in 0 .. last] ==
            IF n = 0
            THEN in_degree
            ELSE CHOOSE next \in {Turn(children, t) : t \in {turn[n - 1]}} : TRUE
    IN  [n \in 0 .. last |-> turn[n].level]

Levels(d) == Kahn(d.children, [degree |-> InDegree(d), level |-> FirstLevel(d)])

\* The ids that the levels list, and how often.
ListedIn(levels) == UNION {DOMAIN levels[n] : n \in DOMAIN levels}

Times(levels, i) ==
    Cardinality({x \in UNION {{n} \X Listings(levels[n]) : n \in DOMAIN levels} : x[2][1] = i})

\* i is listed, and every time after the last listing of p.
ListedAfter(levels, p, i) ==
    \A m, n \in DOMAIN levels : p \in DOMAIN levels[m] /\ i \in DOMAIN levels[n] => m < n

Listed(d) == ListedIn(Levels(d))

----------------------------------------------------------------------------
\* "Returns events in causal order (parents before children)": every listed
\* event comes once and after all of its parents.
CausalOrder(d) ==
    LET levels == Levels(d)
    IN  \A i \in ListedIn(levels) :
            /\ i \in Keys(d)
            /\ Times(levels, i) = 1
            /\ \A p \in d.events[i].parents :
                  p \in ListedIn(levels) /\ ListedAfter(levels, p, i)

\* The order leaves out exactly the events with a gap somewhere in their past.
ListsWhatIsComplete(d) ==
    Listed(d) = {i \in Keys(d) : Ancestors(d, i) \subseteq Keys(d)}
=============================================================================
