----------------------- MODULE ParallelHashingProofs -----------------------
(***************************************************************************)
(* The slices that hash_levels_parallel hands to its threads never overlap *)
(* and cover the level, for every length of a level and any number of      *)
(* cores; and what the threads leave in the cache is what the sequential   *)
(* path computes, for every DAG and however they interleave.               *)
(***************************************************************************)
EXTENDS ParallelHashing, HistoryProofs

\* A multiple of y lies below x exactly as often as rounding up says.
LEMMA CeilCounts ==
    ASSUME NEW x \in Nat, NEW y \in Nat \ {0}
    PROVE  /\ Ceil(x, y) \in Nat
           /\ \A k \in Nat : k < Ceil(x, y) <=> k * y < x
  <1> DEFINE s == x + y - 1
             q == s \div y
             r == s % y
  <1>1. s \in Nat
    OBVIOUS
  <1>2. q \in Nat /\ r \in 0 .. y - 1 /\ s = y * q + r
    BY <1>1
  <1>3. ASSUME NEW k \in Nat, k < q PROVE k * y < x
    <2>1. (q - 1 - k) * y >= 0
      BY <1>2, <1>3
    <2>2. (q - 1 - k) * y = y * q - y - k * y
      BY <1>2
    <2>3. QED
      BY <1>2, <2>1, <2>2
  <1>4. ASSUME NEW k \in Nat, k * y < x PROVE k < q
    <2>1. SUFFICES ASSUME k >= q PROVE FALSE
      BY <1>2
    <2>2. (k - q) * y >= 0 /\ (k - q) * y = k * y - y * q
      BY <1>2, <2>1
    <2>3. QED
      BY <1>2, <1>4, <2>2
  <1>5. QED
    BY <1>2, <1>3, <1>4 DEF Ceil

----------------------------------------------------------------------------
\* The ids that levels may list, and a slice as its owner knows it.
Names == UNION {Ids(d) : d \in Dags}

Slice == [first : Nat, size : Nat]

\* How many slots the first k chunks take.
Taken(k) == Least(k * ChunkSize, Len(order))

\* What the caller knows in every state: the slices started so far lie end to end.
\* (The offset is a sum of lengths of chunks, and each chunk is found from its number.)
HInv ==
    /\ threads \in Nat \ {0}
    /\ turn \in Nat
    /\ order \in Seq(Names)
    /\ order # <<>> => dag \in Dags
    /\ pc = "level" => dag \in Dags
    /\ slices \in Seq(Slice)
    /\ Len(slices) <= ChunkCount
    /\ offset = Taken(Len(slices))
    /\ \A k \in 1 .. Len(slices) : slices[k] = [first |-> Taken(k - 1), size |-> Taken(k) - Taken(k - 1)]

\* The chunks of a level that is not empty: each but those after the last starts inside
\* it, the last one ends at its end, and there are no more of them than threads.
LEMMA ChunksFit ==
    ASSUME threads \in Nat \ {0}, order \in Seq(Names)
    PROVE  /\ ChunkCount \in Nat
           /\ ChunkSize \in Nat
           /\ ChunkCount <= threads
           /\ \A k \in Nat : k < ChunkCount <=> order # <<>> /\ k * ChunkSize < Len(order)
           /\ Taken(ChunkCount) = Len(order)
  <1>1. Len(order) \in Nat /\ (order = <<>> <=> Len(order) = 0)
    OBVIOUS
  <1>2. /\ ChunkSize \in Nat
        /\ \A k \in Nat : k < ChunkSize <=> k * threads < Len(order)
    BY <1>1, CeilCounts DEF ChunkSize
  <1>3. CASE order = <<>>
    <2>1. ChunkCount = 0
      BY <1>3 DEF ChunkCount
    <2>2. 0 * ChunkSize = 0
      BY <1>2
    <2>3. QED
      BY <1>1, <1>2, <1>3, <2>1, <2>2 DEF Taken, Least
  <1>4. CASE order # <<>>
    <2>1. ChunkSize \in Nat \ {0}
      BY <1>1, <1>2, <1>4
    <2>2. /\ ChunkCount \in Nat
          /\ \A k \in Nat : k < ChunkCount <=> k * ChunkSize < Len(order)
      BY <1>1, <1>4, <2>1, CeilCounts DEF ChunkCount
    <2>3. ~(threads * ChunkSize < Len(order))
      <3>1. ~(ChunkSize * threads < Len(order))
        BY <1>2
      <3>2. QED
        BY <3>1, <1>2
    <2>4. ChunkCount <= threads
      BY <2>2, <2>3
    <2>5. ~(ChunkCount * ChunkSize < Len(order))
      BY <2>2
    <2>6. ChunkCount * ChunkSize \in Nat
      BY <2>1, <2>2
    <2>7. QED
      BY <1>1, <1>2, <1>4, <2>2, <2>4, <2>5, <2>6 DEF Taken, Least
  <1>5. QED
    BY <1>3, <1>4

\* Chunks are taken one after the other and never past the end.
LEMMA TakenGrows ==
    ASSUME threads \in Nat \ {0}, order \in Seq(Names), NEW j \in Nat, NEW k \in Nat, j <= k
    PROVE  Taken(j) \in Nat /\ Taken(j) <= Taken(k) /\ Taken(k) <= Len(order)
  <1>1. ChunkSize \in Nat /\ Len(order) \in Nat
    BY ChunksFit
  <1>2. (k - j) * ChunkSize >= 0 /\ (k - j) * ChunkSize = k * ChunkSize - j * ChunkSize
    BY <1>1
  <1>3. j * ChunkSize \in Nat /\ k * ChunkSize \in Nat
    BY <1>1
  <1>4. QED
    BY <1>1, <1>2, <1>3 DEF Taken, Least

\* The chunk with number k has the length that its slice should have.
LEMMA ChunkLength ==
    ASSUME threads \in Nat \ {0}, order \in Seq(Names),
           NEW k \in Nat \ {0}, k <= ChunkCount
    PROVE  Len(Chunk(k)) = Taken(k) - Taken(k - 1)
  <1>1. ChunkSize \in Nat /\ Len(order) \in Nat
    BY ChunksFit
  <1>2. (k - 1) * ChunkSize < Len(order) /\ (k - 1) * ChunkSize \in Nat
    <2>1. k - 1 \in Nat /\ k - 1 < ChunkCount
      BY ChunksFit
    <2>2. (k - 1) * ChunkSize < Len(order)
      BY <2>1, ChunksFit
    <2>3. (k - 1) * ChunkSize \in Nat
      BY <1>1, <2>1
    <2>4. QED
      BY <2>2, <2>3
  <1>3. Taken(k - 1) = (k - 1) * ChunkSize
    BY <1>1, <1>2 DEF Taken, Least
  <1>4. Taken(k - 1) <= Taken(k) /\ Taken(k) <= Len(order) /\ Taken(k) \in Nat
    BY TakenGrows
  <1>5. Chunk(k) = SubSeq(order, Taken(k - 1) + 1, Taken(k))
    BY <1>3 DEF Chunk, Taken
  <1>6. QED
    BY <1>1, <1>2, <1>3, <1>4, <1>5

\* End to end slices of a level are disjoint and inside it.
LEMMA SlicesInvImplies == HInv => SlicesExact
  <1> SUFFICES ASSUME HInv PROVE SlicesExact
    OBVIOUS
  <1> USE DEF HInv
  <1>1. /\ Len(order) \in Nat /\ Len(slices) \in Nat
        /\ ChunkCount \in Nat /\ ChunkCount <= threads
        /\ DOMAIN slices = 1 .. Len(slices)
    BY ChunksFit
  <1>2. ASSUME NEW k \in 1 .. Len(slices)
        PROVE  /\ Slots(k) = Taken(k - 1) + 1 .. Taken(k)
               /\ Taken(k - 1) \in Nat /\ Taken(k) \in Nat
               /\ Taken(k) <= Len(order)
    <2>1. k - 1 \in Nat /\ k \in Nat /\ k - 1 <= k /\ k <= k
      BY <1>1
    <2>2. Taken(k - 1) \in Nat /\ Taken(k) <= Len(order)
      BY <2>1, TakenGrows
    <2>3. Taken(k) \in Nat
      BY <2>1, TakenGrows
    <2>4. slices[k] = [first |-> Taken(k - 1), size |-> Taken(k) - Taken(k - 1)]
      OBVIOUS
    <2>5. Slots(k) = Taken(k - 1) + 1 .. Taken(k)
      <3> HIDE DEF HInv
      <3>1. Slots(k) = Taken(k - 1) + 1 .. Taken(k - 1) + (Taken(k) - Taken(k - 1))
        BY <2>4 DEF Slots
      <3>2. Taken(k - 1) + (Taken(k) - Taken(k - 1)) = Taken(k)
        BY <2>2, <2>3
      <3>3. QED
        BY <3>1, <3>2
    <2>6. QED
      BY <2>2, <2>3, <2>5
  <1>3. Len(slices) <= threads
    BY <1>1
  <1>4. \A k \in DOMAIN slices : Slots(k) \subseteq 1 .. Len(order)
    BY <1>1, <1>2
  <1>5. ASSUME NEW j \in 1 .. Len(slices), NEW k \in 1 .. Len(slices), j < k
        PROVE  Slots(j) \intersect Slots(k) = {}
    <2>1. Taken(j) <= Taken(k - 1)
      <3>1. j \in Nat /\ k - 1 \in Nat /\ j <= k - 1
        BY <1>1, <1>5
      <3>2. QED
        BY <3>1, TakenGrows
    <2>2. QED
      BY <1>2, <2>1
  <1>6. \A j, k \in DOMAIN slices : j # k => Slots(j) \intersect Slots(k) = {}
    <2> SUFFICES ASSUME NEW j \in 1 .. Len(slices), NEW k \in 1 .. Len(slices), j # k
                 PROVE  Slots(j) \intersect Slots(k) = {}
      BY <1>1
    <2>1. CASE j < k
      BY <1>5, <2>1
    <2>2. CASE k < j
      BY <1>5, <2>2
    <2>3. QED
      BY <2>1, <2>2
  <1>7. ASSUME Len(slices) = ChunkCount, NEW s \in 1 .. Len(order)
        PROVE  \E k \in DOMAIN slices : s \in Slots(k)
    <2>1. ChunkSize \in Nat \ {0}
      <3>1. ChunkSize \in Nat /\ Taken(ChunkCount) = Len(order) /\ ChunkCount \in Nat
        BY ChunksFit
      <3>2. CASE ChunkSize = 0
        <4>1. ChunkCount * ChunkSize = 0
          BY <3>1, <3>2
        <4>2. QED
          BY <1>1, <1>7, <3>1, <4>1 DEF Taken, Least
      <3>3. QED
        BY <3>1, <3>2
    <2> DEFINE k == Ceil(s, ChunkSize)
    <2>2. k \in Nat /\ \A n \in Nat : n < k <=> n * ChunkSize < s
      <3>1. s \in Nat
        BY <1>1
      <3>2. QED
        BY <2>1, <3>1, CeilCounts
    <2>3. 0 * ChunkSize = 0
      BY <2>1
    <2>4. k > 0
      BY <2>2, <2>3
    <2>5. (k - 1) * ChunkSize < s /\ ~(k * ChunkSize < s)
      BY <2>2, <2>4
    <2>6. (k - 1) * ChunkSize \in Nat /\ k * ChunkSize \in Nat
      BY <2>1, <2>2, <2>4
    <2>7. k - 1 < ChunkCount
      <3>1. order # <<>> /\ (k - 1) * ChunkSize < Len(order)
        BY <1>1, <2>5, <2>6
      <3>2. QED
        BY <2>2, <2>4, <3>1, ChunksFit
    <2>8. k \in DOMAIN slices
      BY <1>1, <1>7, <2>2, <2>4, <2>7
    <2>9. Taken(k - 1) < s /\ s <= Taken(k)
      BY <1>1, <2>5, <2>6 DEF Taken, Least
    <2>10. s \in Slots(k)
      BY <1>1, <1>2, <2>8, <2>9
    <2>11. QED
      BY <2>8, <2>10
  <1>8. Len(slices) = ChunkCount => 1 .. Len(order) = UNION {Slots(k) : k \in DOMAIN slices}
    BY <1>4, <1>7
  <1> HIDE DEF HInv
  <1>9. QED
    BY <1>3, <1>4, <1>6, <1>8 DEF SlicesExact

----------------------------------------------------------------------------
\* No chunk of any size is taken before the first.
LEMMA NoTimes == \A x \in Nat : 0 * x = 0
  OBVIOUS

\* A level entered anew has no slices yet.
LEMMA EnteringKeepsHInv ==
    ASSUME NEW ids \in Seq(Names), EnterLevel(ids), threads' \in Nat \ {0}, turn' \in Nat, dag' \in Dags
    PROVE  HInv'
  <1>1. /\ order' = ids /\ slices' = <<>> /\ offset' = 0
        /\ Len(slices') = 0 /\ slices' \in Seq(Slice)
    BY DEF EnterLevel
  <1>2. /\ ChunkCount' \in Nat
        /\ ChunkSize' \in Nat
        /\ Len(order') \in Nat
    <2>1. Len(order') \in Nat /\ (order' = <<>> <=> Len(order') = 0)
      BY <1>1
    <2>2. ChunkSize' \in Nat /\ \A k \in Nat : k < ChunkSize' <=> k * threads' < Len(order')
      BY <2>1, CeilCounts DEF ChunkSize
    <2>3. 0 * threads' = 0
      BY NoTimes
    <2>4. CASE order' # <<>>
      <3>1. ChunkSize' \in Nat \ {0}
        BY <2>1, <2>2, <2>3, <2>4
      <3>2. QED
        BY <2>1, <2>4, <3>1, CeilCounts DEF ChunkCount
    <2>5. CASE order' = <<>>
      BY <2>1, <2>2, <2>5 DEF ChunkCount
    <2>6. QED
      BY <2>1, <2>2, <2>4, <2>5
  <1>3. Taken(0)' = 0
    <2>1. 0 * ChunkSize' = 0
      BY <1>2, NoTimes
    <2>2. Taken(0)' = (IF 0 * ChunkSize' < Len(order') THEN 0 * ChunkSize' ELSE Len(order'))
      BY DEF Taken, Least
    <2>3. QED
      BY <1>1, <1>2, <2>1, <2>2
  <1>4. QED
    BY <1>1, <1>2, <1>3 DEF HInv

\* A level in some arrangement lists what the level lists.
LEMMA ArrangedLists ==
    ASSUME NEW N, IsFiniteSet(N), NEW level, DOMAIN level \subseteq N,
           \A i \in DOMAIN level : level[i] \in Nat \ {0}
    PROVE  /\ Arranged(level) \in Seq(DOMAIN level)
           /\ DOMAIN level = {Arranged(level)[k] : k \in 1 .. Len(Arranged(level))}
  <1> DEFINE copies == Listings(level)
             n      == Cardinality(copies)
             Fits(s) == \A j, k \in DOMAIN s : s[j] = s[k] => j = k
             places == CHOOSE s \in [1 .. n -> copies] : Fits(s)
             t      == Arranged(level)
  <1>1. IsFiniteSet(copies) /\ n \in Nat
    BY ListingsFinite, FS_CardinalityType
  <1>2. PICK b : b \in Bijection(1 .. n, copies)
    <2> HIDE DEF copies
    <2>1. QED
      BY <1>1, FS_CardinalityType DEF ExistsBijection
  <1>3. b \in [1 .. n -> copies] /\ Fits(b)
    BY <1>2 DEF Bijection, Injection, IsInjective
  <1>4. places \in [1 .. n -> copies] /\ Fits(places)
    <2> HIDE DEF copies, n
    <2>1. QED
      BY <1>3
  <1>5. t = [k \in DOMAIN places |-> places[k][1]]
    BY DEF Arranged
  <1> HIDE DEF places
  <1>6. places \in Injection(1 .. n, copies)
    BY <1>4 DEF Injection, IsInjective
  <1>7. places \in Surjection(1 .. n, copies)
    <2>1. Cardinality(1 .. n) = n
      BY <1>1, FS_Interval
    <2> HIDE DEF copies
    <2>2. QED
      BY <1>1, <1>6, <2>1, FS_Injection
  <1>8. \A x \in copies : x[1] \in DOMAIN level
    BY DEF Listings
  <1>9. \A i \in DOMAIN level : <<i, 1>> \in copies
    BY DEF Listings
  <1> HIDE DEF copies
  <1>10. t \in [1 .. n -> DOMAIN level]
    BY <1>4, <1>5, <1>8
  <1>11. t \in Seq(DOMAIN level) /\ Len(t) = n /\ DOMAIN t = 1 .. n
    BY <1>1, <1>10
  <1>12. ASSUME NEW i \in DOMAIN level PROVE \E k \in 1 .. n : t[k] = i
    <2>1. PICK k \in 1 .. n : places[k] = <<i, 1>>
      BY <1>7, <1>9 DEF Surjection
    <2>2. QED
      BY <1>4, <1>5, <2>1
  <1>13. QED
    BY <1>10, <1>11, <1>12

\* How many levels the order of d has, after the first.
Last(d) == Cardinality(Ids(d))

\* The levels of a DAG that is hashed, one by one.
LEMMA LevelsOf ==
    ASSUME NEW d \in Dags
    PROVE  /\ Finite(d)
           /\ LevelsShaped(d, Levels(d), Last(d))
           /\ \A n \in 0 .. Last(d) :
                  /\ LevelAt(d, n) \in Seq(Ids(d))
                  /\ DOMAIN Levels(d)[n] = {LevelAt(d, n)[k] : k \in 1 .. Len(LevelAt(d, n))}
           /\ LevelAt(d, Last(d) + 1) = <<>>
  <1>1. Finite(d) /\ IsFiniteSet(d.children)
    BY HashingAssumption DEF Finite
  <1>2. LevelsShaped(d, Levels(d), Last(d))
    BY <1>1, LevelsCount DEF Last
  <1>3. IsFiniteSet(Ids(d))
    BY <1>1, FinitelyManyIds
  <1>4. ASSUME NEW n \in 0 .. Last(d)
        PROVE  /\ LevelAt(d, n) \in Seq(Ids(d))
               /\ DOMAIN Levels(d)[n] = {LevelAt(d, n)[k] : k \in 1 .. Len(LevelAt(d, n))}
    <2> DEFINE level == Levels(d)[n]
    <2>1. /\ n \in DOMAIN Levels(d)
          /\ DOMAIN level \subseteq Ids(d)
          /\ \A i \in DOMAIN level : level[i] \in Nat \ {0}
      BY <1>2 DEF LevelsShaped
    <2>2. LevelAt(d, n) = Arranged(level)
      BY <2>1 DEF LevelAt
    <2> HIDE DEF level
    <2>3. /\ Arranged(level) \in Seq(DOMAIN level)
          /\ DOMAIN level = {Arranged(level)[k] : k \in 1 .. Len(Arranged(level))}
      BY <1>3, <2>1, ArrangedLists
    <2>4. Seq(DOMAIN level) \subseteq Seq(Ids(d))
      BY <2>1
    <2>5. QED
      BY <2>2, <2>3, <2>4 DEF level
  <1>5. LevelAt(d, Last(d) + 1) = <<>>
    <2>1. Last(d) + 1 \notin DOMAIN Levels(d)
      BY <1>2 DEF LevelsShaped
    <2>2. QED
      BY <2>1 DEF LevelAt
  <1>6. QED
    BY <1>1, <1>2, <1>4, <1>5

\* Any level of a DAG that is hashed is a sequence.
LEMMA LevelsAreSequences ==
    ASSUME NEW d \in Dags, NEW n \in Nat
    PROVE  LevelAt(d, n) \in Seq(Names)
  <1>1. Seq(Ids(d)) \subseteq Seq(Names)
    BY DEF Names
  <1>2. <<>> \in Seq(Names)
    OBVIOUS
  <1>3. CASE n \in 0 .. Last(d)
    BY <1>1, <1>3, LevelsOf
  <1>4. CASE n \notin 0 .. Last(d)
    BY <1>2, <1>4, LevelsOf DEF LevelAt, LevelsShaped
  <1>5. QED
    BY <1>3, <1>4

\* Starting a thread adds the next slice where the last one ends.
LEMMA SpawnKeepsHInv ==
    ASSUME HInv, Spawn
    PROVE  HInv'
  <1> DEFINE k == Len(slices) + 1
  <1>1. /\ threads \in Nat \ {0} /\ order \in Seq(Names)
        /\ slices \in Seq(Slice) /\ Len(slices) \in Nat
        /\ offset = Taken(Len(slices))
        /\ ChunkCount \in Nat
        /\ k \in Nat \ {0} /\ k <= ChunkCount /\ k - 1 = Len(slices)
    BY ChunksFit DEF HInv, Spawn
  <1>2. Len(Chunk(k)) = Taken(k) - Taken(k - 1)
    BY <1>1, ChunkLength
  <1>3. /\ Taken(k - 1) \in Nat /\ Taken(k) \in Nat /\ Taken(k - 1) <= Taken(k)
    <2>1. k - 1 \in Nat /\ k \in Nat /\ k - 1 <= k /\ k <= k
      BY <1>1
    <2>2. QED
      BY <1>1, <2>1, TakenGrows
  <1>4. UNCHANGED <<dag, pc, turn, order, threads>>
    BY DEF Spawn
  <1>5. ChunkCount' = ChunkCount /\ ChunkSize' = ChunkSize
    BY <1>4 DEF ChunkCount, ChunkSize
  <1>6. \A n : Taken(n)' = Taken(n)
    BY <1>4, <1>5 DEF Taken
  <1> DEFINE new == [first |-> Taken(k - 1), size |-> Taken(k) - Taken(k - 1)]
  <1>7. new \in Slice /\ slices' = Append(slices, new) /\ offset' = Taken(k)
    <2>1. new \in Slice
      BY <1>3 DEF Slice
    <2>2. /\ slices' = Append(slices, [first |-> offset, size |-> Len(Chunk(k))])
          /\ offset' = offset + Len(Chunk(k))
      BY DEF Spawn
    <2>3. offset = Taken(k - 1)
      BY <1>1
    <2>4. offset' = Taken(k)
      BY <1>2, <1>3, <2>2, <2>3
    <2>5. QED
      BY <1>2, <2>1, <2>2, <2>3, <2>4
  <1>8. /\ slices' \in Seq(Slice) /\ Len(slices') = k
        /\ \A n \in 1 .. Len(slices) : slices'[n] = slices[n]
        /\ slices'[k] = new
    BY <1>1, <1>7
  <1>9. \A n \in 1 .. Len(slices') :
            slices'[n] = [first |-> Taken(n - 1), size |-> Taken(n) - Taken(n - 1)]
    <2> SUFFICES ASSUME NEW n \in 1 .. Len(slices')
                 PROVE  slices'[n] = [first |-> Taken(n - 1), size |-> Taken(n) - Taken(n - 1)]
      OBVIOUS
    <2>1. CASE n = k
      BY <1>8, <2>1
    <2>2. CASE n # k
      <3>1. n \in 1 .. Len(slices)
        BY <1>1, <1>8, <2>2
      <3>2. QED
        BY <1>8, <3>1 DEF HInv
    <2>3. QED
      BY <2>1, <2>2
  <1>10. QED
    BY <1>1, <1>4, <1>5, <1>6, <1>7, <1>8, <1>9 DEF HInv

\* Between calls there is a level without ids.
LEMMA InitHInv == Init => HInv
  <1> SUFFICES ASSUME Init PROVE HInv
    OBVIOUS
  <1>1. /\ order = <<>> /\ slices = <<>> /\ offset = 0 /\ threads = 1 /\ turn = 0 /\ pc = "idle"
        /\ order \in Seq(Names) /\ slices \in Seq(Slice)
        /\ Len(slices) = 0 /\ Len(order) = 0
    BY DEF Init
  <1>2. ChunkCount = 0
    BY <1>1 DEF ChunkCount
  <1>3. ChunkSize \in Nat
    BY <1>1, CeilCounts DEF ChunkSize
  <1>4. Taken(0) = 0
    BY <1>1, <1>3 DEF Taken, Least
  <1>5. QED
    BY <1>1, <1>2, <1>4 DEF HInv

\* No step of the caller or of a thread disturbs the slices.
LEMMA NextHInv == HInv /\ [Next]_vars => HInv'
  <1> SUFFICES ASSUME HInv, [Next]_vars PROVE HInv'
    OBVIOUS
  <1>1. ASSUME NEW d \in Dags, NEW cores \in Cores, Start(d, cores) PROVE HInv'
    <2>1. EnterLevel(LevelAt(d, 0)) /\ LevelAt(d, 0) \in Seq(Names) /\ dag' = d /\ turn' = 0
      BY <1>1, LevelsAreSequences DEF Start
    <2>2. Len(order') \in Nat
      BY <2>1 DEF EnterLevel
    <2>3. threads' \in Nat \ {0}
      BY <1>1, <2>2, HashingAssumption DEF Start, Least, Greatest
    <2>4. QED
      BY <2>1, <2>3, EnteringKeepsHInv
  <1>2. ASSUME EndLevel PROVE HInv'
    <2>1. dag \in Dags /\ turn + 1 \in Nat /\ threads \in Nat \ {0}
      BY <1>2 DEF EndLevel, HInv
    <2>2. /\ EnterLevel(LevelAt(dag, turn + 1)) /\ turn' = turn + 1
          /\ dag' = dag /\ threads' = threads
      BY <1>2 DEF EndLevel
    <2>3. LevelAt(dag, turn + 1) \in Seq(Names)
      BY <2>1, LevelsAreSequences
    <2>4. QED
      BY <2>1, <2>2, <2>3, EnteringKeepsHInv
  <1>3. ASSUME UNCHANGED <<dag, turn, order, threads, offset, slices>>,
               pc' = "level" => pc = "level"
        PROVE HInv'
    <2>1. ChunkSize' = ChunkSize /\ ChunkCount' = ChunkCount
      BY <1>3 DEF ChunkSize, ChunkCount
    <2>2. \A n : Taken(n)' = Taken(n)
      BY <1>3, <2>1 DEF Taken
    <2>3. QED
      BY <1>3, <2>1, <2>2 DEF HInv
  <1>4. ASSUME NEW k \in DOMAIN slices, HashNext(k) PROVE HInv'
    BY <1>3, <1>4 DEF HashNext
  <1>5. ASSUME Return PROVE HInv'
    BY <1>3, <1>5 DEF Return
  <1>6. CASE UNCHANGED vars
    BY <1>3, <1>6 DEF vars
  <1>7. QED
    BY <1>1, <1>2, <1>4, <1>5, <1>6, SpawnKeepsHInv DEF Next

\* For any DAGs, any number of cores and any interleaving, no two threads share a slot
\* of the results, none writes outside them, and every slot has its thread: the unsafe
\* block of hash_levels_parallel is sound.
THEOREM SlicesSound == Spec => []SlicesExact
  <1>1. Init => HInv
    BY InitHInv
  <1>2. HInv /\ [Next]_vars => HInv'
    BY NextHInv
  <1>3. HInv => SlicesExact
    BY SlicesInvImplies
  <1>4. QED
    BY <1>1, <1>2, <1>3, PTL DEF Spec
----------------------------------------------------------------------------
\* The caches of the sequential path, and the one with which it enters level n.
Caches(d) == CHOOSE f : IsHashing(<<>>, Levels(d), d, Last(d), f)

CacheAt(d, n) == IF n = 0 THEN <<>> ELSE Caches(d)[n - 1]

\* What a thread writes for id, and the slots that some thread is done with.
Entry(id) == IF id \in Keys(dag) THEN {<<id, ConeHash(dag.events[id], cache)>>} ELSE {}

IsWritten(s) ==
    \E k \in 1 .. Len(slices) : slices[k].first < s /\ s <= slices[k].first + written[k]

\* Between two levels the cache is the one of the sequential path; in a level, the slots
\* written hold what is due to them, and no other slot holds anything.
RInv ==
    /\ pc \in {"idle", "level"}
    /\ pc = "idle" => cache = ComputeAll(dag)
    /\ pc = "level" => /\ turn <= Last(dag) + 1
                       /\ order = LevelAt(dag, turn)
                       /\ cache = CacheAt(dag, turn)
    /\ written \in Seq(Nat) /\ Len(written) = Len(slices)
    /\ \A k \in 1 .. Len(slices) : written[k] <= slices[k].size
    /\ results = [s \in 1 .. Len(order) |-> IF IsWritten(s) THEN Entry(order[s]) ELSE {}]

\* The sequential path enters each level with what the levels before left.
LEMMA CachesOf ==
    ASSUME NEW d \in Dags
    PROVE  /\ \A n \in 0 .. Last(d) : CacheAt(d, n + 1) = Hashed(CacheAt(d, n), Levels(d)[n], d)
           /\ CacheAt(d, Last(d) + 1) = ComputeAll(d)
  <1> DEFINE last == Last(d)
             f    == Caches(d)
  <1>1. last \in Nat /\ DOMAIN Levels(d) = 0 .. last
    BY LevelsOf DEF LevelsShaped
  <1>2. IsHashing(<<>>, Levels(d), d, last, f)
    <2>1. \E g : IsHashing(<<>>, Levels(d), d, last, g)
      BY <1>1, LevelsAreHashed
    <2>2. QED
      BY <2>1 DEF Caches
  <1> HIDE DEF f, last
  <1>3. ASSUME NEW n \in 0 .. last
        PROVE  CacheAt(d, n + 1) = Hashed(CacheAt(d, n), Levels(d)[n], d)
    <2>1. CacheAt(d, n + 1) = f[n]
      BY <1>1 DEF CacheAt, f
    <2>2. CASE n = 0
      BY <1>2, <2>1, <2>2 DEF CacheAt, IsHashing
    <2>3. CASE n # 0
      <3>1. n \in 1 .. last
        BY <1>1, <2>3
      <3>2. f[n] = Hashed(f[n - 1], Levels(d)[n], d)
        BY <1>2, <3>1 DEF IsHashing
      <3>3. QED
        BY <2>1, <2>3, <3>2 DEF CacheAt, f
    <2>4. QED
      BY <2>2, <2>3
  <1>4. CacheAt(d, last + 1) = ComputeAll(d)
    <2>1. CacheAt(d, last + 1) = f[last]
      BY <1>1 DEF CacheAt, f
    <2>2. QED
      BY <1>2, <2>1 DEF IsHashing, ComputeAll
  <1>5. QED
    BY <1>3, <1>4 DEF last

\* When a level lists nothing, the sequential path has hashed everything.
LEMMA EmptyLevelEnds ==
    ASSUME NEW d \in Dags, NEW n \in Nat, n <= Last(d) + 1, LevelAt(d, n) = <<>>
    PROVE  CacheAt(d, n) = ComputeAll(d)
  <1> DEFINE last == Last(d)
  <1>1. /\ last \in Nat
        /\ \A m \in 0 .. last : m > 0 /\ DOMAIN Levels(d)[m - 1] = {} => DOMAIN Levels(d)[m] = {}
    BY LevelsOf DEF LevelsShaped
  <1>2. n <= last => DOMAIN Levels(d)[n] = {}
    <2>1. SUFFICES ASSUME n \in 0 .. last PROVE DOMAIN Levels(d)[n] = {}
      BY <1>1
    <2>2. DOMAIN Levels(d)[n] = {LevelAt(d, n)[k] : k \in 1 .. Len(LevelAt(d, n))}
      BY <2>1, LevelsOf
    <2>3. QED
      BY <2>2
  <1> DEFINE Differs == {m \in n .. last + 1 : ~(/\ CacheAt(d, m) = CacheAt(d, n)
                                                 /\ m <= last => DOMAIN Levels(d)[m] = {})}
  <1>3. Differs = {}
    <2>1. SUFFICES ASSUME Differs # {} PROVE FALSE
      OBVIOUS
    <2>2. PICK m \in Differs : \A k \in Differs : m <= k
      <3>1. Differs \in SUBSET Nat
        BY <1>1
      <3> HIDE DEF Differs
      <3>2. QED
        BY <2>1, <3>1, LeastNumber
    <2>3. m # n
      BY <1>2, <2>2
    <2>4. m - 1 \in n .. last + 1 /\ m - 1 \in 0 .. last /\ m - 1 < m
      BY <1>1, <2>2, <2>3
    <2>5. m - 1 \notin Differs
      BY <1>1, <2>2, <2>4
    <2>6. CacheAt(d, m - 1) = CacheAt(d, n) /\ DOMAIN Levels(d)[m - 1] = {}
      BY <1>1, <2>4, <2>5
    <2>7. m <= last => DOMAIN Levels(d)[m] = {}
      BY <1>1, <2>4, <2>6
    <2>8. CacheAt(d, m - 1 + 1) = Hashed(CacheAt(d, m - 1), Levels(d)[m - 1], d)
      BY <2>4, CachesOf
    <2>9. CacheAt(d, m) = Hashed(CacheAt(d, n), Levels(d)[m - 1], d)
      <3>1. m - 1 + 1 = m
        BY <1>1
      <3>2. QED
        BY <2>6, <2>8, <3>1
    <2>10. CacheAt(d, m) = CacheAt(d, n)
      <3>1. CacheAt(d, n) = [i \in DOMAIN CacheAt(d, n) |-> CacheAt(d, n)[i]]
        <4>1. CASE n = 0
          BY <4>1 DEF CacheAt
        <4>2. CASE n # 0
          <5>1. n - 1 \in 0 .. last
            BY <1>1, <4>2
          <5>2. CacheAt(d, n - 1 + 1) = Hashed(CacheAt(d, n - 1), Levels(d)[n - 1], d)
            BY <5>1, CachesOf
          <5>3. QED
            BY <5>2 DEF Hashed
        <4>3. QED
          BY <4>1, <4>2
      <3>2. QED
        BY <2>6, <2>9, <3>1 DEF Hashed
    <2>11. QED
      BY <2>2, <2>7, <2>10
  <1>4. last + 1 \in n .. last + 1
    BY <1>1
  <1>5. CacheAt(d, last + 1) = CacheAt(d, n)
    BY <1>3, <1>4
  <1>6. QED
    BY <1>5, CachesOf

\* Before the first call there is nothing to hash.
LEMMA NothingToHash == ComputeAll(EmptyDag) = <<>>
  <1>1. Finite(EmptyDag) /\ IsFiniteSet(EmptyDag.children) /\ Keys(EmptyDag) = {}
    BY FS_EmptySet DEF EmptyDag, Finite, Keys
  <1> DEFINE last == Cardinality(Ids(EmptyDag))
  <1>2. last \in Nat /\ DOMAIN Levels(EmptyDag) = 0 .. last
    BY <1>1, LevelsCount DEF LevelsShaped
  <1>3. PICK f : IsHashing(<<>>, Levels(EmptyDag), EmptyDag, last, f)
    BY <1>2, LevelsAreHashed
  <1> HIDE DEF last
  <1>4. \A before, level : Hashed(before, level, EmptyDag) = [i \in DOMAIN before |-> before[i]]
    BY <1>1 DEF Hashed
  <1>5. ComputeAll(EmptyDag) = f[last]
    BY <1>3 DEF IsHashing, ComputeAll
  <1>6. DOMAIN f[last] = {}
    <2>1. DOMAIN HashLevels(<<>>, Levels(EmptyDag), EmptyDag) \subseteq DOMAIN <<>> \union Keys(EmptyDag)
      BY <1>2, HashesKeys
    <2>2. DOMAIN <<>> = {}
      OBVIOUS
    <2>3. QED
      BY <1>1, <1>5, <2>1, <2>2 DEF ComputeAll
  <1>7. f[last] = [i \in DOMAIN f[last] |-> f[last][i]]
    <2>1. CASE last = 0
      BY <1>3, <1>4, <2>1 DEF IsHashing
    <2>2. CASE last # 0
      <3>1. last \in 1 .. last
        BY <1>2, <2>2
      <3>2. QED
        BY <1>3, <1>4, <3>1 DEF IsHashing
    <2>3. QED
      BY <2>1, <2>2
  <1>8. QED
    BY <1>5, <1>6, <1>7

\* The chunk with number k lists the ids of the slots that its slice should have.
LEMMA ChunkLists ==
    ASSUME threads \in Nat \ {0}, order \in Seq(Names),
           NEW k \in Nat \ {0}, k <= ChunkCount,
           NEW w \in Nat, w < Taken(k) - Taken(k - 1)
    PROVE  /\ Taken(k - 1) + w + 1 \in 1 .. Len(order)
           /\ Chunk(k)[w + 1] = order[Taken(k - 1) + w + 1]
  <1>1. ChunkSize \in Nat /\ Len(order) \in Nat
    BY ChunksFit
  <1>2. k - 1 \in Nat /\ k - 1 < ChunkCount
    BY ChunksFit
  <1>3. (k - 1) * ChunkSize < Len(order)
    BY <1>2, ChunksFit
  <1>4. Taken(k - 1) = (k - 1) * ChunkSize
    BY <1>3 DEF Taken, Least
  <1>5. Taken(k - 1) \in Nat /\ Taken(k - 1) <= Taken(k) /\ Taken(k) <= Len(order)
    BY <1>2, TakenGrows
  <1>6. Taken(k) \in Nat
    BY <1>2, TakenGrows
  <1>7. Chunk(k) = SubSeq(order, Taken(k - 1) + 1, Taken(k))
    BY <1>4 DEF Chunk, Taken
  <1>8. Taken(k - 1) + w + 1 \in 1 .. Len(order)
    BY <1>1, <1>5, <1>6
  <1> DEFINE m == Taken(k - 1)
             n == Taken(k)
  <1>9. SubSeq(order, m + 1, n)[w + 1] = order[m + w + 1]
    <2>1. m \in Nat /\ n \in Nat /\ n <= Len(order) /\ w < n - m
      BY <1>5, <1>6
    <2> HIDE DEF m, n
    <2>2. QED
      BY <2>1
  <1>10. QED
    BY <1>7, <1>8, <1>9

\* A level entered anew has no slot written.
LEMMA EnteringKeepsRInv ==
    ASSUME NEW ids \in Seq(Names), EnterLevel(ids), pc' = "level",
           turn' <= Last(dag') + 1, ids = LevelAt(dag', turn'), cache' = CacheAt(dag', turn')
    PROVE  RInv'
  <1>1. /\ order' = ids /\ slices' = <<>> /\ written' = <<>>
        /\ results' = [k \in 1 .. Len(ids) |-> {}]
    BY DEF EnterLevel, EmptySlots
  <1>2. \A s : ~IsWritten(s)'
    BY <1>1 DEF IsWritten
  <1>3. results' = [s \in 1 .. Len(order') |-> IF IsWritten(s)' THEN Entry(order[s])' ELSE {}]
    BY <1>1, <1>2
  <1>4. written' \in Seq(Nat) /\ Len(written') = Len(slices') /\ Len(slices') = 0
    BY <1>1
  <1>5. /\ pc' = "level" => /\ turn' <= Last(dag)' + 1
                            /\ order' = LevelAt(dag, turn)'
                            /\ cache' = CacheAt(dag, turn)'
    BY <1>1 DEF Last, LevelAt, CacheAt, Caches
  <1>6. QED
    BY <1>3, <1>4, <1>5 DEF RInv

\* A call enters the first level with an empty cache.
LEMMA StartKeepsRInv ==
    ASSUME NEW d \in Dags, NEW cores \in Cores, Start(d, cores)
    PROVE  RInv'
  <1>1. /\ EnterLevel(LevelAt(d, 0)) /\ pc' = "level" /\ dag' = d /\ turn' = 0 /\ cache' = <<>>
    BY DEF Start
  <1>2. LevelAt(d, 0) \in Seq(Names)
    BY LevelsAreSequences
  <1>3. Last(d) \in Nat
    BY LevelsOf DEF LevelsShaped
  <1>4. CacheAt(d, 0) = <<>>
    BY DEF CacheAt
  <1>5. turn' <= Last(dag') + 1
    BY <1>1, <1>3
  <1>6. QED
    BY <1>1, <1>2, <1>4, <1>5, EnteringKeepsRInv

\* A thread that is started has written nothing yet.
LEMMA SpawnKeepsRInv ==
    ASSUME HInv, RInv, Spawn
    PROVE  RInv'
  <1> DEFINE k   == Len(slices) + 1
             new == [first |-> offset, size |-> Len(Chunk(k))]
  <1>1. UNCHANGED <<dag, cache, pc, turn, order, threads, results>>
    BY DEF Spawn
  <1>2. slices' = Append(slices, new) /\ written' = Append(written, 0)
    BY DEF Spawn
  <1>3. /\ slices \in Seq(Slice) /\ Len(slices) \in Nat
        /\ written \in Seq(Nat) /\ Len(written) = Len(slices)
    BY DEF HInv, RInv
  <1>4. HInv'
    BY SpawnKeepsHInv
  <1>5. slices' \in Seq(Slice)
    BY <1>4 DEF HInv
  <1>6. /\ Len(slices') = k /\ slices'[k] = new
        /\ \A n \in 1 .. Len(slices) : slices'[n] = slices[n]
    <2> HIDE DEF new
    <2>1. QED
      BY <1>2, <1>3
  <1>7. /\ written' \in Seq(Nat) /\ Len(written') = k /\ written'[k] = 0
        /\ \A n \in 1 .. Len(slices) : written'[n] = written[n]
    BY <1>2, <1>3
  <1>8. offset \in Nat /\ slices'[k].first = offset /\ slices'[k].size \in Nat
    <2>1. slices'[k] \in Slice
      BY <1>3, <1>5, <1>6
    <2>2. slices'[k].first = offset
      BY <1>6
    <2>3. QED
      BY <2>1, <2>2 DEF Slice
  <1>9. \A n \in 1 .. Len(slices') : written'[n] <= slices'[n].size
    <2> SUFFICES ASSUME NEW n \in 1 .. Len(slices') PROVE written'[n] <= slices'[n].size
      OBVIOUS
    <2>1. CASE n = k
      BY <1>7, <1>8, <2>1
    <2>2. CASE n # k
      <3>1. n \in 1 .. Len(slices)
        BY <1>3, <1>6, <2>2
      <3>2. QED
        BY <1>6, <1>7, <3>1 DEF RInv
    <2>3. QED
      BY <2>1, <2>2
  <1>10. ASSUME NEW s \in Nat PROVE IsWritten(s)' <=> IsWritten(s)
    <2>1. ASSUME IsWritten(s) PROVE IsWritten(s)'
      <3>1. PICK n \in 1 .. Len(slices) : slices[n].first < s /\ s <= slices[n].first + written[n]
        BY <2>1 DEF IsWritten
      <3>2. n \in 1 .. Len(slices')
        BY <1>3, <1>6
      <3>3. QED
        BY <1>6, <1>7, <3>1, <3>2 DEF IsWritten
    <2>2. ASSUME IsWritten(s)' PROVE IsWritten(s)
      <3>1. PICK n \in 1 .. Len(slices') : slices'[n].first < s /\ s <= slices'[n].first + written'[n]
        BY <2>2 DEF IsWritten
      <3>2. n # k
        BY <1>7, <1>8, <3>1
      <3>3. n \in 1 .. Len(slices)
        BY <1>3, <1>6, <3>2
      <3>4. QED
        BY <1>6, <1>7, <3>1, <3>3 DEF IsWritten
    <2>3. QED
      BY <2>1, <2>2
  <1>11. results' = [s \in 1 .. Len(order') |-> IF IsWritten(s)' THEN Entry(order[s])' ELSE {}]
    <2>1. \A id : Entry(id)' = Entry(id)
      BY <1>1 DEF Entry
    <2>2. results = [s \in 1 .. Len(order) |-> IF IsWritten(s) THEN Entry(order[s]) ELSE {}]
      BY DEF RInv
    <2>3. \A s \in 1 .. Len(order) : IsWritten(s)' <=> IsWritten(s)
      <3>1. Len(order) \in Nat
        BY DEF HInv
      <3>2. QED
        BY <1>10, <3>1
    <2>4. \A s : Entry(order[s])' = Entry(order[s])
      BY <1>1, <2>1 DEF Entry
    <2>5. QED
      BY <1>1, <2>2, <2>3, <2>4
  <1>12. QED
    BY <1>1, <1>6, <1>7, <1>9, <1>11 DEF RInv

\* A thread that hashes an id fills the slot of that id.
LEMMA HashNextKeepsRInv ==
    ASSUME HInv, RInv, NEW k \in DOMAIN slices, HashNext(k)
    PROVE  RInv'
  <1> DEFINE id   == Chunk(k)[written[k] + 1]
             slot == slices[k].first + written[k] + 1
  <1>1. /\ UNCHANGED <<dag, cache, pc, turn, order, threads, offset, slices>>
        /\ written[k] < slices[k].size
        /\ written' = [written EXCEPT ![k] = @ + 1]
        /\ results' = IF id \in Keys(dag)
                      THEN [results EXCEPT ![slot] = {<<id, ConeHash(dag.events[id], cache)>>}]
                      ELSE results
    BY DEF HashNext
  <1>2. /\ slices \in Seq(Slice) /\ Len(slices) \in Nat /\ DOMAIN slices = 1 .. Len(slices)
        /\ threads \in Nat \ {0} /\ order \in Seq(Names) /\ Len(order) \in Nat
        /\ Len(slices) <= ChunkCount /\ ChunkCount \in Nat
        /\ written \in Seq(Nat) /\ Len(written) = Len(slices) /\ DOMAIN written = 1 .. Len(slices)
    BY ChunksFit DEF HInv, RInv
  <1>3. /\ k \in 1 .. Len(slices) /\ k \in Nat \ {0} /\ k <= ChunkCount
        /\ written[k] \in Nat
        /\ slices[k].first \in Nat /\ slices[k].size \in Nat
    <2>1. k \in 1 .. Len(slices) /\ k \in Nat \ {0} /\ k <= ChunkCount /\ written[k] \in Nat
      BY <1>2
    <2>2. slices[k] \in Slice
      BY <1>2, <2>1
    <2>3. QED
      BY <2>1, <2>2 DEF Slice
  <1>4. slot \in 1 .. Len(order) /\ id = order[slot]
    <2>1. slices[k].first = Taken(k - 1) /\ slices[k].size = Taken(k) - Taken(k - 1)
      <3>1. slices[k] = [first |-> Taken(k - 1), size |-> Taken(k) - Taken(k - 1)]
        BY <1>3 DEF HInv
      <3>2. QED
        BY <3>1
    <2>2. written[k] < Taken(k) - Taken(k - 1)
      BY <1>1, <2>1
    <2>3. /\ Taken(k - 1) + written[k] + 1 \in 1 .. Len(order)
          /\ Chunk(k)[written[k] + 1] = order[Taken(k - 1) + written[k] + 1]
      BY <1>2, <1>3, <2>2, ChunkLists
    <2>4. QED
      BY <2>1, <2>3
  <1>5. /\ written' \in Seq(Nat) /\ Len(written') = Len(slices)
        /\ written'[k] = written[k] + 1
        /\ \A n \in 1 .. Len(slices) : n # k => written'[n] = written[n]
    BY <1>1, <1>2, <1>3
  <1>6. \A n \in 1 .. Len(slices') : written'[n] <= slices'[n].size
    <2> SUFFICES ASSUME NEW n \in 1 .. Len(slices) PROVE written'[n] <= slices[n].size
      BY <1>1
    <2>1. CASE n = k
      BY <1>1, <1>3, <1>5, <2>1
    <2>2. CASE n # k
      BY <1>5, <2>2 DEF RInv
    <2>3. QED
      BY <2>1, <2>2
  <1> HIDE DEF slot
  <1>7. ASSUME NEW s \in Nat PROVE IsWritten(s)' <=> IsWritten(s) \/ s = slot
    <2>1. ASSUME IsWritten(s) PROVE IsWritten(s)'
      <3>1. PICK n \in 1 .. Len(slices) : slices[n].first < s /\ s <= slices[n].first + written[n]
        BY <2>1 DEF IsWritten
      <3>2. s <= slices[n].first + written'[n]
        <4>1. CASE n = k
          BY <1>3, <1>5, <3>1, <4>1
        <4>2. CASE n # k
          BY <1>5, <3>1, <4>2
        <4>3. QED
          BY <4>1, <4>2
      <3>3. QED
        BY <1>1, <3>1, <3>2 DEF IsWritten
    <2>2. ASSUME s = slot PROVE IsWritten(s)'
      <3>1. slices[k].first < s /\ s <= slices[k].first + written'[k]
        BY <1>3, <1>5, <2>2 DEF slot
      <3>2. QED
        BY <1>1, <1>3, <3>1 DEF IsWritten
    <2>3. ASSUME IsWritten(s)', s # slot PROVE IsWritten(s)
      <3>1. PICK n \in 1 .. Len(slices) : slices[n].first < s /\ s <= slices[n].first + written'[n]
        BY <1>1, <2>3 DEF IsWritten
      <3>2. s <= slices[n].first + written[n]
        <4>1. CASE n = k
          <5>1. s # slices[k].first + written[k] + 1
            BY <2>3 DEF slot
          <5>2. s <= slices[k].first + (written[k] + 1)
            BY <1>5, <3>1, <4>1
          <5>3. s <= slices[k].first + written[k]
            BY <1>3, <5>1, <5>2
          <5>4. QED
            BY <4>1, <5>3
        <4>2. CASE n # k
          BY <1>5, <3>1, <4>2
        <4>3. QED
          BY <4>1, <4>2
      <3>3. QED
        BY <3>1, <3>2 DEF IsWritten
    <2>4. QED
      BY <2>1, <2>2, <2>3
  <1> DEFINE Due(s) == IF IsWritten(s) THEN Entry(order[s]) ELSE {}
  <1>8. results = [s \in 1 .. Len(order) |-> Due(s)]
    BY DEF RInv
  <1>9. results' = [s \in 1 .. Len(order) |-> IF s = slot THEN Entry(order[s]) ELSE Due(s)]
    <2>1. CASE id \in Keys(dag)
      <3>1. results' = [results EXCEPT ![slot] = Entry(order[slot])]
        <4>1. Entry(order[slot]) = {<<id, ConeHash(dag.events[id], cache)>>}
          BY <1>4, <2>1 DEF Entry
        <4>2. results' = [results EXCEPT ![slot] = {<<id, ConeHash(dag.events[id], cache)>>}]
          BY <1>1, <2>1 DEF slot
        <4>3. QED
          BY <4>1, <4>2
      <3> HIDE DEF Due
      <3>2. QED
        BY <1>4, <1>8, <3>1
    <2>2. CASE id \notin Keys(dag)
      <3>1. Entry(order[slot]) = {} /\ Due(slot) = {}
        BY <1>4, <2>2 DEF Entry
      <3>2. results' = results
        BY <1>1, <2>2
      <3> HIDE DEF Due
      <3>3. QED
        BY <1>8, <3>1, <3>2
    <2>3. QED
      BY <2>1, <2>2
  <1>10. results' = [s \in 1 .. Len(order') |-> IF IsWritten(s)' THEN Entry(order[s])' ELSE {}]
    <2>1. \A s : Entry(order[s])' = Entry(order[s])
      BY <1>1 DEF Entry
    <2>2. \A s \in 1 .. Len(order) : IsWritten(s)' <=> IsWritten(s) \/ s = slot
      BY <1>2, <1>7
    <2>3. QED
      BY <1>1, <1>9, <2>1, <2>2
  <1>11. /\ pc' \in {"idle", "level"}
         /\ pc' = "idle" => cache' = ComputeAll(dag')
         /\ pc' = "level" => /\ turn' <= Last(dag') + 1
                             /\ order' = LevelAt(dag', turn')
                             /\ cache' = CacheAt(dag', turn')
    <2>1. /\ pc \in {"idle", "level"}
          /\ pc = "idle" => cache = ComputeAll(dag)
          /\ pc = "level" => /\ turn <= Last(dag) + 1
                             /\ order = LevelAt(dag, turn)
                             /\ cache = CacheAt(dag, turn)
      BY DEF RInv
    <2>2. QED
      BY <1>1, <2>1
  <1>12. QED
    BY <1>1, <1>5, <1>6, <1>10, <1>11 DEF RInv

\* When all threads have returned, the entries in the slots are what the sequential path
\* puts into the cache for the level.
LEMMA EndLevelKeepsRInv ==
    ASSUME HInv, RInv, EndLevel
    PROVE  RInv'
  <1> DEFINE entries == UNION {results[k] : k \in DOMAIN results}
             hashed  == {x[1] : x \in entries}
             level   == Levels(dag)[turn]
             listed  == DOMAIN level \intersect Keys(dag)
  <1>1. /\ pc = "level" /\ order # <<>> /\ AllJoined
        /\ cache' = [i \in DOMAIN cache \union hashed |->
                        IF i \in hashed THEN (CHOOSE x \in entries : x[1] = i)[2] ELSE cache[i]]
        /\ turn' = turn + 1 /\ dag' = dag /\ pc' = pc
        /\ EnterLevel(LevelAt(dag, turn + 1))
    BY DEF EndLevel
  <1>2. /\ dag \in Dags /\ turn \in Nat /\ turn <= Last(dag) + 1
        /\ order = LevelAt(dag, turn) /\ cache = CacheAt(dag, turn)
    BY <1>1 DEF HInv, RInv
  <1>3. Last(dag) \in Nat
    BY <1>2, LevelsOf DEF LevelsShaped
  <1>4. turn \in 0 .. Last(dag)
    <2>1. turn # Last(dag) + 1
      BY <1>1, <1>2, LevelsOf
    <2>2. QED
      BY <1>2, <1>3, <2>1
  <1>5. DOMAIN level = {order[s] : s \in 1 .. Len(order)}
    BY <1>2, <1>4, LevelsOf
  <1>6. results = [s \in 1 .. Len(order) |-> Entry(order[s])]
    <2>1. SUFFICES ASSUME NEW s \in 1 .. Len(order) PROVE IsWritten(s)
      BY DEF RInv
    <2>2. SlicesExact /\ Len(slices) = ChunkCount
      BY <1>1, SlicesInvImplies DEF AllJoined
    <2>3. PICK k \in DOMAIN slices : s \in Slots(k)
      BY <2>2 DEF SlicesExact
    <2>4. slices \in Seq(Slice) /\ k \in 1 .. Len(slices)
      BY <2>3 DEF HInv
    <2>5. slices[k].first \in Nat /\ slices[k].size \in Nat
      <3>1. slices[k] \in Slice
        BY <2>4
      <3>2. QED
        BY <3>1 DEF Slice
    <2>6. written[k] = slices[k].size
      BY <1>1, <2>3 DEF AllJoined
    <2>7. slices[k].first < s /\ s <= slices[k].first + written[k]
      BY <2>3, <2>5, <2>6 DEF Slots
    <2>8. QED
      BY <2>4, <2>7 DEF IsWritten
  <1>7. \A x : x \in entries <=> \E i \in listed : x = <<i, ConeHash(dag.events[i], cache)>>
    <2>1. entries = UNION {Entry(order[s]) : s \in 1 .. Len(order)}
      BY <1>6
    <2> HIDE DEF entries, level
    <2>2. QED
      BY <1>5, <2>1 DEF Entry
  <1> HIDE DEF entries, level
  <1>8. hashed = listed
    <2>1. \A x \in entries : x[1] \in listed
      BY <1>7
    <2>2. ASSUME NEW i \in listed PROVE i \in hashed
      <3> DEFINE due == <<i, ConeHash(dag.events[i], cache)>>
      <3>1. due \in entries
        BY <1>7
      <3>2. due[1] = i
        OBVIOUS
      <3> HIDE DEF due
      <3>3. QED
        BY <3>1, <3>2
    <2>3. QED
      BY <2>1, <2>2
  <1>9. \A i \in listed : (CHOOSE x \in entries : x[1] = i)[2] = ConeHash(dag.events[i], cache)
    <2> SUFFICES ASSUME NEW i \in listed
                 PROVE  (CHOOSE x \in entries : x[1] = i)[2] = ConeHash(dag.events[i], cache)
      OBVIOUS
    <2> DEFINE chosen == CHOOSE x \in entries : x[1] = i
               due    == <<i, ConeHash(dag.events[i], cache)>>
    <2>1. due \in entries /\ due[1] = i
      BY <1>7
    <2>2. chosen \in entries /\ chosen[1] = i
      BY <2>1
    <2> HIDE DEF chosen
    <2>3. chosen = due
      BY <1>7, <2>2
    <2>4. chosen[2] = ConeHash(dag.events[i], cache)
      BY <2>3
    <2>5. QED
      BY <2>4 DEF chosen
  <1>10. cache' = Hashed(cache, level, dag)
    <2> HIDE DEF hashed
    <2>1. cache' = [i \in DOMAIN cache \union listed |->
                       IF i \in listed THEN (CHOOSE x \in entries : x[1] = i)[2] ELSE cache[i]]
      BY <1>1, <1>8 DEF hashed, entries
    <2>2. QED
      BY <1>9, <2>1 DEF Hashed
  <1>11. cache' = CacheAt(dag, turn + 1)
    BY <1>2, <1>4, <1>10, CachesOf DEF level
  <1>12. LevelAt(dag, turn + 1) \in Seq(Names)
    BY <1>2, LevelsAreSequences
  <1>13. turn' <= Last(dag') + 1
    BY <1>1, <1>3, <1>4
  <1>14. QED
    BY <1>1, <1>11, <1>12, <1>13, EnteringKeepsRInv

\* No step of the caller or of a thread puts a wrong entry anywhere.
LEMMA NextRInv == HInv /\ RInv /\ [Next]_vars => RInv'
  <1> SUFFICES ASSUME HInv, RInv, [Next]_vars PROVE RInv'
    OBVIOUS
  <1>1. ASSUME UNCHANGED <<dag, cache, turn, order, slices, written, results>>,
               pc' = pc \/ (pc' = "idle" /\ cache = ComputeAll(dag))
        PROVE  RInv'
    <2>1. \A s : (IsWritten(s)' <=> IsWritten(s)) /\ Entry(order[s])' = Entry(order[s])
      BY <1>1 DEF IsWritten, Entry
    <2>2. results' = [s \in 1 .. Len(order') |-> IF IsWritten(s)' THEN Entry(order[s])' ELSE {}]
      BY <1>1, <2>1 DEF RInv
    <2>3. /\ pc' \in {"idle", "level"}
          /\ pc' = "idle" => cache = ComputeAll(dag)
          /\ pc' = "level" => /\ turn <= Last(dag) + 1
                              /\ order = LevelAt(dag, turn)
                              /\ cache = CacheAt(dag, turn)
      BY <1>1 DEF RInv
    <2>4. /\ written' \in Seq(Nat) /\ Len(written') = Len(slices')
          /\ \A k \in 1 .. Len(slices') : written'[k] <= slices'[k].size
      BY <1>1 DEF RInv
    <2>5. QED
      BY <1>1, <2>2, <2>3, <2>4 DEF RInv
  <1>2. ASSUME Return PROVE RInv'
    <2>1. /\ pc = "level" /\ order = <<>> /\ pc' = "idle"
          /\ UNCHANGED <<dag, cache, turn, order, slices, written, results>>
      BY <1>2 DEF Return
    <2>2. /\ dag \in Dags /\ turn \in Nat /\ turn <= Last(dag) + 1
          /\ LevelAt(dag, turn) = <<>> /\ cache = CacheAt(dag, turn)
      BY <2>1 DEF HInv, RInv
    <2>3. cache = ComputeAll(dag)
      BY <2>2, EmptyLevelEnds
    <2>4. QED
      BY <1>1, <2>1, <2>3
  <1>3. CASE UNCHANGED vars
    BY <1>1, <1>3 DEF vars
  <1>4. ASSUME NEW d \in Dags, NEW cores \in Cores, Start(d, cores) PROVE RInv'
    BY <1>4, StartKeepsRInv
  <1>5. ASSUME NEW k \in DOMAIN slices, HashNext(k) PROVE RInv'
    BY <1>5, HashNextKeepsRInv
  <1>6. QED
    BY <1>2, <1>3, <1>4, <1>5, SpawnKeepsRInv, EndLevelKeepsRInv DEF Next

\* Before the first call the cache is empty and so is the DAG.
LEMMA InitRInv == Init => RInv
  <1> SUFFICES ASSUME Init PROVE RInv
    OBVIOUS
  <1>1. /\ dag = EmptyDag /\ cache = <<>> /\ pc = "idle" /\ order = <<>>
        /\ slices = <<>> /\ written = <<>> /\ results = <<>>
    BY DEF Init
  <1>2. cache = ComputeAll(dag)
    BY <1>1, NothingToHash
  <1>3. /\ written \in Seq(Nat) /\ Len(written) = Len(slices) /\ Len(slices) = 0 /\ Len(order) = 0
    BY <1>1
  <1>4. results = [s \in 1 .. Len(order) |-> IF IsWritten(s) THEN Entry(order[s]) ELSE {}]
    BY <1>1, <1>3
  <1>5. QED
    BY <1>1, <1>2, <1>3, <1>4 DEF RInv

\* For any DAGs, any number of cores and any interleaving of the threads, the cache
\* that a call of hash_levels_parallel leaves is the one that the sequential path of
\* compute_all computes.
THEOREM HashingExact == Spec => []ParallelExact
  <1>1. Init => HInv /\ RInv
    BY InitHInv, InitRInv
  <1>2. HInv /\ RInv /\ [Next]_vars => HInv' /\ RInv'
    BY NextHInv, NextRInv
  <1>3. RInv => ParallelExact
    BY DEF RInv, ParallelExact
  <1>4. QED
    BY <1>1, <1>2, <1>3, PTL DEF Spec
=============================================================================
