------------------------- MODULE DropTransferProofs -------------------------
(***************************************************************************)
(* Proofs about DropTransfer, for every selection of files, any chunk and  *)
(* batch size, any number of receivers, attempts and compare-and-set       *)
(* rounds, and any budget of faults.                                       *)
(*                                                                         *)
(* First the plan: a plan is a fold over the file sizes, and its facts     *)
(* (how long it is, that every part has a size) go by induction over a set *)
(* of naturals.  Then the transfer.  Its invariant IInv says who waits for *)
(* each request (Asks), that a request about to write has read the record  *)
(* it would write over (Snapped), that what a deletion has passed is gone  *)
(* or has escaped it (Passes), that a commit has seen its parts (Headed),  *)
(* and with these where the ciphertexts are (Gone, Held), what a record    *)
(* names (Whole) and what every phone was told (Acked).                    *)
(* Last, with the histories of DropLife, the transfer is shown to be the   *)
(* service that DropService gives the two pages.                           *)
(***************************************************************************)
EXTENDS DropLife, FiniteSetTheorems, SequenceTheorems, WellFoundedInduction, TLAPS

---------------------------------------------------------------------------
(* Induction, over sets of naturals instead of predicates: the provers     *)
(* cannot instantiate a theorem whose parameter is an operator.            *)

LEMMA LeastNatural ==
    ASSUME NEW N \in SUBSET Nat, N # {}
    PROVE  \E n \in N : \A m \in N : n <= m
<1> DEFINE R == OpToRel(<, Nat)
<1>1. IsWellFoundedOn(R, Nat)
  BY NatLessThanWellFounded
<1>2. \A x, y \in Nat : <<x, y>> \in R <=> x < y
  BY DEF OpToRel
<1> HIDE DEF R
<1>3. PICK n \in N : \A m \in N : <<m, n>> \notin R
  BY <1>1, WFMin
<1>4. ASSUME NEW m \in N PROVE n <= m
  <2>1. m \in Nat /\ n \in Nat
    OBVIOUS
  <2>2. <<m, n>> \notin R
    BY <1>3
  <2>3. ~ (m < n)
    BY <1>2, <2>1, <2>2, Zenon
  <2> QED
    BY <2>1, <2>3
<1> QED
  BY <1>4

LEMMA SetInduction ==
    ASSUME NEW N \in SUBSET Nat, 0 \in N, \A n \in N : n + 1 \in N
    PROVE  N = Nat
<1> SUFFICES ASSUME Nat \ N # {} PROVE FALSE
  OBVIOUS
<1>1. PICK n \in Nat \ N : \A m \in Nat \ N : n <= m
  BY LeastNatural
<1>2. n - 1 \in Nat /\ n - 1 \in N
  BY <1>1
<1> QED
  BY <1>1, <1>2

(* Up to a bound. *)
LEMMA BoundedInduction ==
    ASSUME NEW n \in Nat, NEW N \in SUBSET (0..n), 0 \in N,
           \A k \in N : k < n => k + 1 \in N
    PROVE  N = 0..n
<1> DEFINE M == N \cup {k \in Nat : n < k}
<1>0. \A k \in N : k \in Nat /\ k <= n
  OBVIOUS
<1>1. M \in SUBSET Nat /\ 0 \in M
  BY <1>0
<1>2. ASSUME NEW k \in M PROVE k + 1 \in M
  OBVIOUS
<1>3. M = Nat
  <2> HIDE DEF M
  <2> QED
    BY <1>1, <1>2, SetInduction
<1>4. ASSUME NEW k \in 0..n PROVE k \in N
  <2>1. k \in M
    BY <1>3
  <2> QED
    BY <2>1
<1> QED
  BY <1>4

---------------------------------------------------------------------------
(* FoldLeft takes the indices of a sequence from the last to the first.    *)

LEMMA MaxIndex ==
    ASSUME NEW n \in Nat, NEW s \in SUBSET (1..n), s # {}
    PROVE  Max(s) \in s /\ \A x \in s : Max(s) >= x
<1> DEFINE N == {n - x : x \in s}
<1>1. N \in SUBSET Nat /\ N # {}
  <2>1. \A x \in s : x \in Nat /\ x <= n
    OBVIOUS
  <2>2. \A x \in s : n - x \in Nat
    BY <2>1
  <2>3. PICK x \in s : TRUE
    OBVIOUS
  <2>4. n - x \in N
    BY <2>3
  <2> QED
    BY <2>2, <2>4
<1>2. PICK d \in N : \A m \in N : d <= m
  <2> HIDE DEF N
  <2> QED
    BY <1>1, LeastNatural
<1>3. PICK x \in s : d = n - x
  BY <1>2
<1>4. \A y \in s : x >= y
  <2> TAKE y \in s
  <2>1. n - y \in N
    OBVIOUS
  <2>2. n - x <= n - y
    BY <1>2, <1>3, <2>1
  <2> QED
    BY <2>2
<1> QED
  BY <1>3, <1>4 DEF Max

LEMMA MaxInterval ==
    ASSUME NEW n \in Nat, NEW k \in 1..n
    PROVE  /\ 1..k \in SUBSET (1..n) /\ 1..k # {}
           /\ Max(1..k) = k /\ (1..k) \ {Max(1..k)} = 1..(k - 1)
<1>1. 1..k \in SUBSET (1..n) /\ 1..k # {} /\ k \in 1..k
  OBVIOUS
<1>2. Max(1..k) \in 1..k /\ Max(1..k) >= k
  BY <1>1, MaxIndex
<1>3. Max(1..k) = k
  BY <1>2
<1> QED
  BY <1>1, <1>3

(* The recursion of a fold has a solution, and every solution is built     *)
(* from one prefix to the next.                                            *)
Foldable(n, V, base, h) ==
    \E g \in [SUBSET (1..n) -> V] :
        /\ g[{}] = base
        /\ \A s \in SUBSET (1..n) : s # {} => g[s] = h[Max(s)][g[s \ {Max(s)}]]

LEMMA FoldExists ==
    ASSUME NEW n \in Nat, NEW V, NEW base \in V, NEW h \in [1..n -> [V -> V]]
    PROVE  Foldable(n, V, base, h)
<1> DEFINE D == SUBSET (1..n)
           Next1(g, s) == IF s = {} THEN base ELSE h[Max(s)][g[s \ {Max(s)}]]
           Upto(k, g) == \A s \in D : Cardinality(s) <= k => g[s] = Next1(g, s)
           N == {k \in Nat : \E g \in [D -> V] : Upto(k, g)}
<1>1. ASSUME NEW s \in D
      PROVE  IsFiniteSet(s) /\ Cardinality(s) \in Nat /\ Cardinality(s) <= n
  <2>1. IsFiniteSet(1..n) /\ Cardinality(1..n) = n
    BY FS_Interval
  <2>2. IsFiniteSet(s) /\ Cardinality(s) <= Cardinality(1..n)
    BY <2>1, FS_Subset
  <2> QED
    BY <2>1, <2>2, FS_CardinalityType
<1>2. ASSUME NEW s \in D, s # {}
      PROVE  /\ Max(s) \in 1..n /\ s \ {Max(s)} \in D
             /\ Cardinality(s \ {Max(s)}) = Cardinality(s) - 1
  BY <1>1, <1>2, MaxIndex, FS_RemoveElement
<1>3. ASSUME NEW g \in [D -> V], NEW s \in D
      PROVE  Next1(g, s) \in V
  <2>1. CASE s = {}
    BY <2>1
  <2>2. CASE s # {}
    <3>1. Max(s) \in 1..n /\ g[s \ {Max(s)}] \in V
      BY <1>2, <2>2
    <3>2. h[Max(s)] \in [V -> V]
      BY <3>1
    <3> QED
      BY <2>2, <3>1, <3>2
  <2> QED
    BY <2>1, <2>2
<1>4. 0 \in N
  <2>1. [s \in D |-> base] \in [D -> V]
    OBVIOUS
  <2>2. ASSUME NEW s \in D, Cardinality(s) <= 0 PROVE s = {}
    BY <1>1, <2>2, FS_EmptySet
  <2>3. Upto(0, [s \in D |-> base])
    BY <2>2
  <2> QED
    BY <2>1, <2>3
<1>5. ASSUME NEW k \in N PROVE k + 1 \in N
  <2>1. PICK g \in [D -> V] : Upto(k, g)
    OBVIOUS
  <2> DEFINE f == [s \in D |-> IF Cardinality(s) <= k THEN g[s] ELSE Next1(g, s)]
  <2>2. f \in [D -> V]
    BY <1>3
  <2>3. ASSUME NEW s \in D PROVE f[s] = Next1(g, s)
    BY <2>1
  <2>4. ASSUME NEW s \in D, Cardinality(s) <= k + 1 PROVE f[s] = Next1(f, s)
    <3>1. CASE s = {}
      BY <2>3, <3>1
    <3>2. CASE s # {}
      <4>1. /\ s \ {Max(s)} \in D
            /\ Cardinality(s \ {Max(s)}) <= k
        <5>1. s \ {Max(s)} \in D /\ Cardinality(s \ {Max(s)}) = Cardinality(s) - 1
          BY <1>2, <3>2
        <5>2. Cardinality(s) \in Nat /\ k \in Nat
          BY <1>1
        <5> QED
          BY <2>4, <5>1, <5>2
      <4>2. f[s \ {Max(s)}] = g[s \ {Max(s)}]
        BY <4>1
      <4> QED
        BY <2>3, <3>2, <4>2
    <3> QED
      BY <3>1, <3>2
  <2>5. k + 1 \in Nat
    OBVIOUS
  <2> HIDE DEF f
  <2>6. Upto(k + 1, f)
    BY <2>4, Zenon
  <2> HIDE DEF Upto
  <2> QED
    BY <2>2, <2>5, <2>6
<1>6. N = Nat
  <2>1. N \in SUBSET Nat
    OBVIOUS
  <2> HIDE DEF N
  <2> QED
    BY <1>4, <1>5, <2>1, SetInduction
<1>7. PICK g \in [D -> V] : Upto(n, g)
  BY <1>6
<1>8. \A s \in D : g[s] = Next1(g, s)
  BY <1>1, <1>7
<1> QED
  BY <1>8 DEF Foldable

---------------------------------------------------------------------------
(* The plan of a selection and the sum of its sizes, one file at a time.   *)

Chunks(size) ==
    [i \in 1..DropChunkCount(size) |-> Smaller(Chunk, size - (i - 1) * Chunk)]

LEMMA SumPrefixes ==
    ASSUME NEW sizes \in Seq(Nat)
    PROVE  \E Q \in [0..Len(sizes) -> Nat] :
              /\ Q[0] = 0
              /\ \A k \in 1..Len(sizes) : Q[k] = Q[k - 1] + sizes[k]
              /\ SumOf(sizes) = Q[Len(sizes)]
<1> DEFINE n == Len(sizes)
           D == SUBSET (1..n)
           Rec(g) == g = [s \in D |-> IF s = {} THEN 0
                                      ELSE g[s \ {Max(s)}] + sizes[Max(s)]]
<1>1. n \in Nat /\ DOMAIN sizes = 1..n /\ \A i \in 1..n : sizes[i] \in Nat
  BY LenProperties, ElementOfSeq
<1>2. \E g : Rec(g)
  <2> DEFINE h == [i \in 1..n |-> [v \in Nat |-> v + sizes[i]]]
  <2>1. h \in [1..n -> [Nat -> Nat]]
    BY <1>1
  <2>2. PICK g \in [D -> Nat] :
           g[{}] = 0 /\ \A s \in D : s # {} => g[s] = h[Max(s)][g[s \ {Max(s)}]]
    <3>1. n \in Nat /\ 0 \in Nat
      BY <1>1
    <3>2. Foldable(n, Nat, 0, h)
      <4> HIDE DEF h, n
      <4> QED
        BY <2>1, <3>1, FoldExists
    <3> HIDE DEF h, n
    <3> QED
      BY <3>2 DEF Foldable
  <2>3. ASSUME NEW s \in D
        PROVE  g[s] = IF s = {} THEN 0 ELSE g[s \ {Max(s)}] + sizes[Max(s)]
    <3>1. CASE s = {}
      BY <2>2, <3>1
    <3>2. CASE s # {}
      <4>1. Max(s) \in 1..n /\ g[s \ {Max(s)}] \in Nat
        BY <1>1, <3>2, MaxIndex
      <4> QED
        BY <2>2, <3>2, <4>1
    <3> QED
      BY <3>1, <3>2
  <2>4. g = [s \in D |-> g[s]]
    OBVIOUS
  <2> QED
    BY <2>3, <2>4
<1> DEFINE G == CHOOSE g : Rec(g)
<1>3. SumOf(sizes) = G[1..n]
  BY <1>1 DEF SumOf, FoldLeft, MapThenFoldSet
<1>4. Rec(G)
  BY <1>2
<1> HIDE DEF G, n
<1> DEFINE Q == [k \in 0..n |-> G[1..k]]
<1>5. Q[0] = 0
  <2>1. 1..0 = {} /\ {} \in D
    OBVIOUS
  <2>2. G[{}] = 0
    BY <1>4, <2>1
  <2> QED
    BY <1>1, <2>1, <2>2
<1>6. ASSUME NEW k \in 1..n PROVE Q[k] = Q[k - 1] + sizes[k]
  <2>1. /\ 1..k \in D /\ 1..k # {}
        /\ Max(1..k) = k /\ (1..k) \ {Max(1..k)} = 1..(k - 1)
    BY <1>1, MaxInterval
  <2>2. G[1..k] = G[1..(k - 1)] + sizes[k]
    BY <1>4, <2>1
  <2>3. k \in 0..n /\ k - 1 \in 0..n
    BY <1>1
  <2> QED
    BY <2>2, <2>3
<1>7. ASSUME NEW k \in 0..n PROVE Q[k] \in Nat
  <2> HIDE DEF Q
  <2> DEFINE N == {i \in 0..n : Q[i] \in Nat}
  <2>1. N \in SUBSET (0..n) /\ 0 \in N
    BY <1>1, <1>5
  <2>2. ASSUME NEW i \in N, i < n PROVE i + 1 \in N
    <3>1. i + 1 \in 1..n /\ i + 1 \in 0..n /\ (i + 1) - 1 = i
      BY <1>1, <2>2
    <3>2. Q[i + 1] = Q[i] + sizes[i + 1]
      BY <1>6, <3>1
    <3>3. sizes[i + 1] \in Nat
      BY <1>1, <3>1
    <3> QED
      BY <3>1, <3>2, <3>3
  <2>3. N = 0..n
    <3> HIDE DEF N
    <3> QED
      BY <1>1, <2>1, <2>2, BoundedInduction
  <2> QED
    BY <2>3
<1>8. Q \in [0..n -> Nat] /\ SumOf(sizes) = Q[n]
  BY <1>1, <1>3, <1>7
<1> HIDE DEF Q
<1> QED
  BY <1>5, <1>6, <1>8 DEF n

LEMMA Quotients ==
    ASSUME NEW a \in Nat, NEW b \in Nat \ {0}
    PROVE  a \div b \in Nat /\ (a \div b) * b <= a /\ a < (a \div b) * b + b
BY Z3

LEMMA Products ==
    ASSUME NEW i \in Nat, NEW j \in Nat, NEW b \in Nat, i <= j
    PROVE  i * b \in Nat /\ j * b \in Nat /\ i * b <= j * b
BY Z3

(* A file has as many chunks as its bytes need, and one if it has none. *)
LEMMA ChunkCounts ==
    ASSUME NEW size \in Nat
    PROVE  /\ DropChunkCount(size) \in Nat \ {0}
           /\ size <= DropChunkCount(size) * Chunk
           /\ (DropChunkCount(size) - 1) * Chunk <= size
<1> DEFINE q == (size + Chunk - 1) \div Chunk
<1>1. Chunk \in Nat \ {0}
  BY DropAssumption
<1>2. size + Chunk - 1 \in Nat
  BY <1>1
<1>3. q \in Nat /\ q * Chunk <= size + Chunk - 1 /\ size + Chunk - 1 < q * Chunk + Chunk
  <2> HIDE DEF q
  <2> QED
    BY <1>1, <1>2, Quotients DEF q
<1>4. DropChunkCount(size) = IF 1 >= q THEN 1 ELSE q
  BY DEF DropChunkCount, Larger
<1> HIDE DEF q
<1>5. q * Chunk \in Nat /\ (q - 1) * Chunk = q * Chunk - Chunk
  BY <1>1, <1>3, Z3
<1>6. CASE 1 >= q
  <2>1. q = 0 \/ q = 1
    BY <1>3, <1>6
  <2>2. q * Chunk <= Chunk
    BY <1>1, <2>1, Z3
  <2> QED
    BY <1>1, <1>3, <1>4, <1>6, <2>2, Z3
<1>7. CASE ~ (1 >= q)
  BY <1>1, <1>3, <1>4, <1>5, <1>7, Z3
<1> QED
  BY <1>6, <1>7

LEMMA ChunksType ==
    ASSUME NEW size \in Nat
    PROVE  Chunks(size) \in Seq(Nat) /\ Len(Chunks(size)) = DropChunkCount(size)
<1> DEFINE n == DropChunkCount(size)
<1>1. n \in Nat \ {0} /\ (n - 1) * Chunk <= size /\ Chunk \in Nat
  BY ChunkCounts, DropAssumption
<1> HIDE DEF n
<1>2. ASSUME NEW i \in 1..n
      PROVE  Smaller(Chunk, size - (i - 1) * Chunk) \in Nat
  <2>1. i - 1 \in Nat /\ n - 1 \in Nat /\ i - 1 <= n - 1
    BY <1>1
  <2>2. (i - 1) * Chunk \in Nat /\ (i - 1) * Chunk <= size
    BY <1>1, <2>1, Products
  <2> QED
    BY <1>1, <2>2 DEF Smaller
<1>3. Chunks(size) \in [1..n -> Nat]
  BY <1>2 DEF Chunks, n
<1> QED
  BY <1>1, <1>3, LenProperties DEF n

LEMMA PlanPrefixes ==
    ASSUME NEW sizes \in Seq(Nat)
    PROVE  \E Q \in [0..Len(sizes) -> Seq(Nat)] :
              /\ Q[0] = <<>>
              /\ \A k \in 1..Len(sizes) : Q[k] = Q[k - 1] \o Chunks(sizes[k])
              /\ Plan(sizes) = Q[Len(sizes)]
<1> DEFINE n == Len(sizes)
           D == SUBSET (1..n)
           Rec(g) == g = [s \in D |-> IF s = {} THEN <<>>
                                      ELSE g[s \ {Max(s)}] \o Chunks(sizes[Max(s)])]
<1>1. /\ n \in Nat /\ DOMAIN sizes = 1..n
      /\ \A i \in 1..n : sizes[i] \in Nat /\ Chunks(sizes[i]) \in Seq(Nat)
  BY LenProperties, ElementOfSeq, ChunksType
<1>2. \E g : Rec(g)
  <2> DEFINE h == [i \in 1..n |-> [v \in Seq(Nat) |-> v \o Chunks(sizes[i])]]
  <2>1. h \in [1..n -> [Seq(Nat) -> Seq(Nat)]]
    BY <1>1
  <2>2. PICK g \in [D -> Seq(Nat)] :
           g[{}] = <<>> /\ \A s \in D : s # {} => g[s] = h[Max(s)][g[s \ {Max(s)}]]
    <3>1. n \in Nat /\ <<>> \in Seq(Nat)
      BY <1>1
    <3>2. Foldable(n, Seq(Nat), <<>>, h)
      <4> HIDE DEF h, n
      <4> QED
        BY <2>1, <3>1, FoldExists
    <3> HIDE DEF h, n
    <3> QED
      BY <3>2 DEF Foldable
  <2>3. ASSUME NEW s \in D
        PROVE  g[s] = IF s = {} THEN <<>> ELSE g[s \ {Max(s)}] \o Chunks(sizes[Max(s)])
    <3>1. CASE s = {}
      BY <2>2, <3>1
    <3>2. CASE s # {}
      <4>1. Max(s) \in 1..n /\ g[s \ {Max(s)}] \in Seq(Nat)
        BY <1>1, <3>2, MaxIndex
      <4> QED
        BY <2>2, <3>2, <4>1
    <3> QED
      BY <3>1, <3>2
  <2>4. g = [s \in D |-> g[s]]
    OBVIOUS
  <2> QED
    BY <2>3, <2>4
<1> DEFINE G == CHOOSE g : Rec(g)
<1>3. Plan(sizes) = G[1..n]
  BY <1>1 DEF Plan, Chunks, FoldLeft, MapThenFoldSet
<1>4. Rec(G)
  BY <1>2
<1> HIDE DEF G, n
<1> DEFINE Q == [k \in 0..n |-> G[1..k]]
<1>5. Q[0] = <<>>
  <2>1. 1..0 = {} /\ {} \in D
    OBVIOUS
  <2>2. G[{}] = <<>>
    BY <1>4, <2>1
  <2> QED
    BY <1>1, <2>1, <2>2
<1>6. ASSUME NEW k \in 1..n PROVE Q[k] = Q[k - 1] \o Chunks(sizes[k])
  <2>1. /\ 1..k \in D /\ 1..k # {}
        /\ Max(1..k) = k /\ (1..k) \ {Max(1..k)} = 1..(k - 1)
    BY <1>1, MaxInterval
  <2>2. G[1..k] = G[1..(k - 1)] \o Chunks(sizes[k])
    BY <1>4, <2>1
  <2>3. k \in 0..n /\ k - 1 \in 0..n
    BY <1>1
  <2> QED
    BY <2>2, <2>3
<1>7. ASSUME NEW k \in 0..n PROVE Q[k] \in Seq(Nat)
  <2> HIDE DEF Q
  <2> DEFINE N == {i \in 0..n : Q[i] \in Seq(Nat)}
  <2>1. N \in SUBSET (0..n) /\ 0 \in N
    <3>1. 0 \in 0..n /\ Q[0] \in Seq(Nat)
      BY <1>1, <1>5, EmptySeq
    <3> QED
      BY <3>1
  <2>2. ASSUME NEW i \in N, i < n PROVE i + 1 \in N
    <3>1. i + 1 \in 1..n /\ i + 1 \in 0..n /\ (i + 1) - 1 = i
      BY <1>1, <2>2
    <3>2. Q[i + 1] = Q[i] \o Chunks(sizes[i + 1])
      BY <1>6, <3>1
    <3>3. Chunks(sizes[i + 1]) \in Seq(Nat)
      BY <1>1, <3>1
    <3>4. Q[i + 1] \in Seq(Nat)
      BY <3>2, <3>3, ConcatProperties
    <3> QED
      BY <3>1, <3>4
  <2>3. N = 0..n
    <3> HIDE DEF N
    <3> QED
      BY <1>1, <2>1, <2>2, BoundedInduction
  <2> QED
    BY <2>3
<1>8. Q \in [0..n -> Seq(Nat)] /\ Plan(sizes) = Q[n]
  BY <1>1, <1>3, <1>7
<1> HIDE DEF Q
<1> QED
  BY <1>5, <1>6, <1>8 DEF n

(* What every plan is: at least one part for each file, enough bytes for    *)
(* all of them, and no more parts than whole chunks and files.             *)
LEMMA PlanLength ==
    ASSUME NEW sizes \in Seq(Nat)
    PROVE  /\ Plan(sizes) \in Seq(Nat) /\ SumOf(sizes) \in Nat
           /\ Len(Plan(sizes)) \in Nat /\ Len(sizes) \in Nat
           /\ Len(sizes) <= Len(Plan(sizes))
           /\ SumOf(sizes) <= Len(Plan(sizes)) * Chunk
           /\ (Len(Plan(sizes)) - Len(sizes)) * Chunk <= SumOf(sizes)
<1> DEFINE n == Len(sizes)
<1>1. n \in Nat /\ \A i \in 1..n : sizes[i] \in Nat
  BY LenProperties, ElementOfSeq
<1>2. PICK P \in [0..n -> Seq(Nat)] :
        /\ P[0] = <<>> /\ Plan(sizes) = P[n]
        /\ \A k \in 1..n : P[k] = P[k - 1] \o Chunks(sizes[k])
  BY PlanPrefixes
<1>3. PICK Q \in [0..n -> Nat] :
        /\ Q[0] = 0 /\ SumOf(sizes) = Q[n]
        /\ \A k \in 1..n : Q[k] = Q[k - 1] + sizes[k]
  BY SumPrefixes
<1> HIDE DEF n
<1> DEFINE N == {k \in 0..n : /\ k <= Len(P[k]) /\ Q[k] <= Len(P[k]) * Chunk
                              /\ (Len(P[k]) - k) * Chunk <= Q[k]}
<1>4. Chunk \in Nat \ {0}
  BY DropAssumption
<1>5. 0 \in N
  <2>1. 0 \in 0..n /\ Len(P[0]) = 0
    BY <1>1, <1>2, EmptySeq
  <2> QED
    BY <1>3, <1>4, <2>1
<1>6. ASSUME NEW k \in N, k < n PROVE k + 1 \in N
  <2> DEFINE l == Len(P[k])
             c == DropChunkCount(sizes[k + 1])
  <2>1. k \in Nat /\ k + 1 \in 1..n /\ k + 1 \in 0..n /\ k \in 0..n /\ (k + 1) - 1 = k
    BY <1>1, <1>6
  <2>2. P[k + 1] = P[k] \o Chunks(sizes[k + 1]) /\ P[k] \in Seq(Nat)
    BY <1>2, <2>1
  <2>3. Q[k + 1] = Q[k] + sizes[k + 1] /\ Q[k] \in Nat /\ sizes[k + 1] \in Nat
    BY <1>1, <1>3, <2>1
  <2>4. /\ Chunks(sizes[k + 1]) \in Seq(Nat) /\ Len(Chunks(sizes[k + 1])) = c
        /\ c \in Nat \ {0} /\ sizes[k + 1] <= c * Chunk
        /\ (c - 1) * Chunk <= sizes[k + 1]
    BY <2>3, ChunksType, ChunkCounts
  <2>5. l \in Nat /\ Len(P[k + 1]) = l + c
    BY <2>2, <2>4, ConcatProperties, LenProperties
  <2>6. k <= l /\ Q[k] <= l * Chunk /\ (l - k) * Chunk <= Q[k]
    BY DEF N
  <2> HIDE DEF l, c, N
  <2>7. /\ (l + c) * Chunk = l * Chunk + c * Chunk
        /\ ((l + c) - (k + 1)) * Chunk = (l - k) * Chunk + (c - 1) * Chunk
        /\ l * Chunk \in Nat /\ c * Chunk \in Nat
        /\ (l - k) * Chunk \in Nat /\ (c - 1) * Chunk \in Nat
    BY <1>4, <2>1, <2>4, <2>5, <2>6, Z3
  <2>8. /\ k + 1 <= l + c /\ Q[k + 1] <= (l + c) * Chunk
        /\ ((l + c) - (k + 1)) * Chunk <= Q[k + 1]
    <3> DEFINE x == l * Chunk
               y == c * Chunk
               u == (l - k) * Chunk
               v == (c - 1) * Chunk
    <3>1. /\ x \in Nat /\ y \in Nat /\ u \in Nat /\ v \in Nat
          /\ (l + c) * Chunk = x + y
          /\ ((l + c) - (k + 1)) * Chunk = u + v
          /\ Q[k] <= x /\ u <= Q[k] /\ sizes[k + 1] <= y /\ v <= sizes[k + 1]
      BY <2>4, <2>6, <2>7
    <3> HIDE DEF x, y, u, v
    <3>2. Q[k + 1] <= x + y /\ u + v <= Q[k + 1]
      BY <2>3, <3>1
    <3>3. k + 1 <= l + c
      BY <2>1, <2>4, <2>5, <2>6
    <3> QED
      BY <3>1, <3>2, <3>3
  <2> QED
    BY <2>1, <2>5, <2>8 DEF N
<1>7. N = 0..n
  <2>1. N \in SUBSET (0..n)
    OBVIOUS
  <2> HIDE DEF N
  <2> QED
    BY <1>1, <1>5, <1>6, <2>1, BoundedInduction
<1>8. n \in N
  <2>1. n \in 0..n
    BY <1>1
  <2> HIDE DEF N
  <2> QED
    BY <1>7, <2>1
<1>9. P[n] \in Seq(Nat) /\ Q[n] \in Nat /\ Len(P[n]) \in Nat
  BY <1>1, <1>2, <1>3, LenProperties
<1> QED
  BY <1>1, <1>2, <1>3, <1>8, <1>9 DEF n

(* PartCountAccepted: the service accepts the number of parts of every plan *)
(* the sender makes.  (createDropRequestSchema, planDrop)                   *)
THEOREM PlansAreAccepted == \A sizes \in Selections : PartCountAccepted(sizes)
<1> SUFFICES ASSUME NEW sizes \in Selections PROVE PartCountAccepted(sizes)
  OBVIOUS
<1> DEFINE total == SumOf(sizes)
           count == Len(Plans[sizes])
           n == Len(sizes)
<1>1. sizes \in Seq(Nat) /\ Plans[sizes] = Plan(sizes) /\ Chunk \in Nat \ {0}
  BY DropAssumption DEF Plans
<1>2. /\ total \in Nat /\ count \in Nat /\ n \in Nat
      /\ n <= count /\ total <= count * Chunk /\ (count - n) * Chunk <= total
  BY <1>1, PlanLength
<1> HIDE DEF total, count, n
<1>3. (total + Chunk - 1) \div Chunk <= count
  <2> DEFINE q == (total + Chunk - 1) \div Chunk
  <2>1. total + Chunk - 1 \in Nat
    BY <1>1, <1>2
  <2>2. q \in Nat /\ q * Chunk <= total + Chunk - 1
    <3> HIDE DEF q
    <3> QED
      BY <1>1, <2>1, Quotients DEF q
  <2> HIDE DEF q
  <2>3. CASE count + 1 <= q
    <3>1. (count + 1) * Chunk <= q * Chunk
      BY <1>1, <1>2, <2>2, <2>3, Products
    <3> QED
      BY <1>1, <1>2, <2>2, <3>1, Z3
  <2> QED
    BY <1>2, <2>2, <2>3 DEF q
<1>4. count - n <= total \div Chunk
  <2> DEFINE q == total \div Chunk
  <2>1. q \in Nat /\ total < q * Chunk + Chunk
    BY <1>1, <1>2, Quotients
  <2> HIDE DEF q
  <2>2. CASE q + 1 <= count - n
    <3>1. (q + 1) * Chunk <= (count - n) * Chunk
      BY <1>1, <1>2, <2>1, <2>2, Products
    <3> QED
      BY <1>1, <1>2, <2>1, <3>1, Z3
  <2> QED
    BY <1>2, <2>1, <2>2 DEF q
<1>5. (total + Chunk - 1) \div Chunk \in Nat /\ total \div Chunk \in Nat
  <2>1. total + Chunk - 1 \in Nat
    BY <1>1, <1>2
  <2> QED
    BY <1>1, <1>2, <2>1, Quotients
<1> QED
  BY <1>2, <1>3, <1>4, <1>5 DEF PartCountAccepted, Larger, total, count, n

(* The sum of one sequence after another. *)
LEMMA SumConcat ==
    ASSUME NEW s \in Seq(Nat), NEW t \in Seq(Nat)
    PROVE  SumOf(s \o t) = SumOf(s) + SumOf(t)
<1> DEFINE a == Len(s)
           b == Len(t)
           u == s \o t
<1>1. /\ a \in Nat /\ b \in Nat /\ u \in Seq(Nat) /\ Len(u) = a + b
      /\ \A i \in 1..(a + b) : u[i] = IF i <= a THEN s[i] ELSE t[i - a]
      /\ \A i \in 1..a : s[i] \in Nat
      /\ \A i \in 1..b : t[i] \in Nat
  BY ConcatProperties, LenProperties, ElementOfSeq
<1>2. PICK S \in [0..a -> Nat] :
        S[0] = 0 /\ (\A k \in 1..a : S[k] = S[k - 1] + s[k]) /\ SumOf(s) = S[a]
  BY SumPrefixes
<1>3. PICK T \in [0..b -> Nat] :
        T[0] = 0 /\ (\A k \in 1..b : T[k] = T[k - 1] + t[k]) /\ SumOf(t) = T[b]
  BY SumPrefixes
<1> HIDE DEF a, b, u
<1>4. PICK U \in [0..(a + b) -> Nat] :
        /\ U[0] = 0 /\ SumOf(u) = U[a + b]
        /\ \A k \in 1..(a + b) : U[k] = U[k - 1] + u[k]
  <2> DEFINE c == Len(u)
  <2>1. \E U \in [0..c -> Nat] :
          /\ U[0] = 0 /\ SumOf(u) = U[c]
          /\ \A k \in 1..c : U[k] = U[k - 1] + u[k]
    BY <1>1, SumPrefixes
  <2>2. c = a + b
    BY <1>1
  <2> HIDE DEF c
  <2> QED
    BY <2>1, <2>2
<1>5. U[a] = S[a]
  <2> DEFINE N == {k \in 0..a : U[k] = S[k]}
  <2>1. N \in SUBSET (0..a) /\ 0 \in N
    BY <1>1, <1>2, <1>4
  <2>2. ASSUME NEW k \in N, k < a PROVE k + 1 \in N
    <3>1. /\ k \in Nat /\ U[k] = S[k] /\ k + 1 \in 1..a /\ k + 1 \in 0..a
          /\ k + 1 \in 1..(a + b) /\ (k + 1) - 1 = k /\ k + 1 <= a
      BY <1>1, <2>2
    <3>2. S[k + 1] = S[k] + s[k + 1] /\ U[k + 1] = U[k] + u[k + 1]
      BY <1>2, <1>4, <3>1
    <3>3. u[k + 1] = s[k + 1]
      BY <1>1, <3>1
    <3> QED
      BY <3>1, <3>2, <3>3
  <2>3. a \in 0..a
    BY <1>1
  <2> HIDE DEF N
  <2>4. N = 0..a
    BY <1>1, <2>1, <2>2, BoundedInduction
  <2> QED
    BY <2>3, <2>4 DEF N
<1>6. U[a + b] = S[a] + T[b]
  <2> DEFINE N == {k \in 0..b : U[a + k] = S[a] + T[k]}
  <2>0. S[a] \in Nat /\ a + 0 = a
    BY <1>1, <1>2
  <2>1. N \in SUBSET (0..b) /\ 0 \in N
    BY <1>1, <1>3, <1>5, <2>0
  <2>2. ASSUME NEW k \in N, k < b PROVE k + 1 \in N
    <3>1. /\ k \in Nat /\ U[a + k] = S[a] + T[k] /\ k + 1 \in 1..b /\ k + 1 \in 0..b
          /\ a + (k + 1) \in 1..(a + b) /\ (k + 1) - 1 = k /\ k \in 0..b
          /\ (a + (k + 1)) - 1 = a + k /\ ~ (a + (k + 1) <= a) /\ (a + (k + 1)) - a = k + 1
      BY <1>1, <2>2
    <3>2. T[k + 1] = T[k] + t[k + 1] /\ U[a + (k + 1)] = U[a + k] + u[a + (k + 1)]
      BY <1>3, <1>4, <3>1
    <3>3. u[a + (k + 1)] = t[k + 1] /\ t[k + 1] \in Nat /\ T[k] \in Nat
      BY <1>1, <1>3, <3>1
    <3> DEFINE v == U[a + (k + 1)]
               w == U[a + k]
               x == t[k + 1]
               y == T[k]
               z == T[k + 1]
               h == S[a]
    <3>4. /\ w = h + y /\ v = w + x /\ z = y + x
          /\ h \in Nat /\ x \in Nat /\ y \in Nat
      BY <2>0, <3>1, <3>2, <3>3
    <3>5. v = h + z
      <4> HIDE DEF v, w, x, y, z, h
      <4> QED
        BY <3>4
    <3>6. k + 1 \in 0..b /\ U[a + (k + 1)] = S[a] + T[k + 1]
      BY <3>1, <3>5
    <3> QED
      BY <3>6
  <2>3. b \in 0..b
    BY <1>1
  <2> HIDE DEF N
  <2>4. N = 0..b
    BY <1>1, <2>1, <2>2, BoundedInduction
  <2> QED
    BY <2>3, <2>4 DEF N
<1> QED
  BY <1>2, <1>3, <1>4, <1>5, <1>6 DEF u

(* A tag on every part is a tag for each of them, and no more than that on  *)
(* some.                                                                   *)
LEMMA SumTagged ==
    ASSUME NEW s \in Seq(Nat), NEW t \in Seq(Nat), NEW c \in Nat, Len(t) = Len(s),
           \A i \in 1..Len(s) : t[i] <= s[i] + c
    PROVE  /\ SumOf(t) <= SumOf(s) + Len(s) * c
           /\ (\A i \in 1..Len(s) : t[i] = s[i] + c) => SumOf(t) = SumOf(s) + Len(s) * c
           /\ SumOf(t) \in Nat
<1> DEFINE n == Len(s)
           Exact == \A i \in 1..n : t[i] = s[i] + c
<1>1. /\ n \in Nat
      /\ \A i \in 1..n : s[i] \in Nat /\ t[i] \in Nat /\ t[i] <= s[i] + c
  BY LenProperties, ElementOfSeq
<1>2. PICK S \in [0..n -> Nat] :
        S[0] = 0 /\ (\A k \in 1..n : S[k] = S[k - 1] + s[k]) /\ SumOf(s) = S[n]
  BY SumPrefixes
<1>3. PICK T \in [0..n -> Nat] :
        T[0] = 0 /\ (\A k \in 1..n : T[k] = T[k - 1] + t[k]) /\ SumOf(t) = T[n]
  BY SumPrefixes
<1> HIDE DEF n
<1> DEFINE N == {k \in 0..n : T[k] <= S[k] + k * c /\ (Exact => T[k] = S[k] + k * c)}
<1>4. N \in SUBSET (0..n) /\ 0 \in N
  <2>1. 0 * c = 0 /\ 0 \in 0..n
    BY <1>1
  <2> QED
    BY <1>2, <1>3, <2>1
<1>5. ASSUME NEW k \in N, k < n PROVE k + 1 \in N
  <2>1. k \in Nat /\ k \in 0..n /\ k + 1 \in 1..n /\ k + 1 \in 0..n /\ (k + 1) - 1 = k
    BY <1>1, <1>5
  <2>2. S[k + 1] = S[k] + s[k + 1] /\ T[k + 1] = T[k] + t[k + 1]
    BY <1>2, <1>3, <2>1
  <2>3. (k + 1) * c = k * c + c /\ k * c \in Nat
    BY <2>1, Z3
  <2>4. /\ S[k] \in Nat /\ T[k] \in Nat /\ s[k + 1] \in Nat /\ t[k + 1] \in Nat
        /\ t[k + 1] <= s[k + 1] + c /\ T[k] <= S[k] + k * c
    BY <1>1, <1>2, <1>3, <2>1
  <2>5. T[k + 1] <= S[k + 1] + (k + 1) * c
    <3> DEFINE x == k * c
               y == (k + 1) * c
               f == S[k]
               g == T[k]
               v == s[k + 1]
               w == t[k + 1]
    <3>1. /\ x \in Nat /\ y = x + c /\ f \in Nat /\ g \in Nat /\ v \in Nat /\ w \in Nat
          /\ g <= f + x /\ w <= v + c
      BY <2>3, <2>4
    <3>2. g + w <= (f + v) + y
      <4> HIDE DEF x, y, f, g, v, w
      <4> QED
        BY <3>1
    <3> QED
      BY <2>2, <3>2
  <2>6. ASSUME Exact PROVE T[k + 1] = S[k + 1] + (k + 1) * c
    <3> DEFINE x == k * c
               y == (k + 1) * c
               f == S[k]
               g == T[k]
               v == s[k + 1]
               w == t[k + 1]
    <3>1. x \in Nat /\ y = x + c /\ f \in Nat /\ v \in Nat /\ g = f + x
      BY <2>3, <2>4, <2>6
    <3>2. w = v + c
      BY <2>1, <2>6
    <3>3. g + w = (f + v) + y
      <4> HIDE DEF x, y, f, g, v, w
      <4> QED
        BY <3>1, <3>2
    <3> QED
      BY <2>2, <3>3
  <2> QED
    BY <2>1, <2>5, <2>6
<1>6. n \in 0..n
  BY <1>1
<1> HIDE DEF N
<1>7. N = 0..n
  BY <1>1, <1>4, <1>5, BoundedInduction
<1>8. T[n] <= S[n] + n * c /\ (Exact => T[n] = S[n] + n * c) /\ T[n] \in Nat
  BY <1>3, <1>6, <1>7 DEF N
<1> QED
  BY <1>2, <1>3, <1>8 DEF n

(* The chunks of a file are the file. *)
LEMMA SumChunks ==
    ASSUME NEW size \in Nat
    PROVE  SumOf(Chunks(size)) = size
<1> DEFINE n == DropChunkCount(size)
           s == Chunks(size)
<1>1. /\ n \in Nat \ {0} /\ size <= n * Chunk /\ (n - 1) * Chunk <= size
      /\ Chunk \in Nat \ {0} /\ s \in Seq(Nat) /\ Len(s) = n
  BY ChunkCounts, ChunksType, DropAssumption
<1>2. \A i \in 1..n : s[i] = Smaller(Chunk, size - (i - 1) * Chunk)
  BY DEF Chunks
<1> HIDE DEF n, s
<1>3. PICK S \in [0..n -> Nat] :
        S[0] = 0 /\ (\A k \in 1..n : S[k] = S[k - 1] + s[k]) /\ SumOf(s) = S[n]
  BY <1>1, SumPrefixes
<1> DEFINE N == {k \in 0..n : S[k] = Smaller(k * Chunk, size)}
<1>4. N \in SUBSET (0..n) /\ 0 \in N
  <2>1. 0 * Chunk = 0 /\ 0 \in 0..n
    BY <1>1
  <2> QED
    BY <1>3, <2>1 DEF Smaller
<1>5. ASSUME NEW k \in N, k < n PROVE k + 1 \in N
  <2>1. /\ k \in Nat /\ k \in 0..n /\ k + 1 \in 1..n /\ k + 1 \in 0..n /\ (k + 1) - 1 = k
        /\ n - 1 \in Nat /\ k <= n - 1
    BY <1>1, <1>5
  <2> DEFINE x == k * Chunk
  <2>2. x \in Nat /\ x <= (n - 1) * Chunk /\ (n - 1) * Chunk \in Nat
    BY <1>1, <2>1, Products
  <2>3. (k + 1) * Chunk = x + Chunk
    BY <1>1, <2>1, Z3
  <2>4. S[k + 1] = S[k] + s[k + 1]
    BY <1>3, <2>1
  <2>5. s[k + 1] = Smaller(Chunk, size - x) /\ S[k] = Smaller(x, size)
    BY <1>2, <2>1
  <2> HIDE DEF x
  <2>6. x <= size
    BY <1>1, <2>2
  <2>7. S[k + 1] = Smaller(x + Chunk, size)
    BY <1>1, <2>2, <2>4, <2>5, <2>6 DEF Smaller
  <2> QED
    BY <2>1, <2>3, <2>7
<1>6. n \in 0..n
  BY <1>1
<1> HIDE DEF N
<1>7. N = 0..n
  BY <1>1, <1>4, <1>5, BoundedInduction
<1>8. S[n] = Smaller(n * Chunk, size)
  BY <1>6, <1>7 DEF N
<1>9. n * Chunk \in Nat
  BY <1>1, Products
<1> QED
  BY <1>1, <1>3, <1>8, <1>9 DEF Smaller, s

(* The parts of a plan hold every byte of every file once: their plaintext *)
(* adds up to the declared size, whatever the sizes, empty files included. *)
(* (buildPlan)                                                             *)
THEOREM PlansCoverFiles == \A sizes \in Selections : SumOf(Plan(sizes)) = SumOf(sizes)
<1> SUFFICES ASSUME NEW sizes \in Selections PROVE SumOf(Plan(sizes)) = SumOf(sizes)
  OBVIOUS
<1> DEFINE n == Len(sizes)
<1>0. sizes \in Seq(Nat)
  BY DropAssumption
<1>1. n \in Nat /\ \A i \in 1..n : sizes[i] \in Nat
  BY <1>0, LenProperties, ElementOfSeq
<1>2. PICK P \in [0..n -> Seq(Nat)] :
        /\ P[0] = <<>> /\ Plan(sizes) = P[n]
        /\ \A k \in 1..n : P[k] = P[k - 1] \o Chunks(sizes[k])
  BY <1>0, PlanPrefixes
<1>3. PICK Q \in [0..n -> Nat] :
        /\ Q[0] = 0 /\ SumOf(sizes) = Q[n]
        /\ \A k \in 1..n : Q[k] = Q[k - 1] + sizes[k]
  BY <1>0, SumPrefixes
<1> HIDE DEF n
<1> DEFINE N == {k \in 0..n : SumOf(P[k]) = Q[k]}
<1>4. N \in SUBSET (0..n) /\ 0 \in N
  <2>1. SumOf(<<>>) = 0
    <3>1. <<>> \in Seq(Nat) /\ Len(<<>>) = 0
      BY EmptySeq
    <3> QED
      BY <3>1, SumPrefixes
  <2>2. 0 \in 0..n
    BY <1>1
  <2> QED
    BY <1>2, <1>3, <2>1, <2>2
<1>5. ASSUME NEW k \in N, k < n PROVE k + 1 \in N
  <2>1. k \in Nat /\ k \in 0..n /\ k + 1 \in 1..n /\ k + 1 \in 0..n /\ (k + 1) - 1 = k
    BY <1>1, <1>5
  <2>2. /\ P[k + 1] = P[k] \o Chunks(sizes[k + 1]) /\ P[k] \in Seq(Nat)
        /\ Q[k + 1] = Q[k] + sizes[k + 1] /\ sizes[k + 1] \in Nat
    BY <1>1, <1>2, <1>3, <2>1
  <2>3. Chunks(sizes[k + 1]) \in Seq(Nat) /\ SumOf(Chunks(sizes[k + 1])) = sizes[k + 1]
    BY <2>2, ChunksType, SumChunks
  <2>4. SumOf(P[k + 1]) = SumOf(P[k]) + sizes[k + 1]
    BY <2>2, <2>3, SumConcat
  <2>5. SumOf(P[k]) = Q[k]
    OBVIOUS
  <2> QED
    BY <2>1, <2>2, <2>4, <2>5
<1>6. n \in 0..n
  BY <1>1
<1> HIDE DEF N
<1>7. N = 0..n
  BY <1>1, <1>4, <1>5, BoundedInduction
<1> QED
  BY <1>2, <1>3, <1>6, <1>7 DEF N

(* All that the rest needs of the plan. *)
LEMMA PartsType ==
    ASSUME files \in Selections
    PROVE  /\ PartCount \in Nat \ {0} /\ Parts = 1..PartCount
           /\ \A p \in Parts : CipherSize(p) \in Nat \ {0}
<1>1. files \in Seq(Nat) /\ files # <<>> /\ Plans[files] = Plan(files) /\ Tag \in Nat \ {0}
  BY DropAssumption DEF Plans
<1>2. Plans[files] \in Seq(Nat) /\ Len(files) \in Nat /\ Len(files) <= PartCount
  BY <1>1, PlanLength DEF PartCount
<1>3. Len(files) # 0 /\ PartCount \in Nat
  BY <1>1, <1>2, EmptySeq, LenProperties DEF PartCount
<1>4. \A p \in Parts : Plans[files][p] \in Nat
  BY <1>2, ElementOfSeq DEF Parts
<1> QED
  BY <1>1, <1>2, <1>3, <1>4 DEF Parts, PartCount, CipherSize

---------------------------------------------------------------------------
(* The invariant *)

Ops == {"none", "authorize", "commit", "seal", "delete", "erased"} \cup Events

Marks(ps) ==
    [status : {"none", "collecting", "ready"}, parts : [ps -> Nat] \cup {<<>>},
     opened : Nat, downloading : Nat, delivered : Nat, revision : Nat]

Calls(ps) ==
    [op : Ops, at : {"idle", "route", "mutate", "cas", "delete"},
     parts : SUBSET ps, snap : Marks(ps), clock : Nat, left : Nat, tries : Nat]

Senders ==
    [pc : {"create", "authorize", "parts", "commit", "seal", "done",
           "revoking", "over"},
     first : Nat, tries : Nat, stopped : BOOLEAN, known : BOOLEAN]

(* The type of every variable the proofs reason about. *)
TypeOK ==
    /\ files \in Selections
    /\ now \in Nat
    /\ drop \in Marks(Parts)
    /\ Present => drop.parts \in [Parts -> Nat]
    /\ blobs \subseteq Parts
    /\ \A s \in strays : s[1] \in Parts
    /\ sender \in Senders
    /\ rx \in [Receivers -> Events \cup {"told", "end"}]
    /\ call \in [Slots -> Calls(Parts)]

(* Until the transfer is created nothing else happens. *)
Early ==
    sender.pc = "create" =>
        /\ drop = NoDrop /\ blobs = {} /\ strays = {} /\ sender.first = 1
        /\ \A p \in Parts : part[p].at = "none"
        /\ \A r \in Receivers : rx[r] # "told"
        /\ \A c \in Slots : call[c].at = "idle"

Busy(c) == call[c].at # "idle"

(* Every request is one that its phone, or the sweep, waits for, and only  *)
(* those that may delete do.                                               *)
Asks(c) ==
    Busy(c) =>
        /\ c = "sender" => /\ call[c].op = sender.pc /\ call[c].parts = Batch
                           /\ sender.pc \in {"authorize", "commit", "seal"}
        /\ c = "late" => call[c].op \in {"authorize", "commit", "seal"}
        /\ c \in Receivers => call[c].op = rx[c] /\ rx[c] \in Events
        /\ c \in {"revoke", "erase", "sweep"} => call[c].op = "delete"
        /\ c = "revoke" => sender.pc = "revoking"
        /\ call[c].at \in {"mutate", "cas"} =>
              call[c].op \in {"commit", "seal"} \cup Events
        /\ call[c].at = "delete" => call[c].op = "delete"
        /\ call[c].op = "delete" => DeletionAsked

(* A request that is about to write read the record it would write over,   *)
(* or an older revision of it.                                             *)
Snapped(c) ==
    call[c].at = "cas" =>
        /\ call[c].snap.status # "none"
        /\ Mutation(call[c].snap, call[c])[2] # call[c].snap
        /\ Present => /\ call[c].snap.revision <= drop.revision
                      /\ call[c].snap.revision = drop.revision => call[c].snap = drop

(* What a deletion has passed is gone, or has escaped it. *)
Passes(c) ==
    call[c].at = "delete" => \A p \in blobs : p < call[c].left => p \in escaped

(* The parts of a commit were seen in the blob store. *)
Headed(c) ==
    call[c].at \in {"mutate", "cas"} /\ call[c].op = "commit" =>
        DeletionAsked \/ call[c].parts \subseteq blobs

Serving(c) == Asks(c) /\ Snapped(c) /\ Passes(c) /\ Headed(c)

Gone == sender.pc # "create" /\ ~Present => blobs \subseteq escaped

Whole ==
    Present =>
        /\ \A p \in Parts : drop.parts[p] \in {0, CipherSize(p)}
        /\ drop.status = "ready" => Committed(drop) = Parts

Held == Present => DeletionAsked \/ Committed(drop) \subseteq blobs

Told == {r \in Receivers : rx[r] = "told"}

Acked ==
    /\ IsFiniteSet(Told)
    /\ Present =>
        /\ \A p \in Parts : p < sender.first => drop.parts[p] # 0
        /\ sender.pc = "done" => drop.status = "ready"
        /\ Cardinality(Told) <= drop.delivered

IInv == Early /\ (\A c \in Slots : Serving(c)) /\ Gone /\ Whole /\ Held /\ Acked

---------------------------------------------------------------------------
(* What does not change with the selection *)

LEMMA PartsStay ==
    ASSUME UNCHANGED files
    PROVE  /\ Parts' = Parts /\ PartCount' = PartCount /\ Ceiling' = Ceiling
           /\ \A p : CipherSize(p)' = CipherSize(p)
BY DEF Parts, PartCount, Ceiling, CipherSize

LEMMA MutationStays ==
    ASSUME UNCHANGED files, NEW c, NEW d, call'[d] = call[c]
    PROVE  Mutation(call[d].snap, call[d])' = Mutation(call[c].snap, call[c])
<1>1. /\ Parts' = Parts /\ Ceiling' = Ceiling
      /\ \A p : CipherSize(p)' = CipherSize(p)
  BY PartsStay
<1>2. ApplyPartCommits(call[d].snap, call[d].parts)'
         = ApplyPartCommits(call[c].snap, call[c].parts)
  BY <1>1, ZenonT(60) DEF ApplyPartCommits
<1>3. ApplySeal(call[d].snap)' = ApplySeal(call[c].snap)
  BY <1>1 DEF ApplySeal
<1>4. ApplyReceiverEvent(call[d].snap, call[d].op)'
         = ApplyReceiverEvent(call[c].snap, call[c].op)
  BY DEF ApplyReceiverEvent
<1> QED
  BY <1>2, <1>3, <1>4 DEF Mutation

LEMMA Names ==
    /\ "sender" \notin Receivers /\ "late" \notin Receivers /\ "revoke" \notin Receivers
    /\ "erase" \notin Receivers /\ "sweep" \notin Receivers
    /\ {"sender", "late", "revoke", "erase", "sweep"} \subseteq Slots
    /\ Receivers \subseteq Slots
    /\ \A c \in Slots : c \in Receivers \/ c \in {"sender", "late", "revoke", "erase", "sweep"}
BY DropAssumption DEF Slots

---------------------------------------------------------------------------
(* What a mutation does to a record *)

LEMMA MarkTypes ==
    ASSUME NEW d \in Marks(Parts), NEW e, NEW ps \in [Parts -> Nat],
           e = [d EXCEPT !.parts = ps, !.revision = @ + 1]
    PROVE  /\ e \in Marks(Parts) /\ e.parts = ps /\ e.status = d.status
           /\ e.delivered = d.delivered /\ e.revision = d.revision + 1
<1>1. /\ d.revision \in Nat
      /\ e = [status |-> d.status, parts |-> ps, opened |-> d.opened,
              downloading |-> d.downloading, delivered |-> d.delivered,
              revision |-> d.revision + 1]
  BY DEF Marks
<1>2. /\ d.status \in {"none", "collecting", "ready"} /\ d.opened \in Nat
      /\ d.downloading \in Nat /\ d.delivered \in Nat
  BY DEF Marks
<1> QED
  BY <1>1, <1>2 DEF Marks

LEMMA CommitApplies ==
    ASSUME TypeOK, NEW d \in Marks(Parts), d.parts \in [Parts -> Nat],
           NEW ps \in SUBSET Parts
    PROVE  LET r == ApplyPartCommits(d, ps)
           IN  \/ r[2] = d /\ (r[1] = 200 => \A p \in ps : d.parts[p] # 0)
               \/ /\ r[1] = 200 /\ d.status = "collecting"
                  /\ r[2] \in Marks(Parts) /\ r[2].parts \in [Parts -> Nat]
                  /\ r[2].status = "collecting" /\ r[2].delivered = d.delivered
                  /\ r[2].revision = d.revision + 1
                  /\ \A p \in Parts : r[2].parts[p] = IF p \in ps /\ d.parts[p] = 0
                                                      THEN CipherSize(p)
                                                      ELSE d.parts[p]
<1> DEFINE fresh == {p \in ps : d.parts[p] = 0}
           parts == [p \in Parts |-> IF p \in fresh THEN CipherSize(p) ELSE d.parts[p]]
           r == ApplyPartCommits(d, ps)
<1>1. \A p \in Parts : CipherSize(p) \in Nat
  BY PartsType DEF TypeOK
<1>2. parts \in [Parts -> Nat]
  BY <1>1
<1>3. \/ r[2] = d /\ (r[1] = 200 => fresh = {})
      \/ /\ r[1] = 200 /\ d.status = "collecting"
         /\ r[2] = [d EXCEPT !.parts = parts, !.revision = @ + 1]
  BY DEF ApplyPartCommits
<1> HIDE DEF parts, r
<1>4. CASE r[2] = [d EXCEPT !.parts = parts, !.revision = @ + 1]
           /\ r[1] = 200 /\ d.status = "collecting"
  <2> DEFINE e == [d EXCEPT !.parts = parts, !.revision = @ + 1]
  <2>1. /\ e \in Marks(Parts) /\ e.parts = parts /\ e.status = d.status
        /\ e.delivered = d.delivered /\ e.revision = d.revision + 1
    <3>1. PICK x : x = e
      OBVIOUS
    <3>2. PICK qs \in [Parts -> Nat] : qs = parts
      BY <1>2
    <3>3. x = [d EXCEPT !.parts = qs, !.revision = @ + 1]
      BY <3>1, <3>2
    <3>4. /\ x \in Marks(Parts) /\ x.parts = qs /\ x.status = d.status
          /\ x.delivered = d.delivered /\ x.revision = d.revision + 1
      <4>1. /\ d.revision \in Nat
            /\ x = [status |-> d.status, parts |-> qs, opened |-> d.opened,
                    downloading |-> d.downloading, delivered |-> d.delivered,
                    revision |-> d.revision + 1]
        BY <3>3 DEF Marks
      <4>2. /\ d.status \in {"none", "collecting", "ready"} /\ d.opened \in Nat
            /\ d.downloading \in Nat /\ d.delivered \in Nat
        BY DEF Marks
      <4> QED
        BY <4>1, <4>2 DEF Marks
    <3> QED
      BY <3>1, <3>2, <3>4, Zenon
  <2>2. r[2] = e /\ r[1] = 200 /\ d.status = "collecting"
    BY <1>4
  <2> HIDE DEF e
  <2> QED
    BY <1>2, <2>1, <2>2 DEF parts, r
<1> QED
  BY <1>3, <1>4 DEF r

LEMMA SealTypes ==
    ASSUME NEW d \in Marks(Parts), NEW e, e = [d EXCEPT !.status = "ready", !.revision = @ + 1]
    PROVE  /\ e \in Marks(Parts) /\ e.parts = d.parts
           /\ e.revision = d.revision + 1
           /\ e.status = "ready" /\ e.delivered = d.delivered
<1>1. /\ d.revision \in Nat
      /\ e = [status |-> "ready", parts |-> d.parts, opened |-> d.opened,
              downloading |-> d.downloading, delivered |-> d.delivered,
              revision |-> d.revision + 1]
  BY DEF Marks
<1>2. /\ d.status \in {"none", "collecting", "ready"}
      /\ d.parts \in [Parts -> Nat] \cup {<<>>} /\ d.opened \in Nat
      /\ d.downloading \in Nat /\ d.delivered \in Nat
  BY DEF Marks
<1> QED
  BY <1>1, <1>2 DEF Marks

LEMMA OpenedTypes ==
    ASSUME NEW d \in Marks(Parts), NEW e, e = [d EXCEPT !.opened = @ + 1, !.revision = @ + 1]
    PROVE  /\ e \in Marks(Parts) /\ e.parts = d.parts
           /\ e.revision = d.revision + 1
           /\ e.status = d.status /\ e.delivered = d.delivered
<1>1. /\ d.revision \in Nat
      /\ e = [status |-> d.status, parts |-> d.parts, opened |-> d.opened + 1,
              downloading |-> d.downloading, delivered |-> d.delivered,
              revision |-> d.revision + 1]
  BY DEF Marks
<1>2. /\ d.status \in {"none", "collecting", "ready"}
      /\ d.parts \in [Parts -> Nat] \cup {<<>>} /\ d.opened \in Nat
      /\ d.downloading \in Nat /\ d.delivered \in Nat
  BY DEF Marks
<1> QED
  BY <1>1, <1>2 DEF Marks

LEMMA DownloadingTypes ==
    ASSUME NEW d \in Marks(Parts), NEW e, e = [d EXCEPT !.downloading = @ + 1, !.revision = @ + 1]
    PROVE  /\ e \in Marks(Parts) /\ e.parts = d.parts
           /\ e.revision = d.revision + 1
           /\ e.status = d.status /\ e.delivered = d.delivered
<1>1. /\ d.revision \in Nat
      /\ e = [status |-> d.status, parts |-> d.parts, opened |-> d.opened,
              downloading |-> d.downloading + 1, delivered |-> d.delivered,
              revision |-> d.revision + 1]
  BY DEF Marks
<1>2. /\ d.status \in {"none", "collecting", "ready"}
      /\ d.parts \in [Parts -> Nat] \cup {<<>>} /\ d.opened \in Nat
      /\ d.downloading \in Nat /\ d.delivered \in Nat
  BY DEF Marks
<1> QED
  BY <1>1, <1>2 DEF Marks

LEMMA DeliveredTypes ==
    ASSUME NEW d \in Marks(Parts), NEW e, e = [d EXCEPT !.delivered = @ + 1, !.revision = @ + 1]
    PROVE  /\ e \in Marks(Parts) /\ e.parts = d.parts
           /\ e.revision = d.revision + 1
           /\ e.status = d.status /\ e.delivered = d.delivered + 1
<1>1. /\ d.revision \in Nat
      /\ e = [status |-> d.status, parts |-> d.parts, opened |-> d.opened,
              downloading |-> d.downloading, delivered |-> d.delivered + 1,
              revision |-> d.revision + 1]
  BY DEF Marks
<1>2. /\ d.status \in {"none", "collecting", "ready"}
      /\ d.parts \in [Parts -> Nat] \cup {<<>>} /\ d.opened \in Nat
      /\ d.downloading \in Nat /\ d.delivered \in Nat
  BY DEF Marks
<1> QED
  BY <1>1, <1>2 DEF Marks

LEMMA SealApplies ==
    ASSUME NEW d \in Marks(Parts)
    PROVE  \/ ApplySeal(d)[2] = d /\ (ApplySeal(d)[1] = 200 => d.status = "ready")
           \/ \E e \in Marks(Parts) :
                 /\ ApplySeal(d) = <<200, e>> /\ Committed(d) = Parts
                 /\ e.parts = d.parts /\ e.status = "ready"
                 /\ e.delivered = d.delivered /\ e.revision = d.revision + 1
<1> DEFINE e == [d EXCEPT !.status = "ready", !.revision = @ + 1]
<1>1. \/ ApplySeal(d)[2] = d /\ (ApplySeal(d)[1] = 200 => d.status = "ready")
      \/ ApplySeal(d) = <<200, e>> /\ Committed(d) = Parts
  BY DEF ApplySeal
<1>2. e = [d EXCEPT !.status = "ready", !.revision = @ + 1]
  OBVIOUS
<1> HIDE DEF e
<1>3. /\ e \in Marks(Parts) /\ e.parts = d.parts /\ e.status = "ready"
      /\ e.delivered = d.delivered /\ e.revision = d.revision + 1
  BY <1>2, SealTypes
<1> QED
  BY <1>1, <1>3

LEMMA EventApplies ==
    ASSUME NEW d \in Marks(Parts), NEW event \in Events
    PROVE  \/ ApplyReceiverEvent(d, event) = <<404, d>>
           \/ \E e \in Marks(Parts) :
                 /\ ApplyReceiverEvent(d, event) = <<200, e>> /\ d.status = "ready"
                 /\ e.parts = d.parts /\ e.status = d.status
                 /\ e.delivered = IF event = "delivered" THEN d.delivered + 1
                                                         ELSE d.delivered
                 /\ e.revision = d.revision + 1
<1> DEFINE e == [d EXCEPT ![event] = @ + 1, !.revision = @ + 1]
<1>1. \/ ApplyReceiverEvent(d, event) = <<404, d>>
      \/ ApplyReceiverEvent(d, event) = <<200, e>> /\ d.status = "ready"
  BY DEF ApplyReceiverEvent
<1>2. /\ event = "opened" => e = [d EXCEPT !.opened = @ + 1, !.revision = @ + 1]
      /\ event = "downloading" => e = [d EXCEPT !.downloading = @ + 1, !.revision = @ + 1]
      /\ event = "delivered" => e = [d EXCEPT !.delivered = @ + 1, !.revision = @ + 1]
  OBVIOUS
<1> HIDE DEF e
<1>3. /\ e \in Marks(Parts) /\ e.parts = d.parts /\ e.status = d.status
      /\ e.delivered = IF event = "delivered" THEN d.delivered + 1 ELSE d.delivered
      /\ e.revision = d.revision + 1
  <2>1. CASE event = "opened"
    BY <1>2, <2>1, OpenedTypes
  <2>2. CASE event = "downloading"
    BY <1>2, <2>2, DownloadingTypes
  <2>3. CASE event = "delivered"
    BY <1>2, <2>3, DeliveredTypes
  <2> QED
    BY <2>1, <2>2, <2>3 DEF Events
<1> QED
  BY <1>1, <1>3

(* Taken together: a mutation leaves the record alone, or it takes one     *)
(* revision, forgets no part, goes back from nothing and answers 200.      *)
MutationOps == {"commit", "seal"} \cup Events

Refused(d, k, r) ==
    /\ r[2] = d
    /\ r[1] = 200 =>
          /\ k.op = "commit" => \A p \in k.parts : d.parts[p] # 0
          /\ k.op = "seal" => d.status = "ready"
          /\ k.op \notin Events

Applied(d, k, e) ==
    /\ e \in Marks(Parts) /\ e.parts \in [Parts -> Nat]
    /\ e.revision = d.revision + 1
    /\ d.status = "ready" => e.status = "ready"
    /\ d.status # "none" => e.status # "none"
    /\ e.status = "ready" =>
          /\ k.op # "commit"
          /\ d.status = "ready" \/ Committed(d) = Parts
    /\ \A p \in Parts :
          \/ e.parts[p] = d.parts[p]
          \/ k.op = "commit" /\ p \in k.parts /\ d.parts[p] = 0
             /\ e.parts[p] = CipherSize(p)
    /\ k.op = "commit" => \A p \in k.parts : e.parts[p] # 0
    /\ k.op = "seal" => e.status = "ready"
    /\ e.delivered = IF k.op = "delivered" THEN d.delivered + 1 ELSE d.delivered

LEMMA MutationApplies ==
    ASSUME TypeOK, NEW d \in Marks(Parts), d.parts \in [Parts -> Nat],
           NEW k \in Calls(Parts), k.op \in MutationOps
    PROVE  \/ Refused(d, k, Mutation(d, k))
           \/ Applied(d, k, Mutation(d, k)[2]) /\ Mutation(d, k)[1] = 200
<1> DEFINE r == Mutation(d, k)
<1>1. CASE k.op = "commit"
  <2>1. k.parts \in SUBSET Parts /\ \A p \in Parts : CipherSize(p) # 0
    BY PartsType DEF Calls, TypeOK
  <2>2. r = ApplyPartCommits(d, k.parts)
    BY <1>1 DEF Mutation, Events
  <2> HIDE DEF r
  <2>3. \/ r[2] = d /\ (r[1] = 200 => \A p \in k.parts : d.parts[p] # 0)
        \/ /\ r[1] = 200 /\ d.status = "collecting"
           /\ r[2] \in Marks(Parts) /\ r[2].parts \in [Parts -> Nat]
           /\ r[2].status = "collecting" /\ r[2].delivered = d.delivered
           /\ r[2].revision = d.revision + 1
           /\ \A p \in Parts : r[2].parts[p] = IF p \in k.parts /\ d.parts[p] = 0
                                               THEN CipherSize(p) ELSE d.parts[p]
    BY <2>1, <2>2, CommitApplies
  <2>4. Refused(d, k, r) \/ (Applied(d, k, r[2]) /\ r[1] = 200)
    BY <1>1, <2>1, <2>3 DEF Refused, Applied, Events
  <2> QED
    BY <2>4 DEF r
<1>2. CASE k.op = "seal"
  <2>1. r = ApplySeal(d)
    BY <1>2 DEF Mutation, Events
  <2> HIDE DEF r
  <2>2. Refused(d, k, r) \/ (Applied(d, k, r[2]) /\ r[1] = 200)
    BY <1>2, <2>1, SealApplies DEF Refused, Applied, Events
  <2> QED
    BY <2>2 DEF r
<1>3. CASE k.op \in Events
  <2>1. k.op # "commit" /\ k.op # "seal"
    BY <1>3 DEF Events
  <2>2. r = ApplyReceiverEvent(d, k.op)
    BY <1>3, <2>1 DEF Mutation
  <2> HIDE DEF r
  <2>3. Refused(d, k, r) \/ (Applied(d, k, r[2]) /\ r[1] = 200)
    BY <1>3, <2>1, <2>2, EventApplies DEF Refused, Applied
  <2> QED
    BY <2>3 DEF r
<1> QED
  BY <1>1, <1>2, <1>3 DEF MutationOps

---------------------------------------------------------------------------
(* Types *)

LEMMA NewMarkTypes ==
    ASSUME NEW d \in Marks(Parts), NEW e, NEW ps \in [Parts -> Nat],
           e = [d EXCEPT !.status = "collecting", !.parts = ps]
    PROVE  /\ e \in Marks(Parts) /\ e.status = "collecting" /\ e.parts = ps
           /\ e.delivered = d.delivered
<1>1. /\ d.revision \in Nat
      /\ e = [status |-> "collecting", parts |-> ps, opened |-> d.opened,
              downloading |-> d.downloading, delivered |-> d.delivered,
              revision |-> d.revision]
  BY DEF Marks
<1>2. d.opened \in Nat /\ d.downloading \in Nat /\ d.delivered \in Nat
  BY DEF Marks
<1> QED
  BY <1>1, <1>2 DEF Marks

LEMMA Constants ==
    /\ NoDrop \in Marks(Parts) /\ NoDrop.status = "none"
    /\ Idle \in Calls(Parts) /\ Idle.at = "idle" /\ Idle.op = "none"
    /\ \A op \in Ops, ps \in SUBSET Parts :
          /\ Request(op, ps) \in Calls(Parts) /\ Request(op, ps).at = "route"
          /\ Request(op, ps).op = op /\ Request(op, ps).parts = ps
<1>1. NoDrop \in Marks(Parts) /\ NoDrop.status = "none"
  BY DEF NoDrop, Marks
<1>2. Idle \in Calls(Parts) /\ Idle.at = "idle" /\ Idle.op = "none"
  BY <1>1 DEF Idle, Calls, Ops
<1>3. ASSUME NEW op \in Ops, NEW ps \in SUBSET Parts
      PROVE  /\ Request(op, ps) \in Calls(Parts) /\ Request(op, ps).at = "route"
             /\ Request(op, ps).op = op /\ Request(op, ps).parts = ps
  <2>1. Request(op, ps) = [Idle EXCEPT !.op = op, !.at = "route", !.parts = ps]
    BY DEF Request
  <2>2. PICK e : e = Request(op, ps)
    OBVIOUS
  <2>3. e = [Idle EXCEPT !.op = op, !.at = "route", !.parts = ps]
    BY <2>1, <2>2
  <2>4. PICK k \in Calls(Parts) : k = Idle
    BY <1>2
  <2>5. /\ k.tries \in Nat
        /\ e = [op |-> op, at |-> "route", parts |-> ps, snap |-> k.snap,
                clock |-> k.clock, left |-> k.left, tries |-> k.tries]
    BY <2>3, <2>4 DEF Calls
  <2>6. k.snap \in Marks(Parts) /\ k.clock \in Nat /\ k.left \in Nat
    BY DEF Calls
  <2>7. e \in Calls(Parts) /\ e.at = "route" /\ e.op = op /\ e.parts = ps
    BY <2>5, <2>6 DEF Calls
  <2> QED
    BY <2>2, <2>7
<1> QED
  BY <1>1, <1>2, <1>3

LEMMA NewDropType ==
    ASSUME files \in Selections
    PROVE  /\ NewDrop \in Marks(Parts) /\ NewDrop.status = "collecting"
           /\ NewDrop.parts = [p \in Parts |-> 0] /\ NewDrop.delivered = 0
<1>1. [p \in Parts |-> 0] \in [Parts -> Nat]
  OBVIOUS
<1>2. NewDrop = [NoDrop EXCEPT !.status = "collecting", !.parts = [p \in Parts |-> 0]]
  BY DEF NewDrop
<1>3. NoDrop \in Marks(Parts) /\ NoDrop.delivered = 0
  BY Constants DEF NoDrop
<1> QED
  BY <1>1, <1>2, <1>3, NewMarkTypes

(* Whatever a step leaves the type of. *)
LEMMA Typed ==
    ASSUME TypeOK, UNCHANGED files, now' \in Nat, drop' \in Marks(Parts),
           drop'.status # "none" => drop'.parts \in [Parts -> Nat],
           blobs' \subseteq Parts, \A s \in strays' : s[1] \in Parts,
           sender' \in Senders, rx' \in [Receivers -> Events \cup {"told", "end"}],
           call' \in [Slots -> Calls(Parts)]
    PROVE  TypeOK'
BY PartsStay DEF TypeOK, Present

---------------------------------------------------------------------------
(* How a request keeps its part of the invariant *)

(* Nobody touched it or its world. *)
LEMMA Stays ==
    ASSUME UNCHANGED <<files, drop, blobs, escaped>>, DeletionAsked => DeletionAsked',
           NEW c \in Slots, NEW d \in Slots, call'[d] = call[c],
           Snapped(c), Passes(c), Headed(c)
    PROVE  Snapped(d)' /\ Passes(d)' /\ Headed(d)'
<1>1. Snapped(d)'
  BY MutationStays DEF Snapped, Present
<1>2. Passes(d)' /\ Headed(d)'
  BY DEF Passes, Headed
<1> QED
  BY <1>1, <1>2

Began(d) == \/ call'[d].at \in {"idle", "route"}
            \/ call'[d].at = "delete" /\ call'[d].left = 1

LEMMA Begins ==
    ASSUME TypeOK, blobs' \subseteq Parts, NEW d \in Slots, Began(d)
    PROVE  Snapped(d)' /\ Passes(d)' /\ Headed(d)'
<1>1. \A p \in Parts : ~ (p < 1)
  BY PartsType DEF TypeOK
<1> QED
  BY <1>1 DEF Began, Snapped, Passes, Headed

(* The records a request turns into. *)

LEMMA Deleting ==
    ASSUME TypeOK, NEW k \in Calls(Parts), NEW e,
           e = [k EXCEPT !.at = "delete", !.snap = drop, !.left = 1]
    PROVE  /\ e \in Calls(Parts)
           /\ e.op = k.op /\ e.at = "delete" /\ e.parts = k.parts /\ e.snap = drop
           /\ e.clock = k.clock /\ e.left = 1 /\ e.tries = k.tries
<1>1. /\ k.tries \in Nat
      /\ e = [op |-> k.op, at |-> "delete", parts |-> k.parts, snap |-> drop,
              clock |-> k.clock, left |-> 1, tries |-> k.tries]
  BY DEF Calls
<1>2. /\ k.op \in Ops
      /\ k.parts \in SUBSET Parts
      /\ k.clock \in Nat
      /\ k.tries \in Nat
  BY DEF Calls
<1>3. now \in Nat /\ drop \in Marks(Parts) /\ NoDrop \in Marks(Parts)
  BY Constants DEF TypeOK
<1> QED
  BY <1>1, <1>2, <1>3 DEF Calls

LEMMA Mutating ==
    ASSUME TypeOK, NEW k \in Calls(Parts), NEW e,
           e = [k EXCEPT !.at = "mutate", !.clock = now]
    PROVE  /\ e \in Calls(Parts)
           /\ e.op = k.op /\ e.at = "mutate" /\ e.parts = k.parts /\ e.snap = k.snap
           /\ e.clock = now /\ e.left = k.left /\ e.tries = k.tries
<1>1. /\ k.tries \in Nat
      /\ e = [op |-> k.op, at |-> "mutate", parts |-> k.parts, snap |-> k.snap,
              clock |-> now, left |-> k.left, tries |-> k.tries]
  BY DEF Calls
<1>2. /\ k.op \in Ops
      /\ k.parts \in SUBSET Parts
      /\ k.snap \in Marks(Parts)
      /\ k.left \in Nat
      /\ k.tries \in Nat
  BY DEF Calls
<1>3. now \in Nat /\ drop \in Marks(Parts) /\ NoDrop \in Marks(Parts)
  BY Constants DEF TypeOK
<1> QED
  BY <1>1, <1>2, <1>3 DEF Calls

LEMMA Comparing ==
    ASSUME TypeOK, NEW k \in Calls(Parts), NEW e,
           e = [k EXCEPT !.at = "cas", !.snap = drop]
    PROVE  /\ e \in Calls(Parts)
           /\ e.op = k.op /\ e.at = "cas" /\ e.parts = k.parts /\ e.snap = drop
           /\ e.clock = k.clock /\ e.left = k.left /\ e.tries = k.tries
<1>1. /\ k.tries \in Nat
      /\ e = [op |-> k.op, at |-> "cas", parts |-> k.parts, snap |-> drop,
              clock |-> k.clock, left |-> k.left, tries |-> k.tries]
  BY DEF Calls
<1>2. /\ k.op \in Ops
      /\ k.parts \in SUBSET Parts
      /\ k.clock \in Nat
      /\ k.left \in Nat
      /\ k.tries \in Nat
  BY DEF Calls
<1>3. now \in Nat /\ drop \in Marks(Parts) /\ NoDrop \in Marks(Parts)
  BY Constants DEF TypeOK
<1> QED
  BY <1>1, <1>2, <1>3 DEF Calls

LEMMA Retrying ==
    ASSUME TypeOK, NEW k \in Calls(Parts), NEW e,
           e = [k EXCEPT !.at = "mutate", !.snap = NoDrop, !.tries = @ + 1]
    PROVE  /\ e \in Calls(Parts)
           /\ e.op = k.op /\ e.at = "mutate" /\ e.parts = k.parts /\ e.snap = NoDrop
           /\ e.clock = k.clock /\ e.left = k.left /\ e.tries = k.tries + 1
<1>1. /\ k.tries \in Nat
      /\ e = [op |-> k.op, at |-> "mutate", parts |-> k.parts, snap |-> NoDrop,
              clock |-> k.clock, left |-> k.left, tries |-> k.tries + 1]
  BY DEF Calls
<1>2. /\ k.op \in Ops
      /\ k.parts \in SUBSET Parts
      /\ k.clock \in Nat
      /\ k.left \in Nat
      /\ k.tries \in Nat
  BY DEF Calls
<1>3. now \in Nat /\ drop \in Marks(Parts) /\ NoDrop \in Marks(Parts)
  BY Constants DEF TypeOK
<1> QED
  BY <1>1, <1>2, <1>3 DEF Calls

LEMMA Advancing ==
    ASSUME TypeOK, NEW k \in Calls(Parts), NEW e,
           e = [k EXCEPT !.left = @ + 1]
    PROVE  /\ e \in Calls(Parts)
           /\ e.op = k.op /\ e.at = k.at /\ e.parts = k.parts /\ e.snap = k.snap
           /\ e.clock = k.clock /\ e.left = k.left + 1 /\ e.tries = k.tries
<1>1. /\ k.tries \in Nat
      /\ e = [op |-> k.op, at |-> k.at, parts |-> k.parts, snap |-> k.snap,
              clock |-> k.clock, left |-> k.left + 1, tries |-> k.tries]
  BY DEF Calls
<1>2. /\ k.op \in Ops
      /\ k.at \in {"idle", "route", "mutate", "cas", "delete"}
      /\ k.parts \in SUBSET Parts
      /\ k.snap \in Marks(Parts)
      /\ k.clock \in Nat
      /\ k.left \in Nat
      /\ k.tries \in Nat
  BY DEF Calls
<1>3. now \in Nat /\ drop \in Marks(Parts) /\ NoDrop \in Marks(Parts)
  BY Constants DEF TypeOK
<1> QED
  BY <1>1, <1>2, <1>3 DEF Calls

LEMMA Ending ==
    ASSUME TypeOK, NEW k \in Calls(Parts), NEW e, NEW op \in {"none", "erased"},
           e = [k EXCEPT !.op = op]
    PROVE  /\ e \in Calls(Parts)
           /\ e.op = op /\ e.at = k.at /\ e.parts = k.parts /\ e.snap = k.snap
           /\ e.clock = k.clock /\ e.left = k.left /\ e.tries = k.tries
<1>1. /\ k.tries \in Nat
      /\ e = [op |-> op, at |-> k.at, parts |-> k.parts, snap |-> k.snap,
              clock |-> k.clock, left |-> k.left, tries |-> k.tries]
  BY DEF Calls
<1>2. /\ k.at \in {"idle", "route", "mutate", "cas", "delete"}
      /\ k.parts \in SUBSET Parts
      /\ k.snap \in Marks(Parts)
      /\ k.clock \in Nat
      /\ k.left \in Nat
      /\ k.tries \in Nat
  BY DEF Calls
<1>3. now \in Nat /\ drop \in Marks(Parts) /\ NoDrop \in Marks(Parts)
  BY Constants DEF TypeOK
<1> QED
  BY <1>1, <1>2, <1>3 DEF Calls, Ops

LEMMA SenderTypes ==
    ASSUME NEW k \in Senders, NEW e,
           NEW pc \in {"create", "authorize", "parts", "commit", "seal", "done",
                       "revoking", "over"},
           NEW first \in Nat, NEW tries \in Nat, NEW stopped \in BOOLEAN,
           NEW known \in BOOLEAN,
           e = [k EXCEPT !.pc = pc, !.first = first, !.tries = tries,
                         !.stopped = stopped, !.known = known]
    PROVE  e \in Senders /\ e.pc = pc /\ e.first = first
<1>1. e = [pc |-> pc, first |-> first, tries |-> tries, stopped |-> stopped,
           known |-> known]
  BY DEF Senders
<1> QED
  BY <1>1 DEF Senders

LEMMA FailSteps ==
    ASSUME TypeOK, \A c \in Slots : Asks(c), Fail, UNCHANGED <<files, now, rx>>,
           sender.pc \in {"authorize", "parts", "commit", "seal"}
    PROVE  /\ sender' \in Senders /\ sender'.pc \in {"revoking", "over"}
           /\ sender'.first = sender.first
           /\ call' \in [Slots -> Calls(Parts)] /\ call'["sender"].at = "idle"
           /\ \A c \in Slots : Asks(c)' /\ (call'[c] = call[c] \/ Began(c))
           /\ DeletionAsked'
<1>1. /\ sender' \in Senders /\ sender'.pc = IF sender.known THEN "revoking" ELSE "over"
      /\ sender'.first = sender.first
  BY DEF Fail, Senders, TypeOK
<1>2. /\ call' \in [Slots -> Calls(Parts)] /\ call'["sender"] = Idle
      /\ call'["revoke"] = IF sender.known THEN Request("delete", {}) ELSE call["revoke"]
      /\ \A c \in Slots \ {"sender", "revoke"} : call'[c] = call[c]
  <2>1. Request("delete", {}) \in Calls(Parts) /\ Idle \in Calls(Parts)
    BY Constants DEF Ops
  <2> QED
    BY <2>1, Names DEF Fail, TypeOK
<1>3. DeletionAsked'
  BY <1>1 DEF DeletionAsked
<1>4. /\ Idle.at = "idle" /\ Request("delete", {}).at = "route"
      /\ Request("delete", {}).op = "delete"
  BY Constants DEF Ops
<1>5. ASSUME NEW c \in Slots PROVE Asks(c)' /\ (call'[c] = call[c] \/ Began(c))
  <2>1. CASE c = "sender"
    BY <1>2, <1>4, <2>1 DEF Asks, Busy, Began
  <2>2. CASE c = "revoke"
    <3>1. sender.known \/ ~ Busy("revoke")
      BY Names DEF Asks
    <3>2. CASE sender.known
      BY <1>1, <1>2, <1>3, <1>4, <2>2, <3>2, Names DEF Asks, Busy, Began
    <3>3. CASE ~ Busy("revoke") /\ ~ sender.known
      BY <1>2, <2>2, <3>3 DEF Asks, Busy, Began
    <3> QED
      BY <3>1, <3>2, <3>3
  <2>3. CASE c \notin {"sender", "revoke"}
    BY <1>2, <1>3, <2>3 DEF Asks, Busy
  <2> QED
    BY <2>1, <2>2, <2>3
<1> QED
  BY <1>1, <1>2, <1>3, <1>4, <1>5


---------------------------------------------------------------------------
(* How an answer changes the phones *)

SameProgress ==
    sender'.first = sender.first /\ (sender'.pc = "done" => sender.pc = "done")

Progress(c, status) ==
    \/ SameProgress
    \/ /\ status = 200 /\ c = "sender" /\ sender.pc = "commit"
       /\ sender'.first = sender.first + BatchSize /\ sender'.pc # "done"
    \/ /\ status = 200 /\ c = "sender" /\ sender.pc = "seal"
       /\ sender'.first = sender.first

Telling(c, status) ==
    \/ Told' = Told
    \/ /\ status = 200 /\ c \in Receivers /\ rx[c] = "delivered"
       /\ Told' = Told \cup {c}

Phones ==
    /\ sender' \in Senders /\ sender'.pc # "create"
    /\ rx' \in [Receivers -> Events \cup {"told", "end"}]
    /\ call' \in [Slots -> Calls(Parts)]

Answered(c, status) ==
    /\ Phones
    /\ DeletionAsked => DeletionAsked'
    /\ \A d \in Slots : Asks(d)' /\ (call'[d] = call[d] \/ Began(d))
    /\ Progress(c, status)
    /\ Telling(c, status)

LEMMA SenderAnswered ==
    ASSUME TypeOK, \A d \in Slots : Asks(d), Busy("sender"), NEW status,
           Answer("sender", status), UNCHANGED <<files, now>>
    PROVE  Answered("sender", status)
<1>1. /\ "sender" \in Slots /\ "sender" \notin Receivers /\ "revoke" \in Slots
      /\ "erase" \in Slots
  BY Names
<1>2. /\ sender.pc \in {"authorize", "commit", "seal"} /\ ~ Busy("revoke")
      /\ sender \in Senders
  BY <1>1 DEF Asks, TypeOK
<1>3. /\ SenderHears(status) /\ UNCHANGED rx
  BY <1>1 DEF Answer
<1>4. Told' = Told
  BY <1>3 DEF Told
<1>5. rx' \in [Receivers -> Events \cup {"told", "end"}]
  BY <1>3 DEF TypeOK
<1>6. CASE status # 200
  <2>1. Fail
    BY <1>3, <1>6 DEF SenderHears
  <2>2. sender.pc \in {"authorize", "parts", "commit", "seal"}
    BY <1>2
  <2>3. /\ sender' \in Senders /\ sender'.pc \in {"revoking", "over"}
        /\ sender'.first = sender.first
        /\ call' \in [Slots -> Calls(Parts)]
        /\ \A d \in Slots : Asks(d)' /\ (call'[d] = call[d] \/ Began(d))
        /\ DeletionAsked'
    BY <2>1, <2>2, <1>3, FailSteps
  <2> QED
    BY <2>3, <1>4, <1>5 DEF Answered, Phones, Progress, SameProgress, Telling
<1>7. CASE status = 200
  <2>1. call' = [call EXCEPT !["sender"] = Idle]
    BY <1>3, <1>7 DEF SenderHears
  <2>2. /\ call' \in [Slots -> Calls(Parts)] /\ call'["sender"] = Idle
        /\ \A d \in Slots \ {"sender"} : call'[d] = call[d]
    BY <2>1, <1>1, Constants DEF TypeOK
  <2>3. PICK pc \in {"parts", "authorize", "seal", "done"}, first \in Nat, known \in BOOLEAN :
           /\ sender' = [sender EXCEPT !.tries = 0, !.pc = pc, !.first = first,
                                       !.known = known]
           /\ sender.pc = "authorize" => pc = "parts" /\ first = sender.first
           /\ sender.pc = "commit" => pc # "done" /\ first = sender.first + BatchSize
           /\ sender.pc = "seal" => pc = "done" /\ first = sender.first
    <3> DEFINE pc == CASE sender.pc = "authorize" -> "parts"
                       [] sender.pc = "commit" -> IF LastBatch THEN "seal" ELSE "authorize"
                       [] sender.pc = "seal" -> "done"
               first == IF sender.pc = "commit" THEN sender.first + BatchSize
                                                ELSE sender.first
               known == sender.known /\ sender.pc # "seal"
    <3>1. sender' = [sender EXCEPT !.tries = 0, !.pc = pc, !.first = first, !.known = known]
      BY <1>3, <1>7, <1>2 DEF SenderHears, Senders
    <3>2. /\ sender.pc = "authorize" => pc = "parts"
          /\ sender.pc = "commit" => pc \in {"seal", "authorize"}
          /\ sender.pc = "seal" => pc = "done"
      OBVIOUS
    <3>3. first \in Nat /\ known \in BOOLEAN
      BY <1>2, DropAssumption DEF Senders
    <3>4. first = IF sender.pc = "commit" THEN sender.first + BatchSize
                                          ELSE sender.first
      OBVIOUS
    <3> HIDE DEF pc, first, known
    <3> QED
      BY <3>1, <3>2, <3>3, <3>4, <1>2
  <2>4. /\ sender' \in Senders /\ sender'.pc = pc /\ sender'.first = first
    <3>1. PICK e : e = sender'
      OBVIOUS
    <3>2. sender' = [pc |-> pc, first |-> first, tries |-> 0,
                     stopped |-> sender.stopped, known |-> known]
      BY <2>3, <1>2 DEF Senders
    <3>3. sender.stopped \in BOOLEAN
      BY <1>2 DEF Senders
    <3> QED
      BY <3>2, <3>3 DEF Senders
  <2>5. DeletionAsked => DeletionAsked'
    BY <1>1, <1>2, <2>2 DEF DeletionAsked
  <2>6. Idle.at = "idle"
    BY Constants
  <2>7. ASSUME NEW d \in Slots PROVE Asks(d)' /\ (call'[d] = call[d] \/ Began(d))
    <3>1. CASE d = "sender"
      BY <2>2, <2>6, <3>1 DEF Asks, Busy, Began
    <3>2. CASE d = "revoke"
      BY <1>2, <2>2, <3>2 DEF Asks, Busy
    <3>3. CASE d \notin {"sender", "revoke"}
      BY <2>2, <2>5, <1>3, <3>3 DEF Asks, Busy
    <3> QED
      BY <3>1, <3>2, <3>3
  <2>8. Progress("sender", status)
    BY <1>2, <1>7, <2>3, <2>4 DEF Progress, SameProgress
  <2>9. sender'.pc # "create"
    BY <2>3, <2>4
  <2> QED
    BY <1>4, <1>5, <2>2, <2>4, <2>5, <2>7, <2>8, <2>9 DEF Answered, Phones, Telling
<1> QED
  BY <1>6, <1>7

(* Everybody else is simply done with its request.                         *)
LEMMA OthersAnswered ==
    ASSUME TypeOK, \A d \in Slots : Asks(d), NEW c \in Slots, c # "sender", Busy(c),
           NEW status, Answer(c, status), UNCHANGED <<files, now>>,
           sender.pc # "create"
    PROVE  Answered(c, status)
<1> DEFINE op == IF c = "erase" THEN "erased" ELSE "none"
<1>1. /\ "sender" \in Slots /\ "revoke" \in Slots /\ "erase" \in Slots
      /\ sender \in Senders
  BY Names DEF TypeOK
<1>2. PICK e : e = [Idle EXCEPT !.op = op]
  OBVIOUS
<1>3. e \in Calls(Parts) /\ e.op = op /\ e.at = "idle"
  <2>1. Idle \in Calls(Parts) /\ Idle.at = "idle" /\ op \in {"none", "erased"}
    BY Constants
  <2>2. PICK k \in Calls(Parts) : k = Idle
    BY <2>1
  <2>3. e = [k EXCEPT !.op = op]
    BY <1>2, <2>2
  <2> HIDE DEF op
  <2> QED
    BY <2>1, <2>2, <2>3, Ending
<1>4. /\ call' = [call EXCEPT ![c] = e]
      /\ sender' = IF c = "revoke" THEN [sender EXCEPT !.pc = "over", !.known = FALSE]
                                   ELSE sender
      /\ IF c \in Receivers THEN ReceiverHears(c, status) ELSE UNCHANGED rx
  BY <1>2 DEF Answer
<1>5. /\ call' \in [Slots -> Calls(Parts)] /\ call'[c] = e
      /\ \A d \in Slots \ {c} : call'[d] = call[d]
  BY <1>3, <1>4 DEF TypeOK
<1>6. /\ sender' \in Senders /\ sender'.first = sender.first
      /\ sender'.pc = IF c = "revoke" THEN "over" ELSE sender.pc
  <2>1. CASE c = "revoke"
    <3>1. sender' = [pc |-> "over", first |-> sender.first, tries |-> sender.tries,
                     stopped |-> sender.stopped, known |-> FALSE]
      BY <1>1, <1>4, <2>1 DEF Senders
    <3>2. sender.first \in Nat /\ sender.tries \in Nat /\ sender.stopped \in BOOLEAN
      BY <1>1 DEF Senders
    <3> QED
      BY <2>1, <3>1, <3>2 DEF Senders
  <2> QED
    BY <1>1, <1>4, <2>1
<1>7. DeletionAsked => DeletionAsked'
  <2>1. call'["erase"].op # "none" \/ call'["erase"] = call["erase"]
    BY <1>1, <1>3, <1>5
  <2> QED
    BY <1>6, <2>1 DEF DeletionAsked
<1>8. /\ rx' \in [Receivers -> Events \cup {"told", "end"}]
      /\ \A r \in Receivers \ {c} : rx'[r] = rx[r]
      /\ Telling(c, status)
  <2>1. CASE c \notin Receivers
    BY <1>4, <2>1 DEF TypeOK, Telling, Told
  <2>2. CASE c \in Receivers
    <3>1. rx[c] \in Events
      BY <2>2 DEF Asks
    <3>2. PICK x : /\ rx' = [rx EXCEPT ![c] = x]
                   /\ x \in Events \cup {"told", "end"}
                   /\ x = "told" => status = 200 /\ rx[c] = "delivered"
      <4> DEFINE x == CASE status = 202 -> rx[c]
                        [] status = 200 -> NextEvent(rx[c])
                        [] OTHER -> "end"
      <4>1. rx' = [rx EXCEPT ![c] = x]
        BY <1>4, <2>2 DEF ReceiverHears, TypeOK
      <4>2. /\ NextEvent(rx[c]) \in {"downloading", "delivered", "told"}
            /\ NextEvent(rx[c]) = "told" => rx[c] = "delivered"
        BY <3>1 DEF NextEvent, Events
      <4>3. /\ x \in Events \cup {"told", "end"}
            /\ x = "told" => status = 200 /\ rx[c] = "delivered"
        BY <3>1, <4>2 DEF Events
      <4> HIDE DEF x
      <4> QED
        BY <4>1, <4>3
    <3>3. /\ rx' \in [Receivers -> Events \cup {"told", "end"}] /\ rx'[c] = x
          /\ \A r \in Receivers \ {c} : rx'[r] = rx[r]
      BY <2>2, <3>2 DEF TypeOK
    <3>4. rx[c] # "told"
      BY <3>1 DEF Events
    <3>5. Told' = IF x = "told" THEN Told \cup {c} ELSE Told
      BY <2>2, <3>3, <3>4 DEF Told
    <3> QED
      BY <2>2, <3>2, <3>3, <3>5 DEF Telling
  <2> QED
    BY <2>1, <2>2
<1>9. ASSUME NEW d \in Slots PROVE Asks(d)' /\ (call'[d] = call[d] \/ Began(d))
  <2>1. CASE d = c
    BY <1>3, <1>5, <2>1 DEF Asks, Busy, Began
  <2>2. CASE d # c
    <3>1. call'[d] = call[d] /\ (d \in Receivers => rx'[d] = rx[d])
      BY <1>5, <1>8, <2>2
    <3>2. d \in {"sender", "revoke"} /\ Busy(d) => UNCHANGED sender
      BY <1>1, <1>4, <2>2 DEF Asks
    <3>3. Batch' = Batch \/ sender' # sender
      BY PartsStay DEF Batch
    <3> QED
      BY <1>7, <3>1, <3>2, <3>3 DEF Asks, Busy
  <2> QED
    BY <2>1, <2>2
<1>10. Progress(c, status) /\ sender'.pc # "create"
  BY <1>6 DEF Progress, SameProgress
<1> QED
  BY <1>5, <1>6, <1>7, <1>8, <1>9, <1>10 DEF Answered, Phones

LEMMA AnswerSteps ==
    ASSUME TypeOK, \A d \in Slots : Asks(d), NEW c \in Slots, Busy(c),
           NEW status, Answer(c, status), UNCHANGED <<files, now>>,
           sender.pc # "create"
    PROVE  Answered(c, status)
<1>1. CASE c = "sender"
  <2>1. Busy("sender") /\ Answer("sender", status)
    BY <1>1
  <2> QED
    BY <1>1, <2>1, SenderAnswered
<1>2. CASE c # "sender"
  BY <1>2, OthersAnswered
<1> QED
  BY <1>1, <1>2

(* An answer 200 is earned by what the record then says.                   *)
Earned(c, status) ==
    drop'.status # "none" =>
        /\ Present
        /\ \A p \in Parts : drop.parts[p] # 0 => drop'.parts[p] # 0
        /\ drop.status = "ready" => drop'.status = "ready"
        /\ drop.delivered <= drop'.delivered
        /\ status = 200 =>
              /\ call[c].op = "commit" => \A p \in call[c].parts : drop'.parts[p] # 0
              /\ call[c].op = "seal" => drop'.status = "ready"
              /\ call[c].op = "delivered" => drop.delivered + 1 <= drop'.delivered

LEMMA Acknowledges ==
    ASSUME TypeOK, Acked, NEW c \in Slots, Busy(c), Asks(c), NEW status,
           Answered(c, status), Earned(c, status), UNCHANGED files,
           drop' \in Marks(Parts)
    PROVE  Acked'
<1>1. /\ IsFiniteSet(Told) /\ Cardinality(Told) \in Nat
      /\ drop.delivered \in Nat /\ drop'.delivered \in Nat
  BY FS_CardinalityType DEF Acked, TypeOK, Marks
<1>2. /\ IsFiniteSet(Told')
      /\ \/ Told' = Told
         \/ /\ Cardinality(Told') \in Nat /\ Cardinality(Told') <= Cardinality(Told) + 1
            /\ status = 200 /\ c \in Receivers /\ rx[c] = "delivered"
  <2>1. CASE Told' = Told
    BY <1>1, <2>1
  <2>2. CASE /\ status = 200 /\ c \in Receivers /\ rx[c] = "delivered"
             /\ Told' = Told \cup {c}
    <3>1. PICK T : T = Told
      OBVIOUS
    <3>2. /\ IsFiniteSet(T \cup {c}) /\ Cardinality(T \cup {c}) \in Nat
          /\ Cardinality(T \cup {c}) <= Cardinality(T) + 1
      <4>1. IsFiniteSet(T)
        BY <1>1, <3>1
      <4>2. Cardinality(T) \in Nat
        BY <4>1, FS_CardinalityType
      <4>3. /\ IsFiniteSet(T \cup {c})
            /\ Cardinality(T \cup {c}) = Cardinality(T)
               \/ Cardinality(T \cup {c}) = Cardinality(T) + 1
        BY <4>1, FS_AddElement
      <4> QED
        BY <4>2, <4>3
    <3>3. Told' = T \cup {c}
      BY <2>2, <3>1
    <3>4. /\ IsFiniteSet(Told') /\ Cardinality(Told') \in Nat
          /\ Cardinality(Told') <= Cardinality(T) + 1
      BY <3>2, <3>3
    <3> QED
      BY <2>2, <3>1, <3>4
  <2> QED
    BY <2>1, <2>2 DEF Answered, Telling
<1>3. ASSUME drop'.status # "none"
      PROVE  /\ \A p \in Parts : p < sender'.first => drop'.parts[p] # 0
             /\ sender'.pc = "done" => drop'.status = "ready"
             /\ Cardinality(Told') <= drop'.delivered
  <2>1. /\ Present
        /\ \A p \in Parts : drop.parts[p] # 0 => drop'.parts[p] # 0
        /\ drop.status = "ready" => drop'.status = "ready"
        /\ drop.delivered <= drop'.delivered
    BY <1>3 DEF Earned
  <2>2. /\ \A p \in Parts : p < sender.first => drop.parts[p] # 0
        /\ sender.pc = "done" => drop.status = "ready"
        /\ Cardinality(Told) <= drop.delivered
    BY <2>1 DEF Acked
  <2>3. Cardinality(Told') <= drop'.delivered
    <3>1. CASE Told' = Told
      BY <1>1, <2>1, <2>2, <3>1
    <3>2. CASE /\ Cardinality(Told') \in Nat
               /\ Cardinality(Told') <= Cardinality(Told) + 1
               /\ status = 200 /\ c \in Receivers /\ rx[c] = "delivered"
      <4>1. call[c].op = "delivered"
        BY <3>2 DEF Asks
      <4>2. drop.delivered + 1 <= drop'.delivered
        BY <1>3, <3>2, <4>1 DEF Earned
      <4> QED
        BY <1>1, <2>2, <3>2, <4>2
    <3> QED
      BY <1>2, <3>1, <3>2
  <2>4. CASE SameProgress
    BY <2>1, <2>2, <2>3, <2>4 DEF SameProgress
  <2>5. CASE /\ status = 200 /\ c = "sender" /\ sender.pc = "commit"
             /\ sender'.first = sender.first + BatchSize /\ sender'.pc # "done"
    <3>1. call[c].op = "commit" /\ call[c].parts = Batch
      BY <2>5 DEF Asks
    <3>2. \A p \in Batch : drop'.parts[p] # 0
      BY <1>3, <2>5, <3>1 DEF Earned
    <3>3. \A p \in Parts : p < sender'.first => p < sender.first \/ p \in Batch
      BY <2>5, PartsType DEF Batch, TypeOK, Senders
    <3> QED
      BY <2>1, <2>2, <2>3, <2>5, <3>2, <3>3
  <2>6. CASE /\ status = 200 /\ c = "sender" /\ sender.pc = "seal"
             /\ sender'.first = sender.first
    <3>1. call[c].op = "seal"
      BY <2>6 DEF Asks
    <3>2. drop'.status = "ready"
      BY <1>3, <2>6, <3>1 DEF Earned
    <3> QED
      BY <2>1, <2>2, <2>3, <2>6, <3>2
  <2> QED
    BY <2>4, <2>5, <2>6 DEF Answered, Progress
<1> QED
  BY <1>2, <1>3, PartsStay DEF Acked, Present

---------------------------------------------------------------------------
(* Steps that leave the record and the blobs alone *)

Carried(d) ==
    \/ Began(d)
    \/ \E c \in Slots : call'[d] = call[c]
    \/ Snapped(d)' /\ Passes(d)' /\ Headed(d)'

Steady ==
    /\ UNCHANGED <<files, drop, blobs>>
    /\ escaped \subseteq escaped'
    /\ sender.pc # "create" /\ Phones
    /\ DeletionAsked => DeletionAsked'
    /\ \A d \in Slots : Asks(d)' /\ Carried(d)

LEMMA SteadyKeeps ==
    ASSUME TypeOK, IInv, Steady, now' \in Nat, \A s \in strays' : s[1] \in Parts, Acked'
    PROVE  TypeOK' /\ IInv'
<1>1. /\ UNCHANGED <<files, drop, blobs>> /\ escaped \subseteq escaped'
      /\ sender.pc # "create" /\ sender'.pc # "create"
      /\ DeletionAsked => DeletionAsked'
  BY DEF Steady, Phones
<1>2. TypeOK'
  <2>1. /\ drop' \in Marks(Parts) /\ (drop'.status # "none" => drop'.parts \in [Parts -> Nat])
        /\ blobs' \subseteq Parts
    BY <1>1 DEF TypeOK, Present
  <2>2. /\ sender' \in Senders /\ rx' \in [Receivers -> Events \cup {"told", "end"}]
        /\ call' \in [Slots -> Calls(Parts)]
    BY DEF Steady, Phones
  <2> QED
    BY <1>1, <2>1, <2>2, Typed
<1>3. ASSUME NEW d \in Slots PROVE Serving(d)'
  <2>1. Asks(d)' /\ Carried(d)
    BY DEF Steady
  <2>2. CASE Began(d)
    <3>1. blobs' \subseteq Parts
      BY <1>1 DEF TypeOK
    <3> QED
      BY <2>1, <2>2, <3>1, Begins DEF Serving
  <2>3. ASSUME NEW c \in Slots, call'[d] = call[c]
        PROVE  Snapped(d)' /\ Passes(d)' /\ Headed(d)'
    <3>1. Snapped(c) /\ Passes(c) /\ Headed(c)
      BY DEF IInv, Serving
    <3>2. Snapped(d)'
      BY <1>1, <2>3, <3>1, MutationStays DEF Snapped, Present
    <3>3. Passes(d)' /\ Headed(d)'
      BY <1>1, <2>3, <3>1 DEF Passes, Headed
    <3> QED
      BY <3>2, <3>3
  <2> QED
    BY <2>1, <2>2, <2>3 DEF Carried, Serving
<1>4. Early' /\ Gone'
  BY <1>1 DEF Early, Gone, Present, IInv
<1>5. Whole'
  BY <1>1, PartsStay DEF Whole, Present, IInv, Committed
<1>6. Held'
  BY <1>1 DEF Held, Present, IInv, Committed
<1> QED
  BY <1>2, <1>3, <1>4, <1>5, <1>6 DEF IInv

LEMMA AckedStays ==
    ASSUME TypeOK, Acked, UNCHANGED <<files, drop>>, SameProgress, Told' = Told
    PROVE  Acked'
BY PartsStay DEF Acked, SameProgress, Present

(* The shape of most steps of the phones: the receivers know what they     *)
(* knew, the sender is where it was or on its way out.                     *)
LEMMA PhoneKeeps ==
    ASSUME TypeOK, IInv, Steady, now' \in Nat, \A s \in strays' : s[1] \in Parts,
           SameProgress, UNCHANGED rx
    PROVE  TypeOK' /\ IInv'
<1>1. UNCHANGED <<files, drop>> /\ Told' = Told /\ Acked
  BY DEF Steady, IInv, Told
<1>2. Acked'
  BY <1>1, AckedStays
<1> QED
  BY <1>2, SteadyKeeps

LEMMA FailKeeps ==
    ASSUME TypeOK, IInv, Fail, UNCHANGED <<files, now, drop, blobs, escaped, rx>>,
           \A s \in strays' : s[1] \in Parts,
           sender.pc \in {"authorize", "parts", "commit", "seal"}
    PROVE  TypeOK' /\ IInv'
<1>1. \A c \in Slots : Asks(c)
  BY DEF IInv, Serving
<1>2. /\ sender' \in Senders /\ sender'.pc \in {"revoking", "over"}
      /\ sender'.first = sender.first
      /\ call' \in [Slots -> Calls(Parts)] /\ call'["sender"].at = "idle"
      /\ \A c \in Slots : Asks(c)' /\ (call'[c] = call[c] \/ Began(c))
      /\ DeletionAsked'
  BY <1>1, FailSteps
<1>3. Steady /\ SameProgress
  BY <1>2 DEF Steady, SameProgress, Carried, Phones, TypeOK
<1> QED
  BY <1>3, PhoneKeeps DEF TypeOK

LEMMA AskKeeps ==
    ASSUME TypeOK, IInv, Ask
    PROVE  TypeOK' /\ IInv'
<1>1. /\ sender.pc \in {"authorize", "commit", "seal"} /\ call["sender"].at = "idle"
      /\ UNCHANGED <<files, now, drop, blobs, strays, escaped, rx>>
  BY DEF Ask, net
<1>2. CASE Fail
  BY <1>1, <1>2, FailKeeps DEF TypeOK
<1>3. CASE /\ call' = [call EXCEPT !["sender"] = Request(sender.pc, Batch)]
           /\ UNCHANGED sender
  <2>1. /\ Request(sender.pc, Batch) \in Calls(Parts)
        /\ Request(sender.pc, Batch).op = sender.pc
        /\ Request(sender.pc, Batch).at = "route"
        /\ Request(sender.pc, Batch).parts = Batch
    BY <1>1, Constants DEF Batch, Ops
  <2>2. /\ call' \in [Slots -> Calls(Parts)]
        /\ call'["sender"] = Request(sender.pc, Batch)
        /\ \A d \in Slots \ {"sender"} : call'[d] = call[d]
    BY <1>3, <2>1, Names DEF TypeOK
  <2>3. DeletionAsked => DeletionAsked'
    BY <1>1, <1>3, <2>2, Names DEF DeletionAsked
  <2>4. Batch' = Batch
    BY <1>1, <1>3, PartsStay DEF Batch
  <2>5. ASSUME NEW d \in Slots PROVE Asks(d)' /\ Carried(d)
    <3>1. CASE d = "sender"
      BY <1>1, <1>3, <2>1, <2>2, <2>4, <3>1, Names DEF Asks, Carried, Began
    <3>2. CASE d # "sender"
      BY <1>1, <1>3, <2>2, <2>3, <3>2 DEF Asks, Carried, Busy, IInv, Serving
    <3> QED
      BY <3>1, <3>2
  <2>6. Steady /\ SameProgress
    BY <1>1, <1>3, <2>2, <2>3, <2>5 DEF Steady, SameProgress, Phones, TypeOK
  <2> QED
    BY <1>1, <2>6, PhoneKeeps DEF TypeOK
<1> QED
  BY <1>2, <1>3 DEF Ask

LEMMA AskAgainKeeps ==
    ASSUME TypeOK, IInv, AskAgain
    PROVE  TypeOK' /\ IInv'
<1>1. /\ Busy("sender") /\ UNCHANGED <<files, now, drop, blobs, strays, escaped, rx>>
  BY DEF AskAgain, net, Busy
<1>2. /\ sender.pc \in {"authorize", "commit", "seal"}
      /\ call["sender"].op = sender.pc /\ sender \in Senders
  BY <1>1, Names DEF IInv, Serving, Asks, TypeOK
<1>3. CASE Fail
  BY <1>1, <1>2, <1>3, FailKeeps DEF TypeOK
<1>4. CASE /\ sender' = [sender EXCEPT !.tries = @ + 1]
           /\ call' = [call EXCEPT !["sender"] = Idle,
                   !["late"] = IF @.at = "idle" THEN call["sender"] ELSE @]
  <2>1. /\ call' \in [Slots -> Calls(Parts)] /\ call'["sender"] = Idle
        /\ call'["late"] \in {call["late"], call["sender"]}
        /\ \A d \in Slots \ {"sender", "late"} : call'[d] = call[d]
    BY <1>4, Names, Constants DEF TypeOK
  <2>2. /\ sender' \in Senders /\ sender'.pc = sender.pc /\ sender'.first = sender.first
    <3>1. sender.tries \in Nat
      BY <1>2 DEF Senders
    <3>2. sender' = [pc |-> sender.pc, first |-> sender.first,
                     tries |-> sender.tries + 1, stopped |-> sender.stopped,
                     known |-> sender.known]
      BY <1>2, <1>4 DEF Senders
    <3>3. sender.first \in Nat /\ sender.stopped \in BOOLEAN /\ sender.known \in BOOLEAN
      BY <1>2 DEF Senders
    <3> QED
      BY <1>2, <3>1, <3>2, <3>3 DEF Senders
  <2>3. DeletionAsked => DeletionAsked'
    BY <1>1, <2>1, <2>2, Names DEF DeletionAsked
  <2>4. Idle.at = "idle"
    BY Constants
  <2>5. ASSUME NEW d \in Slots PROVE Asks(d)' /\ Carried(d)
    <3>1. CASE d = "sender"
      BY <2>1, <2>4, <3>1 DEF Asks, Busy, Carried, Began
    <3>2. CASE d = "late"
      <4>1. Asks("late") /\ Asks("sender") /\ "sender" \in Slots /\ "late" \in Slots
        BY Names DEF IInv, Serving
      <4>2. call'[d] = call["late"] \/ call'[d] = call["sender"]
        BY <2>1, <3>2
      <4>3. Carried(d)
        BY <4>1, <4>2 DEF Carried
      <4>4. Asks(d)'
        BY <1>1, <1>2, <2>3, <3>2, <4>1, <4>2, Names DEF Asks, Busy
      <4> QED
        BY <4>3, <4>4
    <3>3. CASE d \notin {"sender", "late"}
      BY <1>1, <2>1, <2>2, <2>3, <3>3 DEF Asks, Carried, Busy, IInv, Serving
    <3> QED
      BY <3>1, <3>2, <3>3
  <2>6. Steady /\ SameProgress
    BY <1>1, <1>2, <2>1, <2>2, <2>3, <2>5 DEF Steady, SameProgress, Phones, TypeOK
  <2> QED
    BY <1>1, <2>6, PhoneKeeps DEF TypeOK
<1> QED
  BY <1>3, <1>4 DEF AskAgain

(* Nothing the invariant looks at has changed. *)
LEMMA IdleKeeps ==
    ASSUME TypeOK, IInv, UNCHANGED <<files, now, drop, blobs, escaped, sender, rx, call>>,
           sender.pc # "create", \A s \in strays' : s[1] \in Parts
    PROVE  TypeOK' /\ IInv'
<1>1. DeletionAsked => DeletionAsked'
  BY DEF DeletionAsked
<1>2. Batch' = Batch
  BY PartsStay DEF Batch
<1>3. ASSUME NEW d \in Slots PROVE Asks(d)' /\ Carried(d)
  BY <1>1, <1>2 DEF IInv, Serving, Asks, Busy, Carried
<1>4. Steady /\ SameProgress
  BY <1>1, <1>3 DEF Steady, SameProgress, Phones, TypeOK
<1> QED
  BY <1>4, PhoneKeeps DEF TypeOK

LEMMA PartsDoneKeeps ==
    ASSUME TypeOK, IInv, PartsDone
    PROVE  TypeOK' /\ IInv'
<1>1. /\ sender.pc = "parts" /\ sender \in Senders
      /\ sender' = [sender EXCEPT !.pc = "commit"]
      /\ UNCHANGED <<files, now, drop, blobs, strays, escaped, rx, call>>
  BY DEF PartsDone, net, TypeOK
<1>2. /\ sender' \in Senders /\ sender'.pc = "commit" /\ sender'.first = sender.first
  BY <1>1 DEF Senders
<1>3. DeletionAsked => DeletionAsked'
  BY <1>1 DEF DeletionAsked
<1>4. ASSUME NEW d \in Slots PROVE Asks(d)' /\ Carried(d)
  BY <1>1, <1>3 DEF IInv, Serving, Asks, Busy, Carried
<1>5. Steady /\ SameProgress
  BY <1>1, <1>2, <1>3, <1>4 DEF Steady, SameProgress, Phones, TypeOK
<1> QED
  BY <1>1, <1>5, PhoneKeeps DEF TypeOK

LEMMA PutsKeep ==
    ASSUME TypeOK, IInv, NEW p \in Parts, StartPut(p) \/ PutFails(p) \/ Unreadable(p)
    PROVE  TypeOK' /\ IInv'
<1>1. sender.pc # "create"
  BY DEF IInv, Early, StartPut, Runners, Batch, PutFails, Unreadable
<1>2. UNCHANGED <<files, now, drop, blobs, escaped, rx>>
  BY DEF StartPut, PutFails, Unreadable, net
<1>3. \A s \in strays' : s[1] \in Parts
  <2>1. /\ \A s \in strays : s[1] \in Parts
        /\ strays' = strays \/ strays' = strays \cup {<<p, part[p].until>>}
    BY DEF TypeOK, StartPut, PutFails, Unreadable, net
  <2> QED
    BY <2>1
<1>4. \/ UNCHANGED <<sender, call>>
      \/ sender.pc = "parts" /\ Fail
  BY DEF StartPut, PutFails, Unreadable
<1> QED
  BY <1>1, <1>2, <1>3, <1>4, IdleKeeps, FailKeeps

LEMMA AbortStrays ==
    ASSUME TypeOK, NEW ps, Abort(ps)
    PROVE  \A s \in strays' : s[1] \in Parts
BY DEF Abort, TypeOK

LEMMA StopKeeps ==
    ASSUME TypeOK, IInv, NEW ps, Stop(ps)
    PROVE  TypeOK' /\ IInv'
<1>1. /\ sender.pc \in {"authorize", "parts", "commit", "seal"} /\ sender \in Senders
      /\ UNCHANGED <<files, now, drop, blobs, escaped, rx>>
      /\ \A s \in strays' : s[1] \in Parts
  BY AbortStrays DEF Stop, TypeOK
<1>2. sender' = [sender EXCEPT !.stopped = TRUE,
                   !.pc = IF sender.pc = "parts" THEN "revoking" ELSE sender.pc]
  BY <1>1 DEF Stop, Senders
<1>3. /\ sender' \in Senders /\ sender'.first = sender.first
      /\ sender'.pc = IF sender.pc = "parts" THEN "revoking" ELSE sender.pc
  BY <1>1, <1>2 DEF Senders
<1>4. /\ Request("delete", {}) \in Calls(Parts) /\ Request("delete", {}).at = "route"
      /\ Request("delete", {}).op = "delete"
  BY Constants DEF Ops
<1>5. /\ call' \in [Slots -> Calls(Parts)]
      /\ call'["revoke"] = IF sender.pc = "parts" THEN Request("delete", {})
                                                  ELSE call["revoke"]
      /\ \A d \in Slots \ {"revoke"} : call'[d] = call[d]
  BY <1>4, Names DEF Stop, TypeOK
<1>6. /\ DeletionAsked => DeletionAsked'
      /\ sender.pc = "parts" => DeletionAsked'
  BY <1>1, <1>3, <1>5, Names DEF DeletionAsked
<1>7. Batch' = Batch
  BY <1>1, <1>3, PartsStay DEF Batch
<1>8. ASSUME NEW d \in Slots PROVE Asks(d)' /\ Carried(d)
  <2>1. Asks(d)
    BY DEF IInv, Serving
  <2>2. CASE d = "revoke"
    <3>1. CASE sender.pc = "parts"
      BY <1>3, <1>4, <1>5, <1>6, <2>2, <3>1, Names DEF Asks, Carried, Began
    <3>2. CASE sender.pc # "parts"
      BY <1>1, <1>3, <1>5, <2>1, <2>2, <3>2, Names DEF Asks, Busy, Carried
    <3> QED
      BY <3>1, <3>2
  <2>3. CASE d # "revoke"
    <3>1. call'[d] = call[d] /\ Carried(d)
      BY <1>5, <2>3 DEF Carried
    <3>2. d = "sender" /\ Busy(d) => sender'.pc = sender.pc
      BY <1>3, <2>1 DEF Asks
    <3> QED
      BY <1>1, <1>6, <1>7, <2>1, <2>3, <3>1, <3>2 DEF Asks, Busy
  <2> QED
    BY <2>2, <2>3
<1>9. Steady /\ SameProgress
  BY <1>1, <1>3, <1>5, <1>6, <1>8 DEF Steady, SameProgress, Phones, TypeOK
<1> QED
  BY <1>1, <1>9, PhoneKeeps DEF TypeOK

LEMMA EraseKeeps ==
    ASSUME TypeOK, IInv, NEW ps, Erase(ps)
    PROVE  TypeOK' /\ IInv'
<1>1. /\ sender.pc # "create" /\ sender \in Senders
      /\ UNCHANGED <<files, now, drop, blobs, escaped, rx>>
      /\ \A s \in strays' : s[1] \in Parts
  BY AbortStrays DEF Erase, TypeOK
<1>2. sender' = [sender EXCEPT !.stopped = TRUE, !.known = FALSE,
                   !.pc = IF sender.pc = "parts" THEN "over" ELSE sender.pc]
  BY <1>1 DEF Erase, Senders
<1>3. /\ sender' \in Senders /\ sender'.first = sender.first
      /\ sender'.pc = IF sender.pc = "parts" THEN "over" ELSE sender.pc
  BY <1>1, <1>2 DEF Senders
<1>4. /\ Request("delete", {}) \in Calls(Parts) /\ Request("delete", {}).at = "route"
      /\ Request("delete", {}).op = "delete"
  BY Constants DEF Ops
<1>5. /\ call' \in [Slots -> Calls(Parts)]
      /\ call'["erase"] = Request("delete", {})
      /\ \A d \in Slots \ {"erase"} : call'[d] = call[d]
  BY <1>4, Names DEF Erase, TypeOK
<1>6. DeletionAsked'
  BY <1>4, <1>5 DEF DeletionAsked
<1>7. Batch' = Batch
  BY <1>1, <1>3, PartsStay DEF Batch
<1>8. ASSUME NEW d \in Slots PROVE Asks(d)' /\ Carried(d)
  <2>1. Asks(d)
    BY DEF IInv, Serving
  <2>2. CASE d = "erase"
    BY <1>4, <1>5, <1>6, <2>2, Names DEF Asks, Carried, Began
  <2>3. CASE d # "erase"
    <3>1. call'[d] = call[d] /\ Carried(d)
      BY <1>5, <2>3 DEF Carried
    <3>2. d \in {"sender", "revoke"} /\ Busy(d) => sender'.pc = sender.pc
      BY <1>3, <2>1 DEF Asks
    <3> QED
      BY <1>1, <1>6, <1>7, <2>1, <2>3, <3>1, <3>2 DEF Asks, Busy
  <2> QED
    BY <2>2, <2>3
<1>9. Steady /\ SameProgress
  BY <1>1, <1>3, <1>5, <1>6, <1>8 DEF Steady, SameProgress, Phones, TypeOK
<1> QED
  BY <1>1, <1>9, PhoneKeeps DEF TypeOK

LEMMA ReceiveKeeps ==
    ASSUME TypeOK, IInv, NEW r \in Receivers, Receive(r)
    PROVE  TypeOK' /\ IInv'
<1>1. /\ sender.pc # "create" /\ rx[r] \in Events
      /\ UNCHANGED <<files, now, drop, blobs, strays, escaped, sender, rx>>
      /\ call' = [call EXCEPT ![r] = Request(rx[r], {})]
  BY DEF Receive, net, TypeOK
<1>2. /\ Request(rx[r], {}) \in Calls(Parts) /\ Request(rx[r], {}).at = "route"
      /\ Request(rx[r], {}).op = rx[r]
  BY <1>1, Constants DEF Ops
<1>3. /\ call' \in [Slots -> Calls(Parts)] /\ call'[r] = Request(rx[r], {})
      /\ \A d \in Slots \ {r} : call'[d] = call[d]
  BY <1>1, <1>2, Names DEF TypeOK
<1>4. DeletionAsked => DeletionAsked'
  BY <1>1, <1>3, Names DEF DeletionAsked
<1>5. Batch' = Batch
  BY <1>1, PartsStay DEF Batch
<1>6. ASSUME NEW d \in Slots PROVE Asks(d)' /\ Carried(d)
  <2>1. CASE d = r
    BY <1>1, <1>2, <1>3, <2>1, Names DEF Asks, Carried, Began, Events
  <2>2. CASE d # r
    BY <1>1, <1>3, <1>4, <1>5, <2>2 DEF Asks, Busy, Carried, IInv, Serving
  <2> QED
    BY <2>1, <2>2
<1>7. Steady /\ SameProgress
  BY <1>1, <1>3, <1>4, <1>6 DEF Steady, SameProgress, Phones, TypeOK
<1> QED
  BY <1>1, <1>7, PhoneKeeps DEF TypeOK

LEMMA SweepKeeps ==
    ASSUME TypeOK, IInv, Sweep
    PROVE  TypeOK' /\ IInv'
<1> DEFINE e == [Request("delete", {}) EXCEPT !.at = "delete", !.snap = drop, !.left = 1]
<1>1. /\ Present /\ Ttl <= now
      /\ UNCHANGED <<files, now, drop, blobs, strays, escaped, sender, rx>>
      /\ call' = [call EXCEPT !["sweep"] = e]
  BY DEF Sweep, Due, net
<1>2. /\ e \in Calls(Parts) /\ e.op = "delete" /\ e.at = "delete" /\ e.left = 1
  <2>1. PICK k \in Calls(Parts) : k = Request("delete", {}) /\ k.op = "delete"
    BY Constants DEF Ops
  <2>2. e = [k EXCEPT !.at = "delete", !.snap = drop, !.left = 1]
    BY <2>1
  <2> HIDE DEF e
  <2> QED
    BY <2>1, <2>2, Deleting
<1> HIDE DEF e
<1>3. /\ call' \in [Slots -> Calls(Parts)] /\ call'["sweep"] = e
      /\ \A d \in Slots \ {"sweep"} : call'[d] = call[d]
  BY <1>1, <1>2, Names DEF TypeOK
<1>4. DeletionAsked' /\ sender.pc # "create"
  BY <1>1 DEF DeletionAsked, IInv, Early, NoDrop, Present
<1>5. Batch' = Batch
  BY <1>1, PartsStay DEF Batch
<1>6. ASSUME NEW d \in Slots PROVE Asks(d)' /\ Carried(d)
  <2>1. CASE d = "sweep"
    BY <1>2, <1>3, <1>4, <2>1, Names DEF Asks, Carried, Began
  <2>2. CASE d # "sweep"
    BY <1>1, <1>3, <1>4, <1>5, <2>2 DEF Asks, Busy, Carried, IInv, Serving
  <2> QED
    BY <2>1, <2>2
<1>7. Steady /\ SameProgress
  BY <1>1, <1>3, <1>4, <1>6 DEF Steady, SameProgress, Phones, TypeOK
<1> QED
  BY <1>1, <1>7, PhoneKeeps DEF TypeOK

LEMMA TickKeeps ==
    ASSUME TypeOK, IInv, Tick
    PROVE  TypeOK' /\ IInv'
<1>1. /\ UNCHANGED <<files, drop, blobs, escaped, sender, part, rx, call>>
      /\ now \in Nat /\ now' = now + 1 /\ strays' \subseteq strays
  BY DEF Tick, TypeOK
<1>2. /\ DeletionAsked => DeletionAsked'
  BY <1>1, DropAssumption DEF DeletionAsked
<1>3. Batch' = Batch
  BY <1>1, PartsStay DEF Batch
<1>4. \A s \in strays' : s[1] \in Parts
  BY <1>1 DEF TypeOK
<1>5. CASE sender.pc # "create"
  <2>1. ASSUME NEW d \in Slots PROVE Asks(d)' /\ Carried(d)
    BY <1>1, <1>2, <1>3 DEF Asks, Busy, Carried, IInv, Serving
  <2>2. Steady /\ SameProgress
    BY <1>1, <1>2, <1>5, <2>1 DEF Steady, SameProgress, Phones, TypeOK
  <2> QED
    BY <1>1, <1>4, <2>2, PhoneKeeps
<1>6. CASE sender.pc = "create"
  <2>1. Early'
    BY <1>1, <1>6, PartsStay DEF IInv, Early
  <2>2. ~ Present' /\ \A d \in Slots : call'[d].at = "idle"
    BY <1>1, <1>6 DEF IInv, Early, Present, NoDrop
  <2>3. TypeOK'
    BY <1>1, <1>4, <2>2, Typed DEF TypeOK, Present
  <2>4. \A d \in Slots : Serving(d)'
    BY <2>2 DEF Serving, Asks, Busy, Snapped, Passes, Headed
  <2>5. Gone' /\ Whole' /\ Held'
    BY <1>1, <1>6, <2>2 DEF Gone, Whole, Held
  <2>6. Acked'
    <3>1. Told' = Told
      BY <1>1 DEF Told
    <3> QED
      BY <2>2, <3>1 DEF Acked, IInv
  <2> QED
    BY <2>1, <2>3, <2>4, <2>5, <2>6 DEF IInv
<1> QED
  BY <1>5, <1>6

---------------------------------------------------------------------------
(* The steps of a request *)

LEMMA BusyMeansCreated ==
    ASSUME IInv, NEW c \in Slots, Busy(c)
    PROVE  sender.pc # "create" /\ \A d \in Slots : Asks(d)
BY DEF IInv, Early, Busy, Serving

LEMMA RequestOps ==
    ASSUME IInv, TypeOK, NEW c \in Slots, Busy(c)
    PROVE  call[c].op \in {"authorize", "commit", "seal", "delete"} \cup Events
<1>1. Asks(c)
  BY DEF IInv, Serving
<1> QED
  BY <1>1, Names DEF Asks

(* An answer that leaves the record alone.                                 *)
LEMMA AnswerKeeps ==
    ASSUME TypeOK, IInv, NEW c \in Slots, Busy(c), NEW status, Answer(c, status),
           UNCHANGED <<files, now, drop, blobs, strays>>, escaped \subseteq escaped',
           Present /\ status = 200 =>
              /\ call[c].op = "commit" => \A p \in call[c].parts : drop.parts[p] # 0
              /\ call[c].op = "seal" => drop.status = "ready"
              /\ call[c].op # "delivered"
    PROVE  TypeOK' /\ IInv'
<1>1. /\ sender.pc # "create" /\ \A d \in Slots : Asks(d)
  BY BusyMeansCreated
<1>2. Answered(c, status)
  BY <1>1, AnswerSteps
<1>3. Earned(c, status)
  <2>1. drop.delivered \in Nat
    BY DEF TypeOK, Marks
  <2> QED
    BY <2>1 DEF Earned, Present
<1>4. Acked'
  BY <1>1, <1>2, <1>3, Acknowledges DEF IInv, TypeOK
<1>5. Steady
  BY <1>1, <1>2 DEF Steady, Answered, Phones, Carried
<1> QED
  BY <1>4, <1>5, SteadyKeeps DEF TypeOK

(* A request that goes on, with the record and the phones as they are.     *)
LEMMA GoesOn ==
    ASSUME TypeOK, IInv, NEW c \in Slots, Busy(c), NEW e \in Calls(Parts),
           call' = [call EXCEPT ![c] = e],
           UNCHANGED <<files, now, drop, blobs, strays, sender, rx>>,
           escaped \subseteq escaped', e.op = call[c].op,
           Asks(c) /\ call'[c] = e => Asks(c)' /\ Carried(c)
    PROVE  TypeOK' /\ IInv'
<1>1. /\ call' \in [Slots -> Calls(Parts)] /\ call'[c] = e
      /\ \A d \in Slots \ {c} : call'[d] = call[d]
  BY DEF TypeOK
<1>2. /\ sender.pc # "create" /\ \A d \in Slots : Asks(d)
  BY BusyMeansCreated
<1>3. DeletionAsked => DeletionAsked'
  BY <1>1, Names DEF DeletionAsked
<1>4. Batch' = Batch
  BY PartsStay DEF Batch
<1>5. ASSUME NEW d \in Slots PROVE Asks(d)' /\ Carried(d)
  <2>1. CASE d = c
    BY <1>1, <1>2, <2>1
  <2>2. CASE d # c
    BY <1>1, <1>2, <1>3, <1>4, <2>2 DEF Asks, Busy, Carried
  <2> QED
    BY <2>1, <2>2
<1>6. Steady /\ SameProgress
  BY <1>1, <1>2, <1>3, <1>5 DEF Steady, SameProgress, Phones, TypeOK
<1> QED
  BY <1>6, PhoneKeeps DEF TypeOK

(* A request that keeps its kind and its phone keeps its place.            *)
LEMMA AsksOn ==
    ASSUME NEW c \in Slots, Asks(c), Busy(c), UNCHANGED <<files, now, sender, rx>>,
           DeletionAsked => DeletionAsked',
           call'[c].op = call[c].op, call'[c].parts = call[c].parts,
           call'[c].at \in {"mutate", "cas"} => call[c].op \in MutationOps,
           call'[c].at = "delete" => call[c].op = "delete"
    PROVE  Asks(c)'
<1>1. Batch' = Batch
  BY PartsStay DEF Batch
<1> QED
  BY <1>1 DEF Asks, Busy, MutationOps

LEMMA RouteKeeps ==
    ASSUME TypeOK, IInv, NEW c \in Slots, Route(c)
    PROVE  TypeOK' /\ IInv'
<1>1. /\ call[c].at = "route" /\ Busy(c) /\ call[c] \in Calls(Parts)
      /\ UNCHANGED <<files, now, drop, blobs, strays, escaped>>
  BY DEF Route, net, Busy, TypeOK
<1>2. call[c].op \in {"authorize", "commit", "seal", "delete"} \cup Events
  BY <1>1, RequestOps
<1>3. CASE Refusal(c) # 0 /\ Answer(c, Refusal(c))
  <2>1. Present /\ Refusal(c) = 200 => call[c].op = "authorize"
    BY DEF Refusal
  <2>2. PICK status : status = Refusal(c)
    OBVIOUS
  <2>3. /\ Answer(c, status)
        /\ Present /\ status = 200 => call[c].op = "authorize"
    BY <1>3, <2>1, <2>2
  <2> QED
    BY <1>1, <2>3, AnswerKeeps
<1>4. CASE /\ Refusal(c) = 0
           /\ UNCHANGED <<sender, part, rx>>
           /\ call' = [call EXCEPT ![c] =
                 IF @.op = "delete"
                 THEN [@ EXCEPT !.at = "delete", !.snap = drop, !.left = 1]
                 ELSE [@ EXCEPT !.at = "mutate", !.clock = now]]
  <2>1. CASE call[c].op = "delete"
    <3> DEFINE e == [call[c] EXCEPT !.at = "delete", !.snap = drop, !.left = 1]
    <3>1. /\ e \in Calls(Parts) /\ e.op = call[c].op /\ e.at = "delete"
          /\ e.parts = call[c].parts /\ e.left = 1
      <4>1. e = [call[c] EXCEPT !.at = "delete", !.snap = drop, !.left = 1]
        OBVIOUS
      <4>2. PICK k \in Calls(Parts) : k = call[c]
        BY <1>1
      <4> HIDE DEF e
      <4> QED
        BY <4>1, <4>2, Deleting
    <3>2. call' = [call EXCEPT ![c] = e]
      BY <1>4, <2>1 DEF TypeOK
    <3> HIDE DEF e
    <3>3. ASSUME Asks(c), call'[c] = e PROVE Asks(c)' /\ Carried(c)
      <4>1. DeletionAsked => DeletionAsked'
        BY <1>1, <1>4, <3>1, <3>2, Names DEF DeletionAsked, TypeOK
      <4>2. Asks(c)'
        BY <1>1, <1>4, <2>1, <3>1, <3>3, <4>1, AsksOn
      <4> QED
        BY <3>1, <3>3, <4>2 DEF Carried, Began
    <3> QED
      BY <1>1, <1>4, <3>1, <3>2, <3>3, GoesOn
  <2>2. CASE call[c].op # "delete"
    <3> DEFINE e == [call[c] EXCEPT !.at = "mutate", !.clock = now]
    <3>1. /\ e \in Calls(Parts) /\ e.op = call[c].op /\ e.at = "mutate"
          /\ e.parts = call[c].parts
      <4>1. e = [call[c] EXCEPT !.at = "mutate", !.clock = now]
        OBVIOUS
      <4>2. PICK k \in Calls(Parts) : k = call[c]
        BY <1>1
      <4> HIDE DEF e
      <4> QED
        BY <4>1, <4>2, Mutating
    <3>2. call' = [call EXCEPT ![c] = e]
      BY <1>4, <2>2 DEF TypeOK
    <3> HIDE DEF e
    <3>3. call[c].op \in MutationOps
      BY <1>2, <1>4, <2>2 DEF Refusal, MutationOps
    <3>4. call[c].op = "commit" => call[c].parts \subseteq blobs
      BY <1>4 DEF Refusal, Events
    <3>5. ASSUME Asks(c), call'[c] = e PROVE Asks(c)' /\ Carried(c)
      <4>1. DeletionAsked => DeletionAsked'
        BY <1>1, <1>4, <3>1, <3>2, Names DEF DeletionAsked, TypeOK
      <4>2. Asks(c)'
        BY <1>1, <1>4, <3>1, <3>3, <3>5, <4>1, AsksOn
      <4>3. Snapped(c)' /\ Passes(c)' /\ Headed(c)'
        BY <1>1, <3>1, <3>4, <3>5 DEF Snapped, Passes, Headed
      <4> QED
        BY <4>2, <4>3 DEF Carried
    <3> QED
      BY <1>1, <1>4, <3>1, <3>2, <3>5, GoesOn
  <2> QED
    BY <2>1, <2>2
<1> QED
  BY <1>3, <1>4 DEF Route

LEMMA LoseRequestKeeps ==
    ASSUME TypeOK, IInv, NEW c \in Slots, LoseRequest(c)
    PROVE  TypeOK' /\ IInv'
BY AnswerKeeps DEF LoseRequest, Busy, net

(* An event route answers 200 for one that only looks, and a phone that    *)
(* reports a delivery hears the truth.                                     *)
LEMMA EventAnswerKeeps ==
    ASSUME TypeOK, IInv, NEW c \in Slots, Busy(c), NEW status, EventAnswer(c, status),
           UNCHANGED <<files, now, drop, blobs, strays, escaped>>,
           Present /\ status = 200 =>
              /\ call[c].op = "commit" => \A p \in call[c].parts : drop.parts[p] # 0
              /\ call[c].op = "seal" => drop.status = "ready"
              /\ call[c].op # "delivered"
    PROVE  TypeOK' /\ IInv'
<1>1. PICK heard : /\ heard = IF call[c].op \in {"opened", "downloading"} THEN 200
                                                                        ELSE status
                   /\ Answer(c, heard)
  BY DEF EventAnswer
<1>2. Present /\ heard = 200 =>
         /\ call[c].op = "commit" => \A p \in call[c].parts : drop.parts[p] # 0
         /\ call[c].op = "seal" => drop.status = "ready"
         /\ call[c].op # "delivered"
  BY <1>1
<1> QED
  BY <1>1, <1>2, AnswerKeeps

LEMMA SnapsWhatItRead ==
    ASSUME UNCHANGED files, NEW c, call'[c].snap = drop,
           call'[c].op = call[c].op, call'[c].parts = call[c].parts
    PROVE  Mutation(call[c].snap, call[c])' = Mutation(drop, call[c])
<1>1. /\ Parts' = Parts /\ Ceiling' = Ceiling
      /\ \A p : CipherSize(p)' = CipherSize(p)
  BY PartsStay
<1>2. ApplyPartCommits(call[c].snap, call[c].parts)'
         = ApplyPartCommits(drop, call[c].parts)
  BY <1>1, ZenonT(60) DEF ApplyPartCommits
<1>3. ApplySeal(call[c].snap)' = ApplySeal(drop)
  BY <1>1 DEF ApplySeal
<1>4. ApplyReceiverEvent(call[c].snap, call[c].op)'
         = ApplyReceiverEvent(drop, call[c].op)
  BY DEF ApplyReceiverEvent
<1> QED
  BY <1>2, <1>3, <1>4 DEF Mutation

(* What mutate computes: an answer that changes nothing, or a write.       *)
LEMMA MutateReads ==
    ASSUME TypeOK, IInv, NEW c \in Slots, call[c].at \in {"mutate", "cas"}, Present
    PROVE  /\ call[c].op \in MutationOps
           /\ \/ Refused(drop, call[c], Mutation(drop, call[c]))
              \/ /\ Applied(drop, call[c], Mutation(drop, call[c])[2])
                 /\ Mutation(drop, call[c])[1] = 200
<1>1. Asks(c) /\ Busy(c)
  BY DEF IInv, Serving, Busy
<1>2. call[c].op \in MutationOps
  BY <1>1 DEF Asks, MutationOps
<1>3. drop \in Marks(Parts) /\ drop.parts \in [Parts -> Nat] /\ call[c] \in Calls(Parts)
  BY DEF TypeOK
<1> QED
  BY <1>2, <1>3, MutationApplies

LEMMA MutateKeeps ==
    ASSUME TypeOK, IInv, NEW c \in Slots, Mutate(c)
    PROVE  TypeOK' /\ IInv'
<1> DEFINE result == IF ~Present THEN <<404, drop>>
                     ELSE IF Ttl <= call[c].clock THEN <<410, drop>>
                     ELSE Mutation(drop, call[c])
<1>1. /\ call[c].at = "mutate" /\ Busy(c) /\ call[c] \in Calls(Parts)
      /\ UNCHANGED <<files, now, drop, blobs, strays, escaped>>
      /\ IF result[2] = drop THEN EventAnswer(c, result[1])
         ELSE /\ call' = [call EXCEPT ![c].at = "cas", ![c].snap = drop]
              /\ UNCHANGED <<sender, part, rx>>
  BY DEF Mutate, net, Busy, TypeOK
<1>2. Present => /\ call[c].op \in MutationOps
                 /\ \/ Refused(drop, call[c], Mutation(drop, call[c]))
                    \/ Applied(drop, call[c], Mutation(drop, call[c])[2])
  BY <1>1, MutateReads
<1>3. CASE result[2] = drop
  <2>1. PICK status : status = result[1] /\ EventAnswer(c, status)
    BY <1>1, <1>3
  <2>2. ASSUME Present, status = 200
        PROVE  Refused(drop, call[c], Mutation(drop, call[c]))
               /\ Mutation(drop, call[c])[1] = 200
    <3>1. result = Mutation(drop, call[c])
      BY <2>1, <2>2
    <3>2. ~ Applied(drop, call[c], drop)
      <4>1. drop.revision \in Nat
        BY DEF TypeOK, Marks
      <4> QED
        BY <4>1 DEF Applied
    <3> HIDE DEF result
    <3> QED
      BY <1>2, <1>3, <2>1, <2>2, <3>1, <3>2
  <2>3. Present /\ status = 200 =>
           /\ call[c].op = "commit" => \A p \in call[c].parts : drop.parts[p] # 0
           /\ call[c].op = "seal" => drop.status = "ready"
           /\ call[c].op # "delivered"
    BY <2>2 DEF Refused, Events
  <2> HIDE DEF result
  <2> QED
    BY <1>1, <2>1, <2>3, EventAnswerKeeps
<1>4. CASE result[2] # drop
  <2>1. Present /\ Mutation(drop, call[c])[2] # drop
    BY <1>4
  <2> HIDE DEF result
  <2> DEFINE e == [call[c] EXCEPT !.at = "cas", !.snap = drop]
  <2>2. /\ e \in Calls(Parts) /\ e.op = call[c].op /\ e.at = "cas"
        /\ e.parts = call[c].parts /\ e.snap = drop
    <3>1. e = [call[c] EXCEPT !.at = "cas", !.snap = drop]
      OBVIOUS
    <3>2. PICK k \in Calls(Parts) : k = call[c]
      BY <1>1
    <3> HIDE DEF e
    <3> QED
      BY <3>1, <3>2, Comparing
  <2>3. call' = [call EXCEPT ![c] = e] /\ UNCHANGED <<sender, rx>>
    BY <1>1, <1>4 DEF TypeOK
  <2> HIDE DEF e
  <2>4. ASSUME Asks(c), call'[c] = e PROVE Asks(c)' /\ Carried(c)
    <3>1. DeletionAsked => DeletionAsked'
      BY <1>1, <2>2, <2>3, Names DEF DeletionAsked, TypeOK
    <3>2. Asks(c)'
      BY <1>1, <1>2, <2>1, <2>2, <2>3, <2>4, <3>1, AsksOn
    <3>3. Snapped(c)'
      <4>1. Mutation(call[c].snap, call[c])' = Mutation(drop, call[c])
        BY <1>1, <2>2, <2>4, SnapsWhatItRead
      <4>2. drop.revision \in Nat
        BY DEF TypeOK, Marks
      <4> QED
        BY <1>1, <2>1, <2>2, <2>4, <4>1, <4>2 DEF Snapped, Present
    <3>4. Passes(c)' /\ Headed(c)'
      <4>1. Headed(c)
        BY DEF IInv, Serving
      <4> QED
        BY <1>1, <2>2, <2>4, <3>1, <4>1 DEF Passes, Headed
    <3> QED
      BY <3>2, <3>3, <3>4 DEF Carried
  <2> QED
    BY <1>1, <2>2, <2>3, <2>4, GoesOn
<1> QED
  BY <1>3, <1>4

---------------------------------------------------------------------------
(* The write of the record *)

Wrote(c) == /\ Present /\ drop' = Mutation(drop, call[c])[2]
            /\ Applied(drop, call[c], drop') /\ EventAnswer(c, 200)

(* The revision that was compared is that of the very record that was read. *)
LEMMA WritesWhatItRead ==
    ASSUME TypeOK, IInv, NEW c \in Slots, call[c].at = "cas", Present, SameRevision(c),
           drop' = Mutation(call[c].snap, call[c])[2], EventAnswer(c, 200)
    PROVE  Wrote(c)
<1>1. call[c].snap = drop /\ Mutation(call[c].snap, call[c])[2] # call[c].snap
  BY DEF IInv, Serving, Snapped, SameRevision
<1>2. \/ Refused(drop, call[c], Mutation(drop, call[c]))
      \/ Applied(drop, call[c], Mutation(drop, call[c])[2])
  BY MutateReads
<1>3. /\ Mutation(drop, call[c])[2] # drop /\ drop' = Mutation(drop, call[c])[2]
  BY <1>1
<1> QED
  BY <1>2, <1>3 DEF Refused, Wrote

LEMMA WroteKeeps ==
    ASSUME TypeOK, IInv, NEW c \in Slots, call[c].at = "cas", Wrote(c),
           UNCHANGED <<files, now, blobs, strays, escaped>>
    PROVE  TypeOK' /\ IInv'
<1> DEFINE k == call[c]
<1>1. /\ Present /\ Busy(c) /\ sender.pc # "create" /\ \A d \in Slots : Asks(d)
      /\ drop \in Marks(Parts) /\ drop.parts \in [Parts -> Nat]
      /\ drop.revision \in Nat /\ drop.delivered \in Nat
  BY BusyMeansCreated DEF Wrote, Busy, TypeOK, Marks
<1>2. /\ drop' \in Marks(Parts) /\ drop'.parts \in [Parts -> Nat]
      /\ drop'.revision = drop.revision + 1
      /\ drop.status = "ready" => drop'.status = "ready"
      /\ drop'.status # "none"
      /\ drop'.status = "ready" => /\ k.op # "commit"
                                   /\ drop.status = "ready" \/ Committed(drop) = Parts
      /\ \A p \in Parts :
            \/ drop'.parts[p] = drop.parts[p]
            \/ /\ k.op = "commit" /\ p \in k.parts /\ drop.parts[p] = 0
               /\ drop'.parts[p] = CipherSize(p)
      /\ k.op = "commit" => \A p \in k.parts : drop'.parts[p] # 0
      /\ k.op = "seal" => drop'.status = "ready"
      /\ drop'.delivered = IF k.op = "delivered" THEN drop.delivered + 1
                                                 ELSE drop.delivered
  BY <1>1 DEF Wrote, Applied, Present
<1>3. PICK status : /\ Answer(c, status)
                    /\ status = 200
  BY DEF Wrote, EventAnswer
<1>4. Answered(c, status)
  BY <1>1, <1>3, AnswerSteps
<1>5. /\ DeletionAsked => DeletionAsked'
      /\ \A d \in Slots : Asks(d)' /\ (call'[d] = call[d] \/ Began(d))
      /\ sender'.pc # "create"
  BY <1>4 DEF Answered, Phones
<1>6. TypeOK'
  <2>1. /\ blobs' \subseteq Parts /\ \A s \in strays' : s[1] \in Parts
    BY DEF TypeOK
  <2> QED
    BY <1>2, <1>4, <2>1, Typed DEF Answered, Phones, TypeOK
<1>7. Acked'
  <2>1. Earned(c, status)
    BY <1>1, <1>2 DEF Earned
  <2> QED
    BY <1>1, <1>2, <1>4, <2>1, Acknowledges DEF IInv
<1>8. \A d \in Slots : Serving(d)'
  <2>1. SUFFICES ASSUME NEW d \in Slots PROVE Serving(d)'
    OBVIOUS
  <2>2. CASE Began(d)
    <3>1. blobs' \subseteq Parts
      BY DEF TypeOK
    <3> QED
      BY <1>5, <2>2, <3>1, Begins DEF Serving
  <2>3. CASE call'[d] = call[d]
    <3>1. Snapped(d) /\ Passes(d) /\ Headed(d)
      BY DEF IInv, Serving
    <3>2. Snapped(d)'
      <4>1. Mutation(call[d].snap, call[d])' = Mutation(call[d].snap, call[d])
        BY <2>3, MutationStays
      <4>2. call[d].snap.revision \in Nat
        BY DEF TypeOK, Calls, Marks
      <4> QED
        BY <1>1, <1>2, <2>3, <3>1, <4>1, <4>2 DEF Snapped, Present
    <3>3. Passes(d)' /\ Headed(d)'
      BY <1>5, <2>3, <3>1 DEF Passes, Headed
    <3> QED
      BY <1>5, <3>2, <3>3 DEF Serving
  <2> QED
    BY <1>5, <2>2, <2>3
<1>9. \A p \in Parts : p \in Committed(drop') =>
         \/ p \in Committed(drop)
         \/ k.op = "commit" /\ p \in k.parts
  BY <1>1, <1>2 DEF Committed
<1>10. Whole'
  <2>1. \A p \in Parts : drop'.parts[p] \in {0, CipherSize(p)}
    BY <1>1, <1>2 DEF IInv, Whole
  <2>2. ASSUME drop'.status = "ready" PROVE Committed(drop') = Parts
    <3>1. Committed(drop) = Parts
      BY <1>1, <1>2, <2>2 DEF IInv, Whole
    <3>2. \A p \in Parts : drop'.parts[p] = drop.parts[p]
      BY <1>2, <2>2
    <3> QED
      BY <1>1, <1>2, <3>1, <3>2 DEF Committed
  <2> QED
    BY <2>1, <2>2, PartsStay DEF Whole, Committed
<1>11. Held'
  <2>1. Headed(c)
    BY DEF IInv, Serving
  <2>2. DeletionAsked \/ Committed(drop') \subseteq blobs
    BY <1>1, <1>2, <1>9, <2>1 DEF Headed, IInv, Held, Committed
  <2> QED
    BY <1>5, <2>2 DEF Held, Committed
<1>12. Early' /\ Gone'
  BY <1>2, <1>5 DEF Early, Gone, Present
<1> QED
  BY <1>6, <1>7, <1>8, <1>10, <1>11, <1>12 DEF IInv

LEMMA CompareAndSetKeeps ==
    ASSUME TypeOK, IInv, NEW c \in Slots, CompareAndSet(c)
    PROVE  TypeOK' /\ IInv'
<1>1. /\ call[c].at = "cas" /\ Busy(c) /\ call[c] \in Calls(Parts)
      /\ UNCHANGED <<files, now, blobs, strays, escaped>>
  BY DEF CompareAndSet, net, Busy, TypeOK
<1>2. CASE /\ Present /\ SameRevision(c) /\ EventAnswer(c, 200)
           /\ drop' = Mutation(call[c].snap, call[c])[2]
  BY <1>1, <1>2, WritesWhatItRead, WroteKeeps
<1>3. ASSUME NEW status \in {404, 409}, EventAnswer(c, status), UNCHANGED drop
      PROVE  TypeOK' /\ IInv'
  <2>1. Present /\ status = 200 =>
           /\ call[c].op = "commit" => \A p \in call[c].parts : drop.parts[p] # 0
           /\ call[c].op = "seal" => drop.status = "ready"
           /\ call[c].op # "delivered"
    BY <1>3
  <2> QED
    BY <1>1, <1>3, <2>1, EventAnswerKeeps
<1>4. CASE /\ UNCHANGED <<drop, sender, part, rx>>
           /\ call' = [call EXCEPT ![c].at = "mutate", ![c].snap = NoDrop,
                                   ![c].tries = @ + 1]
  <2> DEFINE e == [call[c] EXCEPT !.at = "mutate", !.snap = NoDrop, !.tries = @ + 1]
  <2>1. /\ e \in Calls(Parts) /\ e.op = call[c].op /\ e.at = "mutate"
        /\ e.parts = call[c].parts
    <3>1. e = [call[c] EXCEPT !.at = "mutate", !.snap = NoDrop, !.tries = @ + 1]
      OBVIOUS
    <3>2. PICK k \in Calls(Parts) : k = call[c]
      BY <1>1
    <3> HIDE DEF e
    <3> QED
      BY <3>1, <3>2, Retrying
  <2>2. call' = [call EXCEPT ![c] = e]
    BY <1>4 DEF TypeOK
  <2> HIDE DEF e
  <2>3. ASSUME Asks(c), call'[c] = e PROVE Asks(c)' /\ Carried(c)
    <3>1. DeletionAsked => DeletionAsked'
      BY <1>1, <1>4, <2>1, <2>2, Names DEF DeletionAsked, TypeOK
    <3>2. call[c].op \in MutationOps
      BY <1>1, <2>3 DEF Asks, MutationOps
    <3>3. Asks(c)'
      BY <1>1, <1>4, <2>1, <2>3, <3>1, <3>2, AsksOn
    <3>4. Snapped(c)' /\ Passes(c)' /\ Headed(c)'
      <4>1. Headed(c)
        BY DEF IInv, Serving
      <4> QED
        BY <1>1, <2>1, <2>3, <3>1, <4>1 DEF Snapped, Passes, Headed
    <3> QED
      BY <3>3, <3>4 DEF Carried
  <2> QED
    BY <1>1, <1>4, <2>1, <2>2, <2>3, GoesOn
<1> QED
  BY <1>2, <1>3, <1>4 DEF CompareAndSet

---------------------------------------------------------------------------
(* The deletion and the ciphertexts *)

LEMMA RemoveDropKeeps ==
    ASSUME TypeOK, IInv, NEW c \in Slots, RemoveDrop(c)
    PROVE  TypeOK' /\ IInv'
<1>1. /\ call[c].at = "delete" /\ call[c].left = PartCount + 1 /\ Busy(c)
      /\ drop' = NoDrop /\ Answer(c, 200)
      /\ UNCHANGED <<files, now, blobs, strays, escaped>>
  BY DEF RemoveDrop, net, Busy
<1>2. /\ sender.pc # "create" /\ \A d \in Slots : Asks(d)
  BY <1>1, BusyMeansCreated
<1>3. PICK status : Answer(c, status) /\ status = 200
  BY <1>1
<1>4. Answered(c, status)
  BY <1>1, <1>2, <1>3, AnswerSteps
<1>5. /\ drop' \in Marks(Parts) /\ drop'.status = "none"
  BY <1>1, Constants
<1>6. TypeOK'
  <2>1. /\ blobs' \subseteq Parts /\ \A s \in strays' : s[1] \in Parts
    BY <1>1 DEF TypeOK
  <2> QED
    BY <1>1, <1>4, <1>5, <2>1, Typed DEF Answered, Phones, TypeOK
<1>7. Acked'
  <2>1. Earned(c, status)
    BY <1>5 DEF Earned
  <2> QED
    BY <1>1, <1>2, <1>4, <1>5, <2>1, Acknowledges DEF IInv
<1>8. blobs \subseteq escaped
  <2>1. Passes(c) /\ blobs \subseteq Parts
    BY DEF IInv, Serving, TypeOK
  <2>2. \A p \in Parts : p < PartCount + 1
    BY PartsType DEF TypeOK
  <2> QED
    BY <1>1, <2>1, <2>2 DEF Passes
<1>9. \A d \in Slots : Serving(d)'
  <2>1. SUFFICES ASSUME NEW d \in Slots PROVE Serving(d)'
    OBVIOUS
  <2>2. /\ Asks(d)' /\ (call'[d] = call[d] \/ Began(d))
        /\ DeletionAsked => DeletionAsked'
    BY <1>4 DEF Answered
  <2>3. CASE Began(d)
    <3>1. blobs' \subseteq Parts
      BY <1>1 DEF TypeOK
    <3> QED
      BY <2>2, <2>3, <3>1, Begins DEF Serving
  <2>4. CASE call'[d] = call[d]
    <3>1. Snapped(d) /\ Passes(d) /\ Headed(d)
      BY DEF IInv, Serving
    <3>2. Snapped(d)'
      <4>1. Mutation(call[d].snap, call[d])' = Mutation(call[d].snap, call[d])
        BY <1>1, <2>4, MutationStays
      <4> QED
        BY <1>5, <2>4, <3>1, <4>1 DEF Snapped, Present
    <3>3. Passes(d)' /\ Headed(d)'
      BY <1>1, <2>2, <2>4, <3>1 DEF Passes, Headed
    <3> QED
      BY <2>2, <3>2, <3>3 DEF Serving
  <2> QED
    BY <2>2, <2>3, <2>4
<1>10. /\ Early' /\ Gone' /\ Whole' /\ Held'
  BY <1>1, <1>4, <1>5, <1>8 DEF Early, Gone, Whole, Held, Present, Answered, Phones
<1> QED
  BY <1>6, <1>7, <1>9, <1>10 DEF IInv

LEMMA DeletePartKeeps ==
    ASSUME TypeOK, IInv, NEW c \in Slots, DeletePart(c)
    PROVE  TypeOK' /\ IInv'
<1> DEFINE p == call[c].left
           e == [call[c] EXCEPT !.left = @ + 1]
<1>1. /\ call[c].at = "delete" /\ p \in Parts /\ Busy(c) /\ call[c] \in Calls(Parts)
      /\ UNCHANGED <<files, now, drop, strays>>
  BY DEF DeletePart, Busy, TypeOK
<1>2. /\ sender.pc # "create" /\ \A d \in Slots : Asks(d)
  BY <1>1, BusyMeansCreated
<1>3. call[c].op = "delete" /\ DeletionAsked
  BY <1>1, <1>2 DEF Asks
<1>4. /\ e \in Calls(Parts) /\ e.op = call[c].op /\ e.at = "delete"
      /\ e.parts = call[c].parts /\ e.left = p + 1
  <2>1. e = [call[c] EXCEPT !.left = @ + 1]
    OBVIOUS
  <2>2. PICK k \in Calls(Parts) : k = call[c]
    BY <1>1
  <2> HIDE DEF e
  <2> QED
    BY <1>1, <2>1, <2>2, Advancing
<1>5. \A q \in Parts : q < p + 1 => q < p \/ q = p
  BY <1>1, PartsType DEF TypeOK
<1>6. CASE /\ blobs' = blobs \ {p} /\ escaped' = escaped \ {p}
           /\ call' = [call EXCEPT ![c].left = @ + 1]
           /\ UNCHANGED <<faults, sender, part, rx>>
  <2>1. call' = [call EXCEPT ![c] = e]
    BY <1>6 DEF TypeOK
  <2> HIDE DEF e
  <2>2. /\ call' \in [Slots -> Calls(Parts)] /\ call'[c] = e
        /\ \A d \in Slots \ {c} : call'[d] = call[d]
    BY <1>4, <2>1 DEF TypeOK
  <2>3. DeletionAsked'
    BY <1>1, <1>3, <1>4, <1>6, <2>2, Names DEF DeletionAsked
  <2>4. Batch' = Batch
    BY <1>1, <1>6, PartsStay DEF Batch
  <2>5. TypeOK'
    BY <1>1, <1>6, <2>2, Typed DEF TypeOK, Present
  <2>6. ASSUME NEW d \in Slots PROVE Serving(d)'
    <3>1. Asks(d) /\ Snapped(d) /\ Passes(d) /\ Passes(c)
      BY DEF IInv, Serving
    <3>2. CASE d = c
      <4>1. Asks(c)'
        BY <1>1, <1>2, <1>3, <1>4, <1>6, <2>2, <2>3, AsksOn
      <4>2. Snapped(c)' /\ Headed(c)'
        BY <1>4, <2>2 DEF Snapped, Headed
      <4>3. Passes(c)'
        BY <1>1, <1>4, <1>5, <1>6, <2>2, <3>1 DEF Passes, TypeOK
      <4> QED
        BY <3>2, <4>1, <4>2, <4>3 DEF Serving
    <3>3. CASE d # c
      <4>1. call'[d] = call[d]
        BY <2>2, <3>3
      <4>2. Asks(d)'
        BY <1>1, <1>6, <2>3, <2>4, <3>1, <4>1 DEF Asks, Busy
      <4>3. Snapped(d)'
        BY <1>1, <3>1, <4>1, MutationStays DEF Snapped, Present
      <4>4. Passes(d)' /\ Headed(d)'
        BY <1>6, <2>3, <3>1, <4>1 DEF Passes, Headed
      <4> QED
        BY <4>2, <4>3, <4>4 DEF Serving
    <3> QED
      BY <3>2, <3>3
  <2>7. Early' /\ Gone' /\ Held'
    BY <1>1, <1>2, <1>6, <2>3 DEF Early, Gone, Held, Present, IInv
  <2>8. Whole'
    BY <1>1, PartsStay DEF Whole, Present, IInv, Committed
  <2>9. Acked'
    <3>1. Told' = Told /\ SameProgress
      BY <1>6 DEF Told, SameProgress
    <3> QED
      BY <1>1, <3>1, AckedStays DEF IInv
  <2> QED
    BY <2>5, <2>6, <2>7, <2>8, <2>9 DEF IInv
<1>7. CASE /\ call' = [call EXCEPT ![c].left = @ + 1]
           /\ escaped' = IF call[c].snap.parts[p] = 0
                         THEN escaped \cup ({p} \cap blobs) ELSE escaped
           /\ Forgiven(c, p)
           /\ UNCHANGED <<blobs, sender, part, rx>>
  <2>1. call' = [call EXCEPT ![c] = e]
    BY <1>7 DEF TypeOK
  <2> HIDE DEF e
  <2>2. escaped' = escaped \cup ({p} \cap blobs)
    BY <1>7 DEF Forgiven
  <2>3. ASSUME Asks(c), call'[c] = e PROVE Asks(c)' /\ Carried(c)
    <3>1. DeletionAsked'
      BY <1>1, <1>3, <1>4, <1>7, <2>1, Names DEF DeletionAsked, TypeOK
    <3>2. Asks(c)'
      BY <1>1, <1>3, <1>4, <1>7, <2>3, <3>1, AsksOn
    <3>3. Snapped(c)' /\ Headed(c)'
      BY <1>4, <2>3 DEF Snapped, Headed
    <3>4. Passes(c)'
      <4>1. Passes(c)
        BY DEF IInv, Serving
      <4> QED
        BY <1>1, <1>4, <1>5, <1>7, <2>2, <2>3, <4>1 DEF Passes, TypeOK
    <3> QED
      BY <3>2, <3>3, <3>4 DEF Carried
  <2> QED
    BY <1>1, <1>4, <1>7, <2>1, <2>2, <2>3, GoesOn
<1>8. CASE Answer(c, 503) /\ UNCHANGED <<blobs, escaped>>
  <2>1. PICK status : status = 503 /\ Answer(c, status)
    BY <1>8
  <2> QED
    BY <1>1, <1>3, <1>8, <2>1, AnswerKeeps
<1> QED
  BY <1>6, <1>7, <1>8 DEF DeletePart

LEMMA ArriveKeeps ==
    ASSUME TypeOK, IInv, NEW p \in Parts, Arrive(p), sender.pc # "create",
           UNCHANGED <<files, now, drop, sender, rx, call>>,
           \A s \in strays' : s[1] \in Parts
    PROVE  TypeOK' /\ IInv'
<1>1. /\ blobs' = blobs \cup {p} /\ escaped \subseteq escaped'
      /\ Passed(p) => p \in escaped'
  BY DEF Arrive
<1>2. DeletionAsked' = DeletionAsked /\ Batch' = Batch
  BY PartsStay DEF DeletionAsked, Batch
<1>3. TypeOK'
  BY <1>1, Typed DEF TypeOK, Present
<1>4. ASSUME NEW d \in Slots PROVE Serving(d)'
  <2>1. Asks(d) /\ Snapped(d) /\ Passes(d) /\ Headed(d)
    BY DEF IInv, Serving
  <2>2. Asks(d)'
    BY <1>2, <2>1 DEF Asks, Busy
  <2>3. Snapped(d)'
    BY <2>1, MutationStays DEF Snapped, Present
  <2>4. Passes(d)'
    <3>1. call[d].at = "delete" /\ p < call[d].left => Passed(p)
      <4>1. call[d].left \in Nat /\ p \in Nat
        BY PartsType DEF TypeOK, Calls
      <4> QED
        BY <4>1 DEF Passed
    <3> QED
      BY <1>1, <2>1, <3>1 DEF Passes
  <2>5. Headed(d)'
    BY <1>1, <1>2, <2>1 DEF Headed
  <2> QED
    BY <2>2, <2>3, <2>4, <2>5 DEF Serving
<1>5. Early' /\ Gone' /\ Held'
  BY <1>1, <1>2 DEF Early, Gone, Held, Present, Passed, IInv
<1>6. Whole'
  BY PartsStay DEF Whole, Present, IInv, Committed
<1>7. Acked'
  <2>1. Told' = Told /\ SameProgress
    BY DEF Told, SameProgress
  <2> QED
    BY <2>1, AckedStays DEF IInv
<1> QED
  BY <1>3, <1>4, <1>5, <1>6, <1>7 DEF IInv

LEMMA LandsKeep ==
    ASSUME TypeOK, IInv,
           (\E p \in Parts : Land(p)) \/ (\E s \in strays : LandStray(s))
    PROVE  TypeOK' /\ IInv'
<1>1. ASSUME NEW p \in Parts, Land(p) PROVE TypeOK' /\ IInv'
  <2>1. sender.pc # "create"
    BY <1>1 DEF Land, IInv, Early
  <2>2. Arrive(p) /\ UNCHANGED <<files, now, drop, strays, sender, rx, call>>
    BY <1>1 DEF Land
  <2> QED
    BY <2>1, <2>2, ArriveKeeps DEF TypeOK
<1>2. ASSUME NEW s \in strays, LandStray(s) PROVE TypeOK' /\ IInv'
  <2>1. sender.pc # "create" /\ s[1] \in Parts
    BY <1>2 DEF IInv, Early, TypeOK
  <2>2. PICK p \in Parts : p = s[1]
    BY <2>1
  <2>3. /\ Arrive(p) /\ UNCHANGED <<files, now, drop, sender, rx, call>>
        /\ strays' \subseteq strays
    BY <1>2, <2>2 DEF LandStray
  <2> QED
    BY <2>1, <2>3, ArriveKeeps DEF TypeOK
<1> QED
  BY <1>1, <1>2

---------------------------------------------------------------------------
(* The invariant holds *)

LEMMA CreateKeeps ==
    ASSUME TypeOK, IInv, Create
    PROVE  TypeOK' /\ IInv'
<1>1. /\ sender.pc = "create" /\ sender \in Senders
      /\ UNCHANGED <<files, now, blobs, strays, escaped, part, rx, call>>
      /\ drop' \in {NoDrop, NewDrop}
      /\ \/ sender' = [sender EXCEPT !.pc = "authorize", !.known = TRUE]
         \/ sender' = [sender EXCEPT !.pc = "over"]
  BY DEF Create, net, TypeOK
<1>2. /\ blobs = {} /\ strays = {} /\ sender.first = 1 /\ Told = {}
      /\ \A c \in Slots : call[c].at = "idle"
  BY <1>1 DEF IInv, Early, Told
<1>3. /\ sender' \in Senders /\ sender'.pc \in {"authorize", "over"}
      /\ sender'.first = 1
  BY <1>1, <1>2 DEF Senders
<1>4. /\ drop' \in Marks(Parts) /\ drop'.delivered \in Nat
      /\ drop'.status # "none" => /\ drop'.parts = [p \in Parts |-> 0]
                                  /\ drop'.status = "collecting"
  BY <1>1, Constants, NewDropType DEF TypeOK, Marks
<1>5. \A p \in Parts : ~ (p < 1)
  BY PartsType DEF TypeOK
<1>6. TypeOK'
  BY <1>1, <1>2, <1>3, <1>4, Typed DEF TypeOK
<1>7. \A c \in Slots : Serving(c)'
  BY <1>1, <1>2 DEF Serving, Asks, Busy, Snapped, Passes, Headed
<1>8. Early' /\ Gone'
  BY <1>1, <1>2, <1>3 DEF Early, Gone
<1>9. Whole' /\ Held'
  <2>1. ASSUME drop'.status # "none"
        PROVE  /\ \A p \in Parts : drop'.parts[p] = 0
               /\ drop'.status # "ready" /\ Committed(drop') = {}
    BY <1>4, <2>1 DEF Committed
  <2> QED
    BY <1>1, <2>1, PartsStay DEF Whole, Held, Present
<1>10. Acked'
  <2>1. Told' = {} /\ IsFiniteSet({}) /\ Cardinality({}) = 0
    BY <1>1, <1>2, FS_EmptySet DEF Told
  <2> QED
    BY <1>1, <1>3, <1>4, <1>5, <2>1, PartsStay DEF Acked
<1> QED
  BY <1>6, <1>7, <1>8, <1>9, <1>10 DEF IInv

LEMMA InitHolds ==
    ASSUME Init
    PROVE  TypeOK /\ IInv
<1>1. /\ files \in Selections /\ now = 0 /\ drop = NoDrop /\ blobs = {} /\ strays = {}
      /\ sender = [pc |-> "create", first |-> 1, tries |-> 0, stopped |-> FALSE,
                   known |-> FALSE]
      /\ part = [p \in Parts |-> Settled("none")]
      /\ rx \in [Receivers -> {"opened", "end"}]
      /\ call = [c \in Slots |-> Idle]
  BY DEF Init
<1>2. /\ drop \in Marks(Parts) /\ drop.status = "none" /\ Idle \in Calls(Parts)
      /\ \A c \in Slots : call[c].at = "idle"
  BY <1>1, Constants
<1>3. TypeOK
  BY <1>1, <1>2 DEF TypeOK, Present, Senders, Events
<1>4. Early
  BY <1>1, <1>2 DEF Early, Settled
<1>5. \A c \in Slots : Serving(c)
  BY <1>2 DEF Serving, Asks, Busy, Snapped, Passes, Headed
<1>6. Gone /\ Whole /\ Held
  BY <1>1, <1>2 DEF Gone, Whole, Held, Present
<1>7. Acked
  <2>1. Told = {}
    BY <1>1 DEF Told
  <2> QED
    BY <1>2, <2>1, FS_EmptySet DEF Acked, Present
<1> QED
  BY <1>3, <1>4, <1>5, <1>6, <1>7 DEF IInv

LEMMA NextKeeps ==
    ASSUME TypeOK, IInv, [Next]_vars
    PROVE  TypeOK' /\ IInv'
<1>1. CASE UNCHANGED vars
  <2>1. /\ UNCHANGED <<files, now, drop, blobs, strays, escaped, sender, part, rx, call>>
    BY <1>1 DEF vars, net
  <2>2. /\ Parts' = Parts /\ Batch' = Batch
    BY <2>1, PartsStay DEF Batch
  <2>3. DeletionAsked' = DeletionAsked /\ Told' = Told
    BY <2>1 DEF DeletionAsked, Told
  <2>4. TypeOK'
    BY <2>1, Typed DEF TypeOK, Present
  <2>5. ASSUME NEW d \in Slots PROVE Serving(d)'
    <3>1. Asks(d) /\ Snapped(d) /\ Passes(d) /\ Headed(d)
      BY DEF IInv, Serving
    <3>2. Asks(d)'
      BY <2>1, <2>2, <2>3, <3>1 DEF Asks, Busy
    <3>3. Snapped(d)'
      BY <2>1, <3>1, MutationStays DEF Snapped, Present
    <3>4. Passes(d)' /\ Headed(d)'
      BY <2>1, <2>3, <3>1 DEF Passes, Headed
    <3> QED
      BY <3>2, <3>3, <3>4 DEF Serving
  <2>6. Early' /\ Gone' /\ Held'
    BY <2>1, <2>2, <2>3 DEF Early, Gone, Held, Present, IInv, Committed
  <2>7. Whole' /\ Acked'
    BY <2>1, <2>3, AckedStays, PartsStay
       DEF Whole, Present, IInv, Committed, SameProgress
  <2> QED
    BY <2>4, <2>5, <2>6, <2>7 DEF IInv
<1>2. CASE Create
  BY <1>2, CreateKeeps
<1>3. CASE Ask
  BY <1>3, AskKeeps
<1>4. CASE AskAgain
  BY <1>4, AskAgainKeeps
<1>5. CASE PartsDone
  BY <1>5, PartsDoneKeeps
<1>6. CASE PutStep
  BY <1>6, PutsKeep, LandsKeep DEF PutStep
<1>7. CASE Give
  BY <1>7, StopKeeps, EraseKeeps DEF Give
<1>8. CASE \E s \in strays : LandStray(s)
  BY <1>8, LandsKeep
<1>9. ASSUME NEW c \in Slots, Serve(c) \/ DeletePart(c) \/ LoseRequest(c)
      PROVE  TypeOK' /\ IInv'
  BY <1>9, RouteKeeps, MutateKeeps, CompareAndSetKeeps, RemoveDropKeeps,
     DeletePartKeeps, LoseRequestKeeps DEF Serve
<1>10. CASE \E r \in Receivers : Receive(r)
  BY <1>10, ReceiveKeeps
<1>11. CASE Sweep
  BY <1>11, SweepKeeps
<1>12. CASE Tick
  BY <1>12, TickKeeps
<1> QED
  BY <1>1, <1>2, <1>3, <1>4, <1>5, <1>6, <1>7, <1>8, <1>9, <1>10, <1>11, <1>12 DEF Next

(* The invariant of a transfer: its types; nothing happens before it is    *)
(* created; whose request is served and what it has read, seen and passed; *)
(* where the ciphertexts are that a record names, or none does; and what   *)
(* every phone was told.  (server/drop-store, app/api/drops,               *)
(* lib/drop-transfer.ts)                                                   *)
THEOREM TransferInvariant == Spec => [](TypeOK /\ IInv)
<1>1. Init => TypeOK /\ IInv
  BY InitHolds
<1>2. TypeOK /\ IInv /\ [Next]_vars => (TypeOK /\ IInv)'
  BY NextKeeps
<1> QED
  BY <1>1, <1>2, PTL DEF Spec

---------------------------------------------------------------------------
(* What it means *)

(* A transfer that can be read is whole, for every selection of files,     *)
(* batch size, number of receivers and budget of faults: a sealed record   *)
(* has every part with its exact size, and every ciphertext is there until *)
(* a deletion was asked for.  (seal, applyPartCommits,                     *)
(* parts/complete/route.ts)                                                *)
THEOREM ReadyTransfersAreWhole == Spec => []ReadyIsWhole
<1>1. ASSUME TypeOK, IInv PROVE ReadyIsWhole
  <2>1. SUFFICES ASSUME drop.status = "ready"
                 PROVE  /\ drop.parts = [p \in Parts |-> CipherSize(p)]
                        /\ blobs = Parts \/ DeletionAsked
    BY DEF ReadyIsWhole
  <2>2. /\ Present /\ drop.parts \in [Parts -> Nat] /\ Committed(drop) = Parts
        /\ \A p \in Parts : drop.parts[p] \in {0, CipherSize(p)}
    BY <1>1, <2>1 DEF TypeOK, IInv, Whole, Present
  <2>3. \A p \in Parts : drop.parts[p] = CipherSize(p)
    BY <2>2 DEF Committed
  <2>4. drop.parts = [p \in Parts |-> CipherSize(p)]
    BY <2>2, <2>3
  <2>5. blobs = Parts \/ DeletionAsked
    BY <1>1, <2>2 DEF IInv, Held, TypeOK
  <2> QED
    BY <2>4, <2>5
<1> QED
  BY <1>1, TransferInvariant, PTL

(* The ceiling of the service is exactly what a transfer needs, for every  *)
(* selection, chunk and tag size and in whichever order the commits come:  *)
(* none is refused as too large, and a transfer that is ready has used the *)
(* ceiling up.  (applyPartCommits, ciphertextCeiling, buildPlan)           *)
THEOREM NothingIsTooLarge == Spec => []CeilingIsExact
<1>1. ASSUME TypeOK, IInv PROVE CeilingIsExact
  <2>1. SUFFICES ASSUME Present
                 PROVE  /\ \A ps \in SUBSET Parts : ApplyPartCommits(drop, ps)[1] # 413
                        /\ drop.status = "ready" => SumOf(drop.parts) = Ceiling
    BY DEF CeilingIsExact
  <2> DEFINE plan == Plan(files)
  <2>2. /\ files \in Selections /\ files \in Seq(Nat) /\ Plans[files] = plan /\ Tag \in Nat
    BY <1>1, DropAssumption DEF TypeOK, Plans
  <2>3. /\ plan \in Seq(Nat) /\ Len(plan) = PartCount /\ Parts = 1..PartCount
        /\ PartCount \in Nat
        /\ \A p \in Parts : CipherSize(p) = plan[p] + Tag /\ plan[p] \in Nat
    <3>1. plan \in Seq(Nat) /\ Len(plan) \in Nat
      BY <2>2, PlanLength
    <3>2. \A p \in 1..Len(plan) : plan[p] \in Nat
      BY <3>1, ElementOfSeq
    <3> HIDE DEF plan
    <3> QED
      BY <2>2, <3>1, <3>2 DEF PartCount, Parts, CipherSize
  <2>4. Ceiling = SumOf(plan) + PartCount * Tag
    BY <2>2, PlansCoverFiles DEF Ceiling
  <2> HIDE DEF plan
  <2>5. /\ drop.parts \in [Parts -> Nat]
        /\ \A p \in Parts : drop.parts[p] \in {0, CipherSize(p)}
        /\ drop.status = "ready" => Committed(drop) = Parts
    BY <1>1, <2>1 DEF TypeOK, IInv, Whole
  <2>6. ASSUME NEW parts \in [Parts -> Nat],
               \A p \in Parts : parts[p] \in {0, CipherSize(p)}
        PROVE  /\ SumOf(parts) \in Nat /\ Ceiling \in Nat /\ SumOf(parts) <= Ceiling
               /\ (\A p \in Parts : parts[p] # 0) => SumOf(parts) = Ceiling
    <3>1. parts \in Seq(Nat) /\ Len(parts) = Len(plan)
      BY <2>3
    <3>2. ASSUME NEW p \in 1..Len(plan) PROVE parts[p] <= plan[p] + Tag
      <4>1. /\ p \in Parts /\ plan[p] \in Nat /\ CipherSize(p) = plan[p] + Tag
            /\ parts[p] = 0 \/ parts[p] = CipherSize(p)
        BY <2>3, <2>6
      <4> QED
        BY <2>2, <4>1
    <3>3. (\A p \in Parts : parts[p] # 0) => \A p \in 1..Len(plan) : parts[p] = plan[p] + Tag
      BY <2>3, <2>6
    <3>4. Ceiling \in Nat
      <4>1. SumOf(plan) \in Nat
        BY <2>3, SumTagged
      <4>2. PartCount * Tag \in Nat
        BY <2>2, <2>3, Products
      <4> QED
        BY <2>4, <4>1, <4>2
    <3>5. /\ SumOf(parts) <= SumOf(plan) + PartCount * Tag /\ SumOf(parts) \in Nat
          /\ (\A p \in 1..Len(plan) : parts[p] = plan[p] + Tag) =>
                SumOf(parts) = SumOf(plan) + PartCount * Tag
      <4>1. plan \in Seq(Nat) /\ Tag \in Nat /\ Len(plan) = PartCount
        BY <2>2, <2>3
      <4>2. /\ SumOf(parts) <= SumOf(plan) + Len(plan) * Tag /\ SumOf(parts) \in Nat
            /\ (\A p \in 1..Len(plan) : parts[p] = plan[p] + Tag) =>
                  SumOf(parts) = SumOf(plan) + Len(plan) * Tag
        BY <3>1, <3>2, <4>1, SumTagged
      <4> QED
        BY <4>1, <4>2
    <3> QED
      BY <2>4, <3>3, <3>4, <3>5
  <2>7. ASSUME NEW ps \in SUBSET Parts PROVE ApplyPartCommits(drop, ps)[1] # 413
    <3> DEFINE fresh == {p \in ps : drop.parts[p] = 0}
               parts == [p \in Parts |-> IF p \in fresh THEN CipherSize(p)
                                                        ELSE drop.parts[p]]
    <3>1. ASSUME NEW p \in Parts PROVE parts[p] \in Nat /\ parts[p] \in {0, CipherSize(p)}
      <4>1. CipherSize(p) = plan[p] + Tag /\ plan[p] \in Nat
        BY <2>3
      <4>2. CipherSize(p) \in Nat
        BY <2>2, <4>1
      <4>3. drop.parts[p] \in Nat /\ drop.parts[p] \in {0, CipherSize(p)}
        <5> HIDE DEF fresh, parts
        <5> QED
          BY <2>5
      <4>4. parts[p] = CipherSize(p) \/ parts[p] = drop.parts[p]
        OBVIOUS
      <4> HIDE DEF fresh, parts
      <4> QED
        BY <4>2, <4>3, <4>4
    <3>2. ~ (SumOf(parts) > Ceiling)
      <4>0. parts \in [Parts -> Nat]
        BY <3>1
      <4> HIDE DEF parts
      <4>1. SumOf(parts) \in Nat /\ Ceiling \in Nat /\ SumOf(parts) <= Ceiling
        BY <2>6, <3>1, <4>0
      <4> QED
        BY <4>1
    <3> QED
      BY <3>2 DEF ApplyPartCommits
  <2>8. ASSUME drop.status = "ready" PROVE SumOf(drop.parts) = Ceiling
    <3>1. \A p \in Parts : drop.parts[p] # 0
      BY <2>5, <2>8 DEF Committed
    <3> QED
      BY <2>5, <2>6, <3>1
  <2> QED
    BY <2>7, <2>8
<1> QED
  BY <1>1, TransferInvariant, PTL

(* What a phone was told stays so while the record exists, whichever       *)
(* requests overlapped.  (mutate, CAS_SCRIPT)                              *)
THEOREM WhatWasToldStays == Spec => []AcknowledgedStays
<1>1. ASSUME TypeOK, IInv PROVE AcknowledgedStays
  <2>1. SUFFICES ASSUME Present
                 PROVE  /\ 1..Smaller(sender.first - 1, PartCount) \subseteq Committed(drop)
                        /\ sender.pc = "done" => drop.status = "ready"
                        /\ drop.delivered >= Cardinality(Told)
    BY DEF AcknowledgedStays, Told
  <2>2. /\ \A p \in Parts : p < sender.first => drop.parts[p] # 0
        /\ sender.pc = "done" => drop.status = "ready"
        /\ Cardinality(Told) <= drop.delivered /\ IsFiniteSet(Told)
    BY <1>1, <2>1 DEF IInv, Acked
  <2>3. drop.delivered >= Cardinality(Told)
    <3>1. Cardinality(Told) \in Nat /\ drop.delivered \in Nat
      BY <1>1, <2>2, FS_CardinalityType DEF TypeOK, Marks
    <3> QED
      BY <2>2, <3>1
  <2>4. ASSUME NEW p \in 1..Smaller(sender.first - 1, PartCount)
        PROVE  p \in Committed(drop)
    <3>1. /\ PartCount \in Nat /\ Parts = 1..PartCount /\ sender.first \in Nat
      BY <1>1, PartsType DEF TypeOK, Senders
    <3>2. p \in Parts /\ p < sender.first
      BY <3>1 DEF Smaller
    <3>3. drop.parts \in [Parts -> Nat]
      BY <1>1, <2>1 DEF TypeOK
    <3> QED
      BY <2>2, <3>2, <3>3 DEF Committed
  <2> QED
    BY <2>2, <2>3, <2>4
<1> QED
  BY <1>1, TransferInvariant, PTL

(* Every ciphertext without a record is one that no deletion has seen.     *)
(* (deleteDrop)                                                            *)
THEOREM OnlyStraysEscape == Spec => []StrayEscaped
<1>1. TypeOK /\ IInv => StrayEscaped
  BY DEF IInv, Gone, StrayEscaped
<1> QED
  BY <1>1, TransferInvariant, PTL

(* A step of a transfer never brings a removed record back, takes a ready  *)
(* one back or forgets a committed part, by whichever request it was.      *)
(* (CAS_SCRIPT, mutate)                                                    *)
THEOREM TransfersNeverGoBack == Spec => NeverBack
<1> DEFINE Back ==
       /\ sender.pc # "create" /\ ~Present => drop'.status = "none"
       /\ Present /\ drop'.status # "none" =>
             /\ drop.status = "ready" => drop'.status = "ready"
             /\ Committed(drop) \subseteq Committed(drop')
<1>1. ASSUME TypeOK, IInv, [Next]_vars PROVE [Back]_vars
  <2>1. CASE UNCHANGED drop
    BY <2>1 DEF Present
  <2>2. CASE Create
    BY <1>1, <2>2 DEF Create, IInv, Early, Present, NoDrop
  <2>3. ASSUME NEW c \in Slots, RemoveDrop(c) PROVE Back
    BY <2>3, Constants DEF RemoveDrop
  <2>4. ASSUME NEW c \in Slots, CompareAndSet(c), drop' # drop PROVE Back
    <3>1. Wrote(c)
      BY <1>1, <2>4, WritesWhatItRead DEF CompareAndSet
    <3>2. /\ Present /\ drop.parts \in [Parts -> Nat] /\ drop'.parts \in [Parts -> Nat]
          /\ drop.status = "ready" => drop'.status = "ready"
          /\ \A p \in Parts : drop.parts[p] # 0 => drop'.parts[p] # 0
      BY <1>1, <3>1 DEF Wrote, Applied, TypeOK
    <3> QED
      BY <3>2 DEF Committed
  <2>5. \/ UNCHANGED drop \/ Create
        \/ \E c \in Slots : RemoveDrop(c) \/ CompareAndSet(c)
    BY <1>1 DEF Next, vars, Ask, AskAgain, PartsDone, PutStep, StartPut, Land, PutFails,
       Unreadable, Give, Stop, Erase, LandStray, Serve, Route, Mutate, DeletePart,
       LoseRequest, Receive, Sweep, Tick
  <2> QED
    BY <2>1, <2>2, <2>3, <2>4, <2>5
<1>2. TypeOK /\ IInv /\ [Next]_vars => [Back]_vars
  BY <1>1
<1> HIDE DEF Back
<1>3. Spec => [][Back]_vars
  BY <1>2, TransferInvariant, PTL DEF Spec
<1> QED
  BY <1>3 DEF NeverBack, Back

---------------------------------------------------------------------------
(* The service that the pages expect *)

(* The receiver events that a mutation leaves alone, and the one it counts. *)
SameCounts(d, e) ==
    /\ e.opened = d.opened
    /\ e.downloading = d.downloading
    /\ e.delivered = d.delivered

Counted(d, e) ==
    \/ /\ e.opened = d.opened + 1
       /\ e.downloading = d.downloading /\ e.delivered = d.delivered
    \/ /\ e.downloading = d.downloading + 1
       /\ e.opened = d.opened /\ e.delivered = d.delivered
    \/ /\ e.delivered = d.delivered + 1
       /\ e.opened = d.opened /\ e.downloading = d.downloading

(* A mutation that writes commits parts, seals or counts one event. *)
Moved(d, e) ==
    \/ d.status = "collecting" /\ e.status \in {"collecting", "ready"} /\ SameCounts(d, e)
    \/ d.status = "ready" /\ e.status = "ready" /\ Counted(d, e)

LEMMA MutationMoves ==
    ASSUME NEW d \in Marks(Parts), d.status # "none", NEW k, k.op \in MutationOps,
           Mutation(d, k)[2] # d
    PROVE  Moved(d, Mutation(d, k)[2])
<1> DEFINE e == Mutation(d, k)[2]
<1>1. CASE k.op = "commit"
  <2>1. PICK parts : e = [d EXCEPT !.parts = parts, !.revision = @ + 1]
                     /\ d.status = "collecting"
    BY <1>1 DEF Mutation, Events, ApplyPartCommits
  <2> HIDE DEF e
  <2>2. e.status = d.status /\ SameCounts(d, e)
    BY <2>1 DEF Marks, SameCounts
  <2> QED
    BY <2>1, <2>2 DEF Moved, e
<1>2. CASE k.op = "seal"
  <2>1. e = [d EXCEPT !.status = "ready", !.revision = @ + 1] /\ d.status # "ready"
    BY <1>2 DEF Mutation, Events, ApplySeal
  <2> HIDE DEF e
  <2>2. e.status = "ready" /\ SameCounts(d, e) /\ d.status = "collecting"
    BY <2>1 DEF Marks, SameCounts
  <2> QED
    BY <2>2 DEF Moved, e
<1>3. CASE k.op \in Events
  <2>1. e = [d EXCEPT ![k.op] = @ + 1, !.revision = @ + 1] /\ d.status = "ready"
    BY <1>3 DEF Mutation, Events, ApplyReceiverEvent
  <2> HIDE DEF e
  <2>2. e.status = "ready" /\ Counted(d, e)
    <3>1. CASE k.op = "opened"
      BY <2>1, <3>1 DEF Marks, Counted
    <3>2. CASE k.op = "downloading"
      BY <2>1, <3>2 DEF Marks, Counted
    <3>3. CASE k.op = "delivered"
      BY <2>1, <3>3 DEF Marks, Counted
    <3> QED
      BY <1>3, <3>1, <3>2, <3>3 DEF Events
  <2> QED
    BY <2>1, <2>2 DEF Moved, e
<1> QED
  BY <1>1, <1>2, <1>3 DEF MutationOps

(* What any step does to the record: nothing, its creation, its removal or *)
(* one mutation of it.  Nothing leads back to before the creation.         *)
LEMMA RecordMoves ==
    ASSUME TypeOK, IInv, [Next]_vars
    PROVE  \/ UNCHANGED drop
           \/ sender.pc = "create" /\ ~Present /\ drop' = NewDrop
           \/ drop' = NoDrop
           \/ Present /\ Moved(drop, drop')
<1>1. CASE UNCHANGED drop
  BY <1>1
<1>2. CASE Create
  BY <1>2 DEF Create, IInv, Early, Present, NoDrop
<1>3. ASSUME NEW c \in Slots, RemoveDrop(c) PROVE drop' = NoDrop
  BY <1>3 DEF RemoveDrop
<1>4. ASSUME NEW c \in Slots, CompareAndSet(c), drop' # drop
      PROVE  Present /\ Moved(drop, drop')
  <2>1. call[c].at = "cas" /\ Wrote(c)
    BY <1>4, WritesWhatItRead DEF CompareAndSet
  <2>2. Present /\ drop' = Mutation(drop, call[c])[2] /\ call[c].op \in MutationOps
    BY <2>1, MutateReads DEF Wrote
  <2>3. drop \in Marks(Parts)
    BY DEF TypeOK
  <2> QED
    BY <1>4, <2>2, <2>3, MutationMoves DEF Present
<1>5. \/ UNCHANGED drop \/ Create
      \/ \E c \in Slots : RemoveDrop(c) \/ CompareAndSet(c)
  BY DEF Next, vars, Ask, AskAgain, PartsDone, PutStep, StartPut, Land, PutFails,
     Unreadable, Give, Stop, Erase, LandStray, Serve, Route, Mutate, DeletePart,
     LoseRequest, Receive, Sweep, Tick
<1> QED
  BY <1>1, <1>2, <1>3, <1>4, <1>5

LEMMA NeverCreatedAgain ==
    ASSUME TypeOK, IInv, [Next]_vars, sender'.pc = "create"
    PROVE  sender.pc = "create" /\ UNCHANGED drop
<1>1. sender.pc = "create"
  <2>1. ASSUME NEW c \in Slots, Busy(c), NEW status, Answer(c, status),
               UNCHANGED <<files, now>>
        PROVE  FALSE
    <3>1. sender.pc # "create" /\ \A d \in Slots : Asks(d)
      BY <2>1, BusyMeansCreated
    <3> QED
      BY <2>1, <3>1, AnswerSteps DEF Answered, Phones
  <2>2. ASSUME Fail PROVE FALSE
    BY <2>2 DEF Fail, TypeOK, Senders
  <2>3. CASE UNCHANGED sender
    BY <2>3
  <2>4. CASE Create
    BY <2>4 DEF Create
  <2>5. CASE Ask \/ PutStep
    BY <2>2, <2>3, <2>5 DEF Ask, PutStep, StartPut, Land, PutFails, Unreadable
  <2>6. CASE AskAgain
    BY <2>2, <2>3, <2>6 DEF AskAgain, TypeOK, Senders
  <2>7. CASE PartsDone
    BY <2>7 DEF PartsDone, TypeOK, Senders
  <2>8. CASE Give
    BY <2>8 DEF Give, Stop, Erase, TypeOK, Senders
  <2>9. ASSUME NEW c \in Slots, Serve(c) \/ DeletePart(c) \/ LoseRequest(c)
        PROVE  sender.pc = "create"
    <3>1. UNCHANGED sender \/ (Busy(c) /\ \E status : Answer(c, status))
      BY <2>9 DEF Serve, Route, Mutate, CompareAndSet, RemoveDrop, DeletePart,
         LoseRequest, EventAnswer, Busy
    <3>2. UNCHANGED <<files, now>>
      BY <2>9 DEF Serve, Route, Mutate, CompareAndSet, RemoveDrop, DeletePart,
         LoseRequest
    <3> QED
      BY <2>1, <3>1, <3>2
  <2>10. \/ UNCHANGED sender \/ Create \/ Ask \/ PutStep \/ AskAgain \/ PartsDone \/ Give
         \/ \E c \in Slots : Serve(c) \/ DeletePart(c) \/ LoseRequest(c)
    BY DEF Next, vars, LandStray, Receive, Sweep, Tick
  <2> QED
    BY <2>3, <2>4, <2>5, <2>6, <2>7, <2>8, <2>9, <2>10
<1>2. Early /\ Early'
  BY NextKeeps DEF IInv
<1> QED
  BY <1>1, <1>2 DEF Early

---------------------------------------------------------------------------
(* What the histories say of the record. *)
Remembered ==
    /\ life \in {"none", "collecting", "ready", "gone"}
    /\ told \in {"waiting", "opened", "downloading", "delivered"}
    /\ Present => life = drop.status /\ told = Furthest(drop)
    /\ ~Present => life \in {"none", "gone"}
    /\ life = "none" => told = "waiting"
    /\ sender.pc = "create" => life = "none"

(* The furthest event stays, or a further one takes its place. *)
LEMMA CountsMove ==
    ASSUME NEW d, NEW e,
           d.opened \in Nat, d.downloading \in Nat, d.delivered \in Nat
    PROVE  /\ SameCounts(d, e) => Furthest(e) = Furthest(d)
           /\ Counted(d, e) =>
                 \/ Furthest(e) = Furthest(d)
                 \/ /\ Furthest(e) \in Events
                    /\ Service!Rank[Furthest(e)] > Service!Rank[Furthest(d)]
<1>1. /\ Service!Rank["waiting"] = 0 /\ Service!Rank["opened"] = 1
      /\ Service!Rank["downloading"] = 2 /\ Service!Rank["delivered"] = 3
  BY DEF Service!Rank
<1>2. ASSUME SameCounts(d, e) PROVE Furthest(e) = Furthest(d)
  BY <1>2 DEF SameCounts, Furthest
<1>3. ASSUME Counted(d, e)
      PROVE  \/ Furthest(e) = Furthest(d)
             \/ /\ Furthest(e) \in Events
                /\ Service!Rank[Furthest(e)] > Service!Rank[Furthest(d)]
  BY <1>1, <1>3 DEF Counted, Furthest, Events
<1> QED
  BY <1>2, <1>3

LEMMA RememberedStarts ==
    ASSUME LifeInit
    PROVE  Remembered
BY DEF LifeInit, Init, Remembered, Present, NoDrop

LEMMA RememberedKeeps ==
    ASSUME TypeOK, IInv, Remembered, [Next /\ Remember]_lifeVars
    PROVE  Remembered'
<1>1. [Next]_vars
  BY DEF lifeVars
<1>2. sender'.pc = "create" => sender.pc = "create" /\ UNCHANGED drop
  BY <1>1, NeverCreatedAgain
<1>3. drop' \in Marks(Parts)'
  BY <1>1, NextKeeps DEF TypeOK
<1>4. CASE UNCHANGED lifeVars
  BY <1>4 DEF lifeVars, vars, Remembered, Present, Furthest
<1>5. CASE Remember
  <2>1. CASE drop'.status # "none"
    <3>1. life' = drop'.status /\ told' = Furthest(drop')
      BY <1>5, <2>1 DEF Remember
    <3>2. /\ drop'.status \in {"none", "collecting", "ready"}
          /\ Furthest(drop') \in {"waiting", "opened", "downloading", "delivered"}
      BY <1>3 DEF Marks, Furthest
    <3>3. sender'.pc # "create"
      BY <1>2, <2>1 DEF IInv, Early, NoDrop
    <3> QED
      BY <2>1, <3>1, <3>2, <3>3 DEF Remembered, Present, Furthest
  <2>2. CASE drop'.status = "none"
    BY <1>2, <1>5, <2>2 DEF Remember, Remembered, Present
  <2> QED
    BY <2>1, <2>2
<1> QED
  BY <1>4, <1>5

LEMMA StepsOfTheService ==
    ASSUME TypeOK, IInv, Remembered, [Next /\ Remember]_lifeVars
    PROVE  [Service!ServiceNext]_(Service!service)
<1> DEFINE svc == [t \in 1..1 |-> life]
           seen == [t \in 1..1 |-> told]
<1>1. CASE UNCHANGED <<life, told>>
  BY <1>1 DEF Service!service
<1>2. CASE Remember /\ [Next]_vars
  <2>1. \/ UNCHANGED drop
        \/ sender.pc = "create" /\ ~Present /\ drop' = NewDrop
        \/ drop' = NoDrop
        \/ Present /\ Moved(drop, drop')
    BY <1>2, RecordMoves
  <2>2. CASE UNCHANGED drop
    BY <1>1, <1>2, <2>2 DEF Remember, Remembered, Present
  <2>3. CASE sender.pc = "create" /\ ~Present /\ drop' = NewDrop
    <3>1. life = "none" /\ told = "waiting"
      BY <2>3 DEF Remembered
    <3>2. drop'.status = "collecting" /\ Furthest(drop') = "waiting"
      BY <2>3 DEF NewDrop, NoDrop, Furthest
    <3>3. life' = "collecting" /\ told' = "waiting"
      BY <1>2, <3>2 DEF Remember
    <3>4. Service!Sends(1)
      BY <3>1, <3>3 DEF Service!Sends
    <3> QED
      BY <3>4 DEF Service!ServiceNext, Service!Transfers
  <2>4. CASE drop' = NoDrop
    <3>1. drop'.status = "none" /\ told' = told
      BY <1>2, <2>4, Constants DEF Remember
    <3>2. CASE Present
      <4>1. life \in {"collecting", "ready"} /\ life' = "gone"
        BY <1>2, <3>1, <3>2 DEF Remember, Remembered, Present, TypeOK, Marks
      <4>2. Service!Closes(1)
        BY <3>1, <4>1 DEF Service!Closes
      <4> QED
        BY <4>2 DEF Service!ServiceNext, Service!Transfers
    <3>3. CASE ~Present
      BY <1>1, <1>2, <3>1, <3>3 DEF Remember
    <3> QED
      BY <3>2, <3>3
  <2>5. CASE Present /\ Moved(drop, drop')
    <3>1. /\ life = drop.status /\ told = Furthest(drop)
          /\ life' = drop'.status /\ told' = Furthest(drop')
      BY <1>2, <2>5 DEF Remember, Remembered, Moved
    <3>2. drop.opened \in Nat /\ drop.downloading \in Nat /\ drop.delivered \in Nat
      BY DEF TypeOK, Marks
    <3>3. CASE drop.status = "collecting" /\ SameCounts(drop, drop')
      <4>1. told' = told
        BY <3>1, <3>2, <3>3, CountsMove
      <4>2. drop'.status \in {"collecting", "ready"}
        BY <2>5, <3>3 DEF Moved
      <4>3. CASE drop'.status = "ready"
        <5>1. Service!Sends(1)
          BY <3>1, <3>3, <4>1, <4>3 DEF Service!Sends
        <5> QED
          BY <5>1 DEF Service!ServiceNext, Service!Transfers
      <4> QED
        BY <1>1, <3>1, <3>3, <4>1, <4>2, <4>3
    <3>4. CASE drop.status = "ready" /\ drop'.status = "ready" /\ Counted(drop, drop')
      <4>1. life = "ready" /\ life' = "ready"
        BY <3>1, <3>4
      <4>2. \/ told' = told
            \/ told' \in Events /\ Service!Rank[told'] > Service!Rank[told]
        BY <3>1, <3>2, <3>4, CountsMove
      <4>3. CASE told' \in Events /\ Service!Rank[told'] > Service!Rank[told]
        <5>1. seen[1] = told /\ seen' = [seen EXCEPT ![1] = told']
          OBVIOUS
        <5>2. seen' = [seen EXCEPT ![1] = IF Service!Rank[told'] > Service!Rank[@]
                                          THEN told' ELSE @]
          BY <4>3, <5>1
        <5>3. /\ svc[1] = "ready" /\ UNCHANGED svc
              /\ told' \in {"opened", "downloading", "delivered"}
              /\ Service!Rank[told'] > Service!Rank[seen[1]]
          BY <4>1, <4>3, <5>1 DEF Events
        <5>4. Service!PicksUp(1)
          BY <5>2, <5>3 DEF Service!PicksUp, Service!Count
        <5> QED
          BY <5>4 DEF Service!ServiceNext, Service!Transfers
      <4> QED
        BY <1>1, <4>1, <4>2, <4>3
    <3> QED
      BY <2>5, <3>3, <3>4 DEF Moved
  <2> QED
    BY <2>1, <2>2, <2>3, <2>4, <2>5
<1> QED
  BY <1>1, <1>2 DEF lifeVars

(* The transfer, with its routes, retries, compare-and-set and sweep, is   *)
(* the service that DropService gives the two pages: it goes from          *)
(* collecting to ready to gone and never back, and the furthest event it   *)
(* has counted only moves forward, and only while it is ready.             *)
(* (server/drop-store, app/api/drops, dropReceiverState)                   *)
THEOREM TransferIsTheService == LifeSpec => FollowsService
<1>1. LifeInit => Service!ServiceInit
  BY DEF LifeInit, Service!ServiceInit, Service!Transfers
<1>2. LifeSpec => Spec
  <2>1. LifeInit => Init
    BY DEF LifeInit
  <2>2. [Next /\ Remember]_lifeVars => [Next]_vars
    BY DEF lifeVars
  <2> QED
    BY <2>1, <2>2, PTL DEF LifeSpec, Spec
<1>3. LifeSpec => []Remembered
  <2>1. LifeInit => Remembered
    BY RememberedStarts
  <2>2. TypeOK /\ IInv /\ Remembered /\ [Next /\ Remember]_lifeVars => Remembered'
    BY RememberedKeeps
  <2> QED
    BY <1>2, <2>1, <2>2, TransferInvariant, PTL DEF LifeSpec
<1>4. TypeOK /\ IInv /\ Remembered /\ [Next /\ Remember]_lifeVars
         => [Service!ServiceNext]_(Service!service)
  BY StepsOfTheService
<1> QED
  BY <1>1, <1>2, <1>3, <1>4, TransferInvariant, PTL
     DEF LifeSpec, FollowsService, Service!ServiceSpec
=============================================================================
